------------------------------ MODULE PalClient ------------------------------
(***************************************************************************)
(* The connection life cycle of an oxyale client (palclient.c on the       *)
(* callback layer of oxlcom.c): one OXLPalClient, the libuv handles it     *)
(* opens, the keep-alive timer, and the writes whose callbacks are still   *)
(* due.  libuv runs every callback on one thread, so each callback is one  *)
(* action; the interleaving is the order in which the loop delivers        *)
(* completions and the application makes its calls.                        *)
(*                                                                         *)
(* Abstracted: the content of messages (only "is it the logon" matters),   *)
(* the addresses, and what is read in CONNECTED or DISCONNECTED and leaves *)
(* the connection alone.  Assumed: the ping interval is not 0, and the     *)
(* application set every event pointer (OXLInitPalClient__ leaves some     *)
(* unset), if at all to a function that only makes the calls below.        *)
(***************************************************************************)
EXTENDS Naturals, Sequences, FiniteSets

CONSTANTS
    Sockets,        \* the uv_tcp_t handles the process may allocate
    NoSocket,       \* client->socket before any connection was opened
    MaxResolves,    \* bound: getaddrinfo requests in flight at once
    MaxWrites       \* bound: writes of one handle whose callback is due

ASSUME SocketsAssumption == IsFiniteSet(Sockets) /\ NoSocket \notin Sockets
ASSUME BoundsAssumption == MaxResolves \in Nat \ {0} /\ MaxWrites \in Nat \ {0}

VARIABLES
    state,      \* client->state
    socket,     \* client->socket
    timer,      \* client->txTimer, as libuv sees it
    resolving,  \* getaddrinfo requests whose callback is due
    handle,     \* what libuv knows of each uv_tcp_t
    wq,         \* the writes of each handle whose callback is due, in order
    greeting,   \* history: what the handshake read on each handle, a known greeting first
    logged,     \* history: handles on which a logon was written
    fault       \* the undefined behaviour or assertion that ended the process

vars == <<state, socket, timer, resolving, handle, wq, greeting, logged, fault>>

States == {"DISCONNECTED", "HANDSHAKING", "CONNECTED"}

(* "lost": uv_tcp_connect refused the request, nothing will ever call back. *)
(* "failed": closing after a failed connect.  "eof": uv stopped reading     *)
(* after an error, yet the handle was not the one that was closed.          *)
Handles == {"unused", "connecting", "lost", "failed", "open", "eof", "closing"}

Writable(s) == handle[s] \in {"open", "eof"}

(* Handles other than client->socket that once carried the connection.  The *)
(* client keeps no pointer to them; they keep a pointer to the client.      *)
Orphans == {s \in Sockets \ {socket} : handle[s] \in {"open", "eof", "closing"}}

Running == fault = "none"

-----------------------------------------------------------------------------
(* Initially: OXLCreatePalClient on a fresh loop.                           *)

Init ==
    /\ state = "DISCONNECTED"
    /\ socket = NoSocket
    /\ timer = "unstarted"
    /\ resolving = 0
    /\ handle = [s \in Sockets |-> "unused"]
    /\ wq = [s \in Sockets |-> <<>>]
    /\ greeting = [s \in Sockets |-> "none"]
    /\ logged = {}
    /\ fault = "none"

-----------------------------------------------------------------------------
(* Helpers the handlers call.                                               *)

StartTxTimer == timer' = "active"

(* uv_timer_stop keeps the callback of a timer that was started once.       *)
StopTxTimer == timer' = IF timer = "unstarted" THEN timer ELSE "stopped"

(* uv_timer_again restarts any timer that has a callback, a stopped one too. *)
ResetTxTimer == timer' = IF timer = "unstarted" THEN timer ELSE "active"

(* A message is submitted: the timer is pushed back, then the write queued.  *)
(* uv_write on a closing handle returns UV_EBADF, which nobody looks at.  The *)
(* pointer is not tested: unset, it is the fault of a public send that tests  *)
(* nothing ("misuse"), or of the library.                                    *)
Send(kind) ==
    /\ ResetTxTimer
    /\ \/ /\ socket = NoSocket
          /\ fault' = IF kind = "raw" THEN "misuse" ELSE "badSocket"
          /\ UNCHANGED wq
       \/ /\ socket # NoSocket
          /\ wq' = IF Writable(socket) THEN [wq EXCEPT ![socket] = Append(@, kind)]
                                       ELSE wq
          /\ UNCHANGED fault

(* Bound: whoever sends waits for room in the queue.                         *)
CanQueue == \A s \in Sockets : s = socket => Len(wq[s]) < MaxWrites

(* Variant: the timer is left running.                                       *)
RingingDisconnect(h, caller) ==
    /\ \/ /\ socket = NoSocket
          /\ fault' = IF caller = "application" THEN "misuse" ELSE "badSocket"
          /\ handle' = h
       \/ /\ socket # NoSocket /\ h[socket] = "closing"
          /\ fault' = IF caller = "application" THEN "misuse" ELSE "doubleClose"
          /\ handle' = h
       \/ /\ socket # NoSocket /\ h[socket] # "closing"
          /\ handle' = [h EXCEPT ![socket] = "closing"]
          /\ UNCHANGED fault
    /\ UNCHANGED <<state, socket, timer, resolving, wq, greeting, logged>>

(* OXLPalClientDisconnect__ with the handles as in h.  client->state is left *)
(* to the close callback; uv_close asserts that the handle is not closing.   *)
(* The function tests nothing: called too early or twice, it is "misuse" when *)
(* the application called it, and the library's own fault otherwise.         *)
Disconnect(h, caller) ==
    /\ StopTxTimer
    /\ \/ /\ socket = NoSocket
          /\ fault' = IF caller = "application" THEN "misuse" ELSE "badSocket"
          /\ handle' = h
       \/ /\ socket # NoSocket /\ h[socket] = "closing"
          /\ fault' = IF caller = "application" THEN "misuse" ELSE "doubleClose"
          /\ handle' = h
       \/ /\ socket # NoSocket /\ h[socket] # "closing"
          /\ handle' = [h EXCEPT ![socket] = "closing"]
          /\ UNCHANGED fault
    /\ UNCHANGED <<state, socket, resolving, wq, greeting, logged>>

-----------------------------------------------------------------------------
(* Calls of the application.                                                *)

(* Connect, ConnectWithPingTimer: start a resolution; nothing asks whether a *)
(* connection, or another resolution, exists.                               *)
Connect ==
    /\ resolving < MaxResolves
    /\ resolving' = resolving + 1
    /\ UNCHANGED <<state, socket, timer, handle, wq, greeting, logged, fault>>

AppDisconnect == Disconnect(handle, "application")

(* Variant: the early return on client->state is missing.                    *)
UnguardedRequest ==
    /\ CanQueue
    /\ Send("traffic")
    /\ UNCHANGED <<state, socket, resolving, handle, greeting, logged>>

(* Say, GotoRoom, GetRoomList, GetUserList: return early unless CONNECTED.   *)
Request ==
    /\ state = "CONNECTED"
    /\ CanQueue
    /\ Send("traffic")
    /\ UNCHANGED <<state, socket, resolving, handle, greeting, logged>>

(* SendAndRetainMsg, SendAndDestroyMsg and Logon check nothing; the callback *)
(* they pass is the application's, not OXLPalClientLogonEvent_.              *)
RawSend ==
    /\ CanQueue
    /\ Send("raw")
    /\ UNCHANGED <<state, socket, resolving, handle, greeting, logged>>

-----------------------------------------------------------------------------
(* Resolving and opening.                                                   *)

(* The address is there: a handle is allocated and connected.  A refused     *)
(* uv_tcp_connect is only logged, through a "%s" that is given the status.   *)
Resolved(s) ==
    /\ resolving > 0
    /\ handle[s] = "unused"
    /\ resolving' = resolving - 1
    /\ \/ /\ \E h \in {"connecting", "lost"} : handle' = [handle EXCEPT ![s] = h]
          /\ UNCHANGED fault
       \/ /\ fault' = "badFormat"
          /\ UNCHANGED handle
    /\ UNCHANGED <<state, socket, timer, wq, greeting, logged>>

(* Variant: the failure is reported although no request is in flight.       *)
UnpairedResolveFailed ==
    /\ resolving' = resolving - 1
    /\ UNCHANGED <<state, socket, timer, handle, wq, greeting, logged, fault>>

(* getaddrinfo failed: the application is told, nothing else happens.        *)
ResolveFailed ==
    /\ resolving > 0
    /\ resolving' = resolving - 1
    /\ UNCHANGED <<state, socket, timer, handle, wq, greeting, logged, fault>>

(* Variant: the ping timer is not started.                                   *)
NoKeepaliveOpenSocketEvent(s) ==
    /\ handle[s] = "connecting"
    /\ handle' = [handle EXCEPT ![s] = "open"]
    /\ socket' = s
    /\ state' = "HANDSHAKING"
    /\ UNCHANGED <<timer, resolving, wq, greeting, logged, fault>>

(* The connection stands: it becomes the client's, whatever was there.       *)
OpenSocketEvent(s) ==
    /\ handle[s] = "connecting"
    /\ handle' = [handle EXCEPT ![s] = "open"]
    /\ socket' = s
    /\ state' = "HANDSHAKING"
    /\ StartTxTimer
    /\ UNCHANGED <<resolving, wq, greeting, logged, fault>>

(* Variant: the state is set before the status is looked at.                 *)
HandshakingOpenSocketFailed(s) ==
    /\ handle[s] = "connecting"
    /\ handle' = [handle EXCEPT ![s] = "failed"]
    /\ state' = "HANDSHAKING"
    /\ UNCHANGED <<socket, timer, resolving, wq, greeting, logged, fault>>

(* Variant: the ping timer is started before the status is looked at.        *)
TimedOpenSocketFailed(s) ==
    /\ handle[s] = "connecting"
    /\ handle' = [handle EXCEPT ![s] = "failed"]
    /\ StartTxTimer
    /\ UNCHANGED <<state, socket, resolving, wq, greeting, logged, fault>>

(* The connection was refused: the handle closes, the client keeps its state. *)
OpenSocketFailed(s) ==
    /\ handle[s] = "connecting"
    /\ handle' = [handle EXCEPT ![s] = "failed"]
    /\ UNCHANGED <<state, socket, timer, resolving, wq, greeting, logged, fault>>

-----------------------------------------------------------------------------
(* Reading.  A handle is read as long as it is "open".                      *)

(* Variant: the logon of a known server goes to the empty AlternateLogon.    *)
SilentReadGreeting(s, kind) ==
    /\ handle[s] = "open" /\ state = "HANDSHAKING"
    /\ greeting' = [greeting EXCEPT ![s] = IF @ = "known" THEN @ ELSE kind]
    /\ UNCHANGED <<state, socket, timer, resolving, handle, wq, logged, fault>>

(* Variant: CONNECTED is set when the logon is submitted, not when written.  *)
HastyReadGreeting(s, kind) ==
    /\ handle[s] = "open" /\ state = "HANDSHAKING"
    /\ greeting' = [greeting EXCEPT ![s] = IF @ = "known" THEN @ ELSE kind]
    /\ IF kind = "known"
       THEN CanQueue /\ Send("logon") /\ state' = "CONNECTED"
       ELSE UNCHANGED <<state, timer, wq, fault>>
    /\ UNCHANGED <<socket, resolving, handle, logged>>

(* In HANDSHAKING every chunk that is read is taken for a greeting.  One of   *)
(* either known endianness is answered with a logon on client->socket, also  *)
(* when it is the second one or came from another handle; any other is       *)
(* reported to the application and that is all.                              *)
ReadGreeting(s, kind) ==
    /\ handle[s] = "open" /\ state = "HANDSHAKING"
    /\ greeting' = [greeting EXCEPT ![s] = IF @ = "known" THEN @ ELSE kind]
    /\ IF kind = "known"
       THEN CanQueue /\ Send("logon")
       ELSE UNCHANGED <<timer, wq, fault>>
    /\ UNCHANGED <<state, socket, resolving, handle, logged>>

(* MSG "down" is dispatched in CONNECTED: the connection is closed and the   *)
(* application told at once, though the state is still CONNECTED.            *)
ReadTerminate(s) ==
    /\ handle[s] = "open"
    /\ state = "CONNECTED"
    /\ Disconnect(handle, "loop")

(* nread < 0: uv stops reading the handle.  The status is logged through a   *)
(* "%s" first; if the process survives that, client->socket is closed, be it *)
(* the handle that failed or another.                                       *)
ReadError(s) ==
    /\ handle[s] = "open"
    /\ \/ /\ fault' = "badFormat"
          /\ UNCHANGED <<state, socket, timer, resolving, handle, wq, greeting, logged>>
       \/ Disconnect(IF s = socket THEN handle ELSE [handle EXCEPT ![s] = "eof"], "loop")

-----------------------------------------------------------------------------
(* Completions of writes, closes and the timer.                             *)

(* Variant: the commented-out uv_close of a failed logon is active.          *)
ClosingLogonEvent(s, ok) ==
    IF ok
    THEN /\ state' = "CONNECTED" /\ logged' = logged \cup {s}
         /\ UNCHANGED <<handle, fault>>
    ELSE /\ state' = "DISCONNECTED"
         /\ IF handle[socket] = "closing"
            THEN fault' = "doubleClose" /\ UNCHANGED handle
            ELSE handle' = [handle EXCEPT ![socket] = "closing"] /\ UNCHANGED fault
         /\ UNCHANGED logged

(* The logon was written, or not; in neither case is a handle touched.       *)
LogonEvent(s, ok) ==
    /\ state' = IF ok THEN "CONNECTED" ELSE "DISCONNECTED"
    /\ logged' = IF ok THEN logged \cup {s} ELSE logged
    /\ UNCHANGED <<handle, fault>>

(* The oldest write of s is done.  uv_close leaves the callbacks of writes    *)
(* that were queued or done to be called before that of the close.           *)
AfterSend(s) ==
    /\ wq[s] # <<>>
    /\ wq' = [wq EXCEPT ![s] = Tail(@)]
    /\ IF Head(wq[s]) = "logon"
       THEN \E ok \in BOOLEAN : LogonEvent(s, ok)
       ELSE UNCHANGED <<state, handle, logged, fault>>
    /\ UNCHANGED <<socket, timer, resolving, greeting>>

(* OXLCloseSocket_ left the callback itself in handle->data; it is read as a *)
(* baton, and whatever its bytes hold is called.                             *)
AfterCloseSocket(s) ==
    /\ handle[s] \in {"closing", "failed"} /\ wq[s] = <<>>
    /\ fault' = "wildCallback"
    /\ UNCHANGED <<state, socket, timer, resolving, handle, wq, greeting, logged>>

(* Variant: the ping is sent whatever the state.                             *)
UnconditionalTimerPingServer ==
    /\ timer = "active"
    /\ CanQueue
    /\ Send("traffic")
    /\ UNCHANGED <<state, socket, resolving, handle, greeting, logged>>

(* The timer repeats: it is active again when its callback runs.             *)
TimerPingServer ==
    /\ timer = "active"
    /\ state = "CONNECTED"
    /\ CanQueue
    /\ Send("traffic")
    /\ UNCHANGED <<state, socket, resolving, handle, greeting, logged>>

-----------------------------------------------------------------------------
Application == Connect \/ AppDisconnect \/ Request \/ RawSend

Opening ==
    \/ ResolveFailed
    \/ \E s \in Sockets : Resolved(s) \/ OpenSocketEvent(s) \/ OpenSocketFailed(s)

Reading ==
    \E s \in Sockets :
        \/ \E kind \in {"known", "unknown"} : ReadGreeting(s, kind)
        \/ ReadTerminate(s)
        \/ ReadError(s)

Completion ==
    \/ \E s \in Sockets : AfterSend(s) \/ AfterCloseSocket(s)
    \/ TimerPingServer

(* A process that has met a fault takes no further step.                     *)
Next == Running /\ (Application \/ Opening \/ Reading \/ Completion)

Spec == Init /\ [][Next]_vars

(* uv_run is called again and again, so a completion that is due is           *)
(* delivered.  Nothing is assumed of the server, the timer or the application. *)
Fairness ==
    \A s \in Sockets :
        /\ WF_vars(Running /\ AfterSend(s))
        /\ WF_vars(Running /\ AfterCloseSocket(s))

FairSpec == Spec /\ Fairness

-----------------------------------------------------------------------------
(* Properties.                                                              *)

Kinds == {"logon", "traffic", "raw"}
Greetings == {"none", "known", "unknown"}
Faults == {"none", "misuse", "badSocket", "doubleClose", "wildCallback", "badFormat"}

(* Every variable has its type; a request in flight is never counted twice.  *)
TypeOK ==
    /\ state \in States
    /\ socket \in Sockets \cup {NoSocket}
    /\ timer \in {"unstarted", "stopped", "active"}
    /\ resolving \in 0..MaxResolves
    /\ handle \in [Sockets -> Handles]
    /\ wq \in [Sockets -> Seq(Kinds)]
    /\ greeting \in [Sockets -> Greetings]
    /\ logged \in SUBSET Sockets
    /\ fault \in Faults

(* Whoever passes the test on client->state in Say, GotoRoom, the room and   *)
(* user lists, the ping timer and the reader finds a socket that was opened:  *)
(* no callback ever dereferences the pointer OXLCreatePalClient left unset.  *)
SocketWhenUp ==
    state # "DISCONNECTED" =>
        socket # NoSocket /\ handle[socket] \in {"open", "closing"}

(* As long as the client's socket is read the ping timer runs, however       *)
(* connections, failures and disconnects of other handles interleave.        *)
KeepaliveArmed ==
    socket # NoSocket /\ handle[socket] = "open" => timer = "active"

(* STATE_CONNECTED means that the logon was written on the very socket in    *)
(* use, unless connects overlapped and left another handle to the client.    *)
ConnectedMeansLoggedOn ==
    state = "CONNECTED" /\ Orphans = {} => socket \in logged

(* Requests and pings are queued behind the logon of their connection; only  *)
(* the unguarded public sends and overlapping connects can break this.       *)
LogonFirst ==
    Orphans = {} =>
        \A s \in Sockets : \A i \in DOMAIN wq[s] : wq[s][i] = "traffic" => s \in logged

(* A handshake that was answered is never stuck: a logon whose callback ends *)
(* it is queued on the socket.                                               *)
LogonInFlight ==
    state = "HANDSHAKING" /\ greeting[socket] = "known" =>
        \E i \in DOMAIN wq[socket] : wq[socket][i] = "logon"

(* No completion, message, error, ping or request makes the client use a      *)
(* socket that is not set, and none makes it close one twice, unless connects *)
(* overlapped: then a message or an error of the handle that was left behind *)
(* closes the client's socket, closing or not.                               *)
LoopFaultsNeedOrphan ==
    /\ fault # "badSocket"
    /\ fault = "doubleClose" => Orphans # {}

(* The calls that test client->state are safe at any moment, also while a    *)
(* connection is being opened, replaced or closed.                           *)
GuardedCallsAreSafe == [][Request => fault' = "none"]_vars

(* A handshake the server's greeting set going ends: the logon is written or *)
(* fails, the connection is replaced, or the process meets a fault.          *)
Awaiting(s) == state = "HANDSHAKING" /\ socket = s /\ greeting[s] = "known"
LogonSettles == \A s \in Sockets : Awaiting(s) ~> (~Awaiting(s) \/ ~Running)

-----------------------------------------------------------------------------
(* The inductive invariant behind the safety properties.                    *)

Carried(s) == handle[s] \in {"open", "eof", "closing"}

(* What each handle's own history implies: only one that carried a connection *)
(* has writes due, or read a greeting, or saw a logon written.               *)
HandleHistory ==
    \A s \in Sockets : ~Carried(s) => wq[s] = <<>> /\ greeting[s] = "none" /\ s \notin logged

(* The client's socket is a handle that carried a connection and that is not  *)
(* left half read; before there is one, nothing was opened.                  *)
SocketCarried ==
    /\ socket \in Sockets => handle[socket] \in {"open", "closing"}
    /\ socket = NoSocket =>
           state = "DISCONNECTED" /\ timer = "unstarted" /\ ~\E s \in Sockets : Carried(s)

Inv ==
    /\ TypeOK
    /\ HandleHistory
    /\ SocketCarried
    /\ KeepaliveArmed
    /\ ConnectedMeansLoggedOn
    /\ LogonFirst
    /\ LogonInFlight

-----------------------------------------------------------------------------
(* The session the application sees: what a handle is to it, and where a     *)
(* logon is due.                                                            *)

PhaseOf(h) ==
    CASE h = "unused" -> "fresh"
      [] h = "connecting" -> "opening"
      [] h \in {"lost", "failed"} -> "failed"
      [] h \in {"open", "eof"} -> "up"
      [] h = "closing" -> "ending"

LogonDue(s) == \E i \in DOMAIN wq[s] : wq[s][i] = "logon"

Session == INSTANCE PalSession WITH
    Conns <- Sockets,
    NoConn <- NoSocket,
    view <- state,
    current <- socket,
    phase <- [s \in Sockets |-> PhaseOf(handle[s])],
    asked <- {s \in Sockets : LogonDue(s)},
    online <- logged,
    alive <- Running

(* Whatever the loop, the server and the application do, the application     *)
(* sees the session that PalSession describes, and the code adds nothing to   *)
(* it: queue, timer, greetings and overlapping connects only make steps that  *)
(* the session knows, each guarded as it is there.                           *)
ImplementsSession == Session!SessionSpec

(* Moreover, every logon is answered once it was asked for.                  *)
ImplementsFairSession == Session!FairSessionSpec

-----------------------------------------------------------------------------
(* What comments and log lines of the code say, and the code does not do.    *)

(* OXLPalClientDisconnect__, palclient.c:321: "Stop ping timer".  Once it is  *)
(* stopped for a socket that is being closed, it should stay so until the     *)
(* close is done or another socket is opened, also in CONNECTED, where        *)
(* requests pass their guard.                                                *)
TimerQuietAfterDisconnect ==
    [][state = "CONNECTED" /\ handle[socket] = "closing" /\ timer = "stopped" =>
           timer' = "stopped" \/ socket' # socket]_vars

(* palclient.c:297 and :307: the disconnect callback is an OXLCallback that  *)
(* logs "Disconnected from Palace" and sets the state; so a close the        *)
(* application does not spoil by a second one ends in DISCONNECTED.          *)
CloseReported ==
    \A s \in Sockets :
        (socket = s /\ handle[s] = "closing") ~>
            (socket # s \/ state = "DISCONNECTED" \/ fault \notin {"none", "wildCallback"})

(* palclient.c:546: on an unknown server "Execution stops here"; the client  *)
(* should not stay in the handshake with an open socket for ever.            *)
UnknownServerStops ==
    \A s \in Sockets :
        (state = "HANDSHAKING" /\ socket = s /\ greeting[s] = "unknown") ~>
            (state # "HANDSHAKING" \/ socket # s \/ handle[s] # "open" \/ ~Running)
=============================================================================
