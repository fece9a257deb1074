------------------------------ MODULE PalMemory ------------------------------
(***************************************************************************)
(* Who owns the memory of the callback layer (oxlcom.c) and of the client: *)
(* the life cycle of PalClient, each step with what it allocates and       *)
(* frees, and OXLDestroyPalClient, which frees the client and its timer    *)
(* without looking at what libuv still has to call back.                   *)
(*                                                                         *)
(* Blocks are counted by kind, so that one freed twice is a negative       *)
(* count.  Abstracted: messages, which live and die with the baton of      *)
(* their write, the memory of the lists (PalList), the pointers events are *)
(* given as data, and libuv's own list of handles, in which the freed      *)
(* timer stays linked.                                                     *)
(***************************************************************************)
EXTENDS PalClient, Integers

CONSTANTS
    MaxConnects,    \* bound: connects in a life of the process
    MaxStranded     \* bound: refused writes of one handle

ASSUME MemoryAssumption == MaxConnects \in Nat /\ MaxStranded \in Nat

VARIABLES
    gone,           \* the client and its timer were freed
    harmed,         \* a callback of the library used what was freed
    resolvers,      \* uv_getaddrinfo_t blocks
    resolveBatons,  \* OXLCallbackBaton blocks of resolvers
    connectBatons,  \* OXLCallbackBaton blocks of each handle's uv_connect_t
    writeBatons,    \* OXLWriteBaton blocks of each handle
    unresolved,     \* history: resolutions that uv_getaddrinfo refused
    stranded,       \* history: writes of each handle that uv_write refused
    orderly         \* history: nothing was due when the application destroyed the client

blocks == <<resolvers, resolveBatons, connectBatons, writeBatons, unresolved, stranded>>
ends == <<gone, harmed, orderly>>
memVars == <<ends, blocks>>

MemoryInit ==
    /\ Init
    /\ gone = FALSE /\ harmed = FALSE /\ orderly = FALSE
    /\ resolvers = 0 /\ resolveBatons = 0 /\ unresolved = 0
    /\ connectBatons = [s \in Sockets |-> 0]
    /\ writeBatons = [s \in Sockets |-> 0]
    /\ stranded = [s \in Sockets |-> 0]

-----------------------------------------------------------------------------
(* The steps of PalClient, each with its memory.                            *)

(* A resolver and its baton; no resolver is ever freed.  uv_getaddrinfo may   *)
(* refuse at once: that is logged, and nothing will ever call back.  The      *)
(* connect event is told of success either way.                              *)
ConnectMemory ==
    /\ resolvers < MaxConnects
    /\ resolvers' = resolvers + 1
    /\ resolveBatons' = resolveBatons + 1
    /\ \/ Connect /\ UNCHANGED unresolved
       \/ UNCHANGED vars /\ unresolved' = unresolved + 1
    /\ UNCHANGED <<ends, connectBatons, writeBatons, stranded>>

(* Variant: the baton of the resolver is freed before the handle is opened,  *)
(* and again behind the callback.                                           *)
TwiceFreeingResolvedMemory(s) ==
    /\ Resolved(s)
    /\ resolveBatons' = resolveBatons - 2
    /\ connectBatons' = [connectBatons EXCEPT ![s] = @ + 1]
    /\ UNCHANGED <<ends, resolvers, writeBatons, unresolved, stranded>>

(* The baton of the resolver goes, that of the connect comes, with a handle   *)
(* and a request nobody frees.                                               *)
ResolvedMemory(s) ==
    /\ Resolved(s)
    /\ resolveBatons' = resolveBatons - 1
    /\ connectBatons' = [connectBatons EXCEPT ![s] = @ + 1]
    /\ UNCHANGED <<ends, resolvers, writeBatons, unresolved, stranded>>

ResolveFailedMemory ==
    /\ ResolveFailed
    /\ resolveBatons' = resolveBatons - 1
    /\ UNCHANGED <<ends, resolvers, connectBatons, writeBatons, unresolved, stranded>>

(* The connect's callback, good or bad, frees its baton.                     *)
OpenedMemory(s) ==
    /\ OpenSocketEvent(s) \/ OpenSocketFailed(s)
    /\ connectBatons' = [connectBatons EXCEPT ![s] = @ - 1]
    /\ UNCHANGED <<ends, resolvers, resolveBatons, writeBatons, unresolved, stranded>>

(* Bound: refused writes are counted up to MaxStranded.                      *)
CanStrand == \A s \in Sockets : s = socket /\ ~Writable(s) => stranded[s] < MaxStranded

(* A message is submitted with a baton of its own.  When uv_write refuses it  *)
(* the callback that would free the baton is not called.                     *)
Submitted ==
    /\ CanStrand
    /\ IF socket = NoSocket THEN UNCHANGED <<writeBatons, stranded>>
       ELSE /\ writeBatons' = [writeBatons EXCEPT ![socket] = @ + 1]
            /\ stranded' = [stranded EXCEPT ![socket] = IF Writable(socket) THEN @ ELSE @ + 1]
    /\ UNCHANGED <<ends, resolvers, resolveBatons, connectBatons, unresolved>>

SendMemory == (Request \/ RawSend \/ TimerPingServer) /\ Submitted

(* The answer to a greeting is a write like any other.                       *)
ReadGreetingMemory(s, kind) ==
    /\ ReadGreeting(s, kind)
    /\ IF kind = "known" THEN Submitted ELSE UNCHANGED <<ends, blocks>>

(* Variant: the callback of a retained message frees nothing.                *)
RetainingAfterSendMemory(s) ==
    /\ AfterSend(s)
    /\ writeBatons' = [writeBatons EXCEPT ![s] = IF Head(wq[s]) = "raw" THEN @ ELSE @ - 1]
    /\ UNCHANGED <<ends, resolvers, resolveBatons, connectBatons, unresolved, stranded>>

(* Both callbacks of a write free the baton, after the event.                *)
AfterSendMemory(s) ==
    /\ AfterSend(s)
    /\ writeBatons' = [writeBatons EXCEPT ![s] = @ - 1]
    /\ UNCHANGED <<ends, resolvers, resolveBatons, connectBatons, unresolved, stranded>>

OtherMemory(s) ==
    /\ AppDisconnect \/ ReadTerminate(s) \/ ReadError(s) \/ AfterCloseSocket(s)
    /\ UNCHANGED memVars

-----------------------------------------------------------------------------
(* The end of the client.                                                   *)

(* libuv calls back on behalf of a client that is gone: with the timer, or   *)
(* with a request or handle whose callback looks into the client.            *)
LateTimer == timer = "active"
LateResolve == resolving > 0
LateHandle(s) == handle[s] \in {"connecting", "open"}
LateLogon(s) == wq[s] # <<>> /\ Head(wq[s]) = "logon"

(* As far as the application can see to it: nothing is being resolved,        *)
(* connected or read, no logon is due, and nothing was sent on the socket     *)
(* since it was closed.  Of the timer it knows nothing.                      *)
NothingDue ==
    /\ ~LateResolve
    /\ \A s \in Sockets : ~LateHandle(s) /\ ~LogonDue(s)
LeftInOrder == NothingDue /\ (socket # NoSocket => stranded[socket] = 0)

(* OXLDestroyPalClient: the timer and the client are freed, no handle is      *)
(* closed, no request cancelled and the timer not stopped.                   *)
OXLDestroyPalClient ==
    /\ gone' = TRUE
    /\ orderly' = LeftInOrder
    /\ UNCHANGED <<vars, harmed, blocks>>

(* The same, called by the event of a message: behind the handler the reader  *)
(* resets client->msg.id, whatever the event did.                            *)
DestroyInMessageEvent(s) ==
    /\ handle[s] = "open" /\ state = "CONNECTED"
    /\ gone' = TRUE /\ harmed' = TRUE /\ orderly' = FALSE
    /\ UNCHANGED <<vars, blocks>>

(* Or by the disconnect event with which Terminate ends.                     *)
DestroyInDisconnectEvent(s) ==
    /\ ReadTerminate(s) /\ fault' = "none"
    /\ gone' = TRUE /\ harmed' = TRUE /\ orderly' = FALSE
    /\ UNCHANGED blocks

LateCallback ==
    /\ LateTimer \/ LateResolve \/ \E s \in Sockets : LateHandle(s) \/ LateLogon(s)
    /\ harmed' = TRUE
    /\ UNCHANGED <<vars, gone, orderly, blocks>>

(* The callbacks of other writes and of closes do not look into the client.  *)
LateWrite(s) == ~LateLogon(s) /\ AfterSendMemory(s)
LateClose(s) == AfterCloseSocket(s) /\ UNCHANGED memVars

-----------------------------------------------------------------------------
WithClient ==
    \/ ConnectMemory \/ ResolveFailedMemory \/ SendMemory \/ OXLDestroyPalClient
    \/ \E s \in Sockets :
        \/ ResolvedMemory(s) \/ OpenedMemory(s) \/ AfterSendMemory(s)
        \/ \E kind \in {"known", "unknown"} : ReadGreetingMemory(s, kind)
        \/ OtherMemory(s) \/ DestroyInMessageEvent(s) \/ DestroyInDisconnectEvent(s)

WithoutClient == LateCallback \/ \E s \in Sockets : LateWrite(s) \/ LateClose(s)

MemoryNext ==
    /\ Running /\ ~harmed
    /\ \/ ~gone /\ WithClient
       \/ gone /\ WithoutClient

MemorySpec == MemoryInit /\ [][MemoryNext]_<<vars, memVars>>

-----------------------------------------------------------------------------
(* Properties.                                                              *)

(* Every variable has its type; no block is freed twice.                     *)
MemoryTypeOK ==
    /\ gone \in BOOLEAN /\ harmed \in BOOLEAN /\ orderly \in BOOLEAN
    /\ resolvers \in 0..MaxConnects
    /\ resolveBatons \in Nat /\ unresolved \in Nat
    /\ connectBatons \in [Sockets -> 0..1]
    /\ writeBatons \in [Sockets -> Nat] /\ stranded \in [Sockets -> Nat]

(* Every baton belongs to a callback that is due, or to a request that libuv  *)
(* refused: what the library never frees, beside handles and requests, are    *)
(* the batons of refused resolutions, connects and writes, and no other.     *)
Accounting ==
    Running =>
        /\ resolveBatons = resolving + unresolved
        /\ \A s \in Sockets :
            /\ connectBatons[s] = IF handle[s] \in {"connecting", "lost"} THEN 1 ELSE 0
            /\ writeBatons[s] = Len(wq[s]) + stranded[s]

(* Disconnect stops the ping timer, and a socket that is closing is never     *)
(* opened again: the timer runs beside one only when a message was submitted  *)
(* on it that uv_write refused, be it a request that CONNECTED still let      *)
(* through, a public send, or the logon for another handle's greeting.        *)
RefusedWriteRearms ==
    socket # NoSocket /\ handle[socket] = "closing" /\ timer = "active" =>
        stranded[socket] > 0

(* Destroy looks at nothing.  Yet when the application let everything come   *)
(* to its end before, and sent nothing after its Disconnect, no callback ever *)
(* looks for the freed client: the timer is off, whatever connects failed,   *)
(* overlapped or were refused, and nothing else becomes due.                 *)
OrderlyDestroyIsQuiet == gone /\ orderly => ~harmed

(* What makes it so.                                                         *)
OrderlyRest == gone /\ orderly => ~harmed /\ NothingDue /\ ~LateTimer

(* The inductive invariant behind them: with that of the life cycle.         *)
MemoryInv ==
    /\ Inv
    /\ MemoryTypeOK
    /\ Accounting
    /\ RefusedWriteRearms
    /\ OrderlyRest
=============================================================================
