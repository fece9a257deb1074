------------------------------ MODULE PalSession ------------------------------
(***************************************************************************)
(* What an oxyale client promises the application about its session: the   *)
(* part of the life cycle that shows in client->state, in client->socket   *)
(* and in the logon event, without timer, queues, greetings and the other  *)
(* messages.  PalClient implements it.                                     *)
(*                                                                         *)
(* A connection is begun, stands or fails, and ends; it is the client's    *)
(* when it comes to stand.  On the client's connection a logon is asked    *)
(* for, and answered later, in the order of the loop: by then the          *)
(* connection may be ending, or abandoned for another.                     *)
(***************************************************************************)
CONSTANTS
    Conns,      \* the connections the process may make
    NoConn      \* client->socket before the first of them

VARIABLES
    view,       \* client->state
    current,    \* the client's connection
    phase,      \* where each connection is
    asked,      \* connections on which a logon is due to be answered
    online,     \* connections that are logged on, and stay so to their end
    alive       \* the process runs

svars == <<view, current, phase, asked, online, alive>>

Phases == {"fresh", "opening", "failed", "up", "ending"}

(* Connections that stood, and were left for another.                        *)
Abandoned == {c \in Conns \ {current} : phase[c] \in {"up", "ending"}}

SessionInit ==
    /\ view = "DISCONNECTED"
    /\ current = NoConn
    /\ phase = [c \in Conns |-> "fresh"]
    /\ asked = {} /\ online = {}
    /\ alive = TRUE

(* A connection is begun; if it is refused at once nobody is told.           *)
Begin(c) ==
    /\ phase[c] = "fresh"
    /\ \E p \in {"opening", "failed"} : phase' = [phase EXCEPT ![c] = p]
    /\ UNCHANGED <<view, current, asked, online, alive>>

Fail(c) ==
    /\ phase[c] = "opening"
    /\ phase' = [phase EXCEPT ![c] = "failed"]
    /\ UNCHANGED <<view, current, asked, online, alive>>

(* It stands, and is the client's from now on; the handshake begins.         *)
Establish(c) ==
    /\ phase[c] = "opening"
    /\ phase' = [phase EXCEPT ![c] = "up"]
    /\ current' = c
    /\ view' = "HANDSHAKING"
    /\ UNCHANGED <<asked, online, alive>>

(* A logon is asked for on the client's connection, in the handshake only.   *)
AskLogon ==
    /\ view = "HANDSHAKING"
    /\ current \in Conns /\ phase[current] = "up"
    /\ asked' = asked \cup {current}
    /\ UNCHANGED <<view, current, phase, online, alive>>

(* The answer to a logon decides the state; the client does not ask to which  *)
(* connection it belongs.  Another logon may be due on the same one.         *)
AnswerLogon(c, ok) ==
    /\ c \in asked
    /\ \/ asked' = asked
       \/ asked' = asked \ {c}
    /\ view' = IF ok THEN "CONNECTED" ELSE "DISCONNECTED"
    /\ online' = IF ok THEN online \cup {c} ELSE online
    /\ UNCHANGED <<current, phase, alive>>

(* The client ends its connection; the view stays until it is told.          *)
Leave ==
    /\ current \in Conns /\ phase[current] = "up"
    /\ phase' = [phase EXCEPT ![current] = "ending"]
    /\ UNCHANGED <<view, current, asked, online, alive>>

Crash ==
    /\ alive' = FALSE
    /\ UNCHANGED <<view, current, phase, asked, online>>

SessionNext ==
    /\ alive
    /\ \/ \E c \in Conns :
            \/ Begin(c) \/ Fail(c) \/ Establish(c)
            \/ \E ok \in BOOLEAN : AnswerLogon(c, ok)
       \/ AskLogon
       \/ Leave
       \/ Crash

SessionSpec == SessionInit /\ [][SessionNext]_svars

(* The promise that goes with it: every logon that was asked for is answered. *)
Answered(c) == alive /\ \E ok \in BOOLEAN : AnswerLogon(c, ok) /\ asked' = asked \ {c}
SessionFairness == \A c \in Conns : WF_svars(Answered(c))

FairSessionSpec == SessionSpec /\ SessionFairness
=============================================================================
