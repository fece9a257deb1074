--------------------------- MODULE PalClient_proofs ---------------------------
(***************************************************************************)
(* Proofs of the safety properties of PalClient, for every set of handles  *)
(* and every bound, and that it implements PalSession.                     *)
(***************************************************************************)
EXTENDS PalClient, TLAPS

(* Taking the first write of a queue leaves the others where they were, one  *)
(* place earlier.                                                           *)
LEMMA TailElements ==
    ASSUME NEW q \in Seq(Kinds), q # <<>>
    PROVE  /\ Tail(q) \in Seq(Kinds)
           /\ Head(q) \in Kinds
           /\ \A i \in DOMAIN Tail(q) : i + 1 \in DOMAIN q /\ Tail(q)[i] = q[i + 1]
           /\ \A i \in DOMAIN q : i # 1 => i - 1 \in DOMAIN Tail(q) /\ Tail(q)[i - 1] = q[i]
           /\ 1 \in DOMAIN q /\ Head(q) = q[1]
  OBVIOUS

LEMMA AppendElements ==
    ASSUME NEW q \in Seq(Kinds), NEW e \in Kinds
    PROVE  /\ Append(q, e) \in Seq(Kinds)
           /\ \A i \in DOMAIN q : i \in DOMAIN Append(q, e) /\ Append(q, e)[i] = q[i]
           /\ \A i \in DOMAIN Append(q, e) : i \in DOMAIN q \/ Append(q, e)[i] = e
           /\ \E i \in DOMAIN Append(q, e) : Append(q, e)[i] = e
  <1>1. Append(q, e)[Len(q) + 1] = e /\ Len(q) + 1 \in DOMAIN Append(q, e)
    OBVIOUS
  <1> QED BY <1>1


-----------------------------------------------------------------------------
(* The initial state satisfies the inductive invariant.                     *)
LEMMA InitInv == Init => Inv
  <1> SUFFICES ASSUME Init PROVE Inv
    OBVIOUS
  <1> USE SocketsAssumption, BoundsAssumption DEF Init
  <1>1. TypeOK
    BY DEF TypeOK, States, Handles, Kinds, Greetings, Faults
  <1>2. HandleHistory /\ SocketCarried
    BY DEF HandleHistory, SocketCarried, Carried
  <1>3. KeepaliveArmed /\ ConnectedMeansLoggedOn /\ LogonInFlight
    BY DEF KeepaliveArmed, ConnectedMeansLoggedOn, LogonInFlight
  <1>4. LogonFirst
    BY DEF LogonFirst
  <1> QED BY <1>1, <1>2, <1>3, <1>4 DEF Inv

(* Submitting a message and closing the socket keep every variable's type.   *)
LEMMA SendType ==
    ASSUME TypeOK, NEW kind \in Kinds, Send(kind)
    PROVE  /\ timer' \in {"unstarted", "stopped", "active"}
           /\ wq' \in [Sockets -> Seq(Kinds)]
           /\ fault' \in Faults
  <1>1. timer' \in {"unstarted", "stopped", "active"} /\ fault' \in Faults
    BY DEF TypeOK, Send, ResetTxTimer, Faults
  <1>2. CASE UNCHANGED wq
    BY <1>1, <1>2 DEF TypeOK
  <1>3. CASE socket \in Sockets /\ wq' = [wq EXCEPT ![socket] = Append(@, kind)]
    <2>1. Append(wq[socket], kind) \in Seq(Kinds)
      BY <1>3, AppendElements DEF TypeOK
    <2> QED BY <1>1, <1>3, <2>1 DEF TypeOK
  <1> QED BY <1>2, <1>3 DEF Send, TypeOK

LEMMA DisconnectType ==
    ASSUME TypeOK, NEW h \in [Sockets -> Handles], NEW caller, Disconnect(h, caller)
    PROVE  TypeOK'
  BY DEF TypeOK, Disconnect, StopTxTimer, Faults, Handles

LEMMA TypeNext == TypeOK /\ [Next]_vars => TypeOK'
  <1> SUFFICES ASSUME TypeOK, [Next]_vars PROVE TypeOK'
    OBVIOUS
  <1> USE BoundsAssumption
  <1>1. CASE Connect
    BY <1>1 DEF Connect, TypeOK
  <1>2. CASE AppDisconnect
    BY <1>2, DisconnectType DEF AppDisconnect, TypeOK
  <1>3. CASE Request \/ RawSend \/ TimerPingServer
    BY <1>3, SendType DEF Request, RawSend, TimerPingServer, TypeOK, Kinds
  <1>4. CASE ResolveFailed
    BY <1>4 DEF ResolveFailed, TypeOK
  <1>5. ASSUME NEW s \in Sockets, Resolved(s) PROVE TypeOK'
    <2>1. resolving' \in 0..MaxResolves /\ fault' \in Faults
      BY <1>5 DEF Resolved, TypeOK, Faults
    <2>2. handle' \in [Sockets -> Handles]
      BY <1>5 DEF Resolved, TypeOK, Handles
    <2> QED BY <1>5, <2>1, <2>2 DEF Resolved, TypeOK
  <1>6. ASSUME NEW s \in Sockets, OpenSocketEvent(s) \/ OpenSocketFailed(s) PROVE TypeOK'
    BY <1>6 DEF OpenSocketEvent, OpenSocketFailed, StartTxTimer, TypeOK, Handles, States
  <1>7. ASSUME NEW s \in Sockets, NEW kind \in {"known", "unknown"}, ReadGreeting(s, kind)
        PROVE  TypeOK'
    <2>1. CASE Send("logon")
      BY <1>7, <2>1, SendType DEF ReadGreeting, TypeOK, Kinds, Greetings
    <2>2. CASE UNCHANGED <<timer, wq, fault>>
      BY <1>7, <2>2 DEF ReadGreeting, TypeOK, Greetings
    <2> QED BY <1>7, <2>1, <2>2 DEF ReadGreeting
  <1>8. ASSUME NEW s \in Sockets, ReadTerminate(s) PROVE TypeOK'
    BY <1>8, DisconnectType DEF ReadTerminate, TypeOK
  <1>9. ASSUME NEW s \in Sockets, ReadError(s) PROVE TypeOK'
    <2>1. CASE fault' = "badFormat" /\ UNCHANGED <<state, socket, timer, resolving, handle,
                                                   wq, greeting, logged>>
      BY <2>1 DEF TypeOK, Faults
    <2>2. CASE Disconnect(IF s = socket THEN handle ELSE [handle EXCEPT ![s] = "eof"], "loop")
      BY <2>2, DisconnectType DEF TypeOK, Handles
    <2> QED BY <1>9, <2>1, <2>2 DEF ReadError
  <1>10. ASSUME NEW s \in Sockets, AfterSend(s) PROVE TypeOK'
    BY <1>10, TailElements DEF AfterSend, LogonEvent, TypeOK, States
  <1>11. ASSUME NEW s \in Sockets, AfterCloseSocket(s) PROVE TypeOK'
    BY <1>11 DEF AfterCloseSocket, TypeOK, Faults
  <1>12. CASE UNCHANGED vars
    BY <1>12 DEF vars, TypeOK
  <1> QED
    BY <1>1, <1>2, <1>3, <1>4, <1>5, <1>6, <1>7, <1>8, <1>9, <1>10, <1>11, <1>12
    DEF Next, Application, Opening, Reading, Completion

-----------------------------------------------------------------------------
(* Steps that share their effect on the invariant.                          *)

Frame == UNCHANGED <<state, socket, timer, handle, wq, greeting, logged>>

(* A step that leaves the connection alone.                                  *)
LEMMA FrameInv ==
    ASSUME Inv, TypeOK', Frame
    PROVE  Inv'
  BY DEF Frame, Inv, HandleHistory, SocketCarried, Carried, KeepaliveArmed,
         ConnectedMeansLoggedOn, LogonFirst, LogonInFlight, Orphans

(* A handle that never carried a connection moves on without carrying one.   *)
LEMMA UncarriedInv ==
    ASSUME Inv, TypeOK', NEW s \in Sockets, ~Carried(s),
           NEW h \in {"connecting", "lost", "failed"},
           handle' = [handle EXCEPT ![s] = h],
           UNCHANGED <<state, socket, timer, wq, greeting, logged>>
    PROVE  Inv'
  <1> USE DEF Inv, TypeOK
  <1>1. \A r \in Sockets : Carried(r)' <=> Carried(r)
    BY DEF Carried
  <1>2. Orphans' = Orphans
    BY <1>1 DEF Orphans, Carried
  <1>3. HandleHistory' /\ SocketCarried'
    BY <1>1 DEF HandleHistory, SocketCarried, Carried
  <1>4. KeepaliveArmed' /\ ConnectedMeansLoggedOn' /\ LogonFirst' /\ LogonInFlight'
    BY <1>2 DEF KeepaliveArmed, ConnectedMeansLoggedOn, LogonFirst, LogonInFlight, Carried
  <1> QED BY <1>3, <1>4

(* A message is submitted on the client's socket, perhaps in answer to a     *)
(* greeting just read.                                                      *)
LEMMA SendInv ==
    ASSUME Inv, TypeOK', NEW kind \in Kinds, Send(kind),
           kind = "traffic" => state = "CONNECTED",
           UNCHANGED <<state, socket, handle, logged>>,
           \/ UNCHANGED greeting
           \/ /\ kind = "logon"
              /\ \E s \in Sockets, g \in Greetings :
                    handle[s] = "open" /\ greeting' = [greeting EXCEPT ![s] = g]
    PROVE  Inv'
  <1> USE DEF Inv, TypeOK
  <1>1. \A r \in Sockets : Carried(r)' = Carried(r) /\ (Writable(r) => Carried(r))
    BY DEF Carried, Writable
  <1>2. Orphans' = Orphans
    BY DEF Orphans
  <1>3. KeepaliveArmed' /\ SocketCarried'
    BY <1>1 DEF KeepaliveArmed, SocketCarried, Send, ResetTxTimer
  <1>4. ConnectedMeansLoggedOn'
    BY <1>2 DEF ConnectedMeansLoggedOn
  <1>5. CASE UNCHANGED wq /\ ~(socket \in Sockets /\ Writable(socket))
    <2>1. HandleHistory'
      BY <1>1, <1>5 DEF HandleHistory, Carried
    <2>2. LogonFirst'
      BY <1>2, <1>5 DEF LogonFirst
    <2>3. LogonInFlight'
      <3> SUFFICES ASSUME state = "HANDSHAKING", greeting'[socket] = "known"
                   PROVE  \E i \in DOMAIN wq[socket] : wq[socket][i] = "logon"
        BY <1>5 DEF LogonInFlight
      <3>1. socket \in Sockets /\ handle[socket] # "open"
        BY <1>5 DEF SocketCarried, Writable
      <3>2. greeting'[socket] = greeting[socket]
        BY <3>1
      <3> QED BY <3>2 DEF LogonInFlight
    <2> QED BY <1>3, <1>4, <2>1, <2>2, <2>3
  <1>6. CASE socket \in Sockets /\ Writable(socket)
             /\ wq' = [wq EXCEPT ![socket] = Append(@, kind)]
    <2> DEFINE q == wq[socket]
    <2>0. /\ wq'[socket] = Append(q, kind)
          /\ \A i \in DOMAIN q : i \in DOMAIN Append(q, kind) /\ Append(q, kind)[i] = q[i]
          /\ \A i \in DOMAIN Append(q, kind) : i \in DOMAIN q \/ Append(q, kind)[i] = kind
          /\ \E i \in DOMAIN Append(q, kind) : Append(q, kind)[i] = kind
      <3>1. q \in Seq(Kinds) /\ wq'[socket] = Append(q, kind)
        BY <1>6
      <3> HIDE DEF q
      <3> QED BY <3>1, AppendElements
    <2>1. HandleHistory'
      BY <1>1, <1>6 DEF HandleHistory, Carried
    <2>2. LogonFirst'
      <3> SUFFICES ASSUME Orphans = {}, NEW r \in Sockets, NEW i \in DOMAIN wq'[r],
                          wq'[r][i] = "traffic"
                   PROVE  r \in logged
        BY <1>2 DEF LogonFirst
      <3>1. CASE i \in DOMAIN wq[r] /\ wq[r][i] = "traffic"
        BY <3>1 DEF LogonFirst
      <3>2. CASE r = socket /\ kind = "traffic"
        BY <3>2 DEF ConnectedMeansLoggedOn
      <3>3. r # socket => wq'[r] = wq[r]
        BY <1>6
      <3>4. CASE r = socket
        <4>1. (i \in DOMAIN wq[r] /\ wq[r][i] = "traffic") \/ kind = "traffic"
          BY <2>0, <3>4
        <4> QED BY <3>1, <3>2, <3>4, <4>1
      <3> QED BY <3>1, <3>3, <3>4
    <2>3. LogonInFlight'
      <3> SUFFICES ASSUME state = "HANDSHAKING", greeting'[socket] = "known"
                   PROVE  \E i \in DOMAIN wq'[socket] : wq'[socket][i] = "logon"
        BY DEF LogonInFlight
      <3>1. CASE kind = "logon"
        BY <2>0, <3>1
      <3>2. CASE kind # "logon"
        <4>1. PICK i \in DOMAIN wq[socket] : wq[socket][i] = "logon"
          BY <3>2 DEF LogonInFlight
        <4> QED BY <2>0, <4>1
      <3> QED BY <3>1, <3>2
    <2> QED BY <1>3, <1>4, <2>1, <2>2, <2>3
  <1>7. socket \in Sockets /\ Writable(socket) => wq' = [wq EXCEPT ![socket] = Append(@, kind)]
    BY SocketsAssumption DEF Send
  <1>8. ~(socket \in Sockets /\ Writable(socket)) => UNCHANGED wq
    BY DEF Send
  <1> QED BY <1>5, <1>6, <1>7, <1>8

(* The client's socket is closed, another handle perhaps having failed.       *)
LEMMA DisconnectInv ==
    ASSUME Inv, TypeOK', NEW h \in [Sockets -> Handles], NEW caller,
           \/ h = handle
           \/ \E s \in Sockets \ {socket} :
                  handle[s] = "open" /\ h = [handle EXCEPT ![s] = "eof"],
           Disconnect(h, caller)
    PROVE  Inv'
  <1> USE DEF Inv, TypeOK
  <1>1. CASE socket = NoSocket
    BY <1>1, FrameInv, SocketsAssumption DEF Frame, SocketCarried, Carried, Disconnect, StopTxTimer
  <1>2. CASE socket \in Sockets
    <2>1. \A r \in Sockets : Carried(r)' = Carried(r)
      BY <1>2 DEF Carried, Disconnect, SocketCarried
    <2>2. Orphans' = Orphans
      BY <2>1 DEF Orphans, Carried, Disconnect
    <2>3. HandleHistory'
      BY <2>1 DEF HandleHistory, Carried, Disconnect
    <2>4. handle'[socket] = "closing"
      BY <1>2, SocketsAssumption DEF Disconnect, SocketCarried
    <2>5. SocketCarried' /\ KeepaliveArmed'
      BY <1>2, <2>4, SocketsAssumption DEF SocketCarried, KeepaliveArmed, Disconnect
    <2>6. ConnectedMeansLoggedOn' /\ LogonFirst' /\ LogonInFlight'
      BY <2>2 DEF ConnectedMeansLoggedOn, LogonFirst, LogonInFlight, Disconnect
    <2> QED BY <2>3, <2>5, <2>6
  <1> QED BY <1>1, <1>2

(* A connection stands and becomes the client's; the one that was there, if   *)
(* any, becomes an orphan.                                                   *)
LEMMA OpenSocketInv ==
    ASSUME Inv, TypeOK', NEW s \in Sockets, OpenSocketEvent(s)
    PROVE  Inv'
  <1> USE DEF Inv, TypeOK, OpenSocketEvent
  <1>1. /\ handle'[s] = "open" /\ socket' = s /\ state' = "HANDSHAKING" /\ greeting[s] = "none"
        /\ \A r \in Sockets : Carried(r) => r # s /\ Carried(r)'
    BY DEF Carried, HandleHistory
  <1>2. Orphans \subseteq Orphans'
    BY <1>1 DEF Orphans, Carried
  <1>3. HandleHistory'
    BY <1>1 DEF HandleHistory, Carried
  <1>4. SocketCarried' /\ KeepaliveArmed'
    BY <1>1, SocketsAssumption DEF SocketCarried, KeepaliveArmed, StartTxTimer
  <1>5. ConnectedMeansLoggedOn' /\ LogonInFlight'
    BY <1>1 DEF ConnectedMeansLoggedOn, LogonInFlight
  <1>6. LogonFirst'
    BY <1>2 DEF LogonFirst
  <1> QED BY <1>3, <1>4, <1>5, <1>6

(* A greeting is read and not answered.                                       *)
LEMMA UnansweredInv ==
    ASSUME Inv, TypeOK', NEW s \in Sockets, NEW kind \in Greetings, handle[s] = "open",
           greeting' = [greeting EXCEPT ![s] = IF @ = "known" THEN @ ELSE kind],
           kind # "known",
           UNCHANGED <<state, socket, timer, handle, wq, logged>>
    PROVE  Inv'
  <1> USE DEF Inv, TypeOK
  <1>1. HandleHistory'
    BY DEF HandleHistory, Carried
  <1>2. SocketCarried' /\ KeepaliveArmed' /\ ConnectedMeansLoggedOn' /\ LogonFirst'
    BY DEF SocketCarried, Carried, KeepaliveArmed, ConnectedMeansLoggedOn, LogonFirst, Orphans
  <1>3. LogonInFlight'
    BY DEF LogonInFlight, SocketCarried
  <1> QED BY <1>1, <1>2, <1>3

(* The oldest write of a handle is done.                                      *)
LEMMA AfterSendInv ==
    ASSUME Inv, TypeOK', NEW s \in Sockets, AfterSend(s)
    PROVE  Inv'
  <1> USE DEF Inv, TypeOK, AfterSend, LogonEvent
  <1>1. Carried(s) /\ socket \in Sockets
    BY DEF HandleHistory, SocketCarried
  <1>2. UNCHANGED handle /\ Orphans' = Orphans
    BY DEF Orphans
  <1>3. HandleHistory' /\ SocketCarried' /\ KeepaliveArmed'
    BY <1>1, <1>2, SocketsAssumption DEF HandleHistory, SocketCarried, KeepaliveArmed, Carried
  <1>4. ConnectedMeansLoggedOn'
    <2>1. Orphans = {} => s = socket
      BY <1>1 DEF Orphans, Carried
    <2> QED BY <1>2, <2>1 DEF ConnectedMeansLoggedOn
  <1>5. wq[s] \in Seq(Kinds) /\ wq[s] # <<>> /\ wq'[s] = Tail(wq[s])
        /\ \A r \in Sockets \ {s} : wq'[r] = wq[r]
    OBVIOUS
  <1>6. LogonFirst'
    <2> SUFFICES ASSUME Orphans = {}, NEW r \in Sockets, NEW i \in DOMAIN wq'[r],
                        wq'[r][i] = "traffic"
                 PROVE  r \in logged
      BY <1>2 DEF LogonFirst
    <2>1. \E j \in DOMAIN wq[r] : wq[r][j] = "traffic"
      BY <1>5, TailElements
    <2> QED BY <2>1 DEF LogonFirst
  <1>7. LogonInFlight'
    <2> SUFFICES ASSUME state' = "HANDSHAKING", greeting[socket] = "known"
                 PROVE  \E i \in DOMAIN wq'[socket] : wq'[socket][i] = "logon"
      BY DEF LogonInFlight
    <2>1. state = "HANDSHAKING" /\ Head(wq[s]) # "logon"
      OBVIOUS
    <2>2. PICK i \in DOMAIN wq[socket] : wq[socket][i] = "logon"
      BY <2>1 DEF LogonInFlight
    <2>3. CASE s = socket
      <3>1. i # 1
        BY <1>5, <2>1, <2>2, <2>3, TailElements
      <3>2. i - 1 \in DOMAIN Tail(wq[s]) /\ Tail(wq[s])[i - 1] = "logon"
        BY <1>5, <2>2, <2>3, <3>1, TailElements
      <3> QED BY <1>5, <2>3, <3>2
    <2>4. CASE s # socket
      BY <1>1, <1>5, <2>2, <2>4
    <2> QED BY <2>3, <2>4
  <1> QED BY <1>3, <1>4, <1>6, <1>7

-----------------------------------------------------------------------------
(* Every step preserves the invariant.                                      *)
LEMMA InvNext == Inv /\ [Next]_vars => Inv'
  <1> SUFFICES ASSUME Inv, [Next]_vars PROVE Inv'
    OBVIOUS
  <1>0. TypeOK /\ TypeOK'
    BY TypeNext DEF Inv
  <1>1. CASE Connect \/ ResolveFailed
    BY <1>0, <1>1, FrameInv DEF Connect, ResolveFailed, Frame
  <1>2. CASE AppDisconnect
    BY <1>0, <1>2, DisconnectInv DEF AppDisconnect, TypeOK
  <1>3. CASE Request \/ RawSend \/ TimerPingServer
    BY <1>0, <1>3, SendInv DEF Request, RawSend, TimerPingServer, Kinds
  <1>4. ASSUME NEW s \in Sockets, Resolved(s) PROVE Inv'
    <2>1. CASE UNCHANGED handle
      BY <1>0, <1>4, <2>1, FrameInv DEF Resolved, Frame
    <2>2. CASE \E h \in {"connecting", "lost"} : handle' = [handle EXCEPT ![s] = h]
      BY <1>0, <1>4, <2>2, UncarriedInv DEF Resolved, Carried
    <2> QED BY <1>4, <2>1, <2>2 DEF Resolved
  <1>5. ASSUME NEW s \in Sockets, OpenSocketEvent(s) PROVE Inv'
    BY <1>0, <1>5, OpenSocketInv
  <1>6. ASSUME NEW s \in Sockets, OpenSocketFailed(s) PROVE Inv'
    BY <1>0, <1>6, UncarriedInv DEF OpenSocketFailed, Carried
  <1>7. ASSUME NEW s \in Sockets, NEW kind \in {"known", "unknown"}, ReadGreeting(s, kind)
        PROVE  Inv'
    <2>1. CASE Send("logon")
      BY <1>0, <1>7, <2>1, SendInv DEF ReadGreeting, Kinds, Greetings
    <2>2. CASE kind # "known"
      BY <1>0, <1>7, <2>2, UnansweredInv DEF ReadGreeting, Greetings
    <2> QED BY <1>7, <2>1, <2>2 DEF ReadGreeting
  <1>8. ASSUME NEW s \in Sockets, ReadTerminate(s) PROVE Inv'
    BY <1>0, <1>8, DisconnectInv DEF ReadTerminate, TypeOK
  <1>9. ASSUME NEW s \in Sockets, ReadError(s) PROVE Inv'
    <2>1. CASE Frame
      BY <1>0, <2>1, FrameInv
    <2>2. CASE Disconnect(IF s = socket THEN handle ELSE [handle EXCEPT ![s] = "eof"], "loop")
      <3> DEFINE h == IF s = socket THEN handle ELSE [handle EXCEPT ![s] = "eof"]
      <3>1. h \in [Sockets -> Handles]
        BY <1>0 DEF TypeOK, Handles
      <3> QED BY <1>0, <1>9, <2>2, <3>1, DisconnectInv DEF ReadError
    <2> QED BY <1>9, <2>1, <2>2 DEF ReadError, Frame
  <1>10. ASSUME NEW s \in Sockets, AfterSend(s) PROVE Inv'
    BY <1>0, <1>10, AfterSendInv
  <1>11. ASSUME NEW s \in Sockets, AfterCloseSocket(s) PROVE Inv'
    BY <1>0, <1>11, FrameInv DEF AfterCloseSocket, Frame
  <1>12. CASE UNCHANGED vars
    BY <1>0, <1>12, FrameInv DEF vars, Frame
  <1> QED
    BY <1>1, <1>2, <1>3, <1>4, <1>5, <1>6, <1>7, <1>8, <1>9, <1>10, <1>11, <1>12
    DEF Next, Application, Opening, Reading, Completion

(* Inv is an invariant of the client.                                        *)
THEOREM Invariant == Spec => []Inv
  <1> QED BY InitInv, InvNext, PTL DEF Spec

(* The client's variables keep their types.                                  *)
THEOREM TypeCorrect == Spec => []TypeOK
  <1>1. Inv => TypeOK
    BY DEF Inv
  <1> QED BY <1>1, Invariant, PTL

(* Whatever the order of completions, errors and calls, a client whose state *)
(* is not DISCONNECTED has a socket that was opened.                         *)
THEOREM SocketWhenUpAlways == Spec => []SocketWhenUp
  <1>1. Inv => SocketWhenUp
    BY SocketsAssumption DEF Inv, SocketCarried, SocketWhenUp, TypeOK
  <1> QED BY <1>1, Invariant, PTL

(* The ping timer runs as long as the client's socket is read.               *)
THEOREM KeepaliveArmedAlways == Spec => []KeepaliveArmed
  <1>1. Inv => KeepaliveArmed
    BY DEF Inv
  <1> QED BY <1>1, Invariant, PTL

(* Without overlapping connects CONNECTED means that the logon was written on *)
(* the socket in use.                                                        *)
THEOREM ConnectedIsLoggedOn == Spec => []ConnectedMeansLoggedOn
  <1>1. Inv => ConnectedMeansLoggedOn
    BY DEF Inv
  <1> QED BY <1>1, Invariant, PTL

(* Without overlapping connects no request or ping is queued ahead of the     *)
(* logon.                                                                    *)
THEOREM LogonBeforeTraffic == Spec => []LogonFirst
  <1>1. Inv => LogonFirst
    BY DEF Inv
  <1> QED BY <1>1, Invariant, PTL

(* A handshake that was answered has its logon queued.                       *)
THEOREM LogonInFlightAlways == Spec => []LogonInFlight
  <1>1. Inv => LogonInFlight
    BY DEF Inv
  <1> QED BY <1>1, Invariant, PTL

(* A call that tests client->state never brings the process down.            *)
THEOREM GuardedCallsSafe == Spec => GuardedCallsAreSafe
  <1>1. Inv /\ [Next]_vars => [Request => fault' = "none"]_vars
    <2> SUFFICES ASSUME Inv, Next, Request PROVE fault' = "none"
      OBVIOUS
    <2>1. fault = "none" /\ socket # NoSocket
      BY DEF Next, Running, Inv, SocketCarried, Request
    <2> QED BY <2>1 DEF Request, Send
  <1> QED BY <1>1, Invariant, PTL DEF Spec, GuardedCallsAreSafe

(* The step that brings the process down is a call that tests nothing, or     *)
(* follows overlapping connects, or is no use of the socket at all.          *)
LEMMA FaultStep ==
    ASSUME Inv, Next
    PROVE  LoopFaultsNeedOrphan'
  <1> USE SocketsAssumption DEF Inv, TypeOK
  <1>0. fault = "none"
    BY DEF Next, Running
  <1> DEFINE Calm == fault' \notin {"badSocket", "doubleClose"}
  <1>1. Calm => LoopFaultsNeedOrphan'
    BY DEF LoopFaultsNeedOrphan
  <1>2. CASE Connect \/ ResolveFailed
    BY <1>0, <1>1, <1>2 DEF Connect, ResolveFailed
  <1>3. CASE AppDisconnect \/ RawSend
    BY <1>0, <1>1, <1>3 DEF AppDisconnect, Disconnect, RawSend, Send
  <1>4. state # "DISCONNECTED" => \A kind \in Kinds : Send(kind) => Calm
    BY <1>0 DEF Send, SocketCarried
  <1>5. CASE Request \/ TimerPingServer
    BY <1>1, <1>4, <1>5 DEF Request, TimerPingServer, Kinds
  <1>6. ASSUME NEW s \in Sockets, Resolved(s) \/ OpenSocketEvent(s) \/ OpenSocketFailed(s)
        PROVE  Calm
    BY <1>0, <1>6 DEF Resolved, OpenSocketEvent, OpenSocketFailed
  <1>7. ASSUME NEW s \in Sockets, NEW kind \in {"known", "unknown"}, ReadGreeting(s, kind)
        PROVE  Calm
    BY <1>0, <1>4, <1>7 DEF ReadGreeting, Kinds
  <1>8. ASSUME NEW s \in Sockets, ReadTerminate(s) \/ ReadError(s)
        PROVE  LoopFaultsNeedOrphan'
    <2>1. handle[s] = "open" /\ socket \in Sockets
      BY <1>8 DEF ReadTerminate, ReadError, SocketCarried, Carried
    <2>2. CASE s = socket
      BY <1>0, <1>1, <1>8, <2>1, <2>2 DEF ReadTerminate, ReadError, Disconnect
    <2>3. CASE s # socket
      <3>1. fault' # "badSocket"
        BY <1>0, <1>8, <2>1 DEF ReadTerminate, ReadError, Disconnect
      <3>2. CASE handle'[s] \in {"open", "eof"} /\ socket' = socket
        BY <2>1, <2>3, <3>1, <3>2 DEF LoopFaultsNeedOrphan, Orphans
      <3>3. handle'[s] \in {"open", "eof"} /\ socket' = socket
        BY <1>8, <2>1, <2>3 DEF ReadTerminate, ReadError, Disconnect
      <3> QED BY <3>2, <3>3
    <2> QED BY <2>2, <2>3
  <1>9. ASSUME NEW s \in Sockets, AfterSend(s) \/ AfterCloseSocket(s) PROVE Calm
    BY <1>0, <1>9 DEF AfterSend, LogonEvent, AfterCloseSocket
  <1> HIDE DEF Calm
  <1> QED
    BY <1>1, <1>2, <1>3, <1>5, <1>6, <1>7, <1>8, <1>9
    DEF Next, Application, Opening, Reading, Completion

(* No callback and no call that tests client->state uses a socket that is not *)
(* set, and a second close needs overlapping connects.                       *)
THEOREM LoopFaultsNeedOrphanAlways == Spec => []LoopFaultsNeedOrphan
  <1>1. Init => LoopFaultsNeedOrphan
    BY DEF Init, LoopFaultsNeedOrphan
  <1>2. Inv /\ LoopFaultsNeedOrphan /\ [Next]_vars => LoopFaultsNeedOrphan'
    BY FaultStep DEF vars, LoopFaultsNeedOrphan, Orphans
  <1> QED BY <1>1, <1>2, Invariant, PTL DEF Spec

-----------------------------------------------------------------------------
(* PalClient implements PalSession: initial states are initial, and every    *)
(* step of the client is a step of the session or leaves it alone.           *)


AskedOn == {s \in Sockets : LogonDue(s)}

(* The step leaves the session alone.                                        *)
Stutter == UNCHANGED Session!svars

(* The part of the session that is a function of unchanged variables.        *)
LEMMA SameHandles ==
    ASSUME UNCHANGED <<state, socket, logged, fault, wq, handle>>
    PROVE  Stutter
  BY DEF Stutter, Session!svars, LogonDue, Running

LEMMA InitSession == Init => Session!SessionInit
  BY DEF Init, Session!SessionInit, PhaseOf, LogonDue, Running

(* A message is queued: only a logon that is accepted shows.                 *)
LEMMA SendSession ==
    ASSUME Inv, NEW kind \in Kinds, Send(kind), Running,
           kind = "logon" => state = "HANDSHAKING",
           UNCHANGED <<state, socket, handle, logged>>
    PROVE  Stutter \/ Session!Crash \/ Session!AskLogon
  <1> USE DEF Inv, TypeOK
  <1>1. CASE socket = NoSocket
    BY <1>1 DEF Send, Session!Crash, Running, LogonDue
  <1>2. CASE socket # NoSocket /\ UNCHANGED <<wq, fault>>
    BY <1>2, SameHandles
  <1>3. CASE socket \in Sockets /\ Writable(socket) /\ UNCHANGED fault
             /\ wq' = [wq EXCEPT ![socket] = Append(@, kind)]
    <2> DEFINE q == wq[socket]
    <2>0. /\ \A i \in DOMAIN q : i \in DOMAIN wq'[socket] /\ wq'[socket][i] = q[i]
          /\ \A i \in DOMAIN wq'[socket] :
                 (i \in DOMAIN q /\ wq'[socket][i] = q[i]) \/ wq'[socket][i] = kind
          /\ \E i \in DOMAIN wq'[socket] : wq'[socket][i] = kind
      <3>1. q \in Seq(Kinds) /\ wq'[socket] = Append(q, kind)
        BY <1>3
      <3> HIDE DEF q
      <3> QED BY <3>1, AppendElements
    <2>1. \A s \in Sockets \ {socket} : LogonDue(s)' = LogonDue(s)
      BY <1>3 DEF LogonDue
    <2>2. CASE kind # "logon"
      <3>1. LogonDue(socket)' = LogonDue(socket)
        BY <2>0, <2>2 DEF LogonDue
      <3> QED BY <1>3, <2>1, <3>1 DEF Stutter, Session!svars, Running
    <2>3. CASE kind = "logon"
      <3>1. LogonDue(socket)'
        BY <2>0, <2>3 DEF LogonDue
      <3>2. AskedOn' = AskedOn \cup {socket}
        BY <1>3, <2>1, <3>1 DEF AskedOn
      <3>3. PhaseOf(handle[socket]) = "up"
        BY <1>3 DEF Writable, PhaseOf
      <3> QED BY <1>3, <2>3, <3>2, <3>3 DEF AskedOn, Session!AskLogon, Running
    <2> QED BY <2>2, <2>3
  <1> QED BY <1>1, <1>2, <1>3 DEF Send

(* The client's connection is ended, or the process is.                      *)
LEMMA DisconnectSession ==
    ASSUME Inv, Running, NEW h \in [Sockets -> Handles], NEW caller,
           \/ h = handle
           \/ \E s \in Sockets \ {socket} :
                  handle[s] = "open" /\ h = [handle EXCEPT ![s] = "eof"],
           Disconnect(h, caller)
    PROVE  Session!Crash \/ Session!Leave
  <1> USE DEF Inv, TypeOK
  <1>1. \A s \in Sockets : PhaseOf(h[s]) = PhaseOf(handle[s])
    BY DEF PhaseOf
  <1>2. AskedOn' = AskedOn
    BY DEF AskedOn, LogonDue, Disconnect
  <1>3. CASE handle' = h /\ fault' # "none"
    BY <1>1, <1>2, <1>3 DEF Disconnect, Session!Crash, Running, AskedOn
  <1>4. CASE socket \in Sockets /\ h[socket] # "closing" /\ UNCHANGED fault
             /\ handle' = [h EXCEPT ![socket] = "closing"]
    <2>1. PhaseOf(handle[socket]) = "up" /\ PhaseOf("closing") = "ending"
      BY <1>4 DEF SocketCarried, PhaseOf
    <2>2. [s \in Sockets |-> PhaseOf(handle[s])]'
              = [[s \in Sockets |-> PhaseOf(handle[s])] EXCEPT ![socket] = "ending"]
      BY <1>1, <1>4, <2>1
    <2> QED BY <1>2, <1>4, <2>1, <2>2 DEF Disconnect, Session!Leave, Running, AskedOn
  <1> QED BY <1>3, <1>4 DEF Disconnect

(* A handle moves on, and nothing else that shows.                           *)
LEMMA PhaseMoves ==
    ASSUME Inv, NEW s \in Sockets, NEW h \in Handles,
           handle' = [handle EXCEPT ![s] = h], UNCHANGED wq
    PROVE  /\ [r \in Sockets |-> PhaseOf(handle[r])]'
                  = [[r \in Sockets |-> PhaseOf(handle[r])] EXCEPT ![s] = PhaseOf(h)]
           /\ AskedOn' = AskedOn
  BY DEF Inv, TypeOK, AskedOn, LogonDue

(* The oldest write of a handle is done: if it was a logon, it is answered.   *)
LEMMA AfterSendSession ==
    ASSUME Inv, Running, NEW s \in Sockets, AfterSend(s)
    PROVE  Stutter \/ \E ok \in BOOLEAN : Session!AnswerLogon(s, ok)
  <1> USE DEF Inv, TypeOK, AfterSend
  <1>1. wq[s] \in Seq(Kinds) /\ wq[s] # <<>> /\ wq'[s] = Tail(wq[s])
        /\ \A r \in Sockets \ {s} : wq'[r] = wq[r]
    OBVIOUS
  <1>2. \A r \in Sockets \ {s} : LogonDue(r)' = LogonDue(r)
    BY <1>1 DEF LogonDue
  <1>3. LogonDue(s)' => LogonDue(s)
    BY <1>1, TailElements DEF LogonDue
  <1>4. UNCHANGED handle
    BY DEF LogonEvent
  <1>5. CASE Head(wq[s]) # "logon"
    <2>1. ASSUME NEW i \in DOMAIN wq[s], wq[s][i] = "logon" PROVE LogonDue(s)'
      <3>1. i # 1
        BY <1>1, <1>5, <2>1, TailElements
      <3>2. i - 1 \in DOMAIN Tail(wq[s]) /\ Tail(wq[s])[i - 1] = "logon"
        BY <1>1, <2>1, <3>1, TailElements
      <3> QED BY <1>1, <3>2 DEF LogonDue
    <2>2. LogonDue(s)' = LogonDue(s)
      BY <1>3, <2>1 DEF LogonDue
    <2> QED BY <1>2, <1>3, <1>4, <1>5, <2>2 DEF Stutter, Session!svars, Running
  <1>6. ASSUME Head(wq[s]) = "logon", NEW ok \in BOOLEAN, LogonEvent(s, ok)
        PROVE  Session!AnswerLogon(s, ok)
    <2>1. LogonDue(s)
      BY <1>1, <1>6, TailElements DEF LogonDue
    <2>2. AskedOn' = AskedOn \/ AskedOn' = AskedOn \ {s}
      BY <1>2, <2>1 DEF AskedOn
    <2> QED BY <1>4, <1>6, <2>1, <2>2 DEF LogonEvent, Session!AnswerLogon, Running, AskedOn
  <1> QED BY <1>5, <1>6

-----------------------------------------------------------------------------
LEMMA StepSession == Inv /\ Next => [Session!SessionNext]_(Session!svars)
  <1> SUFFICES ASSUME Inv, Next PROVE Session!SessionNext \/ Stutter
    BY DEF Stutter
  <1>0. Running /\ TypeOK
    BY DEF Next, Inv
  <1>1. CASE Connect \/ ResolveFailed
    BY <1>1, SameHandles DEF Connect, ResolveFailed
  <1>2. CASE AppDisconnect
    BY <1>0, <1>2, DisconnectSession DEF AppDisconnect, TypeOK, Session!SessionNext
  <1>3. CASE Request \/ RawSend \/ TimerPingServer
    BY <1>0, <1>3, SendSession DEF Request, RawSend, TimerPingServer, Kinds, Session!SessionNext
  <1>4. ASSUME NEW s \in Sockets, Resolved(s) PROVE Session!SessionNext
    <2>1. CASE UNCHANGED handle /\ fault' = "badFormat"
      BY <1>0, <1>4, <2>1
      DEF Resolved, Session!SessionNext, Session!Crash, Running, LogonDue
    <2>2. ASSUME NEW h \in {"connecting", "lost"}, handle' = [handle EXCEPT ![s] = h],
                 UNCHANGED fault
          PROVE  Session!Begin(s)
      <3>1. h \in Handles /\ PhaseOf(h) \in {"opening", "failed"}
            /\ PhaseOf(handle[s]) = "fresh"
        BY <1>4, <2>2 DEF Handles, PhaseOf, Resolved
      <3> QED BY <1>4, <2>2, <3>1, PhaseMoves DEF Resolved, Session!Begin, AskedOn, Running
    <2> QED BY <1>0, <1>4, <2>1, <2>2 DEF Resolved, Session!SessionNext
  <1>5. ASSUME NEW s \in Sockets, OpenSocketEvent(s) PROVE Session!SessionNext
    <2>1. PhaseOf("open") = "up" /\ PhaseOf(handle[s]) = "opening" /\ "open" \in Handles
      BY <1>5 DEF PhaseOf, OpenSocketEvent, Handles
    <2>2. Session!Establish(s)
      BY <1>5, <2>1, PhaseMoves DEF OpenSocketEvent, Session!Establish, AskedOn, Running
    <2> QED BY <1>0, <2>2 DEF Session!SessionNext
  <1>6. ASSUME NEW s \in Sockets, OpenSocketFailed(s) PROVE Session!SessionNext
    <2>1. PhaseOf("failed") = "failed" /\ PhaseOf(handle[s]) = "opening" /\ "failed" \in Handles
      BY <1>6 DEF PhaseOf, OpenSocketFailed, Handles
    <2>2. Session!Fail(s)
      BY <1>6, <2>1, PhaseMoves DEF OpenSocketFailed, Session!Fail, AskedOn, Running
    <2> QED BY <1>0, <2>2 DEF Session!SessionNext
  <1>7. ASSUME NEW s \in Sockets, NEW kind \in {"known", "unknown"}, ReadGreeting(s, kind)
        PROVE  Session!SessionNext \/ Stutter
    <2>1. CASE Send("logon")
      BY <1>0, <1>7, <2>1, SendSession DEF ReadGreeting, Kinds, Session!SessionNext
    <2>2. CASE UNCHANGED <<timer, wq, fault>>
      BY <1>7, <2>2, SameHandles DEF ReadGreeting
    <2> QED BY <1>7, <2>1, <2>2 DEF ReadGreeting
  <1>8. ASSUME NEW s \in Sockets, ReadTerminate(s) PROVE Session!SessionNext
    BY <1>0, <1>8, DisconnectSession DEF ReadTerminate, TypeOK, Session!SessionNext
  <1>9. ASSUME NEW s \in Sockets, ReadError(s) PROVE Session!SessionNext
    <2>1. CASE fault' = "badFormat" /\ UNCHANGED <<state, socket, handle, wq, logged>>
      BY <1>0, <2>1 DEF Session!SessionNext, Session!Crash, Running, LogonDue
    <2>2. CASE Disconnect(IF s = socket THEN handle ELSE [handle EXCEPT ![s] = "eof"], "loop")
      <3> DEFINE h == IF s = socket THEN handle ELSE [handle EXCEPT ![s] = "eof"]
      <3>1. h \in [Sockets -> Handles]
        BY <1>0 DEF TypeOK, Handles
      <3>2. \/ h = handle
            \/ \E r \in Sockets \ {socket} :
                   handle[r] = "open" /\ h = [handle EXCEPT ![r] = "eof"]
        BY <1>9 DEF ReadError
      <3> HIDE DEF h
      <3> QED BY <1>0, <2>2, <3>1, <3>2, DisconnectSession DEF h, Session!SessionNext
    <2> QED BY <1>9, <2>1, <2>2 DEF ReadError
  <1>10. ASSUME NEW s \in Sockets, AfterSend(s) PROVE Session!SessionNext \/ Stutter
    BY <1>0, <1>10, AfterSendSession DEF Session!SessionNext
  <1>11. ASSUME NEW s \in Sockets, AfterCloseSocket(s) PROVE Session!SessionNext
    BY <1>0, <1>11
    DEF AfterCloseSocket, Session!SessionNext, Session!Crash, Running, LogonDue
  <1> QED
    BY <1>1, <1>2, <1>3, <1>4, <1>5, <1>6, <1>7, <1>8, <1>9, <1>10, <1>11
    DEF Next, Application, Opening, Reading, Completion

(* The client implements the session: what the application sees of state,    *)
(* socket and logon is what PalSession describes.                            *)
THEOREM ClientImplementsSession == Spec => ImplementsSession
  <1>1. Inv /\ [Next]_vars => [Session!SessionNext]_(Session!svars)
    <2>1. UNCHANGED vars => Stutter
      BY SameHandles DEF vars
    <2> QED BY <2>1, StepSession DEF Stutter
  <1> QED
    BY <1>1, InitSession, Invariant, PTL
    DEF Spec, ImplementsSession, Session!SessionSpec

=============================================================================
