-------------------------- MODULE PalKeepAlive_proofs --------------------------
(***************************************************************************)
(* Proofs of the keep-alive properties, for every set of delays and every  *)
(* width of the millisecond counter.                                       *)
(***************************************************************************)
EXTENDS PalKeepAlive, TLAPS

(* A wrapped product is never more than the product.                         *)
LEMMA WrappedIsLess ==
    ASSUME NEW n \in Nat
    PROVE  n % Wrap \in 0..n
  <1>1. Wrap \in Nat /\ Wrap > 0
    BY KeepAliveAssumption
  <1> QED BY <1>1, Z3

LEMMA MillisecondsBounded ==
    ASSUME NEW sec \in Nat
    PROVE  /\ PerSecond * sec \in Nat
           /\ Milliseconds(sec) \in Nat
           /\ Milliseconds(sec) <= PerSecond * sec
  <1>1. PerSecond * sec \in Nat
    BY KeepAliveAssumption
  <1>2. Milliseconds(sec) \in 0..(PerSecond * sec)
    BY <1>1, WrappedIsLess DEF Milliseconds
  <1> QED BY <1>1, <1>2

LEMMA InitInv == Init => Inv
  <1>1. PerSecond * 0 = 0 /\ 0 % Wrap = 0
    BY KeepAliveAssumption, Z3
  <1>2. Milliseconds(0) = 0
    BY <1>1 DEF Milliseconds
  <1> SUFFICES ASSUME Init PROVE Inv
    OBVIOUS
  <1>3. TypeOK
    <2>1. open \in BOOLEAN /\ logon \in BOOLEAN /\ armed \in BOOLEAN
      BY Zenon DEF Init
    <2>2. /\ left \in Nat /\ repeat \in Nat /\ interval \in Nat
          /\ silence \in Nat /\ pings \in 0..2
      BY DEF Init
    <2> QED BY <2>1, <2>2 DEF Init, TypeOK
  <1>4. repeat = Milliseconds(interval)
    BY <1>2 DEF Init
  <1>5. ~open /\ OnePingWithoutInterval
    BY DEF Init, OnePingWithoutInterval
  <1> QED BY <1>3, <1>4, <1>5 DEF Inv

(* A message keeps an open connection's timer in its bounds: a timer that     *)
(* repeats is pushed back to a whole interval, any other is left alone.      *)
LEMMA SubmitInv ==
    ASSUME Inv, Submit, state' = state, open' = open, logon' \in BOOLEAN,
           UNCHANGED <<repeat, interval, pings>>
    PROVE  Inv'
  <1>1. CASE repeat = 0
    BY <1>1 DEF Inv, TypeOK, Submit, Again, OnePingWithoutInterval, Milliseconds
  <1>2. CASE repeat # 0
    BY <1>2 DEF Inv, TypeOK, Submit, Again, OnePingWithoutInterval, Milliseconds
  <1> QED BY <1>1, <1>2

LEMMA OpenSocketEventInv == Inv /\ OpenSocketEvent => Inv'
  <1> SUFFICES ASSUME Inv, OpenSocketEvent PROVE Inv'
    OBVIOUS
  <1>1. PICK delay \in Seconds, sec \in Seconds :
            left' = Milliseconds(delay) /\ repeat' = Milliseconds(sec) /\ interval' = sec
    BY DEF OpenSocketEvent
  <1>2. Milliseconds(delay) \in Nat /\ Milliseconds(sec) \in Nat /\ sec \in Nat
    BY KeepAliveAssumption, MillisecondsBounded
  <1>3. Milliseconds(interval)' = Milliseconds(sec)
    BY <1>1 DEF Milliseconds
  <1>4. TypeOK'
    BY <1>1, <1>2 DEF Inv, TypeOK, OpenSocketEvent
  <1> QED BY <1>1, <1>3, <1>4 DEF Inv, OpenSocketEvent, OnePingWithoutInterval

(* The timer that fires pings in CONNECTED; there or not, one that repeats is *)
(* armed again and one that does not is done with.                           *)
LEMMA TimerInv == Inv /\ TimerPingServer => Inv'
  <1> SUFFICES ASSUME Inv, TimerPingServer PROVE Inv'
    OBVIOUS
  <1>1. TypeOK'
    BY DEF Inv, TypeOK, TimerPingServer
  <1>2. UNCHANGED <<state, open, logon, repeat, interval>> /\ left' = repeat
        /\ armed' = (repeat # 0)
    BY DEF TimerPingServer
  <1>3. Milliseconds(interval)' = Milliseconds(interval)
    BY <1>2 DEF Milliseconds
  <1>4. state = "CONNECTED" => silence' = 0
    BY DEF TimerPingServer
  <1>5. repeat = 0 /\ open => pings = 0 /\ pings' \in 0..1
    BY DEF Inv, TypeOK, OnePingWithoutInterval, TimerPingServer
  <1>6. OnePingWithoutInterval'
    <2> SUFFICES ASSUME open', Milliseconds(interval)' = 0
                 PROVE  pings' <= 1 /\ ~armed'
      BY DEF OnePingWithoutInterval
    <2>1. open /\ repeat = 0
      BY <1>2, <1>3 DEF Inv
    <2>2. ~armed'
      BY <1>2, <2>1, Zenon
    <2> QED BY <1>5, <2>1, <2>2
  <1> QED BY <1>1, <1>2, <1>3, <1>4, <1>6 DEF Inv, TypeOK

LEMMA InvNext == Inv /\ [Next]_vars => Inv'
  <1> SUFFICES ASSUME Inv, [Next]_vars PROVE Inv'
    OBVIOUS
  <1>1. CASE OpenSocketEvent
    BY <1>1, OpenSocketEventInv
  <1>2. CASE Greeted
    BY <1>2, SubmitInv DEF Greeted
  <1>3. CASE LogonEvent
    <2>1. UNCHANGED <<open, armed, left, repeat, interval, pings>> /\ logon /\ ~logon'
      BY <1>3, Zenon DEF LogonEvent
    <2>2. Milliseconds(interval)' = Milliseconds(interval)
      BY <2>1 DEF Milliseconds
    <2>3. TypeOK'
      BY <1>3 DEF LogonEvent, Inv, TypeOK
    <2>4. silence' = 0
      BY <1>3 DEF LogonEvent
    <2>5. OnePingWithoutInterval'
      BY <2>1, <2>2 DEF Inv, OnePingWithoutInterval
    <2>6. open /\ repeat # 0 => left <= repeat
      BY <2>1 DEF Inv
    <2> QED BY <2>1, <2>2, <2>3, <2>4, <2>5, <2>6 DEF Inv, TypeOK
  <1>4. CASE Request
    BY <1>4, SubmitInv DEF Request, Inv, TypeOK
  <1>5. CASE TimerPingServer
    BY <1>5, TimerInv
  <1>6. CASE Disconnect
    BY <1>6 DEF Disconnect, Inv, TypeOK, OnePingWithoutInterval, Milliseconds
  <1>7. CASE Tick
    BY <1>7 DEF Tick, Inv, TypeOK, OnePingWithoutInterval, Milliseconds
  <1>8. CASE UNCHANGED vars
    BY <1>8 DEF vars, Inv, TypeOK, OnePingWithoutInterval, Milliseconds
  <1> QED BY <1>1, <1>2, <1>3, <1>4, <1>5, <1>6, <1>7, <1>8 DEF Next

-----------------------------------------------------------------------------
(* The inductive invariant of the timer holds in every reachable state.      *)
THEOREM Invariant == Spec => []Inv
  BY InitInv, InvNext, PTL DEF Spec

(* A connected client is heard at least once in every interval, whatever the  *)
(* delays, the width they wrap at and the moment the server greets.          *)
THEOREM SilenceAlwaysBounded == Spec => []SilenceBounded
  <1>1. Inv => SilenceBounded
    <2> SUFFICES ASSUME Inv, open, state = "CONNECTED", Milliseconds(interval) # 0
                 PROVE  silence <= PerSecond * interval
      BY DEF SilenceBounded
    <2>1. PerSecond * interval \in Nat /\ Milliseconds(interval) <= PerSecond * interval
      BY MillisecondsBounded DEF Inv, TypeOK
    <2>2. silence + left <= repeat /\ repeat <= PerSecond * interval
      BY <2>1 DEF Inv
    <2>3. silence \in Nat /\ left \in Nat /\ repeat \in Nat
      BY DEF Inv, TypeOK
    <2>4. silence <= repeat
      BY <2>2, <2>3
    <2> QED BY <2>1, <2>2, <2>3, <2>4
  <1> QED BY <1>1, Invariant, PTL

(* A timer that does not repeat pings once at most, for any number of         *)
(* messages and any way its interval came to be 0.                           *)
THEOREM OnePingAlways == Spec => []OnePingWithoutInterval
  <1>1. Inv => OnePingWithoutInterval
    BY DEF Inv
  <1> QED BY <1>1, Invariant, PTL
=============================================================================
