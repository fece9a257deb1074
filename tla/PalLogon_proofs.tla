---------------------------- MODULE PalLogon_proofs ----------------------------
(***************************************************************************)
(* Proofs about what a logon carries, for every number of settings, every  *)
(* checksum and every set of handles.                                      *)
(***************************************************************************)
EXTENDS PalLogon, PalClient_proofs, FiniteSetTheorems

(* The lower half of a lower half is itself.                                 *)
LEMMA HalfOfHalf ==
    ASSUME NEW x \in Nat
    PROVE  x % HalfMod \in 0..HalfMod - 1 /\ (x % HalfMod) % HalfMod = x % HalfMod
  <1>1. HalfMod \in Nat /\ HalfMod > 0
    BY LogonAssumption
  <1>2. x % HalfMod \in 0..HalfMod - 1
    BY <1>1, Z3
  <1>3. \A y \in 0..HalfMod - 1 : y % HalfMod = y
    BY <1>1, Z3
  <1> QED BY <1>2, <1>3

(* A step with its logons is a step of the life cycle, or leaves it alone.   *)
LEMMA ClientStep == LogonNext => Next \/ UNCHANGED vars
  <1> SUFFICES ASSUME LogonNext PROVE Next \/ UNCHANGED vars
    OBVIOUS
  <1> USE DEF Next, Application, Opening, Reading, Completion
  <1>0. Running
    BY DEF LogonNext
  <1>1. CASE ConnectWithSettings \/ OXLPalClientSetParams \/ OXLPalClientLogon \/ ResolveFailedFor
    BY <1>0, <1>1, Zenon
    DEF ConnectWithSettings, OXLPalClientSetParams, OXLPalClientLogon, ResolveFailedFor
  <1>2. CASE OtherStep
    BY <1>0, <1>2, Zenon DEF OtherStep
  <1>3. ASSUME NEW s \in Sockets, ResolvedFor(s) PROVE Next
    BY <1>0, <1>3, Zenon DEF ResolvedFor
  <1>4. ASSUME NEW s \in Sockets, Echo(s) \/ Issue(s) PROVE UNCHANGED vars
    BY <1>4, Zenon DEF Echo, Issue, OXLPalClientHandleAltLogon
  <1>5. ASSUME NEW s \in Sockets, NEW kind \in {"known", "unknown"}, GreetedWithLogon(s, kind)
        PROVE  Next
    BY <1>0, <1>5, Zenon DEF GreetedWithLogon
  <1> HIDE DEF Next
  <1> QED BY <1>1, <1>2, <1>3, <1>4, <1>5, Zenon DEF LogonNext

(* What a logon carries does not change what the client does.                *)
THEOREM LogonImplementsClient == LogonSpec => Spec
  <1>1. LogonInit => Init
    BY DEF LogonInit
  <1>2. [LogonNext]_<<vars, logonVars>> => [Next]_vars
    BY ClientStep, Zenon
  <1> QED BY <1>1, <1>2, PTL DEF LogonSpec, Spec

-----------------------------------------------------------------------------
(* How the life cycle moves, as far as logons are concerned.                 *)

(* A handle that stood is never fresh again; closing one begins no connect.  *)
LEMMA DisconnectMoves ==
    ASSUME Inv, NEW h \in [Sockets -> Handles], NEW caller, Disconnect(h, caller)
    PROVE  /\ \A s \in Sockets : h[s] \in {"open", "eof", "closing"} => Carried(s)'
           /\ \A s \in Sockets : handle'[s] = "connecting" => h[s] = "connecting"
           /\ UNCHANGED <<state, socket, resolving>>
  <1>1. handle' = h \/ (socket \in Sockets /\ handle' = [h EXCEPT ![socket] = "closing"])
    BY DEF Disconnect, Inv, TypeOK
  <1>2. UNCHANGED <<state, socket, resolving>>
    BY DEF Disconnect
  <1> QED BY <1>1, <1>2 DEF Carried

LEMMA OtherStepMoves ==
    ASSUME Inv, OtherStep
    PROVE  /\ resolving' = resolving
           /\ \A s \in Sockets : Carried(s) => Carried(s)'
           /\ \A s \in Sockets : handle'[s] = "connecting" => handle[s] = "connecting"
           /\ state' = "HANDSHAKING" =>
                 \/ state = "HANDSHAKING" /\ socket' = socket
                 \/ socket' \in Sockets /\ handle[socket'] = "connecting"
  <1> USE DEF Inv, TypeOK
  <1>1. CASE AppDisconnect \/ \E s \in Sockets : ReadTerminate(s)
    <2>1. \E caller : Disconnect(handle, caller)
      BY <1>1 DEF AppDisconnect, ReadTerminate
    <2> QED BY <2>1, DisconnectMoves DEF Carried
  <1>2. ASSUME NEW s \in Sockets, ReadError(s)
        PROVE  /\ resolving' = resolving /\ UNCHANGED <<state, socket>>
               /\ \A t \in Sockets : Carried(t) => Carried(t)'
               /\ \A t \in Sockets : handle'[t] = "connecting" => handle[t] = "connecting"
    <2>1. CASE UNCHANGED <<state, socket, resolving, handle>>
      BY <2>1 DEF Carried
    <2>2. CASE Disconnect(handle, "loop")
      BY <2>2, DisconnectMoves DEF Carried
    <2>3. CASE Disconnect([handle EXCEPT ![s] = "eof"], "loop")
      <3>1. [handle EXCEPT ![s] = "eof"] \in [Sockets -> Handles]
        BY DEF Handles
      <3> QED BY <2>3, <3>1, DisconnectMoves DEF Carried
    <2> QED BY <1>2, <2>1, <2>2, <2>3 DEF ReadError
  <1>3. CASE Request \/ RawSend \/ TimerPingServer \/ \E s \in Sockets : AfterCloseSocket(s)
    <2>1. UNCHANGED <<state, socket, resolving, handle>>
      BY <1>3 DEF Request, RawSend, TimerPingServer, AfterCloseSocket
    <2> QED BY <2>1 DEF Carried
  <1>4. CASE \E s \in Sockets : AfterSend(s)
    <2>1. UNCHANGED <<socket, resolving, handle>> /\ (state' = state \/ state' # "HANDSHAKING")
      BY <1>4 DEF AfterSend, LogonEvent
    <2> QED BY <2>1 DEF Carried
  <1>5. CASE \E s \in Sockets : OpenSocketEvent(s)
    BY <1>5 DEF OpenSocketEvent, Carried
  <1>6. CASE \E s \in Sockets : OpenSocketFailed(s)
    BY <1>6 DEF OpenSocketFailed, Carried
  <1> QED BY <1>1, <1>2, <1>3, <1>4, <1>5, <1>6 DEF OtherStep

-----------------------------------------------------------------------------
LEMMA PendingFinite ==
    ASSUME LogonTypeOK
    PROVE  IsFiniteSet(pending)
  <1>1. IsFiniteSet(1..MaxSettings)
    BY FS_Interval, LogonAssumption
  <1> QED BY <1>1, FS_Subset DEF LogonTypeOK

LEMMA LogonInitInv == LogonInit => LogonInv
  <1> SUFFICES ASSUME LogonInit PROVE LogonInv
    OBVIOUS
  <1>1. Inv
    BY InitInv DEF LogonInit
  <1>2. LogonTypeOK
    <2>1. puidChanged \in BOOLEAN /\ overlap \in BOOLEAN /\ issued \in BOOLEAN
      BY Zenon DEF LogonInit
    <2>2. /\ settings \in 0..MaxSettings /\ pending = {} /\ resolving = 0 /\ logons = {}
          /\ owner \in [Sockets -> 0..MaxSettings] /\ puidCRC = InitialCRC
      BY LogonAssumption DEF LogonInit, Init
    <2> QED BY <2>1, <2>2, FS_EmptySet DEF LogonTypeOK
  <1>3. LogonsCarried /\ NoneAhead /\ HalvesOfInitial /\ OwnOrLaterSettings
    BY DEF LogonInit, LogonsCarried, NoneAhead, HalvesOfInitial, OwnOrLaterSettings
  <1>4. InStep
    BY DEF LogonInit, Init, InStep
  <1>5. OneFalseChange
    BY DEF LogonInit, OneFalseChange
  <1> QED BY <1>1, <1>2, <1>3, <1>4, <1>5 DEF LogonInv, Ledger

(* Settings are set; if that was not too late, nobody waits for others.      *)
LEMMA SetFacts ==
    ASSUME LogonInv, Set
    PROVE  /\ settings \in Nat /\ settings' = settings + 1 /\ settings' \in 1..MaxSettings
           /\ overlap' \in BOOLEAN /\ (overlap => overlap')
           /\ ~overlap' => /\ pending = {}
                           /\ \A s \in Sockets : handle[s] # "connecting"
                           /\ state # "HANDSHAKING"
  <1>1. LogonTypeOK /\ resolving \in Nat
    BY BoundsAssumption DEF LogonInv, Ledger, Inv, TypeOK
  <1>2. settings \in Nat /\ settings' = settings + 1 /\ settings' \in 1..MaxSettings
    BY <1>1, LogonAssumption DEF Set, LogonTypeOK
  <1>3. overlap' = (overlap \/ Underway) /\ overlap \in BOOLEAN
    BY <1>1 DEF Set, LogonTypeOK
  <1>4. overlap' \in BOOLEAN /\ (overlap => overlap') /\ (~overlap' => ~Underway)
    BY <1>3, Zenon DEF Underway
  <1>5. ~Underway => resolving = 0
    BY <1>1 DEF Underway
  <1>6. resolving = 0 => pending = {}
    BY <1>1, PendingFinite, FS_EmptySet DEF LogonTypeOK
  <1> QED BY <1>2, <1>4, <1>5, <1>6 DEF Underway

LEMMA ConnectLedger ==
    ASSUME LogonInv, ConnectWithSettings
    PROVE  Ledger'
  <1> USE DEF LogonInv, Ledger
  <1>0. UNCHANGED <<owner, logons, puidCRC, puidChanged, issued, state, socket, handle>>
        /\ resolving' = resolving + 1 /\ pending' = pending \cup {settings + 1}
    BY DEF ConnectWithSettings, Connect
  <1>1. Set
    BY DEF ConnectWithSettings
  <1>2. /\ settings \in Nat /\ settings' = settings + 1 /\ settings' \in 1..MaxSettings
        /\ overlap' \in BOOLEAN /\ (overlap => overlap')
    BY <1>1, SetFacts
  <1>3. ~overlap' => pending = {} /\ (\A s \in Sockets : handle[s] # "connecting")
                     /\ state # "HANDSHAKING"
    BY <1>1, SetFacts
  <1>4. Cardinality(pending') = resolving'
    <2>1. settings + 1 \notin pending
      BY <1>2 DEF NoneAhead
    <2>2. IsFiniteSet(pending) /\ Cardinality(pending) = resolving
      BY PendingFinite DEF LogonTypeOK
    <2> QED BY <1>0, <2>1, <2>2, FS_AddElement
  <1>5. LogonTypeOK'
    BY <1>0, <1>2, <1>4, LogonAssumption DEF LogonTypeOK
  <1>6. LogonsCarried' /\ HalvesOfInitial' /\ OneFalseChange'
    BY <1>0 DEF LogonsCarried, Carried, HalvesOfInitial, OneFalseChange
  <1>7. NoneAhead'
    <2>1. \A c \in pending : c \in Nat /\ c <= settings
      BY DEF LogonTypeOK, NoneAhead
    <2>2. \A s \in Sockets : owner[s] \in Nat /\ owner[s] <= settings
      BY LogonAssumption DEF LogonTypeOK, NoneAhead
    <2> QED BY <1>0, <1>2, <2>1, <2>2 DEF NoneAhead
  <1>8. InStep'
    BY <1>0, <1>2, <1>3 DEF InStep
  <1>9. OwnOrLaterSettings'
    BY <1>0, <1>2, Zenon DEF OwnOrLaterSettings
  <1> QED BY <1>5, <1>6, <1>7, <1>8, <1>9

LEMMA SetParamsLedger ==
    ASSUME LogonInv, OXLPalClientSetParams
    PROVE  Ledger'
  <1> USE DEF LogonInv, Ledger
  <1>0. UNCHANGED <<owner, logons, puidCRC, puidChanged, issued, state, socket, handle,
                    resolving, pending>>
    BY DEF OXLPalClientSetParams, vars
  <1>1. Set
    BY DEF OXLPalClientSetParams
  <1>2. /\ settings \in Nat /\ settings' = settings + 1 /\ settings' \in 1..MaxSettings
        /\ overlap' \in BOOLEAN /\ (overlap => overlap')
    BY <1>1, SetFacts
  <1>3. ~overlap' => pending = {} /\ (\A s \in Sockets : handle[s] # "connecting")
                     /\ state # "HANDSHAKING"
    BY <1>1, SetFacts
  <1>5. LogonTypeOK'
    BY <1>0, <1>2, LogonAssumption DEF LogonTypeOK
  <1>6. LogonsCarried' /\ HalvesOfInitial' /\ OneFalseChange'
    BY <1>0 DEF LogonsCarried, Carried, HalvesOfInitial, OneFalseChange
  <1>7. NoneAhead'
    <2>1. \A c \in pending : c \in Nat /\ c <= settings
      BY DEF LogonTypeOK, NoneAhead
    <2>2. \A s \in Sockets : owner[s] \in Nat /\ owner[s] <= settings
      BY LogonAssumption DEF LogonTypeOK, NoneAhead
    <2> QED BY <1>0, <1>2, <2>1, <2>2 DEF NoneAhead
  <1>8. InStep'
    BY <1>0, <1>2, <1>3 DEF InStep
  <1>9. OwnOrLaterSettings'
    BY <1>0, <1>2, Zenon DEF OwnOrLaterSettings
  <1> QED BY <1>5, <1>6, <1>7, <1>8, <1>9

(* A handle gets its owner while it is fresh, hence before it has a logon.   *)
LEMMA ResolvedLedger ==
    ASSUME LogonInv, NEW s \in Sockets, ResolvedFor(s)
    PROVE  Ledger'
  <1> USE DEF LogonInv, Ledger
  <1>0. /\ UNCHANGED <<settings, logons, puidCRC, puidChanged, overlap, issued, state, socket>>
        /\ resolving' = resolving - 1 /\ handle[s] = "unused"
    BY DEF ResolvedFor, Resolved
  <1>1. PICK c \in pending : pending' = pending \ {c} /\ owner' = [owner EXCEPT ![s] = c]
    BY DEF ResolvedFor
  <1>2. handle \in [Sockets -> Handles]
    BY DEF Inv, TypeOK
  <1>3. \A t \in Sockets \ {s} : handle'[t] = handle[t] /\ owner'[t] = owner[t]
    BY <1>1, <1>2 DEF ResolvedFor, Resolved
  <1>4. c \in 1..MaxSettings /\ c <= settings /\ owner'[s] = c
    BY <1>1 DEF LogonTypeOK, NoneAhead
  <1>5. Cardinality(pending') = resolving'
    <2>1. IsFiniteSet(pending) /\ Cardinality(pending) = resolving
      BY PendingFinite DEF LogonTypeOK
    <2> QED BY <1>0, <1>1, <2>1, FS_RemoveElement
  <1>6. LogonTypeOK'
    <2>1. owner' \in [Sockets -> 0..MaxSettings]
      BY <1>1, <1>4, LogonAssumption DEF LogonTypeOK
    <2> QED BY <1>0, <1>1, <1>5, <2>1 DEF LogonTypeOK
  <1>7. \A l \in logons : l.on \in Sockets \ {s}
    BY <1>0 DEF LogonsCarried, Carried, LogonTypeOK
  <1>8. LogonsCarried'
    BY <1>0, <1>3, <1>7 DEF LogonsCarried, Carried
  <1>9. NoneAhead'
    BY <1>0, <1>1, <1>3, <1>4 DEF NoneAhead
  <1>10. InStep'
    <2> SUFFICES ASSUME ~overlap PROVE InStep'
      BY <1>0 DEF InStep
    <2>1. c = settings /\ \A d \in pending : d = settings
      BY <1>1 DEF InStep
    <2>2. state = "HANDSHAKING" => socket \in Sockets \ {s}
      BY <1>0, SocketsAssumption DEF Inv, TypeOK, SocketCarried
    <2> QED BY <1>0, <1>1, <1>3, <1>4, <2>1, <2>2 DEF InStep
  <1>11. HalvesOfInitial' /\ OneFalseChange'
    BY <1>0 DEF HalvesOfInitial, OneFalseChange
  <1>12. OwnOrLaterSettings'
    BY <1>0, <1>3, <1>7, Zenon DEF OwnOrLaterSettings
  <1> QED BY <1>6, <1>8, <1>9, <1>10, <1>11, <1>12

LEMMA ResolveFailedLedger ==
    ASSUME LogonInv, ResolveFailedFor
    PROVE  Ledger'
  <1> USE DEF LogonInv, Ledger
  <1>0. /\ UNCHANGED <<settings, owner, logons, puidCRC, puidChanged, overlap, issued, state,
                       socket, handle>>
        /\ resolving' = resolving - 1
    BY DEF ResolveFailedFor, ResolveFailed
  <1>1. PICK c \in pending : pending' = pending \ {c}
    BY DEF ResolveFailedFor
  <1>2. Cardinality(pending') = resolving'
    <2>1. IsFiniteSet(pending) /\ Cardinality(pending) = resolving
      BY PendingFinite DEF LogonTypeOK
    <2> QED BY <1>0, <1>1, <2>1, FS_RemoveElement
  <1>3. LogonTypeOK'
    BY <1>0, <1>1, <1>2 DEF LogonTypeOK
  <1>4. LogonsCarried' /\ HalvesOfInitial' /\ OneFalseChange' /\ OwnOrLaterSettings'
    BY <1>0 DEF LogonsCarried, Carried, HalvesOfInitial, OneFalseChange, OwnOrLaterSettings
  <1>5. NoneAhead' /\ InStep'
    BY <1>0, <1>1 DEF NoneAhead, InStep
  <1> QED BY <1>3, <1>4, <1>5

(* A logon is queued: it is on the client's handle, has the settings in the   *)
(* client and the lower half of its checksum.                                *)
LEMMA LogsLedger ==
    ASSUME LogonInv, NEW kind \in {"answer", "call"}, Logs(kind),
           UNCHANGED <<settings, pending, owner, puidCRC, puidChanged, overlap, issued>>,
           UNCHANGED <<resolving, handle, state, socket>>,
           kind = "answer" => state = "HANDSHAKING"
    PROVE  Ledger'
  <1> USE DEF LogonInv, Ledger
  <1>1. NoneAhead' /\ InStep' /\ OneFalseChange'
    BY DEF NoneAhead, InStep, OneFalseChange
  <1>2. CASE logons' = logons
    BY <1>1, <1>2 DEF LogonTypeOK, LogonsCarried, Carried, HalvesOfInitial, OwnOrLaterSettings
  <1>3. CASE logons' = logons \cup {LogonMsg(kind)} /\ socket # NoSocket /\ Writable(socket)
    <2>1. socket \in Sockets /\ Carried(socket)
      BY <1>3 DEF Inv, TypeOK, Writable, Carried
    <2>2. puidCRC \in Nat /\ InitialCRC \in Nat
      BY LogonAssumption DEF LogonTypeOK
    <2>3. puidCRC % HalfMod \in 0..HalfMod - 1
      BY <2>2, HalfOfHalf
    <2> DEFINE m == LogonMsg(kind)
    <2>4. m.on = socket /\ m.kind = kind /\ m.by = settings /\ m.puidCRC = puidCRC % HalfMod
      BY DEF LogonMsg
    <2>5. m \in [on : Sockets, kind : {"answer", "call"},
                 by : 0..MaxSettings, puidCRC : 0..HalfMod - 1]
      BY <2>1, <2>3 DEF LogonMsg, LogonTypeOK
    <2> HIDE DEF m
    <2>6. LogonTypeOK'
      <3>1. logons' \subseteq [on : Sockets, kind : {"answer", "call"},
                              by : 0..MaxSettings, puidCRC : 0..HalfMod - 1]
        BY <1>3, <2>5, Zenon DEF LogonTypeOK, m
      <3> QED BY <3>1 DEF LogonTypeOK
    <2>7. LogonsCarried'
      BY <1>3, <2>1, <2>4 DEF LogonsCarried, Carried, m
    <2>8. HalvesOfInitial'
      <3>1. ~issued => m.puidCRC = InitialCRC % HalfMod
        BY <2>2, <2>4, HalfOfHalf DEF OneFalseChange
      <3> QED BY <1>3, <3>1 DEF HalvesOfInitial, m
    <2>9. OwnOrLaterSettings'
      <3>1. m.by >= owner[m.on]
        BY <2>1, <2>4, LogonAssumption DEF NoneAhead, LogonTypeOK
      <3>2. ~overlap /\ m.kind = "answer" => m.by = owner[m.on]
        BY <2>4 DEF InStep
      <3> QED BY <1>3, <3>1, <3>2, Zenon DEF OwnOrLaterSettings, m
    <2> QED BY <1>1, <2>6, <2>7, <2>8, <2>9
  <1> QED BY <1>2, <1>3 DEF Logs

(* A reply to a logon: if it gives back what a logon carried, it is the half  *)
(* of the first checksum.                                                    *)
LEMMA ReplyLedger ==
    ASSUME LogonInv, NEW s \in Sockets, Echo(s) \/ Issue(s)
    PROVE  Ledger'
  <1> USE DEF LogonInv, Ledger
  <1>1. PICK crc \in ServerCRCs \cup 0..HalfMod - 1 :
            /\ OXLPalClientHandleAltLogon(s, crc)
            /\ issued' \/ (issued' = issued /\ (~issued => crc = InitialCRC % HalfMod))
            /\ issued' \in BOOLEAN
    BY DEF Echo, Issue, LogonTypeOK, HalvesOfInitial
  <1>2. /\ UNCHANGED <<settings, pending, owner, logons, overlap>>
        /\ UNCHANGED <<resolving, handle, state, socket>>
        /\ puidCRC' = crc
        /\ puidChanged' = (puidChanged \/ crc # puidCRC)
    BY <1>1 DEF OXLPalClientHandleAltLogon, vars
  <1>3. puidChanged' \in BOOLEAN
    BY <1>2, Zenon
  <1>4. LogonTypeOK'
    BY <1>1, <1>2, <1>3 DEF LogonTypeOK
  <1>5. LogonsCarried' /\ NoneAhead' /\ InStep' /\ OwnOrLaterSettings'
    BY <1>2 DEF LogonsCarried, Carried, NoneAhead, InStep, OwnOrLaterSettings
  <1>6. CASE issued'
    BY <1>4, <1>5, <1>6 DEF HalvesOfInitial, OneFalseChange
  <1>7. CASE ~issued' /\ ~issued /\ crc = InitialCRC % HalfMod
    <2>1. HalvesOfInitial'
      BY <1>2, <1>7 DEF HalvesOfInitial
    <2>2. puidCRC \in {InitialCRC, crc} /\ (puidChanged <=> puidCRC # InitialCRC)
      BY <1>7 DEF OneFalseChange
    <2>3. puidChanged' <=> puidCRC' # InitialCRC
      BY <1>2, <2>2, Zenon
    <2>4. OneFalseChange'
      BY <1>2, <1>7, <2>3 DEF OneFalseChange
    <2> QED BY <1>4, <1>5, <2>1, <2>4
  <1> QED BY <1>1, <1>6, <1>7

LEMMA OtherLedger ==
    ASSUME LogonInv, OtherStep \/ UNCHANGED <<vars, logonVars>>
    PROVE  Ledger'
  <1> USE DEF LogonInv, Ledger
  <1>1. UNCHANGED <<settings, pending, owner, logons, puidCRC, puidChanged, overlap, issued>>
    BY DEF OtherStep, logonVars
  <1>2. /\ resolving' = resolving
        /\ \A s \in Sockets : Carried(s) => Carried(s)'
        /\ \A s \in Sockets : handle'[s] = "connecting" => handle[s] = "connecting"
        /\ state' = "HANDSHAKING" =>
              \/ state = "HANDSHAKING" /\ socket' = socket
              \/ socket' \in Sockets /\ handle[socket'] = "connecting"
    <2>1. CASE OtherStep
      BY <2>1, OtherStepMoves
    <2>2. CASE UNCHANGED vars
      BY <2>2 DEF vars, Carried
    <2> QED BY <2>1, <2>2
  <1>3. LogonTypeOK' /\ NoneAhead' /\ HalvesOfInitial' /\ OwnOrLaterSettings' /\ OneFalseChange'
    BY <1>1, <1>2
    DEF LogonTypeOK, NoneAhead, HalvesOfInitial, OwnOrLaterSettings, OneFalseChange
  <1>4. LogonsCarried'
    BY <1>1, <1>2 DEF LogonsCarried, LogonTypeOK
  <1>5. InStep'
    BY <1>1, <1>2 DEF InStep
  <1> QED BY <1>3, <1>4, <1>5

LEMMA LogonInvNext == LogonInv /\ [LogonNext]_<<vars, logonVars>> => LogonInv'
  <1> SUFFICES ASSUME LogonInv, [LogonNext]_<<vars, logonVars>> PROVE LogonInv'
    OBVIOUS
  <1>1. Inv'
    <2>1. [Next]_vars
      BY ClientStep, Zenon
    <2> QED BY <2>1, InvNext DEF LogonInv
  <1>2. CASE ConnectWithSettings
    BY <1>1, <1>2, ConnectLedger DEF LogonInv
  <1>3. CASE OXLPalClientSetParams
    BY <1>1, <1>3, SetParamsLedger DEF LogonInv
  <1>4. CASE OXLPalClientLogon
    <2>1. Logs("call") /\ UNCHANGED <<resolving, handle, state, socket>>
          /\ UNCHANGED <<settings, pending, owner, puidCRC, puidChanged, overlap, issued>>
      BY <1>4 DEF OXLPalClientLogon, RawSend
    <2> QED BY <1>1, <2>1, LogsLedger DEF LogonInv
  <1>5. CASE ResolveFailedFor
    BY <1>1, <1>5, ResolveFailedLedger DEF LogonInv
  <1>6. CASE OtherStep \/ UNCHANGED <<vars, logonVars>>
    BY <1>1, <1>6, OtherLedger DEF LogonInv
  <1>7. ASSUME NEW s \in Sockets, ResolvedFor(s) PROVE LogonInv'
    BY <1>1, <1>7, ResolvedLedger DEF LogonInv
  <1>8. ASSUME NEW s \in Sockets, Echo(s) \/ Issue(s) PROVE LogonInv'
    BY <1>1, <1>8, ReplyLedger DEF LogonInv
  <1>9. ASSUME NEW s \in Sockets, NEW kind \in {"known", "unknown"}, GreetedWithLogon(s, kind)
        PROVE  LogonInv'
    <2>1. UNCHANGED <<resolving, handle, state, socket>> /\ state = "HANDSHAKING"
          /\ UNCHANGED <<settings, pending, owner, puidCRC, puidChanged, overlap, issued>>
      BY <1>9 DEF GreetedWithLogon, ReadGreeting
    <2>2. CASE Logs("answer")
      BY <1>1, <2>1, <2>2, LogsLedger DEF LogonInv
    <2>3. CASE UNCHANGED logons
      BY <1>1, <2>1, <2>3
      DEF LogonInv, Ledger, LogonTypeOK, LogonsCarried, Carried, NoneAhead, InStep,
          HalvesOfInitial, OwnOrLaterSettings, OneFalseChange
    <2> QED BY <1>9, <2>2, <2>3 DEF GreetedWithLogon
  <1> QED BY <1>2, <1>3, <1>4, <1>5, <1>6, <1>7, <1>8, <1>9 DEF LogonNext

-----------------------------------------------------------------------------
(* What is known of settings, handles and logons holds in every state.       *)
THEOREM LogonInvariant == LogonSpec => []LogonInv
  BY LogonInitInv, LogonInvNext, PTL DEF LogonSpec

(* Settings, logons and checksums keep their types, and every pending Connect *)
(* has its resolution.                                                       *)
THEOREM LogonTypeCorrect == LogonSpec => []LogonTypeOK
  <1>1. LogonInv => LogonTypeOK
    BY DEF LogonInv, Ledger
  <1> QED BY <1>1, LogonInvariant, PTL

(* Nobody is logged on with the settings of an earlier Connect, and, unless   *)
(* settings were set too late, with none but those of the own one.           *)
THEOREM OwnOrLaterAlways == LogonSpec => []OwnOrLaterSettings
  <1>1. LogonInv => OwnOrLaterSettings
    BY DEF LogonInv, Ledger
  <1> QED BY <1>1, LogonInvariant, PTL

(* A server that issues no checksum of its own changes the client's once at   *)
(* most.                                                                     *)
THEOREM OneFalseChangeAlways == LogonSpec => []OneFalseChange
  <1>1. LogonInv => OneFalseChange
    BY DEF LogonInv, Ledger
  <1> QED BY <1>1, LogonInvariant, PTL
=============================================================================
