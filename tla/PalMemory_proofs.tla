--------------------------- MODULE PalMemory_proofs ---------------------------
(***************************************************************************)
(* Proofs about the memory of the callback layer, for every set of handles *)
(* and every bound: with its memory the client still behaves as PalClient, *)
(* and what is allocated stays accounted for.                              *)
(***************************************************************************)
EXTENDS PalMemory, PalClient_proofs

(* A step with memory is a step of the life cycle, or leaves it alone.       *)
LEMMA ClientStep == MemoryNext => Next \/ UNCHANGED vars
  <1> SUFFICES ASSUME MemoryNext PROVE Next \/ UNCHANGED vars
    OBVIOUS
  <1> USE DEF Next, Application, Opening, Reading, Completion
  <1>0. Running
    BY DEF MemoryNext
  <1>1. CASE ConnectMemory \/ ResolveFailedMemory \/ SendMemory \/ OXLDestroyPalClient
    BY <1>0, <1>1, Zenon
    DEF ConnectMemory, ResolveFailedMemory, SendMemory, OXLDestroyPalClient
  <1>2. ASSUME NEW s \in Sockets, ResolvedMemory(s) \/ OpenedMemory(s) \/ AfterSendMemory(s)
        PROVE  Next
    BY <1>0, <1>2, Zenon DEF ResolvedMemory, OpenedMemory, AfterSendMemory
  <1>3. ASSUME NEW s \in Sockets, NEW kind \in {"known", "unknown"}, ReadGreetingMemory(s, kind)
        PROVE  Next
    BY <1>0, <1>3, Zenon DEF ReadGreetingMemory
  <1>4. ASSUME NEW s \in Sockets, OtherMemory(s) \/ DestroyInDisconnectEvent(s)
        PROVE  Next
    BY <1>0, <1>4, Zenon DEF OtherMemory, DestroyInDisconnectEvent
  <1>5. ASSUME NEW s \in Sockets, DestroyInMessageEvent(s)
        PROVE  UNCHANGED vars
    BY <1>5, Zenon DEF DestroyInMessageEvent
  <1>6. CASE LateCallback
    BY <1>6, Zenon DEF LateCallback
  <1>7. ASSUME NEW s \in Sockets, LateWrite(s) \/ LateClose(s)
        PROVE  Next
    BY <1>0, <1>7, Zenon DEF LateWrite, LateClose, AfterSendMemory
  <1> HIDE DEF Next
  <1> QED BY <1>1, <1>2, <1>3, <1>4, <1>5, <1>6, <1>7, Zenon
          DEF MemoryNext, WithClient, WithoutClient

(* With its memory, the client makes no step that PalClient does not know.    *)
THEOREM MemoryImplementsClient == MemorySpec => Spec
  <1>1. MemoryInit => Init
    BY DEF MemoryInit
  <1>2. [MemoryNext]_<<vars, memVars>> => [Next]_vars
    BY ClientStep, Zenon
  <1> QED BY <1>1, <1>2, PTL DEF MemorySpec, Spec

-----------------------------------------------------------------------------
LEMMA MemoryInitInv == MemoryInit => MemoryInv
  <1> SUFFICES ASSUME MemoryInit PROVE MemoryInv
    OBVIOUS
  <1>1. Inv
    BY InitInv DEF MemoryInit
  <1>2. MemoryTypeOK
    <2>1. gone \in BOOLEAN /\ harmed \in BOOLEAN /\ orderly \in BOOLEAN
      BY Zenon DEF MemoryInit
    <2>2. /\ resolvers \in 0..MaxConnects /\ resolveBatons \in Nat /\ unresolved \in Nat
          /\ connectBatons \in [Sockets -> 0..1]
          /\ writeBatons \in [Sockets -> Nat] /\ stranded \in [Sockets -> Nat]
      BY MemoryAssumption DEF MemoryInit
    <2> QED BY <2>1, <2>2 DEF MemoryTypeOK
  <1>3. Accounting
    BY DEF MemoryInit, Init, Accounting
  <1>4. RefusedWriteRearms /\ OrderlyRest
    BY DEF MemoryInit, Init, RefusedWriteRearms, OrderlyRest
  <1> QED BY <1>1, <1>2, <1>3, <1>4 DEF MemoryInv

(* A connect: one baton more for one resolution more, due or refused.        *)
LEMMA ConnectAccounting ==
    ASSUME MemoryInv, Running, ~gone, ConnectMemory
    PROVE  MemoryTypeOK' /\ Accounting'
  <1> USE DEF MemoryInv, Inv, TypeOK, ends
  <1>1. MemoryTypeOK'
    BY MemoryAssumption DEF MemoryTypeOK, ConnectMemory
  <1>2. resolving \in Nat /\ unresolved \in Nat /\ resolveBatons = resolving + unresolved
    BY BoundsAssumption DEF Accounting, MemoryTypeOK
  <1>3. resolveBatons' = resolveBatons + 1
        /\ UNCHANGED <<handle, wq, connectBatons, writeBatons, stranded>>
    BY DEF ConnectMemory, Connect, vars
  <1>4. \/ resolving' = resolving + 1 /\ unresolved' = unresolved
        \/ resolving' = resolving /\ unresolved' = unresolved + 1
    BY DEF ConnectMemory, Connect, vars
  <1>5. resolveBatons' = resolving' + unresolved'
    BY <1>2, <1>3, <1>4
  <1> QED BY <1>1, <1>3, <1>5 DEF Accounting

(* A resolution is over: its baton is gone, and a handle brings one of its own. *)
LEMMA ResolvedAccounting ==
    ASSUME MemoryInv, Running, NEW s \in Sockets, ResolvedMemory(s) \/ ResolveFailedMemory
    PROVE  MemoryTypeOK' /\ Accounting'
  <1> USE DEF MemoryInv, Inv, TypeOK, ends
  <1>0. resolving > 0 => resolveBatons - 1 \in Nat
    BY DEF Accounting, MemoryTypeOK
  <1>1. CASE ResolvedMemory(s)
    <2>1. connectBatons[s] = 0 /\ resolving > 0
      BY <1>1 DEF ResolvedMemory, Resolved, Accounting
    <2>2. MemoryTypeOK'
      BY <1>0, <1>1, <2>1 DEF MemoryTypeOK, ResolvedMemory
    <2>3. CASE fault' # "none"
      BY <2>2, <2>3 DEF Accounting, Running
    <2>4. CASE fault' = "none"
      <3>1. PICK h \in {"connecting", "lost"} : handle' = [handle EXCEPT ![s] = h]
        BY <1>1, <2>4 DEF ResolvedMemory, Resolved
      <3>2. resolveBatons' = resolving' + unresolved'
        BY <1>1, <2>1 DEF ResolvedMemory, Resolved, Accounting, MemoryTypeOK
      <3>3. \A t \in Sockets : writeBatons'[t] = Len(wq'[t]) + stranded'[t]
        BY <1>1 DEF ResolvedMemory, Resolved, Accounting
      <3>4. \A t \in Sockets :
              connectBatons'[t] = IF handle'[t] \in {"connecting", "lost"} THEN 1 ELSE 0
        BY <1>1, <2>1, <3>1 DEF ResolvedMemory, Accounting, MemoryTypeOK
      <3> QED BY <2>2, <3>2, <3>3, <3>4 DEF Accounting
    <2> QED BY <2>3, <2>4
  <1>2. CASE ResolveFailedMemory
    <2>1. MemoryTypeOK'
      BY <1>0, <1>2 DEF MemoryTypeOK, ResolveFailedMemory, ResolveFailed
    <2>2. Accounting'
      BY <1>2 DEF ResolveFailedMemory, ResolveFailed, Accounting, MemoryTypeOK
    <2> QED BY <2>1, <2>2
  <1> QED BY <1>1, <1>2

(* A connect is over, well or not: its baton is gone.                        *)
LEMMA OpenedAccounting ==
    ASSUME MemoryInv, Running, NEW s \in Sockets, OpenedMemory(s)
    PROVE  MemoryTypeOK' /\ Accounting'
  <1> USE DEF MemoryInv, Inv, TypeOK, ends
  <1>1. PICK h \in {"open", "failed"} :
            handle[s] = "connecting" /\ handle' = [handle EXCEPT ![s] = h]
    BY DEF OpenedMemory, OpenSocketEvent, OpenSocketFailed
  <1>2. UNCHANGED <<resolving, wq>>
    BY DEF OpenedMemory, OpenSocketEvent, OpenSocketFailed
  <1>3. connectBatons[s] = 1
    BY <1>1 DEF Accounting
  <1>4. MemoryTypeOK'
    BY <1>3 DEF MemoryTypeOK, OpenedMemory
  <1>5. \A t \in Sockets :
          connectBatons'[t] = IF handle'[t] \in {"connecting", "lost"} THEN 1 ELSE 0
    BY <1>1, <1>3 DEF OpenedMemory, Accounting, MemoryTypeOK
  <1>6. Running' => resolveBatons' = resolving' + unresolved'
                    /\ \A t \in Sockets : writeBatons'[t] = Len(wq'[t]) + stranded'[t]
    BY <1>2 DEF OpenedMemory, Accounting
  <1> QED BY <1>4, <1>5, <1>6 DEF Accounting

(* A message is submitted: its baton is for the write that is queued, or for  *)
(* the one that was refused.                                                *)
LEMMA SubmittedAccounting ==
    ASSUME MemoryInv, Running, NEW kind \in Kinds, Send(kind), Submitted,
           UNCHANGED <<resolving, handle>>
    PROVE  MemoryTypeOK' /\ Accounting'
  <1> USE DEF MemoryInv, Inv, TypeOK, ends
  <1>1. CASE socket = NoSocket
    BY <1>1 DEF Submitted, Send, MemoryTypeOK, Accounting, Running
  <1>2. CASE socket \in Sockets
    <2>0. socket # NoSocket
      BY <1>2, SocketsAssumption
    <2>1. /\ writeBatons' = [writeBatons EXCEPT ![socket] = @ + 1]
          /\ stranded' = [stranded EXCEPT ![socket] = IF Writable(socket) THEN @ ELSE @ + 1]
          /\ UNCHANGED <<gone, harmed, orderly, resolvers, resolveBatons, connectBatons, unresolved>>
      BY <2>0 DEF Submitted
    <2>2. MemoryTypeOK'
      BY <1>2, <2>1 DEF MemoryTypeOK
    <2>3. ASSUME NEW t \in Sockets
          PROVE  writeBatons'[t] = Len(wq'[t]) + stranded'[t]
      <3>1. wq[t] \in Seq(Kinds) /\ writeBatons[t] = Len(wq[t]) + stranded[t]
            /\ writeBatons[t] \in Nat /\ stranded[t] \in Nat /\ Len(wq[t]) \in Nat
        BY DEF Accounting, MemoryTypeOK
      <3>2. CASE Writable(socket)
        <4>1. wq' = [wq EXCEPT ![socket] = Append(@, kind)]
          BY <2>0, <3>2 DEF Send
        <4>2. stranded'[t] = stranded[t]
          BY <2>1, <3>2 DEF MemoryTypeOK
        <4>3. CASE t = socket
          <5>1. wq'[t] = Append(wq[t], kind) /\ writeBatons'[t] = writeBatons[t] + 1
            BY <4>1, <4>3, <2>1 DEF MemoryTypeOK
          <5>2. Len(Append(wq[t], kind)) = Len(wq[t]) + 1
            BY <3>1
          <5>3. Len(wq'[t]) = Len(wq[t]) + 1
            BY <5>1, <5>2
          <5> HIDE DEF MemoryInv, Inv, TypeOK
          <5> QED BY <3>1, <4>2, <5>1, <5>3
        <4>4. CASE t # socket
          BY <3>1, <4>1, <4>2, <4>4, <2>1 DEF MemoryTypeOK
        <4> QED BY <4>3, <4>4
      <3>3. CASE ~Writable(socket)
        <4>1. wq' = wq
          BY <2>0, <3>3 DEF Send
        <4> QED BY <3>1, <3>3, <4>1, <2>1 DEF MemoryTypeOK
      <3> QED BY <3>2, <3>3
    <2>4. resolveBatons = resolving + unresolved
          /\ \A t \in Sockets :
               connectBatons[t] = IF handle[t] \in {"connecting", "lost"} THEN 1 ELSE 0
      BY DEF Accounting
    <2> QED BY <2>1, <2>2, <2>3, <2>4 DEF Accounting
  <1> QED BY <1>1, <1>2

(* A write is done: its baton is gone.                                       *)
LEMMA AfterSendAccounting ==
    ASSUME MemoryInv, Running, NEW s \in Sockets, AfterSendMemory(s)
    PROVE  MemoryTypeOK' /\ Accounting'
  <1> USE DEF MemoryInv, Inv, TypeOK, ends
  <1>1. wq[s] # <<>> /\ wq' = [wq EXCEPT ![s] = Tail(@)] /\ UNCHANGED <<resolving, handle>>
    BY DEF AfterSendMemory, AfterSend, LogonEvent
  <1>2. wq[s] \in Seq(Kinds) /\ Len(wq[s]) \in Nat \ {0} /\ Len(Tail(wq[s])) = Len(wq[s]) - 1
    BY <1>1
  <1>3. writeBatons[s] = Len(wq[s]) + stranded[s] /\ stranded[s] \in Nat
    BY DEF Accounting, MemoryTypeOK
  <1>4. writeBatons[s] - 1 \in Nat
    BY <1>2, <1>3
  <1>5. MemoryTypeOK'
    BY <1>4 DEF MemoryTypeOK, AfterSendMemory
  <1>6. ASSUME NEW t \in Sockets
        PROVE  writeBatons'[t] = Len(wq'[t]) + stranded'[t]
    <2>1. CASE t = s
      <3>1. writeBatons'[t] = writeBatons[s] - 1 /\ wq'[t] = Tail(wq[s]) /\ stranded'[t] = stranded[s]
        BY <1>1, <2>1 DEF AfterSendMemory, MemoryTypeOK
      <3> QED BY <1>2, <1>3, <3>1
    <2>2. CASE t # s
      BY <1>1, <2>2 DEF AfterSendMemory, Accounting, MemoryTypeOK
    <2> QED BY <2>1, <2>2
  <1>7. resolveBatons' = resolving' + unresolved'
        /\ \A t \in Sockets :
             connectBatons'[t] = IF handle'[t] \in {"connecting", "lost"} THEN 1 ELSE 0
    BY <1>1 DEF AfterSendMemory, Accounting
  <1> QED BY <1>5, <1>6, <1>7 DEF Accounting

(* Closing, failing to read and destroying neither allocate nor free a baton. *)
LEMMA QuietAccounting ==
    ASSUME MemoryInv, Running, UNCHANGED <<resolving, wq, blocks>>,
           gone' \in BOOLEAN, harmed' \in BOOLEAN, orderly' \in BOOLEAN,
           \A t \in Sockets :
               handle'[t] \in {"connecting", "lost"} <=> handle[t] \in {"connecting", "lost"}
    PROVE  MemoryTypeOK' /\ Accounting'
  <1>1. MemoryTypeOK'
    BY DEF MemoryInv, MemoryTypeOK, blocks
  <1>2. Accounting'
    BY DEF MemoryInv, Accounting, blocks
  <1> QED BY <1>1, <1>2

(* Which steps close a handle or stop its reading: to its connect baton it    *)
(* makes no difference.                                                      *)
LEMMA ClosingAccounting ==
    ASSUME MemoryInv, Running, NEW s \in Sockets,
           OtherMemory(s) \/ DestroyInDisconnectEvent(s) \/ LateClose(s)
    PROVE  MemoryTypeOK' /\ Accounting'
  <1>1. /\ UNCHANGED <<resolving, wq, blocks>>
        /\ gone' \in BOOLEAN /\ harmed' \in BOOLEAN /\ orderly' \in BOOLEAN
    BY DEF MemoryInv, MemoryTypeOK, OtherMemory, DestroyInDisconnectEvent, LateClose, memVars,
           ends, AppDisconnect, ReadTerminate, ReadError, AfterCloseSocket, Disconnect
  <1>2. MemoryTypeOK
    BY DEF MemoryInv
  <1>3. CASE Running'
    <2>1. CASE AfterCloseSocket(s)
      BY <1>3, <2>1 DEF AfterCloseSocket, Running
    <2>2. ASSUME NEW h, NEW caller, Disconnect(h, caller), socket # NoSocket,
                 \/ h = handle
                 \/ handle[s] = "open" /\ h = [handle EXCEPT ![s] = "eof"]
          PROVE  \A t \in Sockets :
                   handle'[t] \in {"connecting", "lost"} <=> handle[t] \in {"connecting", "lost"}
      <3>1. handle \in [Sockets -> Handles] /\ socket \in Sockets
            /\ handle[socket] \in {"open", "closing"}
        BY <2>2 DEF MemoryInv, Inv, TypeOK, SocketCarried
      <3>2. handle' = h \/ handle' = [h EXCEPT ![socket] = "closing"]
        BY <2>2 DEF Disconnect
      <3> QED BY <2>2, <3>1, <3>2
    <2>3. ASSUME NEW h, NEW caller, Disconnect(h, caller) PROVE socket # NoSocket
      BY <1>3, <2>3 DEF Disconnect, Running
    <2>4. ReadTerminate(s) \/ AppDisconnect => \E caller : Disconnect(handle, caller)
      BY DEF ReadTerminate, AppDisconnect
    <2>5. ReadError(s) => handle[s] = "open"
                          /\ \/ Disconnect(handle, "loop")
                             \/ Disconnect([handle EXCEPT ![s] = "eof"], "loop")
      BY <1>3 DEF ReadError, Running
    <2>6. \A t \in Sockets :
            handle'[t] \in {"connecting", "lost"} <=> handle[t] \in {"connecting", "lost"}
      <3>1. CASE ReadTerminate(s) \/ AppDisconnect
        BY <2>2, <2>3, <2>4, <3>1
      <3>2. CASE ReadError(s)
        BY <2>2, <2>3, <2>5, <3>2
      <3> QED BY <2>1, <1>3, <3>1, <3>2
            DEF OtherMemory, DestroyInDisconnectEvent, LateClose, AfterCloseSocket, Running
    <2> QED BY <1>1, <1>2, <2>6, QuietAccounting DEF MemoryTypeOK
  <1>4. CASE ~Running'
    <2>1. MemoryTypeOK'
      BY <1>1, <1>2 DEF MemoryTypeOK, blocks
    <2> QED BY <1>4, <2>1 DEF Accounting
  <1> QED BY <1>3, <1>4

LEMMA AccountingNext ==
    ASSUME MemoryInv, [MemoryNext]_<<vars, memVars>>
    PROVE  MemoryTypeOK' /\ Accounting'
  <1>1. CASE UNCHANGED <<vars, memVars>>
    BY <1>1 DEF vars, memVars, ends, blocks, MemoryInv, MemoryTypeOK, Accounting, Running
  <1>2. CASE MemoryNext
    <2>0. Running /\ ((~gone /\ WithClient) \/ (gone /\ WithoutClient))
      BY <1>2 DEF MemoryNext
    <2>1. CASE ~gone /\ ConnectMemory
      BY <2>0, <2>1, ConnectAccounting
    <2>2. CASE ResolveFailedMemory
      <3>1. CASE Sockets = {}
        <4>1. resolveBatons = resolving + unresolved
              /\ MemoryTypeOK /\ resolving \in Nat
          BY <2>0, BoundsAssumption DEF MemoryInv, Accounting, Inv, TypeOK
        <4>2. resolving > 0 /\ resolving' = resolving - 1 /\ resolveBatons' = resolveBatons - 1
              /\ UNCHANGED <<unresolved, gone, harmed, orderly, resolvers, connectBatons,
                             writeBatons, stranded>>
          BY <2>2 DEF ResolveFailedMemory, ResolveFailed, ends
        <4>3. unresolved \in Nat
          BY <4>1 DEF MemoryTypeOK
        <4>4. resolveBatons' \in Nat /\ resolveBatons' = resolving' + unresolved'
          BY <4>1, <4>2, <4>3
        <4> QED BY <3>1, <4>1, <4>2, <4>4 DEF MemoryTypeOK, Accounting
      <3>2. CASE Sockets # {}
        BY <2>0, <2>2, <3>2, ResolvedAccounting
      <3> QED BY <3>1, <3>2
    <2>3. CASE SendMemory
      <3>1. PICK kind \in Kinds : Send(kind)
        BY <2>3 DEF SendMemory, Request, RawSend, TimerPingServer, Kinds
      <3>2. UNCHANGED <<resolving, handle>> /\ Submitted
        BY <2>3 DEF SendMemory, Request, RawSend, TimerPingServer
      <3> QED BY <2>0, <3>1, <3>2, SubmittedAccounting
    <2>4. CASE OXLDestroyPalClient
      <3>1. orderly' \in BOOLEAN
        BY <2>4, Zenon DEF OXLDestroyPalClient, LeftInOrder, NothingDue
      <3>2. UNCHANGED <<resolving, wq, handle, harmed, blocks>> /\ gone' \in BOOLEAN
        BY <2>4 DEF OXLDestroyPalClient, vars
      <3>3. harmed' \in BOOLEAN
        BY <3>2 DEF MemoryInv, MemoryTypeOK
      <3> QED BY <2>0, <3>1, <3>2, <3>3, QuietAccounting
    <2>5. ASSUME NEW s \in Sockets, ResolvedMemory(s)
          PROVE  MemoryTypeOK' /\ Accounting'
      BY <2>0, <2>5, ResolvedAccounting
    <2>6. ASSUME NEW s \in Sockets, OpenedMemory(s)
          PROVE  MemoryTypeOK' /\ Accounting'
      BY <2>0, <2>6, OpenedAccounting
    <2>7. ASSUME NEW s \in Sockets, AfterSendMemory(s) \/ LateWrite(s)
          PROVE  MemoryTypeOK' /\ Accounting'
      BY <2>0, <2>7, AfterSendAccounting DEF LateWrite
    <2>8. ASSUME NEW s \in Sockets, NEW kind \in {"known", "unknown"}, ReadGreetingMemory(s, kind)
          PROVE  MemoryTypeOK' /\ Accounting'
      <3>1. UNCHANGED <<resolving, handle>>
        BY <2>8 DEF ReadGreetingMemory, ReadGreeting
      <3>2. CASE kind = "known"
        <4>1. Send("logon") /\ Submitted /\ "logon" \in Kinds
          BY <2>8, <3>2 DEF ReadGreetingMemory, ReadGreeting, Kinds
        <4> QED BY <2>0, <3>1, <4>1, SubmittedAccounting
      <3>3. CASE kind # "known"
        <4>1. UNCHANGED <<gone, harmed, orderly, blocks, wq, fault>>
          BY <2>8, <3>3 DEF ReadGreetingMemory, ReadGreeting, ends
        <4> QED BY <3>1, <4>1 DEF MemoryInv, MemoryTypeOK, Accounting, blocks, Running
      <3> QED BY <3>2, <3>3
    <2>9. ASSUME NEW s \in Sockets,
                 OtherMemory(s) \/ DestroyInDisconnectEvent(s) \/ LateClose(s)
          PROVE  MemoryTypeOK' /\ Accounting'
      BY <2>0, <2>9, ClosingAccounting
    <2>10. ASSUME NEW s \in Sockets, DestroyInMessageEvent(s)
           PROVE  MemoryTypeOK' /\ Accounting'
      BY <2>0, <2>10, QuietAccounting DEF DestroyInMessageEvent, vars, blocks
    <2>11. CASE LateCallback
      BY <2>0, <2>11, QuietAccounting DEF LateCallback, vars, blocks, MemoryInv, MemoryTypeOK
    <2> QED BY <2>0, <2>1, <2>2, <2>3, <2>4, <2>5, <2>6, <2>7, <2>8, <2>9, <2>10, <2>11
            DEF WithClient, WithoutClient
  <1> QED BY <1>1, <1>2

(* A step that leaves timer and counts alone, and the client's handle as it is. *)
LEMMA UnmovedRearms ==
    ASSUME MemoryInv, UNCHANGED <<socket, timer, stranded>>,
           socket \in Sockets => handle'[socket] = handle[socket]
    PROVE  RefusedWriteRearms'
  BY DEF MemoryInv, Inv, TypeOK, RefusedWriteRearms

(* A message is submitted: on a closing socket uv_write refuses it.          *)
LEMMA SubmittedRearms ==
    ASSUME MemoryInv, NEW kind \in Kinds, Send(kind), Submitted,
           UNCHANGED <<socket, handle>>
    PROVE  RefusedWriteRearms'
  <1>1. CASE socket # NoSocket /\ handle[socket] = "closing"
    <2>1. stranded' = [stranded EXCEPT ![socket] = @ + 1]
      BY <1>1 DEF Submitted, Writable
    <2>2. socket \in Sockets /\ stranded \in [Sockets -> Nat]
      BY <1>1 DEF MemoryInv, MemoryTypeOK, Inv, TypeOK
    <2> QED BY <2>1, <2>2 DEF RefusedWriteRearms
  <1>2. CASE socket = NoSocket \/ handle[socket] # "closing"
    BY <1>2 DEF RefusedWriteRearms
  <1> QED BY <1>1, <1>2

LEMMA RearmsNext ==
    ASSUME MemoryInv, [MemoryNext]_<<vars, memVars>>
    PROVE  RefusedWriteRearms'
  <1> USE DEF blocks
  <1>1. CASE UNCHANGED vars /\ UNCHANGED blocks
    BY <1>1, UnmovedRearms DEF vars
  <1>2. CASE ConnectMemory \/ ResolveFailedMemory
    BY <1>2, UnmovedRearms DEF ConnectMemory, Connect, ResolveFailedMemory, ResolveFailed, vars
  <1>3. CASE SendMemory
    <2>1. PICK kind \in Kinds : Send(kind)
      BY <1>3 DEF SendMemory, Request, RawSend, TimerPingServer, Kinds
    <2>2. UNCHANGED <<socket, handle>> /\ Submitted
      BY <1>3 DEF SendMemory, Request, RawSend, TimerPingServer
    <2> QED BY <2>1, <2>2, SubmittedRearms
  <1>4. ASSUME NEW s \in Sockets, ResolvedMemory(s) \/ OpenedMemory(s)
        PROVE  RefusedWriteRearms'
    <2>1. UNCHANGED stranded /\ handle \in [Sockets -> Handles]
      BY <1>4 DEF ResolvedMemory, OpenedMemory, MemoryInv, Inv, TypeOK
    <2>2. CASE OpenSocketEvent(s)
      BY <2>1, <2>2 DEF OpenSocketEvent, RefusedWriteRearms
    <2>3. CASE Resolved(s) \/ OpenSocketFailed(s)
      <3>1. socket # s \/ socket = NoSocket
        BY <2>3 DEF Resolved, OpenSocketFailed, MemoryInv, Inv, SocketCarried
      <3> QED BY <2>1, <2>3, <3>1, UnmovedRearms, SocketsAssumption DEF Resolved, OpenSocketFailed
    <2> QED BY <1>4, <2>2, <2>3 DEF ResolvedMemory, OpenedMemory
  <1>5. ASSUME NEW s \in Sockets, AfterSendMemory(s) \/ LateWrite(s)
        PROVE  RefusedWriteRearms'
    BY <1>5, UnmovedRearms DEF LateWrite, AfterSendMemory, AfterSend, LogonEvent
  <1>6. ASSUME NEW s \in Sockets, NEW kind \in {"known", "unknown"}, ReadGreetingMemory(s, kind)
        PROVE  RefusedWriteRearms'
    <2>1. UNCHANGED <<socket, handle>>
      BY <1>6 DEF ReadGreetingMemory, ReadGreeting
    <2>2. CASE kind = "known"
      BY <1>6, <2>1, <2>2, SubmittedRearms DEF ReadGreetingMemory, ReadGreeting, Kinds
    <2>3. CASE kind # "known"
      BY <1>6, <2>1, <2>3, UnmovedRearms DEF ReadGreetingMemory, ReadGreeting
    <2> QED BY <2>2, <2>3
  <1>7. ASSUME NEW s \in Sockets,
               OtherMemory(s) \/ DestroyInDisconnectEvent(s) \/ LateClose(s)
        PROVE  RefusedWriteRearms'
    <2>1. ASSUME NEW h, NEW caller, Disconnect(h, caller) PROVE timer' # "active"
      BY <2>1 DEF Disconnect, StopTxTimer
    <2>2. CASE timer' = "active"
      <3>1. UNCHANGED <<socket, timer, handle, blocks>>
        BY <1>7, <2>1, <2>2
        DEF OtherMemory, DestroyInDisconnectEvent, LateClose, AppDisconnect, ReadTerminate,
            ReadError, AfterCloseSocket, memVars
      <3> QED BY <3>1, UnmovedRearms
    <2> QED BY <2>2 DEF RefusedWriteRearms
  <1>8. CASE OXLDestroyPalClient \/ LateCallback \/ \E s \in Sockets : DestroyInMessageEvent(s)
    BY <1>1, <1>8 DEF OXLDestroyPalClient, LateCallback, DestroyInMessageEvent
  <1>9. CASE UNCHANGED <<vars, memVars>>
    BY <1>1, <1>9 DEF memVars
  <1> QED
    BY <1>2, <1>3, <1>4, <1>5, <1>6, <1>7, <1>8, <1>9 DEF MemoryNext, WithClient, WithoutClient

(* Nothing is due when an orderly client is destroyed, the timer included,    *)
(* and what happens behind it makes nothing due.                             *)
LEMMA OrderlyNext ==
    ASSUME MemoryInv, [MemoryNext]_<<vars, memVars>>
    PROVE  OrderlyRest'
  <1>1. CASE UNCHANGED <<vars, memVars>>
    BY <1>1 DEF vars, memVars, ends, MemoryInv, OrderlyRest, NothingDue, LateResolve,
                LateHandle, LogonDue, LateTimer
  <1>2. CASE MemoryNext /\ OXLDestroyPalClient
    <2> SUFFICES ASSUME LeftInOrder PROVE ~harmed /\ NothingDue /\ ~LateTimer
      BY <1>2 DEF OXLDestroyPalClient, vars, OrderlyRest, NothingDue, LateResolve, LateHandle,
                  LogonDue, LateTimer
    <2>1. socket \in Sockets => handle[socket] = "closing" /\ stranded[socket] = 0
      BY SocketsAssumption
      DEF LeftInOrder, NothingDue, LateHandle, MemoryInv, Inv, SocketCarried
    <2>2. socket = NoSocket => timer = "unstarted"
      BY DEF MemoryInv, Inv, SocketCarried
    <2>3. ~LateTimer
      BY <2>1, <2>2 DEF LateTimer, MemoryInv, RefusedWriteRearms, Inv, TypeOK
    <2> QED BY <1>2, <2>3 DEF MemoryNext, LeftInOrder
  <1>3. ASSUME MemoryNext, NEW s \in Sockets,
               DestroyInMessageEvent(s) \/ DestroyInDisconnectEvent(s)
        PROVE  OrderlyRest'
    BY <1>3 DEF DestroyInMessageEvent, DestroyInDisconnectEvent, OrderlyRest
  <1>4. CASE ~gone /\ UNCHANGED gone
    BY <1>4 DEF OrderlyRest
  <1>5. ASSUME WithoutClient, gone, orderly PROVE OrderlyRest'
    <2>1. ~harmed /\ NothingDue /\ ~LateTimer
      BY <1>5 DEF MemoryInv, OrderlyRest
    <2>2. PICK s \in Sockets : LateWrite(s) \/ LateClose(s)
      <3>1. \A s \in Sockets : ~LateLogon(s)
        BY <2>1, TailElements DEF NothingDue, LogonDue, LateLogon, MemoryInv, Inv, TypeOK
      <3> QED BY <1>5, <2>1, <3>1 DEF WithoutClient, LateCallback, NothingDue
    <2>3. UNCHANGED <<resolving, handle, timer, harmed>>
      BY <2>2 DEF LateWrite, AfterSendMemory, AfterSend, LogonEvent, LateClose, AfterCloseSocket,
                  memVars, ends
    <2>4. ASSUME NEW r \in Sockets, LogonDue(r)' PROVE LogonDue(r)
      <3>1. CASE wq'[r] = wq[r]
        BY <2>4, <3>1 DEF LogonDue
      <3>2. CASE r = s /\ wq[r] # <<>> /\ wq'[r] = Tail(wq[r])
        BY <2>4, <3>2, TailElements DEF LogonDue, MemoryInv, Inv, TypeOK
      <3> QED BY <2>2, <3>1, <3>2 DEF LateWrite, AfterSendMemory, AfterSend, LateClose,
                                      AfterCloseSocket, MemoryInv, Inv, TypeOK
    <2> QED BY <2>1, <2>3, <2>4
            DEF OrderlyRest, NothingDue, LateResolve, LateHandle, LateTimer
  <1>6. CASE WithoutClient /\ gone /\ ~orderly
    <2>1. UNCHANGED orderly
      BY <1>6 DEF WithoutClient, LateCallback, LateWrite, AfterSendMemory, LateClose, memVars, ends
    <2> QED BY <1>6, <2>1 DEF OrderlyRest
  <1>7. WithClient => \/ UNCHANGED gone
                      \/ OXLDestroyPalClient
                      \/ \E s \in Sockets : DestroyInMessageEvent(s) \/ DestroyInDisconnectEvent(s)
    BY DEF WithClient, ConnectMemory, ResolveFailedMemory, SendMemory, ResolvedMemory,
           OpenedMemory, AfterSendMemory, ReadGreetingMemory, Submitted, OtherMemory, memVars, ends
  <1> QED BY <1>1, <1>2, <1>3, <1>4, <1>5, <1>6, <1>7 DEF MemoryNext

LEMMA MemoryInvNext == MemoryInv /\ [MemoryNext]_<<vars, memVars>> => MemoryInv'
  <1> SUFFICES ASSUME MemoryInv, [MemoryNext]_<<vars, memVars>> PROVE MemoryInv'
    OBVIOUS
  <1>1. [Next]_vars
    BY ClientStep, Zenon
  <1>2. Inv'
    BY <1>1, InvNext DEF MemoryInv
  <1> QED BY <1>2, AccountingNext, RearmsNext, OrderlyNext DEF MemoryInv

-----------------------------------------------------------------------------
(* Every block has its place in every reachable state.                       *)
THEOREM MemoryInvariant == MemorySpec => []MemoryInv
  BY MemoryInitInv, MemoryInvNext, PTL DEF MemorySpec

(* No baton is freed twice.                                                  *)
THEOREM MemoryTypeCorrect == MemorySpec => []MemoryTypeOK
  <1>1. MemoryInv => MemoryTypeOK
    BY DEF MemoryInv
  <1> QED BY <1>1, MemoryInvariant, PTL

(* The batons that exist are those of the callbacks that are due, and those   *)
(* of the requests libuv refused.                                            *)
THEOREM AccountingAlways == MemorySpec => []Accounting
  <1>1. MemoryInv => Accounting
    BY DEF MemoryInv
  <1> QED BY <1>1, MemoryInvariant, PTL

(* The ping timer of a closing socket was set off by a write libuv refused.   *)
THEOREM RefusedWriteRearmsAlways == MemorySpec => []RefusedWriteRearms
  <1>1. MemoryInv => RefusedWriteRearms
    BY DEF MemoryInv
  <1> QED BY <1>1, MemoryInvariant, PTL

(* No callback looks for a client that was destroyed when everything had come *)
(* to its end.                                                               *)
THEOREM OrderlyDestroyAlwaysQuiet == MemorySpec => []OrderlyDestroyIsQuiet
  <1>1. MemoryInv => OrderlyDestroyIsQuiet
    BY DEF MemoryInv, OrderlyRest, OrderlyDestroyIsQuiet
  <1> QED BY <1>1, MemoryInvariant, PTL
=============================================================================
