-------------------------- MODULE PalFraming_proofs --------------------------
(***************************************************************************)
(* Proofs about the reader of the byte stream, for every sequence of       *)
(* messages, every length and every way the stream is cut into chunks.     *)
(***************************************************************************)
EXTENDS PalFraming, TLAPS

(* Every message occupies at least a header.                                 *)
LEMMA Extent ==
    ASSUME TypeOK, NEW m \in DOMAIN sent
    PROVE  /\ sent[m].at \in Nat /\ sent[m].len \in Nat
           /\ End(m) \in Nat /\ sent[m].at + HeaderLen <= End(m)
  <1>1. sent[m] \in Message
    BY DEF TypeOK
  <1> QED BY <1>1 DEF Message, End, HeaderLen

LEMMA InitInv == Init => Inv
  <1> SUFFICES ASSUME Init PROVE Inv
    OBVIOUS
  <1>1. DOMAIN sent = {}
    BY DEF Init
  <1>2. sent \in Seq(Message) /\ total \in Nat /\ pos \in 0..total
        /\ alone \subseteq DOMAIN sent /\ handled \subseteq DOMAIN sent
        /\ missed \subseteq DOMAIN sent
    BY DEF Init
  <1>3. pending \in BOOLEAN /\ split \in BOOLEAN /\ last \in [id : Ids, whole : BOOLEAN]
    BY DEF Init, Ids
  <1>4. TypeOK
    BY <1>2, <1>3 DEF TypeOK
  <1> QED BY <1>1, <1>4 DEF Init, Inv, Layout, Inside, AloneHandled, HandledExactly, HeaderLen

(* A message goes to the end of the stream, behind what was read.            *)
LEMMA ServerSendInv ==
    ASSUME Inv, NEW len \in PayloadLens, ServerSend(len)
    PROVE  Inv'
  <1> USE LensAssumption DEF Inv, ServerSend
  <1> DEFINE msg == [at |-> total, len |-> len]
  <1>0. PICK new \in Nat : new = Len(sent) + 1
    BY DEF TypeOK
  <1>1. len \in Nat /\ total \in Nat /\ total' = total + HeaderLen + len /\ total' \in Nat
        /\ msg \in Message /\ sent \in Seq(Message)
    BY DEF TypeOK, Message, HeaderLen
  <1>2. /\ DOMAIN sent' = DOMAIN sent \cup {new} /\ new \notin DOMAIN sent
        /\ sent'[new] = msg
        /\ \A m \in DOMAIN sent : sent'[m] = sent[m] /\ m < new
        /\ sent' \in Seq(Message)
    BY <1>0, <1>1
  <1> HIDE DEF msg
  <1>3. TypeOK'
    BY <1>1, <1>2 DEF TypeOK, HeaderLen
  <1>4. /\ End(new)' = total' /\ sent'[new].at = total
        /\ \A m \in DOMAIN sent : End(m)' = End(m) /\ End(m) <= total
    <2>1. sent'[new].at = total /\ sent'[new].len = len
      BY <1>2 DEF msg
    <2>2. End(new)' = total'
      BY <1>1, <2>1 DEF End
    <2>3. \A m \in DOMAIN sent : End(m)' = End(m)
      BY <1>2 DEF End
    <2> QED BY <2>1, <2>2, <2>3 DEF Layout
  <1>5. Layout'
    <2>1. \A m \in DOMAIN sent' : End(m)' <= total'
      <3>1. \A m \in DOMAIN sent : End(m) \in Nat
        BY Extent
      <3>2. total <= total'
        BY <1>1 DEF HeaderLen
      <3>3. \A m \in DOMAIN sent : End(m)' <= total'
        BY <1>1, <1>4, <3>1, <3>2
      <3> QED BY <1>1, <1>2, <1>4, <3>3
    <2>2. \A m1, m2 \in DOMAIN sent' : m1 < m2 => End(m1)' <= sent'[m2].at
      <3> SUFFICES ASSUME NEW m1 \in DOMAIN sent', NEW m2 \in DOMAIN sent', m1 < m2
                   PROVE  End(m1)' <= sent'[m2].at
        OBVIOUS
      <3>1. m1 \in DOMAIN sent
        BY <1>1, <1>2
      <3>2. CASE m2 = new
        BY <1>4, <3>1, <3>2
      <3>3. CASE m2 \in DOMAIN sent
        BY <1>2, <1>4, <3>1, <3>3 DEF Layout
      <3> QED BY <1>2, <3>2, <3>3
    <2>3. \A p \in 0..(total' - 1) :
             \E m \in DOMAIN sent' : sent'[m].at <= p /\ p < End(m)'
      <3> SUFFICES ASSUME NEW p \in 0..(total' - 1)
                   PROVE  \E m \in DOMAIN sent' : sent'[m].at <= p /\ p < End(m)'
        OBVIOUS
      <3>1. CASE p < total
        <4>1. PICK m \in DOMAIN sent : sent[m].at <= p /\ p < End(m)
          BY <1>1, <3>1 DEF Layout
        <4> QED BY <1>2, <1>4, <4>1
      <3>2. CASE p >= total
        <4>1. sent'[new].at <= p /\ p < End(new)' /\ new \in DOMAIN sent'
          BY <1>1, <1>2, <1>4, <3>2
        <4> QED BY <4>1
      <3> QED BY <1>1, <3>1, <3>2
    <2> QED BY <2>1, <2>2, <2>3 DEF Layout
  <1>6. Inside(pos)' => split'
    <2>1. \A m \in DOMAIN sent' : sent'[m].at < pos => m \in DOMAIN sent
      BY <1>1, <1>2, <1>4 DEF TypeOK
    <2> QED BY <1>2, <1>4, <2>1 DEF Inside
  <1>7. HandledExactly' /\ \A m \in handled : End(m)' <= pos
    <2>1. {m \in DOMAIN sent' : sent'[m].at < pos} = {m \in DOMAIN sent : sent[m].at < pos}
      BY <1>1, <1>2, <1>4 DEF TypeOK
    <2>2. \A m \in handled : End(m)' = End(m)
      BY <1>4 DEF TypeOK
    <2> QED BY <2>1, <2>2 DEF HandledExactly
  <1> QED BY <1>3, <1>5, <1>6, <1>7 DEF AloneHandled

(* A new connection starts at the end of everything that was sent.           *)
LEMMA ReconnectInv ==
    ASSUME Inv, Reconnect
    PROVE  Inv'
  <1> USE DEF Inv, Reconnect
  <1>1. TypeOK'
    <2>1. total \in Nat /\ total \in 0..total
      BY DEF TypeOK
    <2>2. split' \in BOOLEAN
      OBVIOUS
    <2> QED BY <2>1, <2>2 DEF TypeOK
  <1>2. Layout'
    BY DEF Layout, End
  <1>3. ~Inside(pos)'
    <2>1. \A m \in DOMAIN sent : End(m) \in Nat /\ End(m) <= total /\ total \in Nat
      BY Extent DEF Layout, TypeOK
    <2> QED BY <2>1 DEF Inside, End
  <1>4. total \in Nat /\ pos \in Nat /\ pos <= total
        /\ \A m \in DOMAIN sent :
              /\ sent[m].at \in Nat /\ End(m) \in Nat
              /\ sent[m].at < End(m) /\ End(m) <= total
    BY Extent DEF TypeOK, Layout, HeaderLen
  <1>5. HandledExactly'
    <2>1. missed' = missed \cup {m \in DOMAIN sent : pos < End(m)}
      OBVIOUS
    <2>2. handled' \cap missed' = {}
      BY <1>4, <2>1 DEF HandledExactly, TypeOK
    <2>3. \A m \in DOMAIN sent : sent[m].at < pos' /\ (m \in handled' \cup missed')
      BY <1>4, <2>1 DEF HandledExactly
    <2>4. handled' \cup missed' \subseteq DOMAIN sent
      BY <2>1 DEF TypeOK
    <2> QED BY <2>2, <2>3, <2>4 DEF HandledExactly
  <1>6. \A m \in handled' : End(m)' <= pos'
    BY <1>4 DEF TypeOK, End
  <1> QED BY <1>1, <1>2, <1>3, <1>5, <1>6 DEF AloneHandled

(* At most one message starts where the next chunk starts.                   *)
LEMMA StartingUnique ==
    ASSUME Inv, NEW m1 \in Starting, NEW m2 \in Starting
    PROVE  m1 = m2
  <1>1. m1 \in DOMAIN sent /\ m2 \in DOMAIN sent /\ sent[m1].at = sent[m2].at
    BY DEF Starting
  <1>2. m1 \in Nat /\ m2 \in Nat
    BY <1>1 DEF Inv, TypeOK
  <1>3. ~(m1 < m2) /\ ~(m2 < m1)
    BY <1>1, Extent DEF Inv, Layout, HeaderLen
  <1> QED BY <1>2, <1>3

(* The length in a chunk is a natural number, and the message's own when the  *)
(* chunk holds its header.                                                   *)
LEMMA LenFieldType ==
    ASSUME Inv, NEW n \in Nat, NEW len \in LenField(n)
    PROVE  /\ len \in Nat
           /\ n >= LenEnd => \A m \in Starting : len = sent[m].len
  <1>1. CASE n >= LenEnd /\ Starting # {}
    <2>1. PICK m \in Starting : len = sent[m].len
      BY <1>1 DEF LenField
    <2>2. m \in DOMAIN sent
      BY DEF Starting
    <2> QED BY <2>1, <2>2, StartingUnique, Extent DEF Inv
  <1>2. CASE ~(n >= LenEnd /\ Starting # {})
    BY <1>2, LensAssumption DEF LenField
  <1> QED BY <1>1, <1>2

(* A chunk that starts and ends on a boundary holds a whole message at least. *)
LEMMA BoundedChunk ==
    ASSUME Inv, NEW n \in 1..(total - pos), Advance(n), ~split'
    PROVE  \E m \in Starting : HeaderLen + sent[m].len <= n
  <1>1. pos \in 0..(total - 1) /\ total \in Nat /\ n \in Nat
    BY DEF Inv, TypeOK
  <1>0. ~Inside(pos) /\ ~Inside(pos + n)
    BY DEF Inv, Advance
  <1>2. PICK m \in DOMAIN sent : sent[m].at <= pos /\ pos < End(m)
    BY <1>1 DEF Inv, Layout
  <1>3. sent[m].at \in Nat /\ sent[m].len \in Nat /\ End(m) \in Nat
    BY Extent DEF Inv
  <1>4. sent[m].at = pos
    BY <1>0, <1>1, <1>2, <1>3 DEF Inside
  <1>5. End(m) <= pos + n
    BY <1>0, <1>1, <1>2, <1>3, <1>4 DEF Inside
  <1> QED BY <1>1, <1>3, <1>4, <1>5 DEF Starting, End, HeaderLen

(* A message that is one whole chunk is dispatched as such.                  *)
LEMMA WholeDispatched ==
    ASSUME Inv, NEW n \in 1..(total - pos), Read(n), NEW m \in Whole(n)
    PROVE  m \in handled'
  <1>1. m \in Starting /\ m \in DOMAIN sent /\ n \in Nat /\ n = HeaderLen + sent[m].len
    BY DEF Whole, Starting, Inv, TypeOK
  <1>2. sent[m].len \in Nat /\ n >= HeaderLen /\ n >= sent[m].len
    BY <1>1, Extent DEF Inv, HeaderLen
  <1>3. ~DropHeader(n)
    BY <1>1, <1>2 DEF DropHeader, HeaderLen
  <1>4. PICK len \in LenField(n) : DropPayload(n, len) \/ Dispatch(n, len)
    BY <1>3 DEF Read
  <1>5. len = sent[m].len
    BY <1>1, <1>2, LenFieldType DEF HeaderLen, LenEnd
  <1>6. Dispatch(n, len)
    BY <1>1, <1>2, <1>4, <1>5 DEF DropPayload
  <1>7. Complete(n, len)
    BY <1>1, <1>2, <1>5 DEF Complete, HeaderLen
  <1> QED BY <1>1, <1>6, <1>7 DEF Dispatch

(* A chunk makes the message in front of it handled, if it holds all of it,   *)
(* and no other.                                                             *)
LEMMA FrontHandled ==
    ASSUME Inv, NEW n \in 1..(total - pos), Read(n)
    PROVE  handled' = handled \cup InFront(n)
  <1> USE DEF Inv
  <1>1. n \in Nat /\ pos \in Nat /\ \A m \in Starting :
           /\ m \in DOMAIN sent /\ sent[m].at = pos /\ sent[m].len \in Nat
           /\ End(m) = pos + HeaderLen + sent[m].len
    BY Extent DEF TypeOK, Starting, End
  <1>2. \A m \in Starting : m \in InFront(n) <=> Complete(n, sent[m].len)
    BY <1>1 DEF InFront, Complete, HeaderLen
  <1>3. InFront(n) \subseteq Starting
    BY DEF InFront
  <1>4. CASE DropHeader(n)
    <2>1. \A m \in Starting : ~Complete(n, sent[m].len)
      BY <1>1, <1>4 DEF DropHeader, Complete, HeaderLen
    <2> QED BY <1>2, <1>3, <1>4, <2>1 DEF DropHeader, Drop
  <1>5. ASSUME NEW len \in LenField(n), DropPayload(n, len)
        PROVE  handled' = handled \cup InFront(n)
    <2>1. \A m \in Starting : ~Complete(n, sent[m].len)
      BY <1>1, <1>5, LenFieldType DEF DropPayload, Complete, HeaderLen, LenEnd
    <2> QED BY <1>2, <1>3, <1>5, <2>1 DEF DropPayload, Drop
  <1>6. ASSUME NEW len \in LenField(n), Dispatch(n, len)
        PROVE  handled' = handled \cup InFront(n)
    <2>1. len \in Nat /\ (n >= LenEnd => \A m \in Starting : len = sent[m].len)
      BY <1>1, LenFieldType
    <2>2. \A m \in Starting : Complete(n, len) <=> m \in InFront(n)
      BY <1>1, <1>2, <2>1 DEF Complete, HeaderLen, LenEnd
    <2>3. CASE Complete(n, len)
      BY <1>3, <1>6, <2>2, <2>3 DEF Dispatch
    <2>4. CASE ~Complete(n, len)
      BY <1>3, <1>6, <2>2, <2>4 DEF Dispatch
    <2> QED BY <2>3, <2>4
  <1> QED BY <1>4, <1>5, <1>6 DEF Read

(* Every message a chunk touches is the one in front or is missed, and none   *)
(* of them was decided before.                                               *)
LEMMA ChunkDecides ==
    ASSUME Inv, NEW n \in 1..(total - pos), Read(n)
    PROVE  HandledExactly' /\ \A m \in handled' : End(m)' <= pos'
  <1> USE DEF Inv
  <1>1. /\ n \in Nat /\ n > 0 /\ pos \in Nat /\ pos' = pos + n /\ sent' = sent
        /\ missed' = missed \cup (Touched(n) \ InFront(n))
    BY DEF TypeOK, Read, Advance
  <1>2. handled' = handled \cup InFront(n)
    BY FrontHandled
  <1>3. \A m \in DOMAIN sent :
           /\ sent[m].at \in Nat /\ End(m) \in Nat /\ sent[m].at < End(m)
           /\ m \in InFront(n) <=> sent[m].at = pos /\ End(m) <= pos + n
           /\ m \in Touched(n) <=> sent[m].at < pos + n /\ pos < End(m)
    BY Extent DEF InFront, Starting, Touched, HeaderLen
  <1>4. InFront(n) \subseteq DOMAIN sent /\ Touched(n) \subseteq DOMAIN sent
        /\ handled \subseteq DOMAIN sent /\ missed \subseteq DOMAIN sent
    BY DEF InFront, Starting, Touched, TypeOK
  <1>5. \A m \in DOMAIN sent : (m \in handled \/ m \in missed) <=> sent[m].at < pos
    BY DEF HandledExactly
  <1>6. \A m \in DOMAIN sent : (m \in handled' \/ m \in missed') <=> sent[m].at < pos'
    BY <1>1, <1>2, <1>3, <1>5
  <1>7. \A m \in DOMAIN sent : ~(m \in handled' /\ m \in missed')
    BY <1>1, <1>2, <1>3, <1>5 DEF HandledExactly
  <1>8. HandledExactly'
    BY <1>1, <1>2, <1>4, <1>6, <1>7 DEF HandledExactly
  <1>9. \A m \in handled' : End(m) <= pos'
    BY <1>1, <1>2, <1>3, <1>4
  <1> QED BY <1>1, <1>8, <1>9 DEF End

LEMMA ReadInv ==
    ASSUME Inv, NEW n \in 1..(total - pos), Read(n)
    PROVE  Inv'
  <1> USE DEF Inv
  <1>1. n \in Nat /\ pos \in Nat /\ total \in Nat /\ pos' \in 0..total' /\ total' = total /\ sent' = sent
        /\ split' = (split \/ Inside(pos + n)) /\ alone' = alone \cup Whole(n) /\ pos' = pos + n
    BY DEF TypeOK, Read, Advance
  <1>2. Whole(n) \subseteq DOMAIN sent /\ Starting \subseteq DOMAIN sent
    BY DEF Whole, Starting
  <1>3. \/ DropHeader(n)
        \/ \E len \in Nat : DropPayload(n, len) \/ Dispatch(n, len)
    BY <1>1, LenFieldType DEF Read
  <1>4. /\ pending' \in BOOLEAN /\ handled' \subseteq DOMAIN sent /\ handled \subseteq handled'
        /\ last' \in [id : Ids, whole : BOOLEAN]
        /\ pending' => last'.id \in {"none", "dropped"}
    <2>1. CASE DropHeader(n)
      BY <2>1 DEF DropHeader, Drop, TypeOK, Ids, HeaderLen
    <2>2. CASE \E len \in Nat : DropPayload(n, len)
      BY <1>1, <2>2 DEF DropPayload, Drop, IdNotZero, TypeOK, Ids, HeaderLen
    <2>3. CASE \E len \in Nat : Dispatch(n, len)
      <3>1. PICK len \in Nat : Dispatch(n, len)
        BY <2>3
      <3>2. Complete(n, len) \in BOOLEAN
        BY DEF Complete
      <3>3. Source(n) \in Ids
        BY DEF Source, Ids
      <3> QED BY <1>2, <3>1, <3>2, <3>3 DEF Dispatch, TypeOK
    <2> QED BY <1>3, <2>1, <2>2, <2>3
  <1>5. TypeOK'
    <2>1. missed' \subseteq DOMAIN sent
      BY DEF TypeOK, Read, Advance, Touched
    <2> QED BY <1>1, <1>2, <1>4, <2>1 DEF TypeOK
  <1>6. Layout' /\ (Inside(pos)' <=> Inside(pos + n))
    BY <1>1 DEF Layout, Inside, End
  <1>7. AloneHandled'
    BY <1>1, <1>4, WholeDispatched DEF AloneHandled
  <1> QED BY <1>1, <1>4, <1>5, <1>6, <1>7, ChunkDecides

LEMMA InvNext == Inv /\ [Next]_vars => Inv'
  <1> SUFFICES ASSUME Inv, [Next]_vars PROVE Inv'
    OBVIOUS
  <1>1. CASE \E len \in PayloadLens : ServerSend(len)
    BY <1>1, ServerSendInv
  <1>2. CASE Reconnect
    BY <1>2, ReconnectInv
  <1>3. CASE \E n \in 1..(total - pos) : Read(n)
    BY <1>3, ReadInv
  <1>4. CASE UNCHANGED vars
    BY <1>4 DEF vars, Inv, TypeOK, Layout, Inside, End, AloneHandled, HandledExactly
  <1> QED BY <1>1, <1>2, <1>3, <1>4 DEF Next

(* Inv is an invariant of the reader.                                        *)
THEOREM Invariant == Spec => []Inv
  <1> QED BY InitInv, InvNext, PTL DEF Spec

(* What is sent, received and dispatched keeps its type.                     *)
THEOREM TypeCorrect == Spec => []TypeOK
  <1>1. Inv => TypeOK
    BY DEF Inv
  <1> QED BY <1>1, Invariant, PTL

(* Every message that comes as one chunk is dispatched, whatever came before. *)
THEOREM AloneAlwaysHandled == Spec => []AloneHandled
  <1>1. Inv => AloneHandled
    BY DEF Inv
  <1> QED BY <1>1, Invariant, PTL

(* Every message of which a byte was read or skipped has its fate: handled if *)
(* a chunk began with it and held all of it, and otherwise lost.             *)
THEOREM EachHandledExactly == Spec => []HandledExactly
  <1>1. Inv => HandledExactly
    BY DEF Inv
  <1> QED BY <1>1, Invariant, PTL

(* Every byte that is read was sent.                                         *)
LEMMA ReadIsSent ==
    ASSUME Inv, Next, pos' > pos
    PROVE  pos' - pos \in 1..(total - pos)
  <1> USE DEF Inv, TypeOK
  <1>1. CASE \E len \in PayloadLens : ServerSend(len)
    BY <1>1 DEF ServerSend
  <1>2. CASE Reconnect
    BY <1>2 DEF Reconnect
  <1>3. CASE \E n \in 1..(total - pos) : Read(n)
    BY <1>3 DEF Read, Advance
  <1> QED BY <1>1, <1>2, <1>3 DEF Next

(* Without a split the message in front of a chunk is dispatched whole, and   *)
(* those behind it are lost.                                                 *)
THEOREM HarmNeedsSplitAlways == Spec => HarmNeedsSplit
  <1> DEFINE Clean ==
         /\ last' = [id |-> "message", whole |-> TRUE]
         /\ \E m \in Starting :
               /\ handled' = handled \cup {m}
               /\ missed' = missed \cup {k \in DOMAIN sent : m < k /\ sent[k].at < pos'}
  <1>1. ASSUME Inv, NEW n \in 1..(total - pos), Read(n), ~split'
        PROVE  Clean
    <2>1. PICK m \in Starting : HeaderLen + sent[m].len <= n
      BY <1>1, BoundedChunk DEF Read
    <2>2. m \in DOMAIN sent /\ n \in Nat /\ n >= HeaderLen /\ n >= LenEnd /\ ~(n < IdEnd)
          /\ sent[m].len \in Nat /\ sent[m].at = pos /\ pos \in Nat
      BY <1>1, <2>1, Extent DEF Starting, Inv, TypeOK, HeaderLen, LenEnd, IdEnd
    <2>3. PICK len \in LenField(n) : DropPayload(n, len) \/ Dispatch(n, len)
      BY <1>1, <2>2 DEF Read, DropHeader, HeaderLen
    <2>4. len = sent[m].len
      BY <1>1, <2>1, <2>2, LenFieldType
    <2>5. Source(n) = "message" /\ Complete(n, len) = TRUE
      BY <2>1, <2>2, <2>4 DEF Source, Complete
    <2>6. ~(n < len)
      BY <2>1, <2>2, <2>4 DEF HeaderLen
    <2>7. last' = [id |-> "message", whole |-> TRUE]
      BY <2>3, <2>5, <2>6 DEF DropPayload, Dispatch
    <2>8. InFront(n) = {m}
      <3>1. End(m) <= pos + n
        BY <2>1, <2>2 DEF End, HeaderLen
      <3> QED BY <1>1, <2>1, <3>1, StartingUnique DEF InFront
    <2>9. \A k \in DOMAIN sent : pos < End(k) /\ k # m <=> m < k
      <3>1. ASSUME NEW k \in DOMAIN sent PROVE pos < End(k) /\ k # m <=> m < k
        <4>1. k \in Nat /\ m \in Nat /\ sent[k].at \in Nat /\ End(k) \in Nat /\ End(m) \in Nat
              /\ sent[k].at < End(k) /\ pos < End(m)
          BY <1>1, <2>2, <3>1, Extent DEF Inv, TypeOK, HeaderLen
        <4>2. (m < k => End(m) <= sent[k].at) /\ (k < m => End(k) <= pos)
          BY <1>1, <2>2, <3>1 DEF Inv, Layout
        <4> QED BY <2>2, <4>1, <4>2
      <3> QED BY <3>1
    <2>10. Touched(n) \ {m} = {k \in DOMAIN sent : m < k /\ sent[k].at < pos + n}
      BY <2>9 DEF Touched
    <2>11. handled' = handled \cup {m}
      BY <1>1, <2>8, FrontHandled
    <2>12. missed' = missed \cup {k \in DOMAIN sent : m < k /\ sent[k].at < pos'}
      BY <1>1, <2>8, <2>10 DEF Read, Advance
    <2> QED BY <2>1, <2>7, <2>11, <2>12
  <1> HIDE DEF Clean
  <1>2. Inv /\ [Next]_vars => [pos' > pos /\ Read(pos' - pos) => split' \/ Clean]_vars
    BY <1>1, ReadIsSent
  <1> USE DEF Clean
  <1> QED BY <1>2, Invariant, PTL DEF Spec, HarmNeedsSplit

(* A dispatch without a header of its own follows a chunk that was dropped.   *)
THEOREM ShortDispatchFollowsDropAlways == Spec => ShortDispatchFollowsDrop
  <1>1. ASSUME Inv, NEW n \in 1..(total - pos), Read(n), n < HeaderLen
        PROVE  last'.id = "dropped" \/ last.id \in {"dropped", "none"}
    <2>1. n \in Nat /\ ~(n >= HeaderLen)
      BY <1>1 DEF Inv, TypeOK, HeaderLen
    <2>2. CASE DropHeader(n)
      BY <2>2 DEF DropHeader, Drop
    <2>3. CASE \E len \in LenField(n) : DropPayload(n, len)
      BY <2>3 DEF DropPayload, Drop
    <2>4. CASE \E len \in LenField(n) : Dispatch(n, len)
      BY <1>1, <2>1, <2>4 DEF Dispatch, Inv
    <2> QED BY <1>1, <2>2, <2>3, <2>4 DEF Read
  <1>2. Inv /\ [Next]_vars =>
           [pos' > pos /\ Read(pos' - pos) /\ pos' - pos < HeaderLen =>
               last'.id = "dropped" \/ last.id \in {"dropped", "none"}]_vars
    BY <1>1, ReadIsSent
  <1> QED BY <1>2, Invariant, PTL DEF Spec, ShortDispatchFollowsDrop

=============================================================================
