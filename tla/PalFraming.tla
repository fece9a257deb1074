------------------------------ MODULE PalFraming ------------------------------
(***************************************************************************)
(* How a CONNECTED client finds messages in the byte stream                *)
(* (OXLPalClientReadEvent_ in palclient.c).  The server sends              *)
(* messages of HeaderLen bytes and a payload; each read callback is handed *)
(* some of the bytes sent so far, in a buffer of its own that begins where *)
(* the last one ended, and that nothing joins to it.                       *)
(*                                                                         *)
(* Abstracted: what the handlers do with a message; the buffer of a read   *)
(* is larger than what was read, so a field beyond nread is heap memory.   *)
(***************************************************************************)
EXTENDS Naturals, Sequences

CONSTANTS
    PayloadLens,    \* the payload lengths of the server's messages
    AnyLens,        \* what payload bytes or heap memory mean as a length
    MaxMessages     \* bound: messages the server sends

ASSUME LensAssumption == PayloadLens \subseteq Nat /\ AnyLens \subseteq Nat
ASSUME MaxMessagesAssumption == MaxMessages \in Nat

VARIABLES
    sent,       \* the messages, each with its place in the stream
    total,      \* the bytes sent
    pos,        \* the bytes read, on all connections
    pending,    \* client->msg.id # 0
    last,       \* what became of the last chunk
    alone,      \* history: the messages that were one whole chunk each
    handled,    \* history: the messages dispatched with their own id and all their bytes
    missed,     \* history: the messages no chunk began with and held whole
    split       \* history: on this connection, a read ended inside a message

vars == <<sent, total, pos, pending, last, alone, handled, missed, split>>

(* PAL_NET_HEADER_LEN, and where the id and the length end in a header.      *)
HeaderLen == 12
IdEnd == 4
LenEnd == 8

Message == [at : Nat, len : Nat]
End(m) == sent[m].at + HeaderLen + sent[m].len
Inside(p) == \E m \in DOMAIN sent : sent[m].at < p /\ p < End(m)

(* The message whose header begins the next chunk: none, or one.             *)
Starting == {m \in DOMAIN sent : sent[m].at = pos}

(* The fields of the header the code finds at the start of n bytes.          *)
LenField(n) == IF n >= LenEnd /\ Starting # {} THEN {sent[m].len : m \in Starting}
                                               ELSE AnyLens
IdNotZero(n) == IF n >= IdEnd /\ Starting # {} THEN {TRUE} ELSE BOOLEAN
Source(n) == IF n < IdEnd THEN "heap" ELSE IF Starting # {} THEN "message" ELSE "payload"

(* All of a message of that length was read.                                 *)
Complete(n, len) == n >= HeaderLen + len

(* The message that begins the next n bytes and ends in them; those that are  *)
(* touched by these bytes.                                                   *)
InFront(n) == {m \in Starting : End(m) <= pos + n}
Touched(n) == {m \in DOMAIN sent : sent[m].at < pos + n /\ pos < End(m)}
Whole(n) == {m \in Starting : n = HeaderLen + sent[m].len}

-----------------------------------------------------------------------------
(* client->msg is not initialised with the rest of the client.              *)
Init ==
    /\ sent = <<>> /\ total = 0 /\ pos = 0
    /\ pending \in BOOLEAN
    /\ last = [id |-> "none", whole |-> FALSE]
    /\ alone = {} /\ handled = {} /\ missed = {}
    /\ split = FALSE

(* The server sends a message.                                               *)
ServerSend(len) ==
    /\ Len(sent) < MaxMessages
    /\ sent' = Append(sent, [at |-> total, len |-> len])
    /\ total' = total + HeaderLen + len
    /\ UNCHANGED <<pos, pending, last, alone, handled, missed, split>>

(* The connection is replaced: what was not read is lost, client->msg stays. *)
Reconnect ==
    /\ pos' = total
    /\ missed' = missed \cup {m \in DOMAIN sent : pos < End(m)}
    /\ split' = FALSE
    /\ UNCHANGED <<sent, total, pending, last, alone, handled>>

(* libuv hands over n bytes.                                                 *)
Advance(n) ==
    /\ pos' = pos + n
    /\ alone' = alone \cup Whole(n)
    /\ missed' = missed \cup (Touched(n) \ InFront(n))
    /\ split' = (split \/ Inside(pos + n))
    /\ UNCHANGED <<sent, total>>

(* An early return: the buffer leaks, with the bytes in it.                   *)
Drop ==
    /\ last' = [id |-> "dropped", whole |-> FALSE]
    /\ UNCHANGED handled

(* Variant: a chunk that is just a header is too short.                      *)
GreedyDropHeader(n) ==
    /\ ~pending /\ n <= HeaderLen
    /\ Drop
    /\ UNCHANGED pending

(* Too short for a header, and none is pending.                              *)
DropHeader(n) ==
    /\ ~pending /\ n < HeaderLen
    /\ Drop
    /\ UNCHANGED pending

(* Shorter than the length in its own first bytes; a header that is pending  *)
(* is neither used nor replaced.                                            *)
DropPayload(n, len) ==
    /\ pending \/ n >= HeaderLen
    /\ n < len
    /\ \E notZero \in IdNotZero(n) : pending' = (pending \/ notZero)
    /\ Drop

(* Variant: a chunk is taken as the payload of the header that is pending.   *)
ContinuingDispatch(n, len) ==
    /\ pending \/ n >= HeaderLen
    /\ n >= len
    /\ pending' = FALSE
    /\ last' = [id |-> IF pending THEN "payload" ELSE Source(n), whole |-> Complete(n, len)]
    /\ handled' = IF Complete(n, len) /\ ~pending THEN handled \cup Starting ELSE handled

(* Variant: client->msg.id is not cleared.                                   *)
RetainingDispatch(n, len) ==
    /\ pending \/ n >= HeaderLen
    /\ n >= len
    /\ \E notZero \in IdNotZero(n) : pending' = (pending \/ notZero)
    /\ last' = [id |-> Source(n), whole |-> Complete(n, len)]
    /\ handled' = IF Complete(n, len) THEN handled \cup Starting ELSE handled

(* Variant: a chunk longer than its message is thrown away as malformed.     *)
ExactDispatch(n, len) ==
    /\ pending \/ n >= HeaderLen
    /\ n >= len
    /\ pending' = FALSE
    /\ IF n > HeaderLen + len
       THEN Drop
       ELSE /\ last' = [id |-> Source(n), whole |-> Complete(n, len)]
            /\ handled' = IF Complete(n, len) THEN handled \cup Starting ELSE handled

(* Variant: the reader goes on to the next message, without asking whether    *)
(* the chunk holds one.                                                      *)
OverrunningDispatch(n, len) ==
    /\ pending \/ n >= HeaderLen
    /\ n >= len
    /\ pending' = FALSE
    /\ last' = [id |-> Source(n), whole |-> Complete(n, len)]
    /\ handled' = IF Complete(n, len) THEN handled \cup Starting \cup {m + 1 : m \in Starting}
                                      ELSE handled

(* Dispatched by the id in its first bytes: one message, the rest is ignored. *)
Dispatch(n, len) ==
    /\ pending \/ n >= HeaderLen
    /\ n >= len
    /\ pending' = FALSE
    /\ last' = [id |-> Source(n), whole |-> Complete(n, len)]
    /\ handled' = IF Complete(n, len) THEN handled \cup Starting ELSE handled

Read(n) ==
    /\ Advance(n)
    /\ \/ DropHeader(n)
       \/ \E len \in LenField(n) : DropPayload(n, len) \/ Dispatch(n, len)

Next ==
    \/ \E len \in PayloadLens : ServerSend(len)
    \/ Reconnect
    \/ \E n \in 1..(total - pos) : Read(n)

Spec == Init /\ [][Next]_vars

-----------------------------------------------------------------------------
(* Properties.                                                              *)

Ids == {"none", "dropped", "heap", "message", "payload"}

(* Every variable has its type; nothing is read or dispatched that was not    *)
(* sent.                                                                     *)
TypeOK ==
    /\ sent \in Seq(Message)
    /\ total \in Nat
    /\ pos \in 0..total
    /\ pending \in BOOLEAN
    /\ last \in [id : Ids, whole : BOOLEAN]
    /\ alone \subseteq DOMAIN sent
    /\ handled \subseteq DOMAIN sent /\ missed \subseteq DOMAIN sent
    /\ split \in BOOLEAN

(* A message that arrives as one whole chunk is dispatched, whole and by its  *)
(* own id, whatever fragments, leftovers or connections came before it: the   *)
(* reader finds its way back to the stream.                                  *)
AloneHandled == alone \subseteq handled

(* Of all that was read or skipped, a message is handled exactly if a chunk   *)
(* began with it and held all of it.  One that was cut, by as little as a     *)
(* byte, that came behind another in its chunk, or that a reconnect skipped,  *)
(* is never handled, and no later chunk makes up for it.                     *)
HandledExactly ==
    /\ handled \cap missed = {}
    /\ handled \cup missed = {m \in DOMAIN sent : sent[m].at < pos}

(* Unless a read on this connection ended inside a message, the reader does   *)
(* one thing with a chunk: it dispatches the message in front, whole and by   *)
(* its own id.  Garbling, and losing that one, takes a split; the messages    *)
(* behind it are lost without any, and they are all that is lost.            *)
HarmNeedsSplit ==
    [][pos' > pos /\ Read(pos' - pos) =>
           \/ split'
           \/ /\ last' = [id |-> "message", whole |-> TRUE]
              /\ \E m \in Starting :
                    /\ handled' = handled \cup {m}
                    /\ missed' = missed \cup {k \in DOMAIN sent : m < k /\ sent[k].at < pos'}]_vars

(* A chunk that is shorter than a header is dispatched only if the chunk      *)
(* before it was dropped, on this or an earlier connection, or if there was   *)
(* none: then the decision hangs on memory that was never initialised.        *)
ShortDispatchFollowsDrop ==
    [][pos' > pos /\ Read(pos' - pos) /\ pos' - pos < HeaderLen =>
           last'.id = "dropped" \/ last.id \in {"dropped", "none"}]_vars

-----------------------------------------------------------------------------
(* The inductive invariant behind the properties.                           *)

(* The messages lie in the stream one behind the other, without a gap.       *)
Layout ==
    /\ \A m \in DOMAIN sent : End(m) <= total
    /\ \A m1, m2 \in DOMAIN sent : m1 < m2 => End(m1) <= sent[m2].at
    /\ \A p \in 0..(total - 1) : \E m \in DOMAIN sent : sent[m].at <= p /\ p < End(m)

Inv ==
    /\ TypeOK
    /\ Layout
    /\ Inside(pos) => split
    /\ pending => last.id \in {"none", "dropped"}
    /\ AloneHandled
    /\ HandledExactly
    /\ \A m \in handled : End(m) <= pos

=============================================================================
