------------------------------- MODULE PalList -------------------------------
(***************************************************************************)
(* The linked lists of oxlcom.c, and the room list a client keeps in one.  *)
(* Lists are heads into a heap of items; one call is one action.           *)
(*                                                                         *)
(* An item stands for one allocation, not for an address: to touch one     *)
(* that was freed is the fault "useAfterFree", whatever the allocator may  *)
(* have put there since.  Abstracted: the data of the items, which the     *)
(* list only frees.  The application hands over only items it has just     *)
(* created, and leaves a list alone that it destroyed.                     *)
(***************************************************************************)
EXTENDS Naturals, Sequences, FiniteSets

CONSTANTS
    Items,      \* the items the process may allocate
    Null,       \* the null pointer
    Lists,      \* list headers
    RoomList,   \* client->roomList, one of them
    MaxIndex,   \* bound: the largest index a caller names
    MaxRooms,   \* bound: the largest payload of a room list, in bytes
    SizeMod     \* list->size wraps here: 2^64 in the code

ASSUME ItemsAssumption == IsFiniteSet(Items) /\ Null \notin Items
ASSUME ListsAssumption == IsFiniteSet(Lists) /\ RoomList \in Lists
ASSUME NumbersAssumption ==
    MaxIndex \in 0..Cardinality(Items) /\ MaxRooms \in Nat /\ SizeMod \in Nat \ {0, 1}

VARIABLES
    mem,        \* each item: "unused", "live" or "freed"
    next,       \* item->next
    head,       \* list->head
    size,       \* list->size
    made,       \* the lists that exist
    fault       \* the undefined behaviour or endless loop that ended the process

vars == <<mem, next, head, size, made, fault>>

Pointers == Items \cup {Null}
Unused == {x \in Items : mem[x] = "unused"}
Live == {x \in Items : mem[x] = "live"}
Freed == {x \in Items : mem[x] = "freed"}

Init ==
    /\ mem = [x \in Items |-> "unused"]
    /\ next = [x \in Items |-> Null]
    /\ head = [l \in Lists |-> Null]
    /\ size = [l \in Lists |-> 0]
    /\ made = {RoomList}
    /\ fault = "none"

-----------------------------------------------------------------------------
(* What a walk meets.                                                       *)

(* Where li stands after n times li = li->next; it gets no further than the  *)
(* end of the list or the first freed item.                                  *)
At(l) ==
    LET at[n \in 0..Cardinality(Items)] ==
            IF n = 0 THEN head[l]
            ELSE LET li == at[n - 1]
                 IN  IF li # Null /\ mem[li] = "live" THEN next[li] ELSE li
    IN  at

Reach(l) == LET at == At(l) IN {at[n] : n \in 0..Cardinality(Items)} \ {Null}

(* More steps than items, and still not at an end.                           *)
Endless(l) == At(l)[Cardinality(Items)] \in Live

(* A list no walk comes to harm on.                                          *)
Sound(l) == (\A x \in Reach(l) : mem[x] = "live") /\ ~Endless(l)

Last(l) == CHOOSE x \in Reach(l) : next[x] = Null

(* Variant: the head is not tested before its next pointer is read.          *)
UntestedWalked(l) == IF head[l] = Null THEN "nullPointer"
                     ELSE IF Reach(l) \cap Freed # {} THEN "useAfterFree"
                     ELSE IF Endless(l) THEN "endlessLoop" ELSE "none"

(* The fault of walking a list to its end.                                   *)
Walked(l) == IF Reach(l) \cap Freed # {} THEN "useAfterFree"
             ELSE IF Endless(l) THEN "endlessLoop" ELSE "none"

(* Where a walk of i steps stops that will not step behind the last item.    *)
Clamped(l, i) == IF At(l)[i] # Null THEN At(l)[i] ELSE Last(l)

(* Variant: the count is signed.                                             *)
SignedLess(n) == n - 1

(* A size_t that is counted down.                                            *)
Less(n) == (n + SizeMod - 1) % SizeMod

Fails(f) == fault' = f /\ UNCHANGED <<mem, next, head, size, made>>

-----------------------------------------------------------------------------
(* Making, growing and reading lists.                                       *)

OXLCreateList(l) ==
    /\ l \notin made
    /\ made' = made \cup {l}
    /\ head' = [head EXCEPT ![l] = Null]
    /\ size' = [size EXCEPT ![l] = 0]
    /\ UNCHANGED <<mem, next, fault>>

(* Variant: the pointer to the previous item never leaves the head.          *)
HeadLinkBehind(l, x, y) ==
    /\ next' = [next EXCEPT ![head[l]] = y]
    /\ UNCHANGED head

(* Item x of list l is followed by the chain that starts with y.             *)
LinkBehind(l, x, y) ==
    /\ next' = [next EXCEPT ![x] = y]
    /\ UNCHANGED head

(* A new item at the end; list->size is left alone.                          *)
OXLListAdd(l, x) ==
    /\ l \in made /\ x \in Unused
    /\ \/ Walked(l) # "none" /\ Fails(Walked(l))
       \/ /\ Walked(l) = "none"
          /\ mem' = [mem EXCEPT ![x] = "live"]
          /\ IF head[l] = Null THEN head' = [head EXCEPT ![l] = x] /\ UNCHANGED next
             ELSE LinkBehind(l, Last(l), x)
          /\ UNCHANGED <<size, made, fault>>

(* Variant: the list that was added is emptied, its items are the other's.   *)
EmptyingAddList(l, m) ==
    /\ l \in made /\ m \in made /\ Sound(l) /\ Sound(m)
    /\ IF head[l] = Null THEN head' = [head EXCEPT ![l] = head[m]] /\ UNCHANGED next
       ELSE LinkBehind(l, Last(l), head[m])
    /\ mem' = [x \in Items |-> IF x \in Reach(m) THEN "freed" ELSE mem[x]]
    /\ UNCHANGED <<size, made, fault>>

(* The items of m become those of l as well: the two share them from now on. *)
OXLListAddList(l, m) ==
    /\ l \in made /\ m \in made
    /\ \/ Walked(l) # "none" /\ Fails(Walked(l))
       \/ /\ Walked(l) = "none"
          /\ IF head[l] = Null THEN head' = [head EXCEPT ![l] = head[m]] /\ UNCHANGED next
             ELSE LinkBehind(l, Last(l), head[m])
          /\ UNCHANGED <<mem, size, made, fault>>

(* Only two of the four cases link the item: index 0 of an empty list, and a  *)
(* later index of another, where it comes behind the item at that index.     *)
OXLListInsert(l, x, i) ==
    /\ l \in made /\ x \in Unused
    /\ \/ /\ i > 0 /\ head[l] # Null /\ Clamped(l, i) \in Freed
          /\ Fails("useAfterFree")
       \/ /\ ~(i > 0 /\ head[l] # Null /\ Clamped(l, i) \in Freed)
          /\ mem' = [mem EXCEPT ![x] = "live"]
          /\ head' = IF i = 0 /\ head[l] = Null THEN [head EXCEPT ![l] = x] ELSE head
          /\ next' = IF i > 0 /\ head[l] # Null
                     THEN [next EXCEPT ![Clamped(l, i)] = x, ![x] = next[Clamped(l, i)]]
                     ELSE next
          /\ size' = [size EXCEPT ![l] = (@ + 1) % SizeMod]
          /\ UNCHANGED <<made, fault>>

(* The walk starts with li->next of the head, and counts one item less.      *)
OXLListSize(l) ==
    /\ l \in made
    /\ \/ head[l] = Null /\ Fails("nullPointer")
       \/ head[l] # Null /\ Walked(l) # "none" /\ Fails(Walked(l))
       \/ /\ head[l] # Null /\ Walked(l) = "none"
          /\ size' = [size EXCEPT ![l] = (Cardinality(Reach(l)) - 1) % SizeMod]
          /\ UNCHANGED <<mem, next, head, made, fault>>

(* A walk of i steps that may end behind the list.  Nothing is changed, and  *)
(* the item that is returned is not looked at: it may be a freed one.        *)
OXLListGet(l, i) ==
    /\ l \in made
    /\ \E n \in 0..i : n < i /\ At(l)[n] \in Freed
    /\ Fails("useAfterFree")

(* A list that starts at the second item of another.                         *)
OXLCreateTailList(l, m) ==
    /\ l \in made /\ m \notin made
    /\ \/ head[l] = Null /\ Fails("nullPointer")
       \/ head[l] \in Freed /\ Fails("useAfterFree")
       \/ /\ head[l] \in Live
          /\ made' = made \cup {m}
          /\ head' = [head EXCEPT ![m] = next[head[l]]]
          /\ size' = [size EXCEPT ![m] = Less(size[l])]
          /\ UNCHANGED <<mem, next, fault>>

-----------------------------------------------------------------------------
(* Emptying lists.                                                          *)

(* Every item is freed, the head keeps pointing at the first of them.  The    *)
(* same calls, OXLListRemoveAll on both lists, start OXLInitPalClient__.      *)
OXLListRemoveAll(l) ==
    /\ l \in made
    /\ \/ ~Sound(l) /\ Fails("useAfterFree")
       \/ /\ Sound(l)
          /\ mem' = [x \in Items |-> IF x \in Reach(l) THEN "freed" ELSE mem[x]]
          /\ size' = [size EXCEPT ![l] = 0]
          /\ UNCHANGED <<next, head, made, fault>>

(* The header goes as well, and what it held is forgotten.  So it is with the *)
(* room list when OXLDestroyPalClient empties it and frees the client.       *)
OXLDestroyList(l) ==
    /\ l \in made
    /\ \/ ~Sound(l) /\ Fails("useAfterFree")
       \/ /\ Sound(l)
          /\ mem' = [x \in Items |-> IF x \in Reach(l) THEN "freed" ELSE mem[x]]
          /\ made' = made \ {l}
          /\ head' = [head EXCEPT ![l] = Null]
          /\ size' = [size EXCEPT ![l] = 0]
          /\ UNCHANGED <<next, fault>>

(* At index 0 the head is freed and kept.  Behind it, pli is still the head   *)
(* when the item at the index, or the last one, is gone: what comes after is *)
(* linked to the head, also when the head is what was freed.                 *)
OXLListRemove(l, i) ==
    LET li == IF i = 0 \/ head[l] = Null THEN head[l] ELSE Clamped(l, i)
        harmed == li \in Freed \/ (i > 0 /\ li # Null /\ li = head[l])
    IN  /\ l \in made
        /\ \/ harmed /\ Fails("useAfterFree")
           \/ /\ ~harmed
              /\ mem' = [x \in Items |-> IF x = li THEN "freed" ELSE mem[x]]
              /\ next' = [x \in Items |-> IF i > 0 /\ li # Null /\ x = head[l]
                                          THEN next[li] ELSE next[x]]
              /\ size' = [size EXCEPT ![l] = Less(@)]
              /\ UNCHANGED <<head, made, fault>>

(* The room list's message: the list is emptied, then grows by one item for   *)
(* each byte of the payload.  The first of these walks the dangling head.    *)
OXLPalClientHandleRoomList(n) ==
    /\ RoomList \in made
    /\ \/ /\ ~Sound(RoomList) \/ (head[RoomList] # Null /\ n > 0)
          /\ Fails("useAfterFree")
       \/ /\ Sound(RoomList) /\ head[RoomList] # Null /\ n = 0
          /\ OXLListRemoveAll(RoomList)
       \/ /\ head[RoomList] = Null
          /\ \E xs \in [1..n -> Unused] :
                /\ \A i, j \in 1..n : xs[i] = xs[j] => i = j
                /\ mem' = [x \in Items |-> IF \E i \in 1..n : xs[i] = x THEN "live" ELSE mem[x]]
                /\ next' = [x \in Items |-> IF \E i \in 1..n-1 : xs[i] = x
                                            THEN xs[1 + CHOOSE i \in 1..n-1 : xs[i] = x]
                                            ELSE next[x]]
                /\ head' = IF n = 0 THEN head ELSE [head EXCEPT ![RoomList] = xs[1]]
          /\ size' = [size EXCEPT ![RoomList] = 0]
          /\ UNCHANGED <<made, fault>>

-----------------------------------------------------------------------------
Growing(l) ==
    \/ OXLCreateList(l)
    \/ OXLListSize(l)
    \/ \E x \in Items : OXLListAdd(l, x) \/ \E i \in 0..MaxIndex : OXLListInsert(l, x, i)
    \/ \E i \in 0..MaxIndex : OXLListGet(l, i)
    \/ \E m \in Lists : OXLListAddList(l, m) \/ OXLCreateTailList(l, m)

Emptying(l) ==
    \/ OXLListRemoveAll(l)
    \/ OXLDestroyList(l)
    \/ \E i \in 0..MaxIndex : OXLListRemove(l, i)

(* A process that has met a fault takes no further step.                     *)
Next ==
    /\ fault = "none"
    /\ \/ \E l \in Lists : Growing(l) \/ Emptying(l)
       \/ \E n \in 0..MaxRooms : OXLPalClientHandleRoomList(n)

Spec == Init /\ [][Next]_vars

-----------------------------------------------------------------------------
(* Properties.                                                              *)

(* Every variable has its type, and no pointer leads to memory that was never *)
(* allocated.                                                               *)
TypeOK ==
    /\ mem \in [Items -> {"unused", "live", "freed"}]
    /\ next \in [Items -> Pointers \ Unused]
    /\ head \in [Lists -> Pointers \ Unused]
    /\ size \in [Lists -> 0..SizeMod - 1]
    /\ made \subseteq Lists
    /\ fault \in {"none", "nullPointer", "useAfterFree", "endlessLoop"}

Contents(l) == LET at == At(l) IN [k \in 1..Cardinality(Reach(l)) |-> at[k - 1]]
Apart(l, m) == Reach(l) \cap Reach(m) = {}
Sharing(m) == {l \in made : l = m \/ ~Apart(l, m)}

(* q with x behind its item number i, counted from 0, or behind the last.     *)
Behind(q, i, x) ==
    LET k == IF i < Len(q) THEN i + 1 ELSE Len(q)
    IN  SubSeq(q, 1, k) \o <<x>> \o SubSeq(q, k + 1, Len(q))

(* On a sound list that is not empty the calls that move pointers mean what   *)
(* they would mean for a sequence: Add appends, AddList concatenates what is  *)
(* apart, Insert puts the item one place behind its index, and Remove works   *)
(* for the second item, the only one it works for.                           *)
CallsAsSequences ==
    [][\A l \in made : Sound(l) =>
        /\ \A x \in Unused \ Unused' : OXLListAdd(l, x) => Contents(l)' = Append(Contents(l), x)
        /\ \A m \in made : Sound(m) /\ Apart(l, m) /\ OXLListAddList(l, m) =>
               Contents(l)' = Contents(l) \o Contents(m)
        /\ \A x \in Unused \ Unused', i \in 1..MaxIndex :
               head[l] # Null /\ OXLListInsert(l, x, i) => Contents(l)' = Behind(Contents(l), i, x)
        /\ Len(Contents(l)) > 1 /\ MaxIndex > 0 /\ OXLListRemove(l, 1) =>
               Contents(l)' = <<head[l]>> \o SubSeq(Contents(l), 3, Len(Contents(l)))]_vars

(* A list stays sound until an item it shares with the list of the call is    *)
(* freed, or until it is given an unsound tail: a list that is added to one it *)
(* shares items with closes a circle.  Remove at a later index leaves its own *)
(* list sound.                                                               *)
SoundUntilRemoval ==
    [][\A m \in made \cap made' : Sound(m) /\ ~Sound(m)' =>
        \E l \in Sharing(m) :
            \/ OXLListRemoveAll(l) \/ OXLDestroyList(l)
            \/ l = RoomList /\ OXLPalClientHandleRoomList(0)
            \/ \E i \in 0..MaxIndex : (l = m => i = 0) /\ OXLListRemove(l, i)
            \/ \E k \in made : (k \in Sharing(l) \/ ~Sound(k)) /\ OXLListAddList(l, k)]_vars

(* The calls on l but for four: Size and a tail list of an empty list, Remove  *)
(* behind the head of a list of one, and a room list that follows another    *)
(* with rooms in it.                                                         *)
HarmlessCall(l) ==
    \/ OXLListRemoveAll(l) \/ OXLDestroyList(l)
    \/ \E x \in Items : OXLListAdd(l, x) \/ \E i \in 0..MaxIndex : OXLListInsert(l, x, i)
    \/ \E m \in made : Sound(m) /\ OXLListAddList(l, m)
    \/ head[l] # Null /\ (OXLListSize(l) \/ \E m \in Lists : OXLCreateTailList(l, m))
    \/ \E i \in 0..MaxIndex :
        OXLListGet(l, i) \/ ((i > 0 => Len(Contents(l)) # 1) /\ OXLListRemove(l, i))
    \/ l = RoomList /\ \E n \in 0..MaxRooms :
           (n > 0 => head[l] = Null) /\ OXLPalClientHandleRoomList(n)

(* On a sound list they do no harm: none reads the null pointer, follows an   *)
(* item to freed memory or walks in a circle.                                *)
HarmOnSoundLists == [][\A l \in made : Sound(l) /\ HarmlessCall(l) => fault' = "none"]_vars

(* Items that a list leads to, and those a caller has just handed over.       *)
Held == {x \in Live : \E l \in made : x \in Reach(l)}

(* No item is lost, held by no list and never freed, but by an Insert in one  *)
(* of the two cases that do not link it, or by a Remove that is not at index  *)
(* 1: at index 0 all but the head is lost, behind 1 what it steps over.      *)
LostOnlyBy ==
    [][\A x \in Held \cup Unused : mem'[x] = "live" /\ x \notin Held' =>
        \E l \in made :
            \/ \E i \in 0..MaxIndex : (i = 0) # (head[l] = Null) /\ OXLListInsert(l, x, i)
            \/ \E i \in (0..MaxIndex) \ {1} : OXLListRemove(l, i)]_vars

-----------------------------------------------------------------------------
(* The inductive invariant: an item that is handed over points nowhere.      *)
Fresh == \A x \in Unused : next[x] = Null

Inv == TypeOK /\ Fresh

=============================================================================
