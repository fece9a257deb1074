---------------------------- MODULE PalList_proofs ----------------------------
(***************************************************************************)
(* Proofs about the linked lists, for every set of items and of lists, and *)
(* every index.                                                            *)
(***************************************************************************)
EXTENDS PalList, FiniteSetTheorems, TLAPS

(* A set of natural numbers that is not empty has a least element.           *)
LEMMA LeastElement ==
    ASSUME NEW T \in SUBSET Nat, T # {}
    PROVE  \E x \in T : \A y \in T : x <= y
  <1> DEFINE R == OpToRel(<, Nat)
  <1>1. IsWellFoundedOn(R, Nat)
    BY NatLessThanWellFounded
  <1> HIDE DEF R
  <1>2. PICK x \in T : \A y \in T : <<y, x>> \notin R
    BY <1>1, WFMin
  <1>3. ASSUME NEW y \in T, ~(x <= y) PROVE <<y, x>> \in R
    <2>1. x \in Nat /\ y \in Nat /\ y < x
      BY <1>3
    <2> QED BY <2>1, Zenon DEF R, OpToRel
  <1> QED BY <1>2, <1>3

(* Induction over the natural numbers, for a set instead of a predicate: its  *)
(* complement has no least element.                                          *)
LEMMA SetInduction ==
    ASSUME NEW S, 0 \in S, \A n \in Nat : n \in S => n + 1 \in S
    PROVE  Nat \subseteq S
  <1> DEFINE T == Nat \ S
  <1> SUFFICES ASSUME T # {} PROVE FALSE
    OBVIOUS
  <1>1. PICK x \in T : \A y \in T : x <= y
    BY LeastElement
  <1>2. x \in Nat /\ x # 0 /\ x - 1 \in Nat /\ x - 1 + 1 = x
    OBVIOUS
  <1> QED BY <1>1, <1>2

-----------------------------------------------------------------------------
(* Walks.                                                                   *)

N == Cardinality(Items)

(* li = li->next, where li can still be stepped from.                        *)
Stepper(m, nx) ==
    [p \in Pointers |-> IF p # Null /\ m[p] = "live" THEN nx[p] ELSE p]

(* f is the walk from p with as many steps as there are items.               *)
IsWalk(f, g, p) ==
    f \in [0..N -> Pointers] /\ f[0] = p /\ \A n \in 1..N : f[n] = g[f[n - 1]]

LEMMA NType == N \in Nat
  BY ItemsAssumption, FS_CardinalityType DEF N

LEMMA StepperType ==
    ASSUME NEW m, NEW nx \in [Items -> Pointers]
    PROVE  Stepper(m, nx) \in [Pointers -> Pointers]
  BY DEF Stepper, Pointers

(* There is a walk from every pointer.                                       *)
LEMMA WalkExists ==
    ASSUME NEW g \in [Pointers -> Pointers], NEW p \in Pointers
    PROVE  \E f : IsWalk(f, g, p)
  <1> DEFINE P(j, f) == f[0] = p /\ \A n \in 1..j : f[n] = g[f[n - 1]]
             T == {j \in Nat : \E f \in [0..j -> Pointers] : P(j, f)}
  <1>1. 0 \in T
    <2>1. [n \in 0..0 |-> p] \in [0..0 -> Pointers] /\ P(0, [n \in 0..0 |-> p])
      OBVIOUS
    <2> QED BY <2>1
  <1>2. ASSUME NEW j \in Nat, j \in T PROVE j + 1 \in T
    <2>1. PICK f \in [0..j -> Pointers] : P(j, f)
      BY <1>2
    <2> DEFINE h == [n \in 0..(j + 1) |-> IF n = j + 1 THEN g[f[j]] ELSE f[n]]
    <2>2. h \in [0..(j + 1) -> Pointers] /\ h[0] = p
      BY <2>1
    <2>3. ASSUME NEW n \in 1..(j + 1) PROVE h[n] = g[h[n - 1]]
      BY <2>1
    <2> HIDE DEF h
    <2> QED BY <2>2, <2>3
  <1> HIDE DEF T
  <1>3. Nat \subseteq T
    BY <1>1, <1>2, SetInduction
  <1> QED BY <1>3, NType DEF T, IsWalk

(* At is the walk its recursive definition describes.                        *)
LEMMA AtIsWalk ==
    next \in [Items -> Pointers] /\ head \in [Lists -> Pointers] =>
        \A l \in Lists : IsWalk(At(l), Stepper(mem, next), head[l])
  <1> SUFFICES ASSUME next \in [Items -> Pointers], head \in [Lists -> Pointers], NEW l \in Lists
               PROVE  IsWalk(At(l), Stepper(mem, next), head[l])
    OBVIOUS
  <1> DEFINE g == Stepper(mem, next)
             F(f) == [n \in 0..N |->
                         IF n = 0 THEN head[l]
                         ELSE LET li == f[n - 1]
                              IN  IF li # Null /\ mem[li] = "live" THEN next[li] ELSE li]
  <1>1. At(l) = CHOOSE f : f = F(f)
    BY DEF At, N
  <1>2. PICK f \in [0..N -> Pointers] : f[0] = head[l] /\ \A n \in 1..N : f[n] = g[f[n - 1]]
    <2>1. g \in [Pointers -> Pointers] /\ head[l] \in Pointers
      BY StepperType
    <2>2. PICK f : IsWalk(f, g, head[l])
      BY <2>1, WalkExists, Zenon
    <2> QED BY <2>2 DEF IsWalk
  <1>3. f = F(f)
    <2>1. ASSUME NEW n \in 0..N PROVE f[n] = F(f)[n]
      <3>1. CASE n = 0
        BY <1>2, <3>1
      <3>2. CASE n # 0
        <4>1. n \in 1..N /\ n - 1 \in 0..N
          BY <3>2, NType
        <4> QED BY <1>2, <3>2, <4>1 DEF Stepper
      <3> QED BY <3>1, <3>2
    <2> QED BY <1>2, <2>1
  <1> HIDE DEF F
  <1>4. At(l) = F(At(l))
    BY <1>1, <1>3
  <1> DEFINE at == At(l)
  <1>5. at = F(at)
    BY <1>4
  <1> HIDE DEF at
  <1>6. at = f
    <2> DEFINE T == {n \in Nat : n \in 0..N => at[n] = f[n]}
    <2>1. 0 \in T
      BY <1>2, <1>5, NType DEF F
    <2>2. ASSUME NEW n \in Nat, n \in T PROVE n + 1 \in T
      <3> SUFFICES ASSUME n + 1 \in 0..N PROVE at[n + 1] = f[n + 1]
        OBVIOUS
      <3>1. n \in 0..N /\ n + 1 \in 1..N /\ n + 1 # 0 /\ n + 1 - 1 = n
        BY NType
      <3>2. at[n] = f[n]
        BY <2>2, <3>1
      <3>3. at[n + 1] = F(at)[n + 1] /\ f[n + 1] = F(f)[n + 1]
        BY <1>3, <1>5
      <3> QED BY <3>1, <3>2, <3>3 DEF F
    <2> HIDE DEF T
    <2>3. Nat \subseteq T
      BY <2>1, <2>2, SetInduction
    <2>4. \A n \in 0..N : at[n] = f[n]
      BY <2>3, NType DEF T
    <2>5. at = [n \in 0..N |-> at[n]]
      BY <1>5 DEF F
    <2> QED BY <1>2, <2>4, <2>5
  <1> QED BY <1>2, <1>6 DEF IsWalk, at

-----------------------------------------------------------------------------
(* What a walk meets.                                                       *)

Met(f) == {f[n] : n \in 0..N}

LEMMA PointersCount == IsFiniteSet(Pointers) /\ Cardinality(Pointers) = N + 1
  BY ItemsAssumption, FS_AddElement DEF Pointers, N

(* Two places of a walk that are the same stay the same.                     *)
LEMMA WalksAgree ==
    ASSUME NEW g, NEW p, NEW f, IsWalk(f, g, p), NEW i \in 0..N, NEW j \in 0..N, i <= j,
           f[i] = f[j]
    PROVE  \A k \in Nat : j + k <= N => f[i + k] = f[j + k]
  <1> DEFINE T == {k \in Nat : j + k <= N => f[i + k] = f[j + k]}
  <1>1. 0 \in T
    BY NType
  <1>2. ASSUME NEW k \in Nat, k \in T PROVE k + 1 \in T
    <2> SUFFICES ASSUME j + (k + 1) <= N PROVE f[i + (k + 1)] = f[j + (k + 1)]
      OBVIOUS
    <2>1. /\ i + (k + 1) \in 1..N /\ i + (k + 1) - 1 = i + k
          /\ j + (k + 1) \in 1..N /\ j + (k + 1) - 1 = j + k
      BY NType
    <2>2. f[i + k] = f[j + k]
      BY <1>2, NType
    <2> QED BY <2>1, <2>2 DEF IsWalk
  <1> HIDE DEF T
  <1>3. Nat \subseteq T
    BY <1>1, <1>2, SetInduction
  <1> QED BY <1>3 DEF T

(* As many steps as there are items are enough to meet whatever can be met.   *)
LEMMA MetClosed ==
    ASSUME NEW g \in [Pointers -> Pointers], NEW p \in Pointers, NEW f, IsWalk(f, g, p)
    PROVE  /\ p \in Met(f) /\ Met(f) \subseteq Pointers
           /\ \A x \in Met(f) : g[x] \in Met(f)
  <1>1. p \in Met(f) /\ Met(f) \subseteq Pointers
    BY NType DEF Met, IsWalk
  <1>2. ASSUME NEW n \in 0..N, n # N PROVE g[f[n]] \in Met(f)
    <2>1. n + 1 \in 1..N /\ n + 1 - 1 = n
      BY <1>2, NType
    <2> QED BY <2>1 DEF Met, IsWalk
  <1>3. g[f[N]] \in Met(f)
    <2>1. CASE \E i, j \in 0..N : i # j /\ f[i] = f[j]
      <3>1. PICK i \in 0..N, j \in 0..N : i < j /\ f[i] = f[j]
        BY <2>1
      <3>2. N - j \in Nat /\ j + (N - j) = N /\ i + (N - j) \in 0..N /\ i + (N - j) # N
        BY <3>1, NType
      <3>3. f[i + (N - j)] = f[N]
        BY <3>1, <3>2, NType, WalksAgree
      <3> QED BY <1>2, <3>2, <3>3
    <2>2. CASE \A i, j \in 0..N : f[i] = f[j] => i = j
      <3>1. f \in Injection(0..N, Pointers)
        BY <2>2 DEF IsWalk, Injection, IsInjective
      <3>2. Cardinality(0..N) = N + 1
        BY NType, FS_Interval
      <3>3. f \in Surjection(0..N, Pointers)
        BY <3>1, <3>2, PointersCount, FS_Injection
      <3>4. Met(f) = Pointers
        BY <1>1, <3>3 DEF Surjection, Met
      <3> QED BY <3>4, NType DEF IsWalk
    <2> QED BY <2>1, <2>2
  <1> QED BY <1>1, <1>2, <1>3 DEF Met

(* And it meets nothing else.                                               *)
LEMMA MetLeast ==
    ASSUME NEW g, NEW p, NEW f, IsWalk(f, g, p),
           NEW C, p \in C, \A x \in C \cap Pointers : g[x] \in C
    PROVE  Met(f) \subseteq C
  <1> DEFINE T == {n \in Nat : n <= N => f[n] \in C}
  <1>1. 0 \in T
    BY NType DEF IsWalk
  <1>2. ASSUME NEW n \in Nat, n \in T PROVE n + 1 \in T
    <2> SUFFICES ASSUME n + 1 <= N PROVE f[n + 1] \in C
      OBVIOUS
    <2>1. n + 1 \in 1..N /\ n + 1 - 1 = n /\ n \in 0..N
      BY NType
    <2> QED BY <1>2, <2>1 DEF IsWalk
  <1> HIDE DEF T
  <1>3. Nat \subseteq T
    BY <1>1, <1>2, SetInduction
  <1> QED BY <1>3, NType DEF T, Met

-----------------------------------------------------------------------------
(* Chains: the items of a list whose walk comes to no harm.                 *)

(* What stands behind the items of q is the end.                            *)
Place(q, i) == IF i \in 1..Len(q) THEN q[i] ELSE Null

(* Starting at p, the items of q are live and each points to the next one.   *)
IsChain(q, m, nx, p) ==
    /\ q \in Seq(Items)
    /\ p = Place(q, 1)
    /\ \A i \in 1..Len(q) : m[q[i]] = "live" /\ nx[q[i]] = Place(q, i + 1)

Elements(q) == {q[i] : i \in 1..Len(q)}

(* No item occurs twice in a chain.                                         *)
LEMMA ChainInjective ==
    ASSUME NEW q, NEW m, NEW nx, NEW p, IsChain(q, m, nx, p),
           NEW i \in 1..Len(q), NEW j \in 1..Len(q), q[i] = q[j]
    PROVE  i = j
  <1>1. q \in Seq(Items) /\ Len(q) \in Nat
    BY DEF IsChain
  <1>2. ASSUME NEW a \in 1..Len(q), NEW b \in 1..Len(q), a < b, q[a] = q[b] PROVE FALSE
    <2> DEFINE T == {k \in Nat : b + k <= Len(q) + 1 => Place(q, a + k) = Place(q, b + k)}
    <2>1. 0 \in T
      BY <1>1, <1>2 DEF Place
    <2>2. ASSUME NEW k \in Nat, k \in T PROVE k + 1 \in T
      <3> SUFFICES ASSUME b + (k + 1) <= Len(q) + 1
                   PROVE  Place(q, a + (k + 1)) = Place(q, b + (k + 1))
        OBVIOUS
      <3>1. a + k \in 1..Len(q) /\ b + k \in 1..Len(q) /\ a + (k + 1) = a + k + 1
            /\ b + (k + 1) = b + k + 1
        BY <1>1, <1>2
      <3>2. q[a + k] = q[b + k]
        BY <1>1, <2>2, <3>1 DEF Place
      <3> QED BY <3>1, <3>2 DEF IsChain
    <2> HIDE DEF T
    <2>3. Nat \subseteq T
      BY <2>1, <2>2, SetInduction
    <2>4. PICK c \in Nat : c = Len(q) + 1 - b
      BY <1>1
    <2>5. b + c = Len(q) + 1 /\ a + c \in 1..Len(q) /\ Len(q) + 1 \notin 1..Len(q)
      BY <1>1, <1>2, <2>4
    <2>6. Place(q, a + c) = Place(q, Len(q) + 1)
      BY <1>1, <2>3, <2>5 DEF T
    <2>7. q[a + c] = Null
      BY <2>5, <2>6 DEF Place
    <2> QED BY <1>1, <2>5, <2>7, ItemsAssumption
  <1> QED BY <1>1, <1>2

(* So a chain has no more places than there are items, and as many as it has *)
(* items of its own.                                                        *)
LEMMA ChainLength ==
    ASSUME NEW q, NEW m, NEW nx, NEW p, IsChain(q, m, nx, p)
    PROVE  /\ Len(q) \in 0..N
           /\ Cardinality(Elements(q)) = Len(q)
  <1> DEFINE S == {q[i] : i \in 1..Len(q)}
  <1>1. q \in Seq(Items) /\ Len(q) \in Nat /\ q = [i \in 1..Len(q) |-> q[i]]
    BY DEF IsChain
  <1>2. q \in Injection(1..Len(q), S) /\ q \in Surjection(1..Len(q), S)
    BY <1>1, ChainInjective DEF Injection, Surjection, IsInjective
  <1>3. ExistsBijection(1..Len(q), S)
    BY <1>2 DEF ExistsBijection, Bijection
  <1>4. Cardinality(S) = Len(q)
    BY <1>1, <1>3, FS_CountingElements
  <1>5. S \in SUBSET Items
    BY <1>1
  <1>6. Cardinality(S) <= N
    BY <1>5, ItemsAssumption, FS_Subset DEF N
  <1>7. Len(q) \in 0..N
    <2>1. Len(q) <= N
      BY <1>4, <1>6
    <2> QED BY <1>1, <2>1, NType
  <1> QED BY <1>4, <1>7 DEF Elements

(* A walk goes along the chain and stops at its end.                         *)
LEMMA ChainWalk ==
    ASSUME NEW q, NEW m, NEW nx \in [Items -> Pointers], NEW p, IsChain(q, m, nx, p),
           NEW f, IsWalk(f, Stepper(m, nx), p)
    PROVE  \A n \in 0..N : f[n] = Place(q, n + 1)
  <1> DEFINE T == {n \in Nat : n <= N => f[n] = Place(q, n + 1)}
  <1>1. 0 \in T
    BY NType DEF IsWalk, IsChain
  <1>2. ASSUME NEW n \in Nat, n \in T PROVE n + 1 \in T
    <2> SUFFICES ASSUME n + 1 <= N PROVE f[n + 1] = Place(q, n + 1 + 1)
      OBVIOUS
    <2>1. n + 1 \in 1..N /\ n + 1 - 1 = n
      BY NType
    <2>2. f[n + 1] = Stepper(m, nx)[Place(q, n + 1)]
      BY <1>2, <2>1, NType DEF IsWalk
    <2>3. q \in Seq(Items) /\ Len(q) \in Nat
      BY DEF IsChain
    <2>4. CASE n + 1 \in 1..Len(q)
      <3>1. Place(q, n + 1) = q[n + 1] /\ q[n + 1] \in Items /\ q[n + 1] # Null
        BY <2>3, <2>4, ItemsAssumption DEF Place
      <3> QED BY <2>2, <2>4, <3>1 DEF Stepper, IsChain, Pointers
    <2>5. CASE n + 1 \notin 1..Len(q)
      <3>1. Place(q, n + 1) = Null /\ n + 1 + 1 \notin 1..Len(q)
        BY <2>3, <2>5 DEF Place
      <3> QED BY <2>2, <3>1 DEF Stepper, Pointers, Place
    <2> QED BY <2>4, <2>5
  <1> HIDE DEF T
  <1>3. Nat \subseteq T
    BY <1>1, <1>2, SetInduction
  <1> QED BY <1>3, NType DEF T

(* It meets the items of the chain, and the end.                             *)
LEMMA ChainMet ==
    ASSUME NEW q, NEW m, NEW nx \in [Items -> Pointers], NEW p, IsChain(q, m, nx, p),
           NEW f, IsWalk(f, Stepper(m, nx), p)
    PROVE  /\ Met(f) = Elements(q) \cup {Null}
           /\ f[N] = Null
  <1>1. q \in Seq(Items) /\ Len(q) \in 0..N
    BY ChainLength DEF IsChain
  <1>2. \A n \in 0..N : f[n] = Place(q, n + 1)
    BY ChainWalk
  <1>3. f[N] = Null /\ N \in 0..N
    BY <1>1, <1>2, NType DEF Place
  <1>4. \A i \in 1..Len(q) : i - 1 \in 0..N /\ i - 1 + 1 = i /\ f[i - 1] = q[i]
    BY <1>1, <1>2, NType DEF Place
  <1>5. \A n \in 0..N : f[n] = Null \/ \E i \in 1..Len(q) : f[n] = q[i]
    BY <1>2 DEF Place
  <1> QED BY <1>3, <1>4, <1>5 DEF Met, Elements

(* A walk that meets live items only, and the end, is one along a chain.      *)
LEMMA WalkChain ==
    ASSUME NEW m, NEW nx \in [Items -> Pointers], NEW p \in Pointers,
           NEW f, IsWalk(f, Stepper(m, nx), p),
           Null \in Met(f), \A x \in Met(f) : x # Null => m[x] = "live"
    PROVE  \E q : IsChain(q, m, nx, p)
  <1> DEFINE T == {n \in 0..N : f[n] = Null}
  <1>1. PICK k \in T : \A n \in T : k <= n
    <2>1. T \in SUBSET Nat /\ T # {}
      BY NType DEF Met
    <2> QED BY <2>1, LeastElement
  <1> DEFINE q == [i \in 1..k |-> f[i - 1]]
  <1>2. k \in Nat /\ k \in 0..N /\ f[k] = Null
    BY <1>1, NType
  <1>3. \A n \in 0..N : n < k => f[n] # Null
    BY <1>1
  <1>4. \A i \in 1..k : i - 1 \in 0..N /\ f[i - 1] \in Items /\ m[f[i - 1]] = "live"
    BY <1>2, <1>3, NType DEF IsWalk, Pointers, Met
  <1>5. q \in Seq(Items) /\ Len(q) = k /\ \A i \in 1..k : q[i] = f[i - 1]
    BY <1>2, <1>4
  <1> HIDE DEF q
  <1>6. \A i \in 1..k + 1 : Place(q, i) = f[i - 1]
    BY <1>2, <1>5 DEF Place
  <1>7. ASSUME NEW i \in 1..k PROVE m[q[i]] = "live" /\ nx[q[i]] = Place(q, i + 1)
    <2>1. i \in 1..N /\ i + 1 \in 1..k + 1 /\ i + 1 - 1 = i
      BY <1>2, NType
    <2>2. f[i] = Stepper(m, nx)[f[i - 1]]
      BY <2>1 DEF IsWalk
    <2>3. f[i] = nx[f[i - 1]]
      BY <1>4, <2>2, ItemsAssumption DEF Stepper, Pointers
    <2> QED BY <1>4, <1>5, <1>6, <2>1, <2>3
  <1>8. p = Place(q, 1)
    BY <1>2, <1>6, NType DEF IsWalk
  <1>9. IsChain(q, m, nx, p)
    BY <1>5, <1>7, <1>8 DEF IsChain
  <1> QED BY <1>9

-----------------------------------------------------------------------------
(* The walks of a heap.  These lemmas are about states, and are used of the   *)
(* next state as well.                                                      *)

HeapOK == next \in [Items -> Pointers] /\ head \in [Lists -> Pointers]

Walk(l) == Met(At(l))

(* The walk of a list meets its head and what follows a live item it meets,   *)
(* and nothing that does not belong to every set of that kind.               *)
LEMMA Walks ==
    HeapOK => \A l \in Lists :
        /\ head[l] \in Walk(l) /\ Walk(l) \subseteq Pointers
        /\ Reach(l) = Walk(l) \ {Null}
        /\ \A x \in Walk(l) \cap Live : next[x] \in Walk(l)
        /\ \A C : head[l] \in C /\ (\A x \in C \cap Live : next[x] \in C) => Walk(l) \subseteq C
  <1> SUFFICES ASSUME HeapOK, NEW l \in Lists
      PROVE /\ head[l] \in Walk(l) /\ Walk(l) \subseteq Pointers
            /\ Reach(l) = Walk(l) \ {Null}
            /\ \A x \in Walk(l) \cap Live : next[x] \in Walk(l)
            /\ \A C : head[l] \in C /\ (\A x \in C \cap Live : next[x] \in C) => Walk(l) \subseteq C
    OBVIOUS
  <1> DEFINE g == Stepper(mem, next)
             f == At(l)
  <1>1. IsWalk(f, g, head[l]) /\ g \in [Pointers -> Pointers] /\ head[l] \in Pointers
    BY AtIsWalk, StepperType DEF HeapOK
  <1>2. Reach(l) = Walk(l) \ {Null}
    BY DEF Reach, Walk, Met, N
  <1>3. \A x \in Pointers : g[x] = IF x \in Live THEN next[x] ELSE x
    BY ItemsAssumption DEF Stepper, Live, Pointers
  <1> HIDE DEF f, g
  <1>4. /\ head[l] \in Met(f) /\ Met(f) \subseteq Pointers
        /\ \A x \in Met(f) : g[x] \in Met(f)
    BY <1>1, MetClosed
  <1>5. ASSUME NEW C, head[l] \in C, \A x \in C \cap Live : next[x] \in C
        PROVE  Met(f) \subseteq C
    <2>1. \A x \in C \cap Pointers : g[x] \in C
      BY <1>3, <1>5
    <2> QED BY <1>1, <1>5, <2>1, MetLeast
  <1> QED BY <1>2, <1>3, <1>4, <1>5 DEF Walk, f

(* A list is sound when its walk comes to the end, along live items.         *)
LEMMA SoundWalks ==
    HeapOK => \A l \in Lists :
        /\ Sound(l) <=> Null \in Walk(l) /\ Reach(l) \subseteq Live
        /\ Sound(l) <=> IsChain(Contents(l), mem, next, head[l])
        /\ \A q : IsChain(q, mem, next, head[l]) =>
               /\ Contents(l) = q
               /\ Walk(l) = Elements(q) \cup {Null}
               /\ \A n \in 0..N : At(l)[n] = Place(q, n + 1)
  <1> SUFFICES ASSUME HeapOK, NEW l \in Lists
      PROVE /\ Sound(l) <=> Null \in Walk(l) /\ Reach(l) \subseteq Live
            /\ Sound(l) <=> IsChain(Contents(l), mem, next, head[l])
            /\ \A q : IsChain(q, mem, next, head[l]) =>
                   /\ Contents(l) = q
                   /\ Walk(l) = Elements(q) \cup {Null}
                   /\ \A n \in 0..N : At(l)[n] = Place(q, n + 1)
    OBVIOUS
  <1> DEFINE f == At(l)
  <1>1. IsWalk(f, Stepper(mem, next), head[l]) /\ head[l] \in Pointers
        /\ next \in [Items -> Pointers]
    BY AtIsWalk DEF HeapOK
  <1>2. Reach(l) = Walk(l) \ {Null} /\ Walk(l) \subseteq Pointers
    BY Walks
  <1>3. f[N] \in Walk(l) /\ Walk(l) = Met(f)
    BY NType DEF Walk, Met
  <1>4. Sound(l) <=> Reach(l) \subseteq Live /\ f[N] \notin Live
    BY <1>2 DEF Sound, Endless, Live, N, Pointers
  <1>5. Contents(l) = [k \in 1..Cardinality(Reach(l)) |-> f[k - 1]]
    BY DEF Contents
  <1> HIDE DEF f
  <1>6. ASSUME NEW q, IsChain(q, mem, next, head[l])
        PROVE  /\ Contents(l) = q
               /\ Walk(l) = Elements(q) \cup {Null}
               /\ \A n \in 0..N : f[n] = Place(q, n + 1)
               /\ Sound(l)
    <2>1. q \in Seq(Items) /\ \A i \in 1..Len(q) : mem[q[i]] = "live"
      BY <1>6 DEF IsChain
    <2>2. Walk(l) = Elements(q) \cup {Null} /\ f[N] = Null
      BY <1>1, <1>3, <1>6, ChainMet
    <2>3. Reach(l) = Elements(q)
      BY <1>2, <2>1, <2>2, ItemsAssumption DEF Elements
    <2>4. Sound(l)
      BY <1>4, <2>1, <2>2, <2>3, ItemsAssumption DEF Live, Elements
    <2>5. \A n \in 0..N : f[n] = Place(q, n + 1)
      BY <1>1, <1>6, ChainWalk
    <2>6. Cardinality(Reach(l)) = Len(q) /\ Len(q) \in 0..N
      BY <1>6, <2>3, ChainLength
    <2>7. \A k \in 1..Len(q) : f[k - 1] = q[k]
      BY <2>5, <2>6, NType DEF Place
    <2>8. Contents(l) = q
      BY <1>5, <2>1, <2>6, <2>7
    <2> QED BY <2>2, <2>4, <2>5, <2>8
  <1>7. ASSUME Null \in Walk(l), Reach(l) \subseteq Live
        PROVE  \E q : IsChain(q, mem, next, head[l])
    BY <1>1, <1>2, <1>3, <1>7, WalkChain DEF Live
  <1>8. Sound(l) => Null \in Walk(l) /\ Reach(l) \subseteq Live
    BY <1>2, <1>3, <1>4
  <1> QED BY <1>6, <1>7, <1>8 DEF f

(* Stepping no further than the last item is stepping to an item.            *)
LEMMA ClampedReached ==
    HeapOK => \A l \in Lists, i \in 0..N :
        head[l] # Null => Clamped(l, i) \in Reach(l)
  <1> SUFFICES ASSUME HeapOK, NEW l \in Lists, NEW i \in 0..N, head[l] # Null
               PROVE  Clamped(l, i) \in Reach(l)
    OBVIOUS
  <1> DEFINE f == At(l)
  <1>1. IsWalk(f, Stepper(mem, next), head[l])
    BY AtIsWalk DEF HeapOK
  <1>2. Reach(l) = {f[n] : n \in 0..N} \ {Null}
    BY DEF Reach, N
  <1>3. CASE f[i] # Null
    BY <1>2, <1>3 DEF Clamped
  <1>4. CASE f[i] = Null
    <2> DEFINE T == {n \in 0..N : f[n] = Null}
    <2>1. PICK n \in T : \A k \in T : n <= k
      <3>1. T \in SUBSET Nat /\ T # {}
        BY <1>4, NType
      <3> QED BY <3>1, LeastElement
    <2>2. n \in 1..N /\ n - 1 \in 0..N /\ f[n] = Null /\ f[n - 1] # Null
      BY <1>1, <2>1, NType DEF IsWalk
    <2>3. f[n] = Stepper(mem, next)[f[n - 1]] /\ f[n - 1] \in Pointers
      BY <1>1, <2>2 DEF IsWalk
    <2>4. next[f[n - 1]] = Null
      BY <2>2, <2>3 DEF Stepper
    <2>5. Last(l) \in Reach(l)
      BY <1>2, <2>2, <2>4 DEF Last
    <2> QED BY <1>4, <2>5 DEF Clamped
  <1> QED BY <1>3, <1>4

-----------------------------------------------------------------------------
(* The invariant.                                                           *)

LEMMA InvHeap == Inv => HeapOK
  BY DEF Inv, TypeOK, HeapOK

(* A walk meets no memory that was never allocated, and one that comes to no  *)
(* fault is that of a sound list.                                            *)
LEMMA WalkKnown ==
    Inv => \A l \in Lists :
        /\ Walk(l) \cap Unused = {}
        /\ Reach(l) \subseteq Items /\ Reach(l) \subseteq Live \cup Freed
        /\ IsFiniteSet(Reach(l)) /\ Cardinality(Reach(l)) \in Nat
        /\ Walked(l) = "none" <=> Sound(l)
        /\ Walked(l) \in {"none", "useAfterFree", "endlessLoop"}
  <1> SUFFICES ASSUME Inv, NEW l \in Lists
      PROVE /\ Walk(l) \cap Unused = {}
            /\ Reach(l) \subseteq Items /\ Reach(l) \subseteq Live \cup Freed
            /\ IsFiniteSet(Reach(l)) /\ Cardinality(Reach(l)) \in Nat
            /\ Walked(l) = "none" <=> Sound(l)
            /\ Walked(l) \in {"none", "useAfterFree", "endlessLoop"}
    OBVIOUS
  <1>1. Walk(l) \subseteq Pointers \ Unused
    <2> DEFINE C == Pointers \ Unused
    <2>1. head[l] \in C /\ \A x \in C \cap Live : next[x] \in C
      BY DEF Inv, TypeOK, Live
    <2> HIDE DEF C
    <2>2. Walk(l) \subseteq C
      BY <2>1, InvHeap, Walks
    <2> QED BY <2>2 DEF C
  <1>2. Reach(l) = Walk(l) \ {Null}
    BY InvHeap, Walks
  <1>3. Reach(l) \subseteq Items /\ Reach(l) \subseteq Live \cup Freed
    BY <1>1, <1>2 DEF Pointers, Unused, Live, Freed, Inv, TypeOK
  <1>4. IsFiniteSet(Reach(l)) /\ Cardinality(Reach(l)) \in Nat
    BY <1>3, ItemsAssumption, FS_Subset, FS_CardinalityType
  <1>5. Reach(l) \cap Freed = {} <=> Reach(l) \subseteq Live
    BY <1>3 DEF Live, Freed
  <1> QED BY <1>1, <1>3, <1>4, <1>5 DEF Walked, Sound, Live

(* Where Clamped stops is an allocated item, live unless it was freed.       *)
LEMMA ClampedKnown ==
    Inv => \A l \in Lists, i \in 0..MaxIndex :
        head[l] # Null =>
            Clamped(l, i) \in Reach(l) /\ Clamped(l, i) \in Items \ Unused
  <1>1. MaxIndex \in 0..N
    BY NumbersAssumption DEF N
  <1>2. \A i \in 0..MaxIndex : i \in 0..N
    BY <1>1, NType
  <1>3. Inv => \A l \in Lists : Reach(l) \subseteq Items \ Unused
    BY WalkKnown DEF Live, Freed, Unused
  <1> QED BY <1>2, <1>3, InvHeap, ClampedReached

(* The last item of a sound list, and only that one, is followed by nothing.  *)
LEMMA LastOfSound ==
    Inv => \A l \in Lists : Sound(l) /\ head[l] # Null =>
        /\ Last(l) \in Reach(l) /\ Last(l) \in Live /\ next[Last(l)] = Null
        /\ Len(Contents(l)) > 0 /\ Last(l) = Contents(l)[Len(Contents(l))]
        /\ \A x \in Reach(l) : next[x] = Null => x = Last(l)
  <1> SUFFICES ASSUME Inv, NEW l \in Lists, Sound(l), head[l] # Null
      PROVE /\ Last(l) \in Reach(l) /\ Last(l) \in Live /\ next[Last(l)] = Null
            /\ Len(Contents(l)) > 0 /\ Last(l) = Contents(l)[Len(Contents(l))]
            /\ \A x \in Reach(l) : next[x] = Null => x = Last(l)
    OBVIOUS
  <1>1. PICK q : q = Contents(l)
    OBVIOUS
  <1>2. IsChain(q, mem, next, head[l])
    BY <1>1, InvHeap, SoundWalks
  <1>3. q \in Seq(Items) /\ Len(q) \in Nat /\ Len(q) > 0
    BY <1>2 DEF IsChain, Place
  <1>4. Reach(l) = Elements(q)
    <2>1. Reach(l) = Walk(l) \ {Null} /\ Walk(l) = Elements(q) \cup {Null}
      BY <1>1, <1>2, InvHeap, SoundWalks, Walks
    <2> QED BY <1>3, <2>1, ItemsAssumption DEF Elements
  <1>5. ASSUME NEW i \in 1..Len(q), next[q[i]] = Null PROVE i = Len(q)
    <2>1. Place(q, i + 1) = Null
      BY <1>2, <1>5 DEF IsChain
    <2> QED BY <1>3, <2>1, ItemsAssumption DEF Place
  <1>6. Len(q) \in 1..Len(q) /\ q[Len(q)] \in Reach(l) /\ next[q[Len(q)]] = Null
        /\ q[Len(q)] \in Live
    BY <1>2, <1>3, <1>4 DEF IsChain, Place, Elements, Live
  <1>7. \A x \in Reach(l) : next[x] = Null => x = q[Len(q)]
    BY <1>4, <1>5 DEF Elements
  <1>8. Last(l) = q[Len(q)]
    BY <1>6, <1>7 DEF Last
  <1> QED BY <1>1, <1>3, <1>6, <1>7, <1>8

-----------------------------------------------------------------------------
LEMMA InitInv == Init => Inv
  <1>1. 0 \in 0..SizeMod - 1
    BY NumbersAssumption
  <1> SUFFICES ASSUME Init PROVE Inv
    OBVIOUS
  <1>2. Null \in Pointers \ Unused
    BY ItemsAssumption DEF Pointers, Unused
  <1>3. Unused = Items
    BY DEF Init, Unused
  <1>4. TypeOK
    BY <1>1, <1>2, ListsAssumption DEF Init, TypeOK
  <1>5. Fresh
    BY <1>3 DEF Init, Fresh
  <1> QED BY <1>4, <1>5 DEF Inv

LEMMA FailsInv ==
    ASSUME Inv, NEW f \in {"nullPointer", "useAfterFree", "endlessLoop"}, Fails(f)
    PROVE  Inv'
  BY DEF Fails, Inv, TypeOK, Fresh, Unused

LEMMA LessType == \A n \in 0..SizeMod - 1 : Less(n) \in 0..SizeMod - 1
  BY NumbersAssumption DEF Less

(* A call that frees some items, and moves pointers between allocated ones.   *)
LEMMA ReleaseInv ==
    ASSUME Inv, NEW S \in SUBSET Items, S \cap Unused = {},
           mem' = [x \in Items |-> IF x \in S THEN "freed" ELSE mem[x]],
           head' \in [Lists -> Pointers \ Unused],
           next' \in [Items -> Pointers \ Unused],
           \A x \in Unused : next'[x] = next[x]
    PROVE  /\ mem' \in [Items -> {"unused", "live", "freed"}]
           /\ next' \in [Items -> Pointers \ Unused']
           /\ head' \in [Lists -> Pointers \ Unused']
           /\ Fresh'
  <1>1. Unused' = Unused
    BY DEF Inv, TypeOK, Unused
  <1> QED BY <1>1 DEF Inv, TypeOK, Fresh

LEMMA AddInv ==
    ASSUME Inv, NEW l \in Lists, NEW x \in Items, OXLListAdd(l, x)
    PROVE  Inv'
  <1>1. CASE Walked(l) # "none" /\ Fails(Walked(l))
    BY <1>1, WalkKnown, FailsInv
  <1>2. CASE ~(Walked(l) # "none" /\ Fails(Walked(l)))
    <2>1. /\ mem' = [mem EXCEPT ![x] = "live"] /\ UNCHANGED <<size, made, fault>>
          /\ IF head[l] = Null THEN head' = [head EXCEPT ![l] = x] /\ UNCHANGED next
             ELSE UNCHANGED head /\ next' = [next EXCEPT ![Last(l)] = x]
          /\ Sound(l)
      BY <1>2, WalkKnown DEF OXLListAdd, LinkBehind
    <2>2. x \in Unused
      BY DEF OXLListAdd
    <2>3. CASE head[l] = Null
      <3>1. UNCHANGED next /\ head' = [head EXCEPT ![l] = x]
        BY <2>1, <2>3
      <3>2. Unused' = Unused \ {x} /\ x \in Pointers
        BY <2>1 DEF Inv, TypeOK, Unused, Pointers
      <3> QED BY <2>1, <3>1, <3>2 DEF Inv, TypeOK, Fresh
    <2>4. CASE head[l] # Null
      <3>1. Last(l) \in Items \ Unused /\ UNCHANGED head
            /\ next' = [next EXCEPT ![Last(l)] = x]
        BY <2>1, <2>4, LastOfSound DEF Live, Unused
      <3>2. Unused' = Unused \ {x} /\ x \in Pointers
        BY <2>1 DEF Inv, TypeOK, Unused, Pointers
      <3> QED BY <2>1, <3>1, <3>2 DEF Inv, TypeOK, Fresh
    <2> QED BY <2>3, <2>4
  <1> QED BY <1>1, <1>2

LEMMA AddListInv ==
    ASSUME Inv, NEW l \in Lists, NEW m \in Lists, OXLListAddList(l, m)
    PROVE  Inv'
  <1>1. CASE Walked(l) # "none" /\ Fails(Walked(l))
    BY <1>1, WalkKnown, FailsInv
  <1>2. CASE ~(Walked(l) # "none" /\ Fails(Walked(l)))
    <2>1. /\ UNCHANGED <<mem, size, made, fault>>
          /\ IF head[l] = Null THEN head' = [head EXCEPT ![l] = head[m]] /\ UNCHANGED next
             ELSE UNCHANGED head /\ next' = [next EXCEPT ![Last(l)] = head[m]]
          /\ Sound(l)
      BY <1>2, WalkKnown DEF OXLListAddList, LinkBehind
    <2>2. head[l] # Null => Last(l) \in Items \ Unused
      BY <2>1, LastOfSound DEF Live, Unused
    <2>3. Unused' = Unused
      BY <2>1 DEF Unused
    <2>4. head[m] \in Pointers \ Unused
      BY DEF Inv, TypeOK
    <2>5. CASE head[l] = Null
      BY <2>1, <2>3, <2>4, <2>5 DEF Inv, TypeOK, Fresh
    <2>6. CASE head[l] # Null
      <3>1. UNCHANGED head /\ next' = [next EXCEPT ![Last(l)] = head[m]]
            /\ Last(l) \in Items \ Unused
        BY <2>1, <2>2, <2>6
      <3>2. next' \in [Items -> Pointers \ Unused] /\ \A z \in Unused : next'[z] = next[z]
        BY <2>4, <3>1 DEF Inv, TypeOK, Unused
      <3> QED BY <2>1, <2>3, <3>1, <3>2 DEF Inv, TypeOK, Fresh
    <2> QED BY <2>5, <2>6
  <1> QED BY <1>1, <1>2

LEMMA InsertInv ==
    ASSUME Inv, NEW l \in Lists, NEW x \in Items, NEW i \in 0..MaxIndex, OXLListInsert(l, x, i)
    PROVE  Inv'
  <1>1. CASE Fails("useAfterFree")
    BY <1>1, FailsInv
  <1>2. CASE ~Fails("useAfterFree")
    <2> DEFINE c == Clamped(l, i)
    <2>1. /\ mem' = [mem EXCEPT ![x] = "live"] /\ x \in Unused
          /\ head' = IF i = 0 /\ head[l] = Null THEN [head EXCEPT ![l] = x] ELSE head
          /\ next' = IF i > 0 /\ head[l] # Null
                     THEN [next EXCEPT ![c] = x, ![x] = next[c]] ELSE next
          /\ size' = [size EXCEPT ![l] = (@ + 1) % SizeMod]
          /\ UNCHANGED <<made, fault>>
      BY <1>2 DEF OXLListInsert
    <2>2. head[l] # Null => c \in Items \ Unused
      BY ClampedKnown
    <2> HIDE DEF c
    <2>3. Unused' = Unused \ {x} /\ x \in Pointers
      BY <2>1 DEF Inv, TypeOK, Unused, Pointers
    <2>4. size' \in [Lists -> 0..SizeMod - 1]
      <3>1. \A n \in 0..SizeMod - 1 : (n + 1) % SizeMod \in 0..SizeMod - 1
        BY NumbersAssumption
      <3> QED BY <2>1, <3>1 DEF Inv, TypeOK
    <2>5. CASE i > 0 /\ head[l] # Null
      <3>1. c \in Items \ Unused /\ head' = head /\ next' = [next EXCEPT ![c] = x, ![x] = next[c]]
            /\ c # x
        BY <2>1, <2>2, <2>5
      <3>2. next[c] \in Pointers \ Unused
        BY <3>1 DEF Inv, TypeOK
      <3>3. next' \in [Items -> Pointers \ Unused']
        BY <2>3, <3>1, <3>2 DEF Inv, TypeOK
      <3>4. Fresh'
        <4>1. \A z \in Items \ {x, c} : next'[z] = next[z]
          BY <3>1 DEF Inv, TypeOK
        <4>2. \A z \in Unused' : z \in Unused /\ z \in Items \ {x, c}
          BY <2>3, <3>1 DEF Unused
        <4> QED BY <4>1, <4>2 DEF Inv, Fresh
      <3>5. mem' \in [Items -> {"unused", "live", "freed"}] /\ head' \in [Lists -> Pointers \ Unused']
        BY <2>1, <2>3, <3>1 DEF Inv, TypeOK
      <3> QED BY <2>1, <2>4, <3>3, <3>4, <3>5 DEF Inv, TypeOK
    <2>6. CASE ~(i > 0 /\ head[l] # Null)
      BY <2>1, <2>3, <2>4, <2>6 DEF Inv, TypeOK, Fresh
    <2> QED BY <2>5, <2>6
  <1> QED BY <1>1, <1>2

LEMMA SizeInv ==
    ASSUME Inv, NEW l \in Lists, OXLListSize(l)
    PROVE  Inv'
  <1>1. CASE Fails("nullPointer") \/ (Walked(l) # "none" /\ Fails(Walked(l)))
    BY <1>1, WalkKnown, FailsInv
  <1>2. CASE ~(Fails("nullPointer") \/ (Walked(l) # "none" /\ Fails(Walked(l))))
    <2>1. size' = [size EXCEPT ![l] = (Cardinality(Reach(l)) - 1) % SizeMod]
          /\ UNCHANGED <<mem, next, head, made, fault>>
      BY <1>2 DEF OXLListSize
    <2>2. \A n \in Nat : (n - 1) % SizeMod \in 0..SizeMod - 1
      BY NumbersAssumption
    <2>3. (Cardinality(Reach(l)) - 1) % SizeMod \in 0..SizeMod - 1
      BY <2>2, WalkKnown
    <2>4. size' \in [Lists -> 0..SizeMod - 1] /\ Unused' = Unused
      BY <2>1, <2>3 DEF Inv, TypeOK, Unused
    <2> QED BY <2>1, <2>4 DEF Inv, TypeOK, Fresh
  <1> QED BY <1>1, <1>2

LEMMA TailListInv ==
    ASSUME Inv, NEW l \in Lists, NEW m \in Lists, OXLCreateTailList(l, m)
    PROVE  Inv'
  <1>1. CASE Fails("nullPointer") \/ Fails("useAfterFree")
    BY <1>1, FailsInv
  <1>2. CASE ~(Fails("nullPointer") \/ Fails("useAfterFree"))
    <2>1. /\ head[l] \in Live /\ made' = made \cup {m}
          /\ head' = [head EXCEPT ![m] = next[head[l]]]
          /\ size' = [size EXCEPT ![m] = Less(size[l])]
          /\ UNCHANGED <<mem, next, fault>>
      BY <1>2 DEF OXLCreateTailList
    <2>2. Unused' = Unused /\ next[head[l]] \in Pointers \ Unused
      BY <2>1 DEF Unused, Live, Inv, TypeOK
    <2>3. Less(size[l]) \in 0..SizeMod - 1
      BY LessType DEF Inv, TypeOK
    <2> QED BY <2>1, <2>2, <2>3 DEF Inv, TypeOK, Fresh
  <1> QED BY <1>1, <1>2

(* Emptying a list, and forgetting it or not.                                *)
LEMMA EmptyingInv ==
    ASSUME Inv, NEW l \in Lists, OXLListRemoveAll(l) \/ OXLDestroyList(l)
    PROVE  Inv'
  <1>1. CASE Fails("useAfterFree")
    BY <1>1, FailsInv
  <1>2. CASE ~Fails("useAfterFree")
    <2>1. /\ mem' = [x \in Items |-> IF x \in Reach(l) THEN "freed" ELSE mem[x]]
          /\ head' = head \/ head' = [head EXCEPT ![l] = Null]
          /\ size' = [size EXCEPT ![l] = 0]
          /\ made' \subseteq made
          /\ UNCHANGED <<next, fault>>
      BY <1>2 DEF OXLListRemoveAll, OXLDestroyList
    <2>2. Reach(l) \subseteq Items /\ Reach(l) \cap Unused = {}
      BY WalkKnown DEF Live, Freed, Unused
    <2>3. head' \in [Lists -> Pointers \ Unused] /\ next' \in [Items -> Pointers \ Unused]
      BY <2>1, ItemsAssumption DEF Inv, TypeOK, Pointers, Unused
    <2>4. 0 \in 0..SizeMod - 1
      BY NumbersAssumption
    <2>5. size' \in [Lists -> 0..SizeMod - 1]
      BY <2>1, <2>4 DEF Inv, TypeOK
    <2>6. /\ mem' \in [Items -> {"unused", "live", "freed"}]
          /\ next' \in [Items -> Pointers \ Unused']
          /\ head' \in [Lists -> Pointers \ Unused']
          /\ Fresh'
      BY <2>1, <2>2, <2>3, ReleaseInv
    <2> QED BY <2>1, <2>5, <2>6 DEF Inv, TypeOK
  <1> QED BY <1>1, <1>2

LEMMA RemoveInv ==
    ASSUME Inv, NEW l \in Lists, NEW i \in 0..MaxIndex, OXLListRemove(l, i)
    PROVE  Inv'
  <1>1. CASE Fails("useAfterFree")
    BY <1>1, FailsInv
  <1>2. CASE ~Fails("useAfterFree")
    <2>1. PICK li : li = IF i = 0 \/ head[l] = Null THEN head[l] ELSE Clamped(l, i)
      OBVIOUS
    <2>2. /\ mem' = [x \in Items |-> IF x = li THEN "freed" ELSE mem[x]]
          /\ next' = [x \in Items |-> IF i > 0 /\ li # Null /\ x = head[l]
                                      THEN next[li] ELSE next[x]]
          /\ size' = [size EXCEPT ![l] = Less(@)]
          /\ UNCHANGED <<head, made, fault>>
      BY <1>2, <2>1 DEF OXLListRemove
    <2>3. li \in Pointers \ Unused /\ head[l] \in Pointers \ Unused
      BY <2>1, ClampedKnown DEF Inv, TypeOK, Pointers
    <2>4. /\ head' \in [Lists -> Pointers \ Unused]
          /\ next' \in [Items -> Pointers \ Unused]
          /\ \A x \in Unused : next'[x] = next[x]
      BY <2>2, <2>3 DEF Inv, TypeOK, Pointers, Unused
    <2>5. size' \in [Lists -> 0..SizeMod - 1]
      BY <2>2, LessType DEF Inv, TypeOK
    <2>6. PICK S \in SUBSET Items : S = {li} \ {Null}
      BY <2>3 DEF Pointers
    <2>7. S \cap Unused = {} /\ mem' = [x \in Items |-> IF x \in S THEN "freed" ELSE mem[x]]
      BY <2>2, <2>3, <2>6, ItemsAssumption
    <2>8. /\ mem' \in [Items -> {"unused", "live", "freed"}]
          /\ next' \in [Items -> Pointers \ Unused']
          /\ head' \in [Lists -> Pointers \ Unused']
          /\ Fresh'
      BY <2>4, <2>7, ReleaseInv
    <2> QED BY <2>2, <2>5, <2>8 DEF Inv, TypeOK
  <1> QED BY <1>1, <1>2

(* What a room list that starts from nothing does to the heap.               *)
NewRooms(n, xs) ==
    /\ xs \in [1..n -> Unused]
    /\ \A i, j \in 1..n : xs[i] = xs[j] => i = j
    /\ mem' = [x \in Items |-> IF \E i \in 1..n : xs[i] = x THEN "live" ELSE mem[x]]
    /\ next' \in [Items -> Pointers]
    /\ \A i \in 1..n - 1 : next'[xs[i]] = xs[i + 1]
    /\ \A x \in Items : (\A i \in 1..n - 1 : xs[i] # x) => next'[x] = next[x]
    /\ head' = IF n = 0 THEN head ELSE [head EXCEPT ![RoomList] = xs[1]]
    /\ size' = [size EXCEPT ![RoomList] = 0]
    /\ UNCHANGED <<made, fault>>

LEMMA RoomListCases ==
    ASSUME Inv, NEW n \in 0..MaxRooms, OXLPalClientHandleRoomList(n)
    PROVE  \/ Fails("useAfterFree")
           \/ Sound(RoomList) /\ head[RoomList] # Null /\ n = 0 /\ OXLListRemoveAll(RoomList)
           \/ head[RoomList] = Null /\ \E xs : NewRooms(n, xs)
  <1>0. n \in Nat
    BY NumbersAssumption
  <1>1. CASE Fails("useAfterFree")
            \/ (Sound(RoomList) /\ head[RoomList] # Null /\ n = 0 /\ OXLListRemoveAll(RoomList))
    BY <1>1
  <1>2. CASE ~(Fails("useAfterFree")
            \/ (Sound(RoomList) /\ head[RoomList] # Null /\ n = 0 /\ OXLListRemoveAll(RoomList)))
    <2>1. PICK xs \in [1..n -> Unused] :
              /\ head[RoomList] = Null
              /\ \A i, j \in 1..n : xs[i] = xs[j] => i = j
              /\ mem' = [x \in Items |-> IF \E i \in 1..n : xs[i] = x THEN "live" ELSE mem[x]]
              /\ next' = [x \in Items |-> IF \E i \in 1..n-1 : xs[i] = x
                                          THEN xs[1 + CHOOSE i \in 1..n-1 : xs[i] = x]
                                          ELSE next[x]]
              /\ head' = IF n = 0 THEN head ELSE [head EXCEPT ![RoomList] = xs[1]]
              /\ size' = [size EXCEPT ![RoomList] = 0]
              /\ UNCHANGED <<made, fault>>
      BY <1>2 DEF OXLPalClientHandleRoomList
    <2>2. ASSUME NEW i \in 1..n - 1
          PROVE  /\ (CHOOSE k \in 1..n - 1 : xs[k] = xs[i]) = i
                 /\ xs[i + 1] \in Unused /\ xs[i] \in Items /\ i + 1 = 1 + i
      BY <1>0, <2>1 DEF Unused
    <2>3. \A i \in 1..n - 1 : next'[xs[i]] = xs[i + 1]
      BY <2>1, <2>2
    <2>4. \A x \in Items : (\A i \in 1..n - 1 : xs[i] # x) => next'[x] = next[x]
      BY <2>1
    <2>5. next' \in [Items -> Pointers]
      <3>1. ASSUME NEW x \in Items PROVE next'[x] \in Pointers
        <4>1. CASE \E i \in 1..n - 1 : xs[i] = x
          BY <2>2, <2>3, <4>1 DEF Pointers, Unused
        <4>2. CASE \A i \in 1..n - 1 : xs[i] # x
          BY <2>4, <4>2 DEF Inv, TypeOK
        <4> QED BY <4>1, <4>2
      <3>2. next' = [x \in Items |-> next'[x]]
        BY <2>1
      <3> QED BY <3>1, <3>2
    <2>6. NewRooms(n, xs)
      BY <2>1, <2>3, <2>4, <2>5, Zenon DEF NewRooms
    <2> QED BY <2>1, <2>6
  <1> QED BY <1>1, <1>2

LEMMA RoomListInv ==
    ASSUME Inv, NEW n \in 0..MaxRooms, OXLPalClientHandleRoomList(n)
    PROVE  Inv'
  <1>1. CASE Fails("useAfterFree")
    BY <1>1, FailsInv
  <1>2. CASE OXLListRemoveAll(RoomList)
    BY <1>2, ListsAssumption, EmptyingInv
  <1>3. ASSUME NEW xs, NewRooms(n, xs) PROVE Inv'
    <2>0. n \in Nat
      BY NumbersAssumption
    <2>1. Unused' = Unused \ {xs[i] : i \in 1..n} /\ \A i \in 1..n : xs[i] \in Unused
      BY <1>3 DEF NewRooms, Unused
    <2>2. \A i \in 1..n : xs[i] \in Pointers \ Unused'
      BY <2>1 DEF Pointers, Unused
    <2>3. ASSUME NEW x \in Items PROVE next'[x] \in Pointers \ Unused'
      <3>1. CASE \E i \in 1..n - 1 : xs[i] = x
        <4>1. PICK i \in 1..n - 1 : xs[i] = x
          BY <3>1
        <4>2. next'[x] = xs[i + 1] /\ i + 1 \in 1..n
          BY <1>3, <2>0, <4>1 DEF NewRooms
        <4> QED BY <2>2, <4>2
      <3>2. CASE \A i \in 1..n - 1 : xs[i] # x
        BY <1>3, <2>1, <3>2 DEF NewRooms, Inv, TypeOK
      <3> QED BY <3>1, <3>2
    <2>4. next' \in [Items -> Pointers \ Unused']
      BY <1>3, <2>3 DEF NewRooms
    <2>5. Fresh'
      <3>1. ASSUME NEW x \in Unused' PROVE x \in Unused /\ \A i \in 1..n - 1 : xs[i] # x
        BY <2>0, <2>1
      <3> QED BY <1>3, <3>1 DEF NewRooms, Inv, Fresh, Unused
    <2>6. head' \in [Lists -> Pointers \ Unused']
      <3>1. head \in [Lists -> Pointers \ Unused']
        BY <2>1 DEF Inv, TypeOK
      <3>2. n # 0 => xs[1] \in Pointers \ Unused'
        BY <2>0, <2>2
      <3> QED BY <1>3, <3>1, <3>2 DEF NewRooms
    <2>7. mem' \in [Items -> {"unused", "live", "freed"}]
      BY <1>3 DEF NewRooms, Inv, TypeOK
    <2>8. 0 \in 0..SizeMod - 1
      BY NumbersAssumption
    <2>9. size' \in [Lists -> 0..SizeMod - 1] /\ made' \subseteq Lists /\ fault' = fault
      BY <1>3, <2>8 DEF NewRooms, Inv, TypeOK
    <2> QED BY <2>4, <2>5, <2>6, <2>7, <2>9 DEF Inv, TypeOK
  <1> QED BY <1>1, <1>2, <1>3, RoomListCases

LEMMA InvNext == Inv /\ [Next]_vars => Inv'
  <1> SUFFICES ASSUME Inv, [Next]_vars PROVE Inv'
    OBVIOUS
  <1>1. ASSUME NEW l \in Lists, OXLCreateList(l) PROVE Inv'
    <2>1. Null \in Pointers \ Unused /\ 0 \in 0..SizeMod - 1
      BY ItemsAssumption, NumbersAssumption DEF Pointers, Unused
    <2> QED BY <1>1, <2>1 DEF OXLCreateList, Inv, TypeOK, Fresh, Unused
  <1>2. ASSUME NEW l \in Lists, NEW i \in 0..MaxIndex, OXLListGet(l, i) PROVE Inv'
    BY <1>2, FailsInv DEF OXLListGet
  <1>3. ASSUME NEW l \in Lists, Growing(l) PROVE Inv'
    BY <1>1, <1>2, <1>3, SizeInv, AddInv, InsertInv, AddListInv, TailListInv DEF Growing
  <1>4. ASSUME NEW l \in Lists, Emptying(l) PROVE Inv'
    BY <1>4, EmptyingInv, RemoveInv DEF Emptying
  <1>5. CASE UNCHANGED vars
    BY <1>5 DEF vars, Inv, TypeOK, Fresh, Unused
  <1> QED BY <1>3, <1>4, <1>5, RoomListInv DEF Next

(* Inv is an invariant of the lists.                                         *)
THEOREM Invariant == Spec => []Inv
  <1> QED BY InitInv, InvNext, PTL DEF Spec

(* No pointer leads to memory that was never allocated, and list->size stays  *)
(* a size_t, whatever calls are made in whatever order.                      *)
THEOREM TypeCorrect == Spec => []TypeOK
  <1>1. Inv => TypeOK
    BY DEF Inv
  <1> QED BY <1>1, Invariant, PTL

-----------------------------------------------------------------------------
(* Harm.                                                                    *)

(* A sound list is a chain, where its walk and its calls can be followed.     *)
LEMMA SoundChain ==
    Inv => \A l \in Lists : Sound(l) =>
        \E q : /\ q = Contents(l) /\ q \in Seq(Items) /\ Len(q) \in Nat
               /\ IsChain(q, mem, next, head[l])
               /\ Reach(l) = Elements(q)
               /\ \A n \in 0..MaxIndex : At(l)[n] = Place(q, n + 1)
               /\ head[l] = Null <=> Len(q) = 0
  <1> SUFFICES ASSUME Inv, NEW l \in Lists, Sound(l), NEW q, q = Contents(l)
      PROVE  /\ q \in Seq(Items) /\ Len(q) \in Nat
             /\ IsChain(q, mem, next, head[l])
             /\ Reach(l) = Elements(q)
             /\ \A n \in 0..MaxIndex : At(l)[n] = Place(q, n + 1)
             /\ head[l] = Null <=> Len(q) = 0
    OBVIOUS
  <1>1. IsChain(q, mem, next, head[l])
    BY InvHeap, SoundWalks
  <1>2. q \in Seq(Items) /\ Len(q) \in Nat /\ head[l] = Place(q, 1)
    BY <1>1 DEF IsChain
  <1>3. Walk(l) = Elements(q) \cup {Null} /\ \A n \in 0..N : At(l)[n] = Place(q, n + 1)
    BY <1>1, InvHeap, SoundWalks
  <1>4. Reach(l) = Elements(q)
    BY <1>2, <1>3, InvHeap, Walks, ItemsAssumption DEF Elements
  <1>5. \A n \in 0..MaxIndex : n \in 0..N
    BY NumbersAssumption, NType DEF N
  <1>6. head[l] = Null <=> Len(q) = 0
    BY <1>2, ItemsAssumption DEF Place
  <1> QED BY <1>1, <1>2, <1>3, <1>4, <1>5, <1>6

(* Where Clamped stops on a sound list: one behind the index, or at the last. *)
LEMMA ClampedChain ==
    Inv => \A l \in Lists, i \in 0..MaxIndex : Sound(l) /\ head[l] # Null =>
        \E j \in 1..Len(Contents(l)) :
            /\ Clamped(l, i) = Contents(l)[j]
            /\ j = IF i < Len(Contents(l)) THEN i + 1 ELSE Len(Contents(l))
  <1> SUFFICES ASSUME Inv, NEW l \in Lists, NEW i \in 0..MaxIndex, Sound(l), head[l] # Null
      PROVE  \E j \in 1..Len(Contents(l)) :
                 /\ Clamped(l, i) = Contents(l)[j]
                 /\ j = IF i < Len(Contents(l)) THEN i + 1 ELSE Len(Contents(l))
    OBVIOUS
  <1>1. PICK q : /\ q = Contents(l) /\ q \in Seq(Items) /\ Len(q) \in Nat
                 /\ At(l)[i] = Place(q, i + 1)
                 /\ ~(head[l] = Null) <=> ~(Len(q) = 0)
    BY SoundChain
  <1>2. i \in Nat
    BY NumbersAssumption, NType DEF N
  <1>3. CASE i < Len(q)
    <2>1. i + 1 \in 1..Len(q) /\ At(l)[i] = q[i + 1] /\ q[i + 1] # Null
      BY <1>1, <1>2, <1>3, ItemsAssumption DEF Place
    <2> QED BY <1>1, <1>3, <2>1 DEF Clamped
  <1>4. CASE ~(i < Len(q))
    <2>1. At(l)[i] = Null
      BY <1>1, <1>2, <1>4 DEF Place
    <2>2. Last(l) = q[Len(q)] /\ Len(q) \in 1..Len(q)
      BY <1>1, LastOfSound
    <2> QED BY <1>1, <1>4, <2>1, <2>2 DEF Clamped
  <1> QED BY <1>3, <1>4

(* On a sound list the calls of HarmlessCall do no harm.                     *)
LEMMA HarmlessIsHarmless ==
    ASSUME Inv, Next, NEW l \in made, Sound(l), HarmlessCall(l)
    PROVE  fault' = "none"
  <1>0. l \in Lists /\ fault = "none" /\ Walked(l) = "none"
    BY WalkKnown DEF Inv, TypeOK, Next
  <1>1. CASE OXLListRemoveAll(l) \/ OXLDestroyList(l)
    BY <1>0, <1>1 DEF OXLListRemoveAll, OXLDestroyList
  <1>2. ASSUME NEW x \in Items, OXLListAdd(l, x) PROVE fault' = "none"
    BY <1>0, <1>2 DEF OXLListAdd
  <1>3. ASSUME NEW m \in made, OXLListAddList(l, m) PROVE fault' = "none"
    BY <1>0, <1>3 DEF OXLListAddList
  <1>4. ASSUME head[l] # Null, OXLListSize(l) PROVE fault' = "none"
    BY <1>0, <1>4 DEF OXLListSize
  <1>5. Reach(l) \subseteq Live /\ Reach(l) \cap Freed = {} /\ Null \notin Freed
    BY <1>0, WalkKnown, ItemsAssumption DEF Sound, Live, Freed
  <1>6. ASSUME NEW x \in Items, NEW i \in 0..MaxIndex, OXLListInsert(l, x, i)
        PROVE  fault' = "none"
    BY <1>0, <1>5, <1>6, ClampedKnown DEF OXLListInsert
  <1>7. ASSUME NEW m \in Lists, head[l] # Null, OXLCreateTailList(l, m) PROVE fault' = "none"
    <2>1. head[l] \in Reach(l)
      BY <1>0, <1>7, InvHeap, Walks
    <2> QED BY <1>0, <1>5, <1>7, <2>1 DEF OXLCreateTailList
  <1>8. ASSUME NEW i \in 0..MaxIndex, OXLListGet(l, i) PROVE fault' = "none"
    <2>1. PICK n \in 0..i : At(l)[n] \in Freed
      BY <1>8 DEF OXLListGet
    <2>2. n \in 0..N
      BY NumbersAssumption, NType DEF N
    <2>3. At(l)[n] \in Reach(l) \cup {Null}
      BY <2>2 DEF Reach, N
    <2> QED BY <1>5, <2>1, <2>3
  <1>9. ASSUME NEW i \in 0..MaxIndex, i > 0 => Len(Contents(l)) # 1, OXLListRemove(l, i)
        PROVE  fault' = "none"
    <2>1. PICK li : /\ li = IF i = 0 \/ head[l] = Null THEN head[l] ELSE Clamped(l, i)
                    /\ (li \in Freed \/ (i > 0 /\ li # Null /\ li = head[l])) \/ UNCHANGED fault
      BY <1>9 DEF OXLListRemove
    <2>2. li \notin Freed
      BY <1>0, <1>5, <2>1, ClampedKnown, InvHeap, Walks
    <2>3. ASSUME i > 0, li # Null, li = head[l] PROVE FALSE
      <3>1. head[l] # Null /\ li = Clamped(l, i)
        BY <2>1, <2>3
      <3>2. PICK q : /\ q = Contents(l) /\ q \in Seq(Items) /\ Len(q) \in Nat
                     /\ IsChain(q, mem, next, head[l])
                     /\ head[l] = Null <=> Len(q) = 0
        BY <1>0, SoundChain
      <3>3. Len(q) > 1 /\ head[l] = q[1]
        <4>1. Len(q) # 1 /\ Len(q) # 0
          BY <1>9, <2>3, <3>1, <3>2
        <4>2. Len(q) > 1 /\ 1 \in 1..Len(q)
          <5>1. \A k \in Nat : k # 0 /\ k # 1 => k > 1 /\ 1 \in 1..k
            OBVIOUS
          <5> QED BY <3>2, <4>1, <5>1, Zenon
        <4> QED BY <3>2, <4>2 DEF IsChain, Place
      <3>4. PICK j \in 1..Len(q) : li = q[j] /\ j = IF i < Len(q) THEN i + 1 ELSE Len(q)
        BY <1>0, <3>1, <3>2, ClampedChain
      <3>5. i \in Nat
        BY NumbersAssumption, NType DEF N
      <3>6. j # 1 /\ 1 \in 1..Len(q)
        BY <2>3, <3>2, <3>3, <3>4, <3>5
      <3> QED BY <2>3, <3>2, <3>3, <3>4, <3>6, ChainInjective
    <2> QED BY <1>0, <2>1, <2>2, <2>3
  <1>10. ASSUME NEW n \in 0..MaxRooms, l = RoomList, n > 0 => head[l] = Null,
                OXLPalClientHandleRoomList(n)
         PROVE  fault' = "none"
    <2>1. n = 0 \/ n > 0
      BY NumbersAssumption
    <2> QED BY <1>0, <1>1, <1>10, <2>1 DEF OXLPalClientHandleRoomList
  <1> QED BY <1>1, <1>2, <1>3, <1>4, <1>6, <1>7, <1>8, <1>9, <1>10 DEF HarmlessCall

(* No call but the four that HarmlessCall names does harm on a sound list,    *)
(* however long it is and whatever it shares with others.                    *)
THEOREM HarmOnSoundListsAlways == Spec => HarmOnSoundLists
  <1>1. Inv /\ [Next]_vars =>
            [\A l \in made : Sound(l) /\ HarmlessCall(l) => fault' = "none"]_vars
    BY HarmlessIsHarmless
  <1> QED BY <1>1, Invariant, PTL DEF Spec, HarmOnSoundLists

-----------------------------------------------------------------------------
(* Loss.                                                                    *)

Reached == UNION {Walk(l) : l \in made}

(* The lists together reach what their heads point to and what follows a     *)
(* live item they reach, and nothing else.                                   *)
LEMMA Reaching ==
    Inv =>
        /\ Held = Reached \cap Live
        /\ Reached \subseteq Pointers \ Unused
        /\ \A l \in made : head[l] \in Reached /\ Reach(l) \subseteq Reached
        /\ \A x \in Reached \cap Live : next[x] \in Reached
        /\ \A C : /\ \A l \in made : head[l] \in C
                  /\ \A x \in C \cap Live : next[x] \in C
                  => Reached \subseteq C
  <1> SUFFICES ASSUME Inv
      PROVE /\ Held = Reached \cap Live
            /\ Reached \subseteq Pointers \ Unused
            /\ \A l \in made : head[l] \in Reached /\ Reach(l) \subseteq Reached
            /\ \A x \in Reached \cap Live : next[x] \in Reached
            /\ \A C : /\ \A l \in made : head[l] \in C
                      /\ \A x \in C \cap Live : next[x] \in C
                      => Reached \subseteq C
    OBVIOUS
  <1>1. made \subseteq Lists /\ HeapOK
    BY InvHeap DEF Inv, TypeOK
  <1>2. \A l \in made :
            /\ head[l] \in Walk(l) /\ Walk(l) \subseteq Pointers /\ Walk(l) \cap Unused = {}
            /\ Reach(l) = Walk(l) \ {Null}
            /\ \A x \in Walk(l) \cap Live : next[x] \in Walk(l)
    BY <1>1, Walks, WalkKnown
  <1>3. Held = Reached \cap Live
    <2>1. Null \notin Live
      BY ItemsAssumption DEF Live
    <2>2. ASSUME NEW x PROVE x \in Held <=> x \in Reached \cap Live
      BY <1>2, <2>1 DEF Held, Reached
    <2> QED BY <2>2
  <1>4. ASSUME NEW C, \A l \in made : head[l] \in C, \A x \in C \cap Live : next[x] \in C
        PROVE  Reached \subseteq C
    BY <1>1, <1>4, Walks DEF Reached
  <1>5. /\ Reached \subseteq Pointers \ Unused
        /\ \A l \in made : head[l] \in Reached /\ Reach(l) \subseteq Reached
        /\ \A x \in Reached \cap Live : next[x] \in Reached
    BY <1>2 DEF Reached
  <1> QED BY <1>3, <1>4, <1>5

(* The same of the next state.                                               *)
LEMMA ReachingNext ==
    Inv' =>
        /\ Held' = Reached' \cap Live'
        /\ \A l \in made' : head'[l] \in Reached'
        /\ \A x \in Reached' \cap Live' : next'[x] \in Reached'
  <1>1. Inv =>
        /\ Held = Reached \cap Live
        /\ \A l \in made : head[l] \in Reached
        /\ \A x \in Reached \cap Live : next[x] \in Reached
    BY Reaching
  <1>2. (Inv =>
        /\ Held = Reached \cap Live
        /\ \A l \in made : head[l] \in Reached
        /\ \A x \in Reached \cap Live : next[x] \in Reached)'
    BY <1>1, PTL
  <1> QED BY <1>2

Kept(x) == mem'[x] = "live" => x \in Held'

(* What was reached and is reached still, or was freed: no item is lost if,   *)
(* with the items of D, the lists reach now what they did.                   *)
LEMMA KeepsHeld ==
    ASSUME Inv, Inv', NEW D, \A x \in D : x \in Items => mem'[x] # "live",
           \A l \in made : head[l] \in Reached' \cup D,
           \A x \in Live \cap (Reached' \cup D) : next[x] \in Reached' \cup D
    PROVE  \A x \in Held : Kept(x)
  <1> DEFINE C == Reached' \cup D
  <1>1. /\ \A l \in made : head[l] \in C
        /\ \A x \in C \cap Live : next[x] \in C
    OBVIOUS
  <1> HIDE DEF C
  <1>2. Reached \subseteq C
    BY <1>1, Reaching
  <1>3. \A x \in Held : x \in Items /\ x \in C
    BY <1>2, Reaching DEF Live
  <1>4. \A x \in Items : mem'[x] = "live" => x \in Live'
    BY DEF Live
  <1> QED BY <1>3, <1>4, ReachingNext DEF C, Kept

(* Nothing is lost by a call that only makes lists or fails.                 *)
LEMMA QuietKeeps ==
    ASSUME Inv, Inv', UNCHANGED <<mem, next>>, made \subseteq made',
           \A l \in made : head'[l] = head[l]
    PROVE  \A x \in Held \cup Unused : Kept(x)
  <1>1. Live' = Live /\ \A x \in Unused : Kept(x)
    BY DEF Live, Unused, Kept
  <1>2. \A l \in made : head[l] \in Reached' \cup {Null}
    BY ReachingNext
  <1>3. \A x \in Live \cap (Reached' \cup {Null}) : next[x] \in Reached' \cup {Null}
    BY <1>1, ReachingNext, ItemsAssumption DEF Live
  <1>4. \A x \in {Null} : x \in Items => mem'[x] # "live"
    BY ItemsAssumption
  <1>5. \A x \in Held : Kept(x)
    BY <1>2, <1>3, <1>4, KeepsHeld
  <1> QED BY <1>1, <1>5

LEMMA AddKeeps ==
    ASSUME Inv, Inv', NEW l \in made, NEW a \in Items, OXLListAdd(l, a)
    PROVE  \A x \in Held \cup Unused : Kept(x)
  <1>0. l \in Lists
    BY DEF Inv, TypeOK
  <1>1. CASE Walked(l) # "none" /\ Fails(Walked(l))
    BY <1>1, QuietKeeps DEF Fails
  <1>2. CASE ~(Walked(l) # "none" /\ Fails(Walked(l)))
    <2>1. /\ mem' = [mem EXCEPT ![a] = "live"] /\ UNCHANGED made /\ a \in Unused
          /\ IF head[l] = Null THEN head' = [head EXCEPT ![l] = a] /\ UNCHANGED next
             ELSE UNCHANGED head /\ next' = [next EXCEPT ![Last(l)] = a]
          /\ Sound(l)
      BY <1>0, <1>2, WalkKnown DEF OXLListAdd, LinkBehind
    <2>2. Live' = Live \cup {a} /\ a \notin Live
      BY <2>1 DEF Live, Unused, Inv, TypeOK
    <2>3. /\ \A k \in made : head'[k] = head[k] \/ head[k] = Null
          /\ \A x \in Live : next'[x] = next[x] \/ next[x] = Null
      BY <1>0, <2>1, LastOfSound DEF Inv, TypeOK, Live
    <2>4. \A x \in Held : Kept(x)
      <3>1. \A k \in made : head[k] \in Reached' \cup {Null}
        BY <2>1, <2>3, ReachingNext
      <3>2. \A x \in Live \cap (Reached' \cup {Null}) : next[x] \in Reached' \cup {Null}
        BY <2>2, <2>3, ReachingNext, ItemsAssumption DEF Live
      <3>3. \A x \in {Null} : x \in Items => mem'[x] # "live"
        BY ItemsAssumption
      <3> QED BY <3>1, <3>2, <3>3, KeepsHeld
    <2>5. a \in Reached'
      <3>1. CASE head[l] = Null
        <4>1. head'[l] = a /\ l \in made'
          BY <1>0, <2>1, <3>1 DEF Inv, TypeOK
        <4> QED BY <4>1, ReachingNext
      <3>2. CASE head[l] # Null
        <4>1. Last(l) \in Reach(l) /\ Last(l) \in Live
          BY <1>0, <2>1, <3>2, LastOfSound
        <4>2. Last(l) \in Held
          BY <4>1 DEF Held
        <4>3. mem'[Last(l)] = "live" /\ Last(l) \in Live' /\ next'[Last(l)] = a
          BY <2>1, <2>2, <3>2, <4>1 DEF Live, Inv, TypeOK
        <4>4. Last(l) \in Reached'
          BY <2>4, <4>2, <4>3, ReachingNext DEF Kept
        <4> QED BY <4>3, <4>4, ReachingNext
      <3> QED BY <3>1, <3>2
    <2>6. \A x \in Unused : Kept(x)
      BY <2>1, <2>2, <2>5, ReachingNext DEF Unused, Kept
    <2> QED BY <2>4, <2>6
  <1> QED BY <1>1, <1>2

LEMMA AddListKeeps ==
    ASSUME Inv, Inv', NEW l \in made, NEW m \in Lists, OXLListAddList(l, m)
    PROVE  \A x \in Held \cup Unused : Kept(x)
  <1>0. l \in Lists
    BY DEF Inv, TypeOK
  <1>1. CASE Walked(l) # "none" /\ Fails(Walked(l))
    BY <1>1, QuietKeeps DEF Fails
  <1>2. CASE ~(Walked(l) # "none" /\ Fails(Walked(l)))
    <2>1. /\ UNCHANGED <<mem, made>>
          /\ IF head[l] = Null THEN head' = [head EXCEPT ![l] = head[m]] /\ UNCHANGED next
             ELSE UNCHANGED head /\ next' = [next EXCEPT ![Last(l)] = head[m]]
          /\ Sound(l)
      BY <1>0, <1>2, WalkKnown DEF OXLListAddList, LinkBehind
    <2>2. Live' = Live
      BY <2>1 DEF Live
    <2>3. /\ \A k \in made : head'[k] = head[k] \/ head[k] = Null
          /\ \A x \in Live : next'[x] = next[x] \/ next[x] = Null
      BY <1>0, <2>1, LastOfSound DEF Inv, TypeOK, Live
    <2>4. \A x \in Held : Kept(x)
      <3>1. \A k \in made : head[k] \in Reached' \cup {Null}
        BY <2>1, <2>3, ReachingNext
      <3>2. \A x \in Live \cap (Reached' \cup {Null}) : next[x] \in Reached' \cup {Null}
        BY <2>2, <2>3, ReachingNext, ItemsAssumption DEF Live
      <3>3. \A x \in {Null} : x \in Items => mem'[x] # "live"
        BY ItemsAssumption
      <3> QED BY <3>1, <3>2, <3>3, KeepsHeld
    <2> QED BY <2>1, <2>4 DEF Unused, Kept
  <1> QED BY <1>1, <1>2

(* Insert: what was held stays so, and the new item is held if it is linked.  *)
LEMMA InsertKeeps ==
    ASSUME Inv, Inv', NEW l \in made, NEW a \in Items, NEW i \in 0..MaxIndex,
           OXLListInsert(l, a, i)
    PROVE  \A x \in Held \cup Unused :
               x # a \/ (i = 0) = (head[l] = Null) => Kept(x)
  <1>0. l \in Lists /\ i \in Nat
    BY NumbersAssumption, NType DEF Inv, TypeOK, N
  <1>1. CASE Fails("useAfterFree")
    BY <1>1, QuietKeeps DEF Fails
  <1>2. CASE ~Fails("useAfterFree")
    <2> DEFINE c == Clamped(l, i)
    <2>1. /\ mem' = [mem EXCEPT ![a] = "live"] /\ a \in Unused /\ UNCHANGED made
          /\ head' = IF i = 0 /\ head[l] = Null THEN [head EXCEPT ![l] = a] ELSE head
          /\ next' = IF i > 0 /\ head[l] # Null
                     THEN [next EXCEPT ![c] = a, ![a] = next[c]] ELSE next
          /\ i > 0 /\ head[l] # Null => c \notin Freed
      BY <1>2 DEF OXLListInsert
    <2>2. head[l] # Null => c \in Reach(l) /\ c \in Items \ Unused
      BY <1>0, ClampedKnown
    <2> HIDE DEF c
    <2>3. Live' = Live \cup {a} /\ a \notin Live
      BY <2>1 DEF Live, Unused, Inv, TypeOK
    <2>4. i > 0 /\ head[l] # Null =>
              /\ c \in Held /\ c \in Live /\ c # a
              /\ next'[c] = a /\ next'[a] = next[c]
      BY <2>1, <2>2 DEF Freed, Unused, Live, Held, Inv, TypeOK
    <2>5. \A x \in Live : next'[x] = next[x] \/ (x = c /\ i > 0 /\ head[l] # Null)
      BY <2>1, <2>3 DEF Inv, TypeOK, Live
    <2>6. \A k \in made : head'[k] = head[k] \/ head[k] = Null
      BY <1>0, <2>1 DEF Inv, TypeOK
    <2>7. \A x \in Held : Kept(x)
      <3>1. \A k \in made : head[k] \in Reached' \cup {Null}
        BY <2>1, <2>6, ReachingNext
      <3>2. ASSUME NEW x \in Live, x \in Reached' PROVE next[x] \in Reached'
        <4>1. next'[x] \in Reached'
          BY <2>3, <3>2, ReachingNext
        <4>2. CASE next'[x] = next[x]
          BY <4>1, <4>2
        <4>3. CASE x = c /\ i > 0 /\ head[l] # Null
          BY <2>3, <2>4, <4>1, <4>3, ReachingNext
        <4> QED BY <2>5, <4>2, <4>3
      <3>3. \A x \in Live \cap (Reached' \cup {Null}) : next[x] \in Reached' \cup {Null}
        BY <3>2, ItemsAssumption DEF Live
      <3>4. \A x \in {Null} : x \in Items => mem'[x] # "live"
        BY ItemsAssumption
      <3> QED BY <3>1, <3>3, <3>4, KeepsHeld
    <2>8. ASSUME (i = 0) = (head[l] = Null) PROVE a \in Reached'
      <3>1. CASE i = 0 /\ head[l] = Null
        <4>1. head'[l] = a /\ l \in made'
          BY <1>0, <2>1, <3>1 DEF Inv, TypeOK
        <4> QED BY <4>1, ReachingNext
      <3>2. CASE i > 0 /\ head[l] # Null
        <4>1. c \in Held /\ c \in Live' /\ next'[c] = a
          BY <2>3, <2>4, <3>2
        <4>2. c \in Reached'
          BY <2>7, <4>1, ReachingNext DEF Kept, Live
        <4> QED BY <4>1, <4>2, ReachingNext
      <3> QED BY <1>0, <2>8, <3>1, <3>2
    <2>9. \A x \in Unused : x # a => Kept(x)
      BY <2>1 DEF Unused, Kept, Inv, TypeOK
    <2>10. a \in Reached' => Kept(a)
      BY <2>3, ReachingNext DEF Kept
    <2> QED BY <2>7, <2>8, <2>9, <2>10
  <1> QED BY <1>1, <1>2

LEMMA EmptyingKeeps ==
    ASSUME Inv, Inv', NEW l \in made, OXLListRemoveAll(l) \/ OXLDestroyList(l)
    PROVE  \A x \in Held \cup Unused : Kept(x)
  <1>0. l \in Lists
    BY DEF Inv, TypeOK
  <1>1. CASE Fails("useAfterFree")
    BY <1>1, QuietKeeps DEF Fails
  <1>2. CASE ~Fails("useAfterFree")
    <2>1. /\ mem' = [x \in Items |-> IF x \in Reach(l) THEN "freed" ELSE mem[x]]
          /\ \A k \in made : k # l => k \in made' /\ head'[k] = head[k]
          /\ UNCHANGED next
      BY <1>2 DEF OXLListRemoveAll, OXLDestroyList, Inv, TypeOK
    <2> DEFINE D == Walk(l)
    <2>2. /\ head[l] \in D /\ Reach(l) = D \ {Null}
          /\ \A x \in D \cap Live : next[x] \in D
      BY <1>0, InvHeap, Walks
    <2> HIDE DEF D
    <2>3. \A k \in made : head[k] \in Reached' \cup D
      BY <2>1, <2>2, ReachingNext
    <2>4. \A x \in Live \ Reach(l) : x \in Live'
      BY <2>1 DEF Live
    <2>5. \A x \in Live \cap (Reached' \cup D) : next[x] \in Reached' \cup D
      BY <2>1, <2>2, <2>4, ReachingNext, ItemsAssumption DEF Live
    <2>6. \A x \in D : x \in Items => mem'[x] # "live"
      BY <2>1, <2>2, ItemsAssumption
    <2>7. \A x \in Held : Kept(x)
      BY <2>3, <2>5, <2>6, KeepsHeld
    <2>8. \A x \in Unused : Kept(x)
      BY <2>1 DEF Unused, Kept
    <2> QED BY <2>7, <2>8
  <1> QED BY <1>1, <1>2

(* Remove at index 1: the item behind the head goes, and what comes after it  *)
(* is reached from the head.                                                *)
LEMMA RemoveSecondKeeps ==
    ASSUME Inv, Inv', NEW l \in made, 1 \in 0..MaxIndex, OXLListRemove(l, 1)
    PROVE  \A x \in Held \cup Unused : Kept(x)
  <1>0. l \in Lists
    BY DEF Inv, TypeOK
  <1>1. CASE Fails("useAfterFree")
    BY <1>1, QuietKeeps DEF Fails
  <1>2. CASE ~Fails("useAfterFree")
    <2>1. PICK li : li = IF head[l] = Null THEN head[l] ELSE Clamped(l, 1)
      OBVIOUS
    <2>2. /\ mem' = [x \in Items |-> IF x = li THEN "freed" ELSE mem[x]]
          /\ next' = [x \in Items |-> IF li # Null /\ x = head[l] THEN next[li] ELSE next[x]]
          /\ UNCHANGED <<head, made>>
          /\ li \notin Freed /\ ~(li # Null /\ li = head[l])
      BY <1>2, <2>1 DEF OXLListRemove
    <2>3. CASE head[l] = Null
      <3>1. mem' = mem /\ next' = next
        BY <2>1, <2>2, <2>3, ItemsAssumption DEF Inv, TypeOK
      <3> QED BY <2>2, <3>1, QuietKeeps
    <2>4. CASE head[l] # Null
      <3>1. li = Clamped(l, 1) /\ li \in Items /\ li \in Live /\ li # Null /\ li # head[l]
        BY <1>0, <2>1, <2>2, <2>4, ClampedKnown, ItemsAssumption
        DEF Live, Freed, Unused, Inv, TypeOK
      <3>2. head[l] \in Live
        <4>1. Reach(l) \subseteq Live \cup Freed /\ head[l] \in Reach(l) /\ li \in Reach(l)
          BY <1>0, <2>4, <3>1, WalkKnown, ClampedKnown, InvHeap, Walks
        <4>2. ASSUME head[l] \in Freed PROVE FALSE
          <5>1. head[l] \in {head[l]} /\ \A x \in {head[l]} \cap Live : next[x] \in {head[l]}
            BY <4>2 DEF Freed, Live
          <5>2. Walk(l) \subseteq {head[l]} /\ Reach(l) = Walk(l) \ {Null}
            BY <1>0, <5>1, InvHeap, Walks
          <5> QED BY <3>1, <4>1, <5>2
        <4> QED BY <4>1, <4>2
      <3>3. next'[head[l]] = next[li] /\ \A x \in Items \ {head[l]} : next'[x] = next[x]
        BY <2>2, <3>1, <3>2 DEF Live
      <3>4. Live' = Live \ {li}
        BY <2>2, <3>1 DEF Live
      <3>5. head[l] \in Reached' /\ next[li] \in Reached'
        BY <2>2, <3>1, <3>2, <3>3, <3>4, ReachingNext
      <3>6. next[head[l]] \in Reached' \cup {li, Null}
        <4> DEFINE f == At(l)
        <4>1. IsWalk(f, Stepper(mem, next), head[l])
          BY <1>0, InvHeap, AtIsWalk DEF HeapOK
        <4>2. 1 \in 1..N /\ 0 \in 0..N
          BY NumbersAssumption, NType DEF N
        <4>3. f[1] = Stepper(mem, next)[head[l]]
          BY <4>1, <4>2 DEF IsWalk
        <4>4. f[1] = next[head[l]]
          BY <2>4, <3>2, <4>3 DEF Stepper, Live, Pointers
        <4> QED BY <3>1, <4>4 DEF Clamped
      <3>7. \A k \in made : head[k] \in Reached' \cup {li, Null}
        BY <2>2, ReachingNext
      <3>8. \A x \in Live \cap (Reached' \cup {li, Null}) : next[x] \in Reached' \cup {li, Null}
        BY <3>3, <3>4, <3>5, <3>6, ReachingNext, ItemsAssumption DEF Live
      <3>9. \A x \in {li, Null} : x \in Items => mem'[x] # "live"
        BY <2>2, ItemsAssumption
      <3>10. \A x \in Held : Kept(x)
        BY <3>7, <3>8, <3>9, KeepsHeld
      <3>11. \A x \in Unused : Kept(x)
        BY <2>2 DEF Unused, Kept
      <3> QED BY <3>10, <3>11
    <2> QED BY <2>3, <2>4
  <1> QED BY <1>1, <1>2

(* The new rooms are reached one from the other.                             *)
LEMMA RoomListKeeps ==
    ASSUME Inv, Inv', NEW n \in 0..MaxRooms, OXLPalClientHandleRoomList(n)
    PROVE  \A x \in Held \cup Unused : Kept(x)
  <1>0. n \in Nat /\ RoomList \in made
    BY NumbersAssumption DEF OXLPalClientHandleRoomList
  <1>1. CASE Fails("useAfterFree")
    BY <1>1, QuietKeeps DEF Fails
  <1>2. CASE OXLListRemoveAll(RoomList)
    BY <1>0, <1>2, EmptyingKeeps
  <1>3. ASSUME head[RoomList] = Null, NEW xs, NewRooms(n, xs)
        PROVE  \A x \in Held \cup Unused : Kept(x)
    <2>1. \A i \in 1..n : xs[i] \in Unused /\ xs[i] \in Live'
      BY <1>3 DEF NewRooms, Live, Unused
    <2>2. \A x \in Live : x \in Live' /\ next'[x] = next[x]
      <3>1. \A x \in Live : x \in Items /\ \A i \in 1..n : xs[i] # x
        BY <2>1 DEF Live, Unused
      <3>2. \A i \in 1..n - 1 : i \in 1..n
        BY <1>0
      <3> QED BY <1>3, <3>1, <3>2 DEF NewRooms, Live
    <2>3. \A k \in made : head'[k] = head[k] \/ head[k] = Null
      BY <1>3 DEF NewRooms, Inv, TypeOK
    <2>4. \A x \in Held : Kept(x)
      <3>1. \A k \in made : head[k] \in Reached' \cup {Null}
        BY <1>3, <2>3, ReachingNext DEF NewRooms
      <3>2. \A x \in Live \cap (Reached' \cup {Null}) : next[x] \in Reached' \cup {Null}
        BY <2>2, ReachingNext, ItemsAssumption DEF Live
      <3>3. \A x \in {Null} : x \in Items => mem'[x] # "live"
        BY ItemsAssumption
      <3> QED BY <3>1, <3>2, <3>3, KeepsHeld
    <2>5. \A i \in 1..n : xs[i] \in Reached'
      <3> DEFINE T == {k \in Nat : k + 1 \in 1..n => xs[k + 1] \in Reached'}
      <3>1. 0 \in T
        <4> SUFFICES ASSUME 1 \in 1..n PROVE xs[1] \in Reached'
          OBVIOUS
        <4>1. head'[RoomList] = xs[1] /\ RoomList \in made'
          BY <1>0, <1>3, ListsAssumption DEF NewRooms, Inv, TypeOK
        <4> QED BY <4>1, ReachingNext
      <3>2. ASSUME NEW k \in Nat, k \in T PROVE k + 1 \in T
        <4> SUFFICES ASSUME k + 1 + 1 \in 1..n PROVE xs[k + 1 + 1] \in Reached'
          OBVIOUS
        <4>1. k + 1 \in 1..n - 1 /\ k + 1 \in 1..n
          BY <1>0
        <4>2. next'[xs[k + 1]] = xs[k + 1 + 1]
          BY <1>3, <4>1 DEF NewRooms
        <4> QED BY <2>1, <3>2, <4>1, <4>2, ReachingNext
      <3> HIDE DEF T
      <3>3. Nat \subseteq T
        BY <3>1, <3>2, SetInduction
      <3>4. \A i \in 1..n : i - 1 \in Nat /\ i - 1 + 1 = i
        BY <1>0
      <3> QED BY <3>3, <3>4 DEF T
    <2>6. ASSUME NEW x \in Unused PROVE Kept(x)
      <3>1. CASE \E i \in 1..n : xs[i] = x
        BY <2>1, <2>5, <3>1, ReachingNext DEF Kept
      <3>2. CASE ~\E i \in 1..n : xs[i] = x
        BY <1>3, <3>2 DEF NewRooms, Unused, Kept
      <3> QED BY <3>1, <3>2
    <2> QED BY <2>4, <2>6
  <1> QED BY <1>1, <1>2, <1>3, RoomListCases

(* The two calls that lose items.                                            *)
LosesItem(x) ==
    \E l \in made :
        \/ \E i \in 0..MaxIndex : (i = 0) # (head[l] = Null) /\ OXLListInsert(l, x, i)
        \/ \E i \in (0..MaxIndex) \ {1} : OXLListRemove(l, i)

LEMMA LossNext ==
    ASSUME Inv, Inv', Next, NEW x \in Held \cup Unused
    PROVE  Kept(x) \/ LosesItem(x)
  <1>1. ASSUME NEW l \in Lists, OXLCreateList(l) PROVE Kept(x)
    BY <1>1, QuietKeeps DEF OXLCreateList, Inv, TypeOK
  <1>2. ASSUME NEW l \in Lists, OXLListSize(l) PROVE Kept(x)
    BY <1>2, QuietKeeps DEF OXLListSize, Fails
  <1>3. ASSUME NEW l \in Lists, NEW i \in 0..MaxIndex, OXLListGet(l, i) PROVE Kept(x)
    BY <1>3, QuietKeeps DEF OXLListGet, Fails
  <1>4. ASSUME NEW l \in Lists, NEW m \in Lists, OXLCreateTailList(l, m) PROVE Kept(x)
    <2>1. UNCHANGED <<mem, next>> /\ made \subseteq made' /\ \A k \in made : head'[k] = head[k]
      BY <1>4 DEF OXLCreateTailList, Fails, Inv, TypeOK
    <2> QED BY <2>1, QuietKeeps
  <1>5. ASSUME NEW l \in Lists, NEW a \in Items, OXLListAdd(l, a) PROVE Kept(x)
    BY <1>5, AddKeeps DEF OXLListAdd
  <1>6. ASSUME NEW l \in Lists, NEW m \in Lists, OXLListAddList(l, m) PROVE Kept(x)
    BY <1>6, AddListKeeps DEF OXLListAddList
  <1>7. ASSUME NEW l \in Lists, NEW a \in Items, NEW i \in 0..MaxIndex, OXLListInsert(l, a, i)
        PROVE  Kept(x) \/ LosesItem(x)
    <2>1. l \in made
      BY <1>7 DEF OXLListInsert
    <2> QED BY <1>7, <2>1, InsertKeeps DEF LosesItem
  <1>8. ASSUME NEW l \in Lists, Emptying(l) PROVE Kept(x) \/ LosesItem(x)
    <2>1. CASE OXLListRemoveAll(l) \/ OXLDestroyList(l)
      BY <2>1, EmptyingKeeps DEF OXLListRemoveAll, OXLDestroyList
    <2>2. ASSUME NEW i \in 0..MaxIndex, OXLListRemove(l, i) PROVE Kept(x) \/ LosesItem(x)
      <3>1. l \in made
        BY <2>2 DEF OXLListRemove
      <3> QED BY <2>2, <3>1, RemoveSecondKeeps DEF LosesItem
    <2> QED BY <1>8, <2>1, <2>2 DEF Emptying
  <1>9. ASSUME NEW n \in 0..MaxRooms, OXLPalClientHandleRoomList(n) PROVE Kept(x)
    BY <1>9, RoomListKeeps
  <1> QED BY <1>1, <1>2, <1>3, <1>4, <1>5, <1>6, <1>7, <1>8, <1>9 DEF Next, Growing

(* Whatever is done to however many lists, no item is lost but by an Insert   *)
(* that does not link it and by a Remove that is not at index 1.             *)
THEOREM LostOnlyByAlways == Spec => LostOnlyBy
  <1>1. Inv /\ Inv' /\ [Next]_vars =>
            [\A x \in Held \cup Unused : mem'[x] = "live" /\ x \notin Held' =>
                \E l \in made :
                    \/ \E i \in 0..MaxIndex : (i = 0) # (head[l] = Null) /\ OXLListInsert(l, x, i)
                    \/ \E i \in (0..MaxIndex) \ {1} : OXLListRemove(l, i)]_vars
    BY LossNext DEF Kept, LosesItem
  <1> QED BY <1>1, Invariant, PTL DEF Spec, LostOnlyBy

-----------------------------------------------------------------------------
(* What the calls do to chains.                                             *)

(* A chain starts with an item and goes on with a chain.                     *)
LEMMA ChainCons ==
    ASSUME NEW m, NEW nx, NEW x \in Items, m[x] = "live", NEW q, IsChain(q, m, nx, nx[x])
    PROVE  IsChain(<<x>> \o q, m, nx, x)
  <1> DEFINE r == <<x>> \o q
  <1>1. q \in Seq(Items) /\ Len(q) \in Nat
    BY DEF IsChain
  <1>2. /\ r \in Seq(Items) /\ Len(r) = Len(q) + 1 /\ r[1] = x
        /\ \A i \in 2..Len(q) + 1 : r[i] = q[i - 1]
    BY <1>1
  <1> HIDE DEF r
  <1>3. Place(r, 1) = x /\ \A i \in 1..Len(q) + 1 : Place(r, i + 1) = Place(q, i)
    <2>1. Place(r, 1) = x
      BY <1>1, <1>2 DEF Place
    <2>2. ASSUME NEW i \in 1..Len(q) PROVE Place(r, i + 1) = Place(q, i)
      <3>1. i + 1 \in 2..Len(q) + 1 /\ i + 1 \in 1..Len(r) /\ i + 1 - 1 = i
        BY <1>1, <1>2
      <3> QED BY <1>2, <3>1 DEF Place
    <2>3. Place(r, Len(q) + 1 + 1) = Place(q, Len(q) + 1)
      BY <1>1, <1>2 DEF Place
    <2>4. \A i \in 1..Len(q) + 1 : i \in 1..Len(q) \/ i = Len(q) + 1
      BY <1>1
    <2> QED BY <2>1, <2>2, <2>3, <2>4
  <1>4. ASSUME NEW i \in 1..Len(r) PROVE m[r[i]] = "live" /\ nx[r[i]] = Place(r, i + 1)
    <2>1. CASE i = 1
      BY <1>1, <1>2, <1>3, <2>1 DEF IsChain
    <2>2. CASE i # 1
      <3>1. i - 1 \in 1..Len(q) /\ i \in 2..Len(q) + 1 /\ i - 1 + 1 = i /\ i \in 1..Len(q) + 1
        BY <1>1, <1>2, <2>2
      <3>2. m[q[i - 1]] = "live" /\ nx[q[i - 1]] = Place(q, i)
        BY <3>1 DEF IsChain
      <3> QED BY <1>2, <1>3, <3>1, <3>2
    <2> QED BY <2>1, <2>2
  <1> QED BY <1>2, <1>3, <1>4 DEF IsChain, r

(* What stands behind the first j items of a chain is a chain.               *)
LEMMA ChainTail ==
    ASSUME NEW q, NEW m, NEW nx, NEW p, IsChain(q, m, nx, p), NEW j \in 0..Len(q)
    PROVE  IsChain(SubSeq(q, j + 1, Len(q)), m, nx, Place(q, j + 1))
  <1> DEFINE r == SubSeq(q, j + 1, Len(q))
  <1>1. q \in Seq(Items) /\ Len(q) \in Nat
    BY DEF IsChain
  <1>2. /\ r \in Seq(Items) /\ Len(r) = Len(q) - j
        /\ \A i \in 1..Len(q) - j : r[i] = q[j + i]
    BY <1>1
  <1> HIDE DEF r
  <1>3. ASSUME NEW i \in 1..Len(q) - j + 1 PROVE Place(r, i) = Place(q, j + i)
    BY <1>1, <1>2 DEF Place
  <1>4. ASSUME NEW i \in 1..Len(r) PROVE m[r[i]] = "live" /\ nx[r[i]] = Place(r, i + 1)
    <2>1. j + i \in 1..Len(q) /\ r[i] = q[j + i] /\ i + 1 \in 1..Len(q) - j + 1
          /\ j + i + 1 = j + (i + 1)
      BY <1>1, <1>2
    <2> QED BY <1>3, <2>1 DEF IsChain
  <1>5. Place(r, 1) = Place(q, j + 1)
    BY <1>1, <1>3
  <1> QED BY <1>2, <1>4, <1>5 DEF IsChain, r

(* A chain that is left alone stays one.                                     *)
LEMMA ChainUntouched ==
    ASSUME NEW q, NEW m, NEW nx, NEW p, IsChain(q, m, nx, p), NEW m2, NEW nx2,
           \A i \in 1..Len(q) : m2[q[i]] = "live" /\ nx2[q[i]] = nx[q[i]]
    PROVE  IsChain(q, m2, nx2, p)
  BY DEF IsChain

(* If only the pointer of item j is moved, and to another chain, the first j  *)
(* items go on with that one.                                                *)
LEMMA ChainSplice ==
    ASSUME NEW q, NEW m, NEW nx, NEW p, IsChain(q, m, nx, p), NEW j \in 1..Len(q),
           NEW m2, NEW nx2, NEW t, IsChain(t, m2, nx2, nx2[q[j]]),
           \A i \in 1..j : m2[q[i]] = "live",
           \A i \in 1..j - 1 : nx2[q[i]] = nx[q[i]]
    PROVE  IsChain(SubSeq(q, 1, j) \o t, m2, nx2, p)
  <1> DEFINE r == SubSeq(q, 1, j) \o t
  <1>1. q \in Seq(Items) /\ Len(q) \in Nat /\ t \in Seq(Items) /\ Len(t) \in Nat
    BY DEF IsChain
  <1>2. SubSeq(q, 1, j) \in Seq(Items) /\ Len(SubSeq(q, 1, j)) = j
        /\ \A i \in 1..j : SubSeq(q, 1, j)[i] = q[i]
    BY <1>1
  <1>3. /\ r \in Seq(Items) /\ Len(r) = j + Len(t)
        /\ \A i \in 1..j : r[i] = q[i]
        /\ \A i \in 1..Len(t) : r[j + i] = t[i]
    BY <1>1, <1>2
  <1> HIDE DEF r
  <1>4. ASSUME NEW i \in 1..j PROVE Place(r, i) = Place(q, i)
    BY <1>1, <1>3 DEF Place
  <1>5. ASSUME NEW i \in 1..Len(t) + 1 PROVE Place(r, j + i) = Place(t, i)
    BY <1>1, <1>3 DEF Place
  <1>6. ASSUME NEW i \in 1..Len(r) PROVE m2[r[i]] = "live" /\ nx2[r[i]] = Place(r, i + 1)
    <2>1. CASE i < j
      <3>1. i \in 1..j /\ i \in 1..j - 1 /\ i + 1 \in 1..j /\ i \in 1..Len(q)
        BY <1>1, <1>3, <2>1
      <3>2. r[i] = q[i] /\ Place(r, i + 1) = Place(q, i + 1)
        BY <1>3, <1>4, <3>1
      <3>3. m2[q[i]] = "live" /\ nx2[q[i]] = nx[q[i]] /\ nx[q[i]] = Place(q, i + 1)
        BY <3>1 DEF IsChain
      <3> QED BY <3>2, <3>3
    <2>2. CASE i = j
      <3>1. j \in 1..j /\ 1 \in 1..Len(t) + 1
        BY <1>1
      <3>2. Place(r, j + 1) = nx2[q[j]]
        BY <1>5, <3>1 DEF IsChain
      <3>3. r[j] = q[j] /\ m2[q[j]] = "live"
        BY <1>3, <3>1
      <3> QED BY <2>2, <3>2, <3>3
    <2>3. CASE i > j
      <3>1. PICK k \in 1..Len(t) : i = j + k /\ k + 1 \in 1..Len(t) + 1 /\ i + 1 = j + (k + 1)
        <4>1. i - j \in 1..Len(t)
          BY <1>1, <1>3, <2>3
        <4> QED BY <1>1, <4>1
      <3>2. r[i] = t[k] /\ Place(r, i + 1) = Place(t, k + 1)
        BY <1>3, <1>5, <3>1
      <3>3. m2[t[k]] = "live" /\ nx2[t[k]] = Place(t, k + 1)
        BY DEF IsChain
      <3> QED BY <3>2, <3>3
    <2> QED BY <1>3, <2>1, <2>2, <2>3
  <1>7. p = Place(r, 1)
    BY <1>1, <1>4 DEF IsChain
  <1> QED BY <1>3, <1>6, <1>7 DEF IsChain, r

(* In the next state, a chain is the contents of a sound list.               *)
LEMMA ChainNext ==
    Inv' => \A l \in Lists : \A q : IsChain(q, mem', next', head'[l]) =>
                Sound(l)' /\ Contents(l)' = q
  <1>1. Inv => \A l \in Lists : \A q : IsChain(q, mem, next, head[l]) =>
                Sound(l) /\ Contents(l) = q
    BY InvHeap, SoundWalks
  <1>2. (Inv => \A l \in Lists : \A q : IsChain(q, mem, next, head[l]) =>
                Sound(l) /\ Contents(l) = q)'
    BY <1>1, PTL
  <1> QED BY <1>2

(* A sound list that the call leaves alone stays what it is.                 *)
LEMMA UntouchedNext ==
    ASSUME Inv, Inv', NEW m \in Lists, Sound(m), head'[m] = head[m],
           \A x \in Reach(m) : mem'[x] = "live" /\ next'[x] = next[x]
    PROVE  Sound(m)' /\ Contents(m)' = Contents(m)
  <1>1. PICK q : /\ q = Contents(m) /\ q \in Seq(Items) /\ IsChain(q, mem, next, head[m])
                 /\ Reach(m) = Elements(q)
    BY SoundChain
  <1>2. \A i \in 1..Len(q) : mem'[q[i]] = "live" /\ next'[q[i]] = next[q[i]]
    BY <1>1 DEF Elements
  <1>3. IsChain(q, mem', next', head'[m])
    BY <1>1, <1>2, ChainUntouched
  <1> QED BY <1>1, <1>3, ChainNext

(* Whatever is added behind the last item of l is added to every list that    *)
(* leads to that item, and to no other.                                      *)
LEMMA AppendedNext ==
    ASSUME Inv, Inv', NEW l \in Lists, NEW m \in Lists, Sound(l), Sound(m),
           NEW t, NEW p, IsChain(t, mem', next', p),
           \A x \in Items : mem[x] = "live" => mem'[x] = "live",
           IF head[l] = Null THEN head' = [head EXCEPT ![l] = p] /\ UNCHANGED next
           ELSE UNCHANGED head /\ next' = [next EXCEPT ![Last(l)] = p]
    PROVE  /\ Sound(m)'
           /\ l = m => Contents(m)' = Contents(m) \o t
  <1>1. PICK q : /\ q = Contents(m) /\ q \in Seq(Items) /\ Len(q) \in Nat
                 /\ IsChain(q, mem, next, head[m])
                 /\ Reach(m) = Elements(q) /\ (head[m] = Null <=> Len(q) = 0)
    BY SoundChain
  <1>2. \A x \in Reach(m) : mem'[x] = "live"
    BY <1>1 DEF Elements, IsChain
  <1>3. head \in [Lists -> Pointers] /\ next \in [Items -> Pointers] /\ Reach(m) \subseteq Items
    BY WalkKnown DEF Inv, TypeOK
  <1>4. CASE head[l] = Null
    <2>1. CASE l = m
      <3>1. IsChain(t, mem', next', head'[m])
        BY <1>3, <1>4, <2>1
      <3>2. t \in Seq(Items) /\ q = <<>>
        BY <1>1, <1>4, <2>1 DEF IsChain
      <3>3. q \o t = t
        BY <3>2
      <3> QED BY <1>1, <3>1, <3>3, ChainNext
    <2>2. CASE l # m
      BY <1>2, <1>3, <1>4, <2>2, UntouchedNext
    <2> QED BY <2>1, <2>2
  <1>5. CASE head[l] # Null /\ Last(l) \notin Reach(m)
    <2>1. l # m
      BY <1>5, LastOfSound
    <2>2. \A x \in Reach(m) : next'[x] = next[x]
      BY <1>3, <1>5
    <2> QED BY <1>2, <1>5, <2>1, <2>2, UntouchedNext
  <1>6. CASE head[l] # Null /\ Last(l) \in Reach(m)
    <2>1. next[Last(l)] = Null /\ Last(l) \in Items
      BY <1>6, LastOfSound DEF Live
    <2>2. head[m] # Null
      BY <1>1, <1>6 DEF Elements
    <2>3. Len(q) \in 1..Len(q) /\ Last(l) = q[Len(q)] 
      BY <1>1, <1>6, <2>1, <2>2, LastOfSound
    <2>4. next'[q[Len(q)]] = p /\ \A i \in 1..Len(q) - 1 : next'[q[i]] = next[q[i]]
      <3>1. \A i \in 1..Len(q) - 1 : i \in 1..Len(q) /\ i # Len(q)
        BY <1>1
      <3>2. \A i \in 1..Len(q) - 1 : q[i] # q[Len(q)]
        BY <1>1, <2>3, <3>1, ChainInjective
      <3> QED BY <1>1, <1>3, <1>6, <2>1, <2>3, <3>1, <3>2
    <2>5. \A i \in 1..Len(q) : mem'[q[i]] = "live"
      BY <1>1, <1>2 DEF Elements
    <2>6. IsChain(SubSeq(q, 1, Len(q)) \o t, mem', next', head[m])
      BY <1>1, <2>3, <2>4, <2>5, ChainSplice
    <2>7. SubSeq(q, 1, Len(q)) = q
      BY <1>1
    <2> QED BY <1>1, <1>6, <2>6, <2>7, ChainNext
  <1> QED BY <1>4, <1>5, <1>6

(* A call that comes to a fault leaves every list alone.                     *)
LEMMA FailsNext ==
    ASSUME Inv, Inv', NEW m \in Lists, Sound(m), NEW f, Fails(f)
    PROVE  Sound(m)' /\ Contents(m)' = Contents(m)
  <1>1. \A x \in Reach(m) : mem[x] = "live"
    BY DEF Sound
  <1> QED BY <1>1, UntouchedNext DEF Fails

LEMMA AddNext ==
    ASSUME Inv, Inv', NEW l \in Lists, NEW m \in Lists, NEW x \in Items,
           Sound(m), OXLListAdd(l, x)
    PROVE  /\ Sound(m)'
           /\ l = m /\ x \notin Unused' => Contents(m)' = Contents(m) \o <<x>>
  <1>1. CASE Walked(l) # "none" /\ Fails(Walked(l))
    <2>1. Unused' = Unused /\ x \in Unused
      BY <1>1 DEF Fails, Unused, OXLListAdd
    <2> QED BY <1>1, <2>1, FailsNext
  <1>2. CASE ~(Walked(l) # "none" /\ Fails(Walked(l)))
    <2>1. /\ mem' = [mem EXCEPT ![x] = "live"] /\ x \in Unused
          /\ IF head[l] = Null THEN head' = [head EXCEPT ![l] = x] /\ UNCHANGED next
             ELSE UNCHANGED head /\ next' = [next EXCEPT ![Last(l)] = x]
          /\ Sound(l)
      BY <1>2, WalkKnown DEF OXLListAdd, LinkBehind
    <2>2. next'[x] = Null /\ mem'[x] = "live"
      <3>1. head[l] # Null => Last(l) # x
        BY <2>1, LastOfSound DEF Live, Unused
      <3> QED BY <2>1, <3>1 DEF Inv, TypeOK, Fresh
    <2>3. IsChain(<<>>, mem', next', next'[x])
      BY <2>2 DEF IsChain, Place
    <2>4. IsChain(<<x>> \o <<>>, mem', next', x)
      BY <2>2, <2>3, ChainCons
    <2>5. <<x>> \o <<>> = <<x>>
      OBVIOUS
    <2>6. \A y \in Items : mem[y] = "live" => mem'[y] = "live"
      BY <2>1 DEF Inv, TypeOK
    <2>7. IsChain(<<x>>, mem', next', x)
      BY <2>4, <2>5
    <2>8. Sound(m)' /\ (l = m => Contents(m)' = Contents(m) \o <<x>>)
      BY <2>1, <2>6, <2>7, AppendedNext
    <2> QED BY <2>8
  <1> QED BY <1>1, <1>2

LEMMA AddListNext ==
    ASSUME Inv, Inv', NEW l \in Lists, NEW k \in Lists, NEW m \in Lists,
           Sound(m), OXLListAddList(l, k),
           l = m \/ ~Apart(l, m) => Sound(k) /\ l # k /\ Apart(l, k)
    PROVE  /\ Sound(m)'
           /\ l = m => Contents(m)' = Contents(m) \o Contents(k)
  <1>1. CASE Walked(l) # "none" /\ Fails(Walked(l))
    BY <1>1, FailsNext, WalkKnown
  <1>2. CASE ~(Walked(l) # "none" /\ Fails(Walked(l)))
    <2>1. /\ UNCHANGED mem /\ Sound(l)
          /\ IF head[l] = Null THEN head' = [head EXCEPT ![l] = head[k]] /\ UNCHANGED next
             ELSE UNCHANGED head /\ next' = [next EXCEPT ![Last(l)] = head[k]]
      BY <1>2, WalkKnown DEF OXLListAddList, LinkBehind
    <2>2. CASE l = m \/ ~Apart(l, m)
      <3>1. Sound(k) /\ Reach(l) \cap Reach(k) = {}
        BY <2>2 DEF Apart
      <3>2. PICK q : /\ q = Contents(k) /\ q \in Seq(Items)
                     /\ IsChain(q, mem, next, head[k]) /\ Reach(k) = Elements(q)
        BY <3>1, SoundChain
      <3>3. \A i \in 1..Len(q) : next'[q[i]] = next[q[i]] /\ mem[q[i]] = "live"
        <4>1. ASSUME NEW i \in 1..Len(q) PROVE q[i] \in Reach(k) /\ q[i] \in Items
          BY <3>2 DEF Elements
        <4>2. head[l] # Null => Last(l) \in Reach(l)
          BY <2>1, LastOfSound
        <4> QED BY <2>1, <3>1, <3>2, <4>1, <4>2 DEF Inv, TypeOK, IsChain
      <3>4. IsChain(q, mem', next', head[k])
        BY <2>1, <3>2, <3>3, ChainUntouched
      <3> QED BY <2>1, <3>2, <3>4, AppendedNext
    <2>3. CASE l # m /\ Apart(l, m)
      <3>1. \A x \in Reach(m) : next'[x] = next[x] /\ mem[x] = "live"
        <4>1. head[l] # Null => Last(l) \in Reach(l)
          BY <2>1, LastOfSound
        <4> QED BY <2>1, <2>3, <4>1, WalkKnown DEF Apart, Sound, Inv, TypeOK
      <3>2. head'[m] = head[m]
        BY <2>1, <2>3 DEF Inv, TypeOK
      <3> QED BY <2>1, <2>3, <3>1, <3>2, UntouchedNext
    <2> QED BY <2>2, <2>3
  <1> QED BY <1>1, <1>2

(* Insert leaves every sound list sound, also one that shares the item it     *)
(* links the new one to.                                                     *)
LEMMA InsertNext ==
    ASSUME Inv, Inv', NEW l \in Lists, NEW m \in Lists, NEW x \in Items,
           NEW i \in 0..MaxIndex, Sound(m), OXLListInsert(l, x, i)
    PROVE  /\ Sound(m)'
           /\ l = m /\ i > 0 /\ head[l] # Null /\ x \notin Unused' =>
                  Contents(m)' = Behind(Contents(m), i, x)
  <1>1. CASE Fails("useAfterFree")
    <2>1. Unused' = Unused /\ x \in Unused
      BY <1>1 DEF Fails, Unused, OXLListInsert
    <2> QED BY <1>1, <2>1, FailsNext
  <1>2. CASE ~Fails("useAfterFree")
    <2>1. PICK c : c = Clamped(l, i)
      OBVIOUS
    <2>2. /\ mem' = [mem EXCEPT ![x] = "live"] /\ mem[x] = "unused"
          /\ head' = IF i = 0 /\ head[l] = Null THEN [head EXCEPT ![l] = x] ELSE head
          /\ next' = IF i > 0 /\ head[l] # Null
                     THEN [next EXCEPT ![c] = x, ![x] = next[c]] ELSE next
          /\ i > 0 /\ head[l] # Null => c \notin Freed
      BY <1>2, <2>1 DEF OXLListInsert, Unused
    <2>3. PICK q : /\ q = Contents(m) /\ q \in Seq(Items) /\ Len(q) \in Nat
                   /\ IsChain(q, mem, next, head[m])
                   /\ Reach(m) = Elements(q) /\ (head[m] = Null <=> Len(q) = 0)
      BY SoundChain
    <2>4. /\ head \in [Lists -> Pointers] /\ next \in [Items -> Pointers]
          /\ mem \in [Items -> {"unused", "live", "freed"}] /\ Reach(m) \subseteq Items
      BY WalkKnown DEF Inv, TypeOK
    <2>5. mem'[x] = "live" /\ \A y \in Reach(m) : mem'[y] = "live" /\ mem[y] = "live" /\ y # x
      BY <2>2, <2>4 DEF Sound
    <2>6. CASE i = 0 /\ head[l] = Null
      <3>1. head' = [head EXCEPT ![l] = x] /\ next' = next
        BY <2>2, <2>6
      <3>2. CASE l = m
        <4>1. next'[x] = Null
          BY <2>2, <3>1 DEF Inv, Fresh, Unused
        <4>2. IsChain(<<>>, mem', next', next'[x])
          BY <4>1 DEF IsChain, Place
        <4>3. IsChain(<<x>> \o <<>>, mem', next', x)
          BY <2>5, <4>2, ChainCons
        <4>4. head'[m] = x
          BY <2>4, <3>1, <3>2
        <4> QED BY <2>6, <4>3, <4>4, ChainNext
      <3>3. CASE l # m
        BY <2>4, <2>5, <3>1, <3>3, UntouchedNext
      <3> QED BY <3>2, <3>3
    <2>7. CASE i > 0 /\ head[l] # Null /\ c \in Reach(m)
      <3>1. head' = head /\ next' = [next EXCEPT ![c] = x, ![x] = next[c]]
        BY <2>2, <2>7
      <3>2. PICK j \in 1..Len(q) :
                /\ c = q[j]
                /\ l = m => j = IF i < Len(q) THEN i + 1 ELSE Len(q)
        <4>1. CASE l = m
          BY <2>1, <2>3, <2>7, <4>1, ClampedChain
        <4>2. CASE l # m
          BY <2>3, <2>7, <4>2 DEF Elements
        <4> QED BY <4>1, <4>2
      <3>3. c \in Items /\ c # x /\ next'[c] = x /\ next'[x] = next[c]
        BY <2>4, <2>5, <2>7, <3>1
      <3>4. \A k \in 1..Len(q) : k # j => next'[q[k]] = next[q[k]]
        <4>1. ASSUME NEW k \in 1..Len(q), k # j PROVE q[k] # c /\ q[k] # x /\ q[k] \in Items
          BY <2>3, <2>4, <2>5, <3>2, <4>1, ChainInjective DEF Elements
        <4> QED BY <2>4, <3>1, <4>1
      <3>5. PICK t : t = SubSeq(q, j + 1, Len(q))
        OBVIOUS
      <3>6. /\ IsChain(t, mem, next, Place(q, j + 1)) /\ next[c] = Place(q, j + 1)
            /\ t \in Seq(Items) /\ Len(t) = Len(q) - j
            /\ \A k \in 1..Len(t) : t[k] = q[j + k] /\ j + k \in 1..Len(q) /\ j + k # j
        <4>1. j \in 0..Len(q)
          BY <2>3
        <4>2. IsChain(t, mem, next, Place(q, j + 1))
          BY <2>3, <3>5, <4>1, ChainTail
        <4>3. next[c] = Place(q, j + 1)
          BY <2>3, <3>2 DEF IsChain
        <4>4. t \in Seq(Items) /\ Len(t) = Len(q) - j
              /\ \A k \in 1..Len(t) : t[k] = q[j + k] /\ j + k \in 1..Len(q) /\ j + k # j
          BY <2>3, <3>5
        <4> QED BY <4>2, <4>3, <4>4
      <3>7. IsChain(t, mem', next', next'[x])
        <4>1. \A k \in 1..Len(t) : mem'[t[k]] = "live" /\ next'[t[k]] = next[t[k]]
          BY <2>3, <2>5, <3>4, <3>6 DEF Elements
        <4> QED BY <3>3, <3>6, <4>1, ChainUntouched
      <3>8. IsChain(<<x>> \o t, mem', next', next'[q[j]])
        BY <2>5, <3>2, <3>3, <3>7, ChainCons
      <3>9. IsChain(SubSeq(q, 1, j) \o (<<x>> \o t), mem', next', head'[m])
        <4>1. /\ \A k \in 1..j : mem'[q[k]] = "live"
              /\ \A k \in 1..j - 1 : next'[q[k]] = next[q[k]]
          <5>1. \A k \in 1..j : k \in 1..Len(q)
            BY <2>3
          <5>2. \A k \in 1..j - 1 : k \in 1..Len(q) /\ k # j
            BY <2>3
          <5> QED BY <2>3, <2>5, <3>4, <5>1, <5>2 DEF Elements
        <4>2. PICK u : u = <<x>> \o t
          OBVIOUS
        <4>3. IsChain(u, mem', next', next'[q[j]])
          BY <3>8, <4>2
        <4>4. IsChain(SubSeq(q, 1, j) \o u, mem', next', head[m])
          BY <2>3, <4>1, <4>3, ChainSplice
        <4>5. head'[m] = head[m]
          BY <3>1
        <4> QED BY <4>2, <4>4, <4>5
      <3>10. l = m => Behind(q, i, x) = SubSeq(q, 1, j) \o (<<x>> \o t)
        <4> SUFFICES ASSUME l = m PROVE Behind(q, i, x) = SubSeq(q, 1, j) \o (<<x>> \o t)
          OBVIOUS
        <4>1. j = IF i < Len(q) THEN i + 1 ELSE Len(q)
          BY <3>2
        <4>2. Behind(q, i, x) = SubSeq(q, 1, j) \o <<x>> \o t
          BY <3>5, <4>1 DEF Behind
        <4>3. PICK s \in Seq(Items) : s = SubSeq(q, 1, j)
          <5>1. SubSeq(q, 1, j) \in Seq(Items)
            BY <2>3
          <5> QED BY <5>1
        <4>4. s \o <<x>> \o t = s \o (<<x>> \o t)
          BY <3>6
        <4> QED BY <4>2, <4>3, <4>4
      <3> QED BY <2>3, <3>9, <3>10, ChainNext
    <2>8. CASE ~(i = 0 /\ head[l] = Null) /\ ~(i > 0 /\ head[l] # Null /\ c \in Reach(m))
      <3>1. head' = head /\ \A y \in Reach(m) : next'[y] = next[y]
        <4>1. CASE i > 0 /\ head[l] # Null
          <5>1. head' = head /\ next' = [next EXCEPT ![c] = x, ![x] = next[c]] /\ c \notin Reach(m)
            BY <2>2, <2>8, <4>1
          <5> QED BY <2>4, <2>5, <5>1
        <4>2. CASE ~(i > 0 /\ head[l] # Null)
          BY <2>2, <2>8, <4>2
        <4> QED BY <4>1, <4>2
      <3>2. Sound(m)' /\ Contents(m)' = Contents(m)
        BY <2>5, <3>1, UntouchedNext
      <3>3. l = m /\ i > 0 /\ head[l] # Null => c \in Reach(m)
        BY <2>1, ClampedKnown
      <3> QED BY <2>8, <3>2, <3>3
    <2> QED BY <2>6, <2>7, <2>8
  <1> QED BY <1>1, <1>2

(* Emptying a list harms no list that is apart from it.                      *)
LEMMA EmptyingNext ==
    ASSUME Inv, Inv', NEW l \in Lists, NEW m \in Lists, Sound(m), l # m, Apart(l, m),
           OXLListRemoveAll(l) \/ OXLDestroyList(l)
    PROVE  Sound(m)'
  <1>1. CASE Fails("useAfterFree")
    BY <1>1, FailsNext
  <1>2. CASE ~Fails("useAfterFree")
    <2>1. /\ mem' = [x \in Items |-> IF x \in Reach(l) THEN "freed" ELSE mem[x]]
          /\ head' = head \/ head' = [head EXCEPT ![l] = Null]
          /\ next' = next
      BY <1>2 DEF OXLListRemoveAll, OXLDestroyList
    <2>2. \A x \in Reach(m) : mem'[x] = "live" /\ next'[x] = next[x]
      BY <2>1, WalkKnown DEF Apart, Sound
    <2> QED BY <2>1, <2>2, UntouchedNext DEF Inv, TypeOK
  <1> QED BY <1>1, <1>2

(* Remove behind the head leaves its own list sound: the head, and what came  *)
(* behind the item that is gone.                                             *)
LEMMA RemoveNext ==
    ASSUME Inv, Inv', NEW l \in Lists, NEW i \in 1..MaxIndex, Sound(l), OXLListRemove(l, i)
    PROVE  /\ Sound(l)'
           /\ i = 1 /\ Len(Contents(l)) > 1 =>
                  Contents(l)' = <<head[l]>> \o SubSeq(Contents(l), 3, Len(Contents(l)))
  <1>0. i \in 0..MaxIndex /\ i > 0 /\ i # 0 /\ i \in Nat
    BY NumbersAssumption, NType DEF N
  <1>1. PICK li : li = IF head[l] = Null THEN head[l] ELSE Clamped(l, i)
    OBVIOUS
  <1>2. \/ /\ li \in Freed \/ (li # Null /\ li = head[l])
           /\ Fails("useAfterFree")
        \/ /\ ~(li # Null /\ li = head[l])
           /\ mem' = [x \in Items |-> IF x = li THEN "freed" ELSE mem[x]]
           /\ next' = [x \in Items |-> IF li # Null /\ x = head[l] THEN next[li] ELSE next[x]]
           /\ UNCHANGED head
    BY <1>0, <1>1 DEF OXLListRemove
  <1>3. PICK q : /\ q = Contents(l) /\ q \in Seq(Items) /\ Len(q) \in Nat
                 /\ IsChain(q, mem, next, head[l])
                 /\ Reach(l) = Elements(q) /\ (head[l] = Null <=> Len(q) = 0)
    BY SoundChain
  <1>4. \A x \in Reach(l) : mem[x] = "live" /\ x \in Items /\ x # Null
    BY WalkKnown, ItemsAssumption DEF Sound
  <1>5. CASE head[l] = Null
    <2>1. Len(q) = 0 /\ Reach(l) = {}
      BY <1>3, <1>5 DEF Elements
    <2>2. head' = head
      BY <1>2 DEF Fails
    <2> QED BY <1>3, <2>1, <2>2, UntouchedNext
  <1>6. CASE head[l] # Null
    <2>1. PICK j \in 1..Len(q) : li = q[j] /\ j = IF i < Len(q) THEN i + 1 ELSE Len(q)
      BY <1>0, <1>1, <1>3, <1>6, ClampedChain
    <2>2. /\ head[l] = q[1] /\ 1 \in 1..Len(q) /\ j \in 0..Len(q)
          /\ \A k \in 1..Len(q) : q[k] \in Reach(l)
      BY <1>3, <1>6 DEF IsChain, Place, Elements
    <2>3. li \in Items /\ li # Null /\ li \notin Freed
      BY <1>4, <2>1, <2>2 DEF Freed
    <2>4. CASE li = head[l]
      <3>1. j = 1
        BY <1>3, <2>1, <2>2, <2>4, ChainInjective
      <3>2. ~(Len(q) > 1)
        BY <1>0, <1>3, <2>1, <3>1
      <3> QED BY <1>2, <1>3, <2>3, <2>4, <3>2, FailsNext
    <2>5. CASE li # head[l]
      <3>1. /\ \A x \in Items : mem'[x] = IF x = li THEN "freed" ELSE mem[x]
            /\ \A x \in Items : next'[x] = IF x = head[l] THEN next[li] ELSE next[x]
            /\ head' = head
        BY <1>2, <2>3, <2>5
      <3>2. PICK t : t = SubSeq(q, j + 1, Len(q))
        OBVIOUS
      <3>3. /\ IsChain(t, mem, next, Place(q, j + 1)) /\ next[li] = Place(q, j + 1)
        <4>1. IsChain(t, mem, next, Place(q, j + 1))
          BY <1>3, <2>2, <3>2, ChainTail
        <4>2. next[li] = Place(q, j + 1)
          BY <1>3, <2>1 DEF IsChain
        <4> QED BY <4>1, <4>2
      <3>4. /\ t \in Seq(Items) /\ Len(t) = Len(q) - j
            /\ \A k \in 1..Len(t) : t[k] = q[j + k] /\ j + k \in 1..Len(q) /\ j + k # j /\ j + k # 1
        <4>1. j \in Nat /\ j >= 1 /\ j <= Len(q)
          BY <1>3, <2>1
        <4>2. t \in Seq(Items) /\ Len(t) = Len(q) - j
          BY <1>3, <3>2, <4>1
        <4>3. \A k \in 1..Len(t) : t[k] = q[j + k]
          BY <1>3, <3>2, <4>1, <4>2
        <4>4. \A k \in 1..Len(t) : j + k \in 1..Len(q) /\ j + k # j /\ j + k # 1
          BY <1>3, <4>1, <4>2
        <4> QED BY <4>2, <4>3, <4>4
      <3>5. \A k \in 1..Len(t) : mem'[t[k]] = "live" /\ next'[t[k]] = next[t[k]]
        <4>1. ASSUME NEW k \in 1..Len(t)
              PROVE  t[k] \in Items /\ t[k] # li /\ t[k] # head[l] /\ mem[t[k]] = "live"
          <5>1. t[k] = q[j + k] /\ j + k \in 1..Len(q) /\ j + k # j /\ j + k # 1
            BY <3>4
          <5>2. q[j + k] # q[j] /\ q[j + k] # q[1]
            BY <1>3, <2>1, <2>2, <5>1, ChainInjective
          <5> QED BY <1>4, <2>1, <2>2, <5>1, <5>2
        <4> QED BY <3>1, <4>1
      <3>6. next'[q[1]] = next[li] /\ mem'[q[1]] = "live"
        BY <1>4, <2>2, <2>5, <3>1
      <3>7. IsChain(t, mem', next', next'[q[1]])
        BY <3>3, <3>5, <3>6, ChainUntouched
      <3>8. IsChain(SubSeq(q, 1, 1) \o t, mem', next', head[l])
        <4>1. (\A k \in 1..1 : mem'[q[k]] = "live") /\ \A k \in 1..1 - 1 : next'[q[k]] = next[q[k]]
          BY <3>6
        <4> QED BY <1>3, <2>2, <3>7, <4>1, ChainSplice
      <3>9. SubSeq(q, 1, 1) = <<head[l]>>
        <4>1. Len(q) >= 1 /\ head[l] \in Items
          BY <1>3, <2>2
        <4>2. PICK u : u = SubSeq(q, 1, 1)
          OBVIOUS
        <4>3. u \in Seq(Items) /\ Len(u) = 1 /\ u[1] = head[l]
          BY <1>3, <2>2, <4>1, <4>2
        <4>4. u = <<u[1]>>
          BY <4>3
        <4> QED BY <4>2, <4>3, <4>4
      <3>10. i = 1 /\ Len(q) > 1 => t = SubSeq(q, 3, Len(q))
        BY <1>3, <2>1, <3>2
      <3>11. head'[l] = head[l]
        BY <3>1
      <3>12. Sound(l)' /\ Contents(l)' = SubSeq(q, 1, 1) \o t
        BY <3>8, <3>11, ChainNext
      <3> QED BY <1>3, <3>9, <3>10, <3>12
    <2> QED BY <2>4, <2>5
  <1> QED BY <1>5, <1>6

(* At whatever index, it harms no list that is apart from its own.           *)
LEMMA RemoveApart ==
    ASSUME Inv, Inv', NEW l \in Lists, NEW m \in Lists, NEW i \in 0..MaxIndex,
           Sound(m), l # m, Apart(l, m), OXLListRemove(l, i)
    PROVE  Sound(m)'
  <1>1. CASE Fails("useAfterFree")
    BY <1>1, FailsNext
  <1>2. CASE ~Fails("useAfterFree")
    <2>1. PICK li : li = IF i = 0 \/ head[l] = Null THEN head[l] ELSE Clamped(l, i)
      OBVIOUS
    <2>2. /\ mem' = [x \in Items |-> IF x = li THEN "freed" ELSE mem[x]]
          /\ next' = [x \in Items |-> IF i > 0 /\ li # Null /\ x = head[l]
                                      THEN next[li] ELSE next[x]]
          /\ UNCHANGED head
      BY <1>2, <2>1 DEF OXLListRemove
    <2>3. li \in Reach(l) \cup {Null} /\ head[l] \in Reach(l) \cup {Null}
      BY <2>1, ClampedKnown, InvHeap, Walks
    <2>4. \A x \in Reach(m) : x \in Items /\ mem[x] = "live" /\ x # li /\ x # head[l]
      BY <2>3, WalkKnown, ItemsAssumption DEF Sound, Apart
    <2>5. \A x \in Reach(m) : mem'[x] = "live" /\ next'[x] = next[x]
      BY <2>2, <2>4
    <2> QED BY <2>2, <2>5, UntouchedNext
  <1> QED BY <1>1, <1>2

(* A new room list is a chain of the new items, and the other lists stay.     *)
LEMMA NewRoomsNext ==
    ASSUME Inv, Inv', NEW n \in Nat, NEW xs, NewRooms(n, xs), head[RoomList] = Null,
           NEW m \in Lists, Sound(m)
    PROVE  Sound(m)'
  <1>1. /\ RoomList \in Lists /\ head' = IF n = 0 THEN head ELSE [head EXCEPT ![RoomList] = xs[1]]
        /\ head \in [Lists -> Pointers] /\ \A x \in Reach(m) : mem[x] = "live" /\ x \in Items
    BY ListsAssumption, WalkKnown DEF NewRooms, Inv, TypeOK, Sound
  <1>2. CASE m # RoomList \/ n = 0
    <2>1. \A x \in Reach(m), i \in 1..n : xs[i] # x
      BY <1>1 DEF NewRooms, Unused
    <2>2. \A i \in 1..n - 1 : i \in 1..n
      OBVIOUS
    <2>3. \A x \in Reach(m) : mem'[x] = "live" /\ next'[x] = next[x]
      BY <1>1, <2>1, <2>2 DEF NewRooms
    <2>4. head'[m] = head[m]
      BY <1>1, <1>2
    <2> QED BY <2>3, <2>4, UntouchedNext
  <1>3. CASE m = RoomList /\ n # 0
    <2>1. /\ xs \in [1..n -> Items] /\ \A i \in 1..n : mem[xs[i]] = "unused"
          /\ \A i, j \in 1..n : xs[i] = xs[j] => i = j
      BY <1>3 DEF NewRooms, Unused
    <2>2. xs \in Seq(Items) /\ Len(xs) = n
      BY <2>1
    <2>3. n \in 1..n /\ 1 \in 1..n /\ n + 1 \notin 1..n
          /\ \A i \in 1..n - 1 : i \in 1..n /\ i + 1 \in 1..n /\ i # n
      BY <1>3
    <2>4. \A i \in 1..n : mem'[xs[i]] = "live"
      BY <2>1 DEF NewRooms
    <2>5. \A i \in 1..n - 1 : next'[xs[i]] = Place(xs, i + 1)
      BY <2>2, <2>3 DEF NewRooms, Place
    <2>6. next'[xs[n]] = Place(xs, n + 1)
      <3>1. \A i \in 1..n - 1 : xs[i] # xs[n]
        BY <2>1, <2>3
      <3>2. next'[xs[n]] = next[xs[n]]
        BY <2>1, <2>3, <3>1 DEF NewRooms
      <3>3. next[xs[n]] = Null
        BY <2>1, <2>3 DEF Inv, Fresh, Unused
      <3> QED BY <2>2, <2>3, <3>2, <3>3 DEF Place
    <2>7. \A i \in 1..n : i = n \/ i \in 1..n - 1
      OBVIOUS
    <2>8. head'[m] = Place(xs, 1)
      BY <1>1, <1>3, <2>2, <2>3 DEF Place
    <2>9. IsChain(xs, mem', next', head'[m])
      BY <2>2, <2>4, <2>5, <2>6, <2>7, <2>8 DEF IsChain
    <2> QED BY <2>9, ChainNext
  <1> QED BY <1>2, <1>3

(* A list that the two exceptions do not concern stays sound.                *)
LEMMA SoundNext ==
    ASSUME Inv, Inv', Next, NEW m \in made, Sound(m),
           \A l \in Sharing(m) :
               /\ ~OXLListRemoveAll(l) /\ ~OXLDestroyList(l)
               /\ ~(l = RoomList /\ OXLPalClientHandleRoomList(0))
               /\ \A i \in 0..MaxIndex : (l = m => i = 0) => ~OXLListRemove(l, i)
               /\ \A k \in made : k \in Sharing(l) \/ ~Sound(k) => ~OXLListAddList(l, k)
    PROVE  Sound(m)'
  <1>1. m \in Lists /\ made \subseteq Lists /\ head \in [Lists -> Pointers]
        /\ \A x \in Reach(m) : mem[x] = "live"
    BY WalkKnown DEF Inv, TypeOK, Sound
  <1>2. ASSUME NEW l \in Lists, OXLCreateList(l) PROVE Sound(m)'
    <2>1. l # m /\ head' = [head EXCEPT ![l] = Null] /\ UNCHANGED <<mem, next>>
      BY <1>2 DEF OXLCreateList
    <2> QED BY <1>1, <2>1, UntouchedNext
  <1>3. ASSUME NEW l \in Lists, OXLListSize(l) PROVE Sound(m)'
    BY <1>1, <1>3, UntouchedNext DEF OXLListSize, Fails
  <1>4. ASSUME NEW l \in Lists, NEW i \in 0..MaxIndex, OXLListGet(l, i) PROVE Sound(m)'
    BY <1>1, <1>4, FailsNext DEF OXLListGet
  <1>5. ASSUME NEW l \in Lists, NEW k \in Lists, OXLCreateTailList(l, k) PROVE Sound(m)'
    <2>1. \/ Fails("nullPointer") \/ Fails("useAfterFree")
          \/ k # m /\ head' = [head EXCEPT ![k] = next[head[l]]] /\ UNCHANGED <<mem, next>>
      BY <1>5 DEF OXLCreateTailList
    <2>2. CASE Fails("nullPointer") \/ Fails("useAfterFree")
      BY <1>1, <2>2, FailsNext
    <2>3. CASE k # m /\ head' = [head EXCEPT ![k] = next[head[l]]] /\ UNCHANGED <<mem, next>>
      BY <1>1, <2>3, UntouchedNext
    <2> QED BY <2>1, <2>2, <2>3
  <1>6. ASSUME NEW l \in Lists, NEW k \in Lists, OXLListAddList(l, k) PROVE Sound(m)'
    <2>1. l \in made /\ k \in made
      BY <1>6 DEF OXLListAddList
    <2>2. l = m \/ ~Apart(l, m) => Sound(k) /\ l # k /\ Apart(l, k)
      <3> SUFFICES ASSUME l = m \/ ~Apart(l, m) PROVE Sound(k) /\ l # k /\ Apart(l, k)
        OBVIOUS
      <3>1. l \in Sharing(m)
        BY <2>1 DEF Sharing
      <3>2. k \notin Sharing(l) /\ Sound(k)
        BY <1>6, <2>1, <3>1
      <3> QED BY <2>1, <3>2 DEF Sharing, Apart
    <2> QED BY <1>1, <1>6, <2>2, AddListNext
  <1>7. ASSUME NEW l \in Lists, NEW x \in Items, OXLListAdd(l, x) PROVE Sound(m)'
    BY <1>1, <1>7, AddNext
  <1>8. ASSUME NEW l \in Lists, NEW x \in Items, NEW i \in 0..MaxIndex, OXLListInsert(l, x, i)
        PROVE  Sound(m)'
    BY <1>1, <1>8, InsertNext
  <1>9. ASSUME NEW l \in Lists, OXLListRemoveAll(l) \/ OXLDestroyList(l) PROVE Sound(m)'
    <2>1. l \in made
      BY <1>9 DEF OXLListRemoveAll, OXLDestroyList
    <2>2. l # m /\ Apart(l, m)
      BY <1>9, <2>1 DEF Sharing
    <2> QED BY <1>1, <1>9, <2>2, EmptyingNext
  <1>10. ASSUME NEW l \in Lists, NEW i \in 0..MaxIndex, OXLListRemove(l, i) PROVE Sound(m)'
    <2>1. l \in made
      BY <1>10 DEF OXLListRemove
    <2>2. CASE l = m /\ i # 0
      <3>1. i \in 1..MaxIndex
        BY <2>2, NumbersAssumption, NType DEF N
      <3> QED BY <1>1, <1>10, <2>2, <3>1, RemoveNext
    <2>3. CASE ~(l = m /\ i # 0)
      <3>1. l # m /\ Apart(l, m)
        BY <1>10, <2>1, <2>3 DEF Sharing
      <3> QED BY <1>1, <1>10, <3>1, RemoveApart
    <2> QED BY <2>2, <2>3
  <1>11. ASSUME NEW n \in 0..MaxRooms, OXLPalClientHandleRoomList(n) PROVE Sound(m)'
    <2>1. n \in Nat
      BY NumbersAssumption
    <2>2. CASE Fails("useAfterFree")
      BY <1>1, <2>2, FailsNext
    <2>3. CASE n = 0 /\ OXLListRemoveAll(RoomList)
      <3>1. RoomList \in made
        BY <2>3 DEF OXLListRemoveAll
      <3>2. RoomList # m /\ Apart(RoomList, m)
        BY <1>11, <2>3, <3>1 DEF Sharing
      <3> QED BY <1>1, <2>3, <3>2, EmptyingNext, ListsAssumption
    <2>4. ASSUME head[RoomList] = Null, NEW xs, NewRooms(n, xs) PROVE Sound(m)'
      BY <1>1, <2>1, <2>4, NewRoomsNext
    <2> QED BY <1>11, <2>2, <2>3, <2>4, RoomListCases
  <1>12. ASSUME NEW l \in Lists, Growing(l) PROVE Sound(m)'
    BY <1>2, <1>3, <1>4, <1>5, <1>6, <1>7, <1>8, <1>12 DEF Growing
  <1>13. ASSUME NEW l \in Lists, Emptying(l) PROVE Sound(m)'
    BY <1>9, <1>10, <1>13 DEF Emptying
  <1> QED BY <1>11, <1>12, <1>13 DEF Next

(* A list stays sound until an item it shares with the list of the call is    *)
(* freed or until it is given an unsound tail, however many lists share it.   *)
THEOREM SoundUntilRemovalAlways == Spec => SoundUntilRemoval
  <1>1. Inv /\ Inv' /\ [Next]_vars =>
      [\A m \in made \cap made' : Sound(m) /\ ~Sound(m)' =>
        \E l \in Sharing(m) :
            \/ OXLListRemoveAll(l) \/ OXLDestroyList(l)
            \/ l = RoomList /\ OXLPalClientHandleRoomList(0)
            \/ \E i \in 0..MaxIndex : (l = m => i = 0) /\ OXLListRemove(l, i)
            \/ \E k \in made : (k \in Sharing(l) \/ ~Sound(k)) /\ OXLListAddList(l, k)]_vars
    BY SoundNext
  <1> QED BY <1>1, Invariant, PTL DEF Spec, SoundUntilRemoval

(* On sound lists, the calls mean what they mean for sequences.              *)
THEOREM CallsAsSequencesAlways == Spec => CallsAsSequences
  <1>1. ASSUME Inv, Inv', NEW l \in made, Sound(l)
        PROVE  /\ \A x \in Unused \ Unused' :
                      OXLListAdd(l, x) => Contents(l)' = Append(Contents(l), x)
               /\ \A m \in made : Sound(m) /\ Apart(l, m) /\ OXLListAddList(l, m) =>
                      Contents(l)' = Contents(l) \o Contents(m)
               /\ \A x \in Unused \ Unused', i \in 1..MaxIndex :
                      head[l] # Null /\ OXLListInsert(l, x, i) =>
                          Contents(l)' = Behind(Contents(l), i, x)
               /\ Len(Contents(l)) > 1 /\ MaxIndex > 0 /\ OXLListRemove(l, 1) =>
                      Contents(l)' = <<head[l]>> \o SubSeq(Contents(l), 3, Len(Contents(l)))
    <2>1. l \in Lists /\ made \subseteq Lists /\ Unused \subseteq Items
      BY <1>1 DEF Inv, TypeOK, Unused
    <2>2. PICK q : /\ q = Contents(l) /\ q \in Seq(Items) /\ Len(q) \in Nat
                   /\ (head[l] = Null <=> Len(q) = 0) /\ Reach(l) = Elements(q)
      BY <1>1, <2>1, SoundChain
    <2>3. ASSUME NEW x \in Unused \ Unused', OXLListAdd(l, x)
          PROVE  Contents(l)' = Append(Contents(l), x)
      <3>1. Contents(l)' = q \o <<x>>
        BY <1>1, <2>1, <2>2, <2>3, AddNext
      <3>2. q \o <<x>> = Append(q, x)
        BY <2>1, <2>2
      <3> QED BY <2>2, <3>1, <3>2
    <2>4. ASSUME NEW m \in made, Sound(m), Apart(l, m), OXLListAddList(l, m)
          PROVE  Contents(l)' = Contents(l) \o Contents(m)
      <3>1. PICK r : /\ r = Contents(m) /\ r \in Seq(Items) /\ Len(r) \in Nat
                     /\ (head[m] = Null <=> Len(r) = 0) /\ Reach(m) = Elements(r)
        BY <1>1, <2>1, <2>4, SoundChain
      <3>2. CASE l # m
        BY <1>1, <2>1, <2>4, <3>2, AddListNext
      <3>3. CASE l = m
        <4>1. Elements(q) = {} /\ r = q
          BY <2>2, <2>4, <3>1, <3>3 DEF Apart
        <4>2. Len(q) = 0
          <5>1. 1 \notin 1..Len(q)
            BY <4>1 DEF Elements
          <5> QED BY <2>2, <5>1
        <4>3. head[l] = Null /\ Walked(l) = "none" /\ head[m] = Null /\ Reach(l) = {}
          BY <1>1, <2>1, <2>2, <3>3, <4>1, <4>2, WalkKnown
        <4>4. head' = [head EXCEPT ![l] = head[m]]
          BY <2>4, <4>3 DEF OXLListAddList
        <4>5. head'[l] = head[l]
          BY <1>1, <2>1, <4>3, <4>4 DEF Inv, TypeOK
        <4>6. Contents(l)' = q
          BY <1>1, <2>1, <2>2, <4>3, <4>5, UntouchedNext
        <4>7. q \o q = q
          BY <2>2, <4>2
        <4> QED BY <2>2, <3>1, <4>1, <4>6, <4>7
      <3> QED BY <3>2, <3>3
    <2>5. ASSUME NEW x \in Unused \ Unused', NEW i \in 1..MaxIndex,
                 head[l] # Null, OXLListInsert(l, x, i)
          PROVE  Contents(l)' = Behind(Contents(l), i, x)
      <3>1. i \in 0..MaxIndex /\ i > 0
        BY NumbersAssumption, NType DEF N
      <3> QED BY <1>1, <2>1, <2>5, <3>1, InsertNext
    <2>6. ASSUME Len(Contents(l)) > 1, MaxIndex > 0, OXLListRemove(l, 1)
          PROVE  Contents(l)' = <<head[l]>> \o SubSeq(Contents(l), 3, Len(Contents(l)))
      <3>1. 1 \in 1..MaxIndex
        BY <2>6, NumbersAssumption, NType DEF N
      <3> QED BY <1>1, <2>1, <2>6, <3>1, RemoveNext
    <2> QED BY <2>3, <2>4, <2>5, <2>6
  <1>2. Inv /\ Inv' /\ [Next]_vars =>
      [\A l \in made : Sound(l) =>
        /\ \A x \in Unused \ Unused' : OXLListAdd(l, x) => Contents(l)' = Append(Contents(l), x)
        /\ \A m \in made : Sound(m) /\ Apart(l, m) /\ OXLListAddList(l, m) =>
               Contents(l)' = Contents(l) \o Contents(m)
        /\ \A x \in Unused \ Unused', i \in 1..MaxIndex :
               head[l] # Null /\ OXLListInsert(l, x, i) => Contents(l)' = Behind(Contents(l), i, x)
        /\ Len(Contents(l)) > 1 /\ MaxIndex > 0 /\ OXLListRemove(l, 1) =>
               Contents(l)' = <<head[l]>> \o SubSeq(Contents(l), 3, Len(Contents(l)))]_vars
    BY <1>1
  <1> QED BY <1>2, Invariant, PTL DEF Spec, CallsAsSequences

=============================================================================
