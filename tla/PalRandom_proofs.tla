--------------------------- MODULE PalRandom_proofs ---------------------------
(***************************************************************************)
(* Proofs about the generator, for every seed an int32_t can hold.         *)
(***************************************************************************)
EXTENDS PalRandom, WellFoundedInduction, TLAPS

(* The numerals of the code are given to the provers as equations: Zenon      *)
(* writes a numeral in unary, and no prover should unfold an interval that    *)
(* has one for a bound.                                                      *)
LEMMA Values ==
    Modulus = 2147483647 /\ Multiplier = 16807 /\ Q = 127773 /\ R = 2836
  BY SMT DEF Modulus, Multiplier, Q, R

LEMMA Int32Bounds ==
    ASSUME NEW s
    PROVE  s \in Int32 <=> s \in Int /\ s >= -Modulus - 1 /\ s <= Modulus
  <1>1. Modulus \in Int
    BY Values, SMT
  <1> QED BY <1>1, SMT DEF Int32

(* The quotient and the remainder of the division of C.                      *)
LEMMA Division ==
    ASSUME NEW s \in Int32
    PROVE  \E q, r \in Int :
               /\ q = Quot(s) /\ r = s - Q * Quot(s)
               /\ s = Q * q + r
               /\ s >= 0 => q >= 0 /\ r >= 0 /\ q <= Multiplier /\ r < Q
               /\ s < 0 => q <= 0 /\ r <= 0 /\ q >= -Multiplier /\ r > -Q
  <1>1. s \in Int /\ s >= -Modulus - 1 /\ s <= Modulus
    BY Int32Bounds
  <1> DEFINE r == s - Q * Quot(s)
  <1>2. CASE s >= 0
    <2>1. Quot(s) = s \div Q
      BY <1>2 DEF Quot
    <2>2. Quot(s) \in Int /\ r \in Int /\ r >= 0 /\ r < Q /\ s = Q * Quot(s) + r
      BY <1>1, <1>2, <2>1, Values, SMT
    <2>3. Quot(s) >= 0 /\ Quot(s) <= Multiplier
      BY <1>1, <1>2, <2>2, Values, SMT
    <2> QED BY <1>1, <1>2, <2>2, <2>3, SMT
  <1>3. CASE s < 0
    <2>1. Quot(s) = (s + (Q - 1)) \div Q
      BY <1>1, <1>3, SMT DEF Quot
    <2>2. Quot(s) \in Int /\ r \in Int /\ r <= 0 /\ r > -Q /\ s = Q * Quot(s) + r
      BY <1>1, <1>3, <2>1, Values, SMT
    <2>3. Quot(s) <= 0 /\ Quot(s) >= -Multiplier
      BY <1>1, <1>3, <2>2, Values, SMT
    <2> QED BY <1>1, <1>3, <2>2, <2>3, SMT
  <1> QED BY <1>1, <1>2, <1>3, SMT

(* Schrage: the two products and their difference stay within 32 bits.        *)
LEMMA Fits ==
    ASSUME NEW s \in Int32
    PROVE  /\ Product(s) \in Int32 /\ Correction(s) \in Int32
           /\ Product(s) - Correction(s) \in Int32
           /\ Step(s) \in Int /\ 1 <= Step(s) /\ Step(s) <= Modulus
  <1>1. PICK q, r \in Int :
               /\ q = Quot(s) /\ r = s - Q * Quot(s)
               /\ s = Q * q + r
               /\ s >= 0 => q >= 0 /\ r >= 0 /\ q <= Multiplier /\ r < Q
               /\ s < 0 => q <= 0 /\ r <= 0 /\ q >= -Multiplier /\ r > -Q
    BY Division
  <1>2. Product(s) = Multiplier * r /\ Correction(s) = R * q
    BY <1>1 DEF Product, Correction
  <1>3. s \in Int /\ s >= -Modulus - 1 /\ s <= Modulus
    BY Int32Bounds
  <1>4. /\ Multiplier * r \in Int /\ Multiplier * r <= Modulus /\ Multiplier * r > -Modulus
        /\ R * q \in Int /\ R * q <= Modulus /\ R * q > -Modulus
        /\ Multiplier * r - R * q <= Modulus /\ Multiplier * r - R * q > -Modulus
    BY <1>1, <1>3, Values, SMT
  <1>5. Step(s) = IF Multiplier * r - R * q <= 0 THEN Multiplier * r - R * q + Modulus
                                                 ELSE Multiplier * r - R * q
    BY <1>2 DEF Step
  <1>6. Step(s) \in Int /\ 1 <= Step(s) /\ Step(s) <= Modulus
    BY <1>1, <1>4, <1>5, Values, SMT
  <1> QED BY <1>2, <1>4, <1>6, Int32Bounds, Values, SMT

(* Only a multiple of the modulus is mapped to the modulus.                  *)
LEMMA StepInRange ==
    ASSUME NEW s \in Int32, s # 0, s \notin Sticking
    PROVE  Step(s) < Modulus
  <1>1. PICK q, r \in Int :
               /\ q = Quot(s) /\ r = s - Q * Quot(s)
               /\ s = Q * q + r
               /\ s >= 0 => q >= 0 /\ r >= 0 /\ q <= Multiplier /\ r < Q
               /\ s < 0 => q <= 0 /\ r <= 0 /\ q >= -Multiplier /\ r > -Q
    BY Division
  <1>2. Product(s) = Multiplier * r /\ Correction(s) = R * q
    BY <1>1 DEF Product, Correction
  <1>3. s \in Int /\ s >= -Modulus - 1 /\ s <= Modulus /\ s # 0 /\ s # Modulus /\ s # -Modulus
    BY Int32Bounds DEF Sticking
  <1>4. Multiplier * r # R * q
    <2>1. ASSUME Multiplier * r = R * q PROVE q = -Multiplier \/ q = 0 \/ q = Multiplier
      BY <1>1, <1>3, <2>1, Values, SMT
    <2>2. ASSUME Multiplier * r = R * q PROVE FALSE
      BY <1>1, <1>3, <2>1, <2>2, Values, SMT
    <2> QED BY <2>2
  <1>5. Multiplier * r - R * q < Modulus
    BY <1>1, <1>3, Values, SMT
  <1>6. Step(s) = IF Multiplier * r - R * q <= 0 THEN Multiplier * r - R * q + Modulus
                                                 ELSE Multiplier * r - R * q
    BY <1>2 DEF Step
  <1>7. Multiplier * r \in Int /\ R * q \in Int
    BY <1>1, Values, SMT
  <1>8. PICK a \in Int : a = Multiplier * r - R * q /\ a # 0
    BY <1>4, <1>7, SMT
  <1> QED BY <1>5, <1>6, <1>8, Values, SMT

(* One step multiplies by 16807 modulo 2^31 - 1, with 32 bits throughout.     *)
THEOREM SchrageStep ==
    ASSUME NEW s \in Int, 1 <= s, s < Modulus
    PROVE  Step(s) = (Multiplier * s) % Modulus
  <1>1. s \in Int32 /\ s # 0 /\ s \notin Sticking /\ s >= 0
    BY Int32Bounds, Values, SMT DEF Sticking
  <1>2. Step(s) \in Int /\ 1 <= Step(s) /\ Step(s) < Modulus
    BY <1>1, Fits, StepInRange
  <1>3. PICK q, r \in Int :
               /\ q = Quot(s) /\ r = s - Q * Quot(s)
               /\ s = Q * q + r
    BY <1>1, Division
  <1>4. Step(s) = IF Multiplier * r - R * q <= 0 THEN Multiplier * r - R * q + Modulus
                                                 ELSE Multiplier * r - R * q
    BY <1>3 DEF Step, Product, Correction
  <1>5. \E k \in Int : Step(s) = Multiplier * s - Modulus * k
    <2>1. Multiplier * r - R * q = Multiplier * s - Modulus * q
      BY <1>3, Values, SMT
    <2>2. Multiplier * r - R * q + Modulus = Multiplier * s - Modulus * (q - 1)
      BY <1>3, Values, SMT
    <2> QED BY <1>3, <1>4, <2>1, <2>2
  <1> QED BY <1>2, <1>5, Values, SMT

-----------------------------------------------------------------------------
(* What SeedRandom makes of its argument.                                    *)
LEMMA SeededType ==
    ASSUME NEW s \in Int32
    PROVE  /\ Seeded(s) \in Int32 /\ Seeded(s) # 0
           /\ s \notin Sticking => Seeded(s) \notin Sticking
  <1>1. 1 \in Int32 /\ 1 \notin Sticking
    BY Int32Bounds, Values, SMT DEF Sticking
  <1> QED BY <1>1 DEF Seeded

LEMMA SeedConstants ==
    /\ InitSeed \in Int32 /\ InitSeed \notin Sticking /\ InitSeed # 0
    /\ 1 \in Int32 /\ 1 \notin Sticking
    /\ LutLen = 512
  <1>1. InitSeed = 666666 /\ LutLen = 512
    BY SMT DEF InitSeed, LutLen
  <1> QED BY <1>1, Int32Bounds, Values, SMT DEF Sticking

(* A draw leaves a seed that is an int32_t, and in range unless it sticks.    *)
LEMMA StepType ==
    ASSUME NEW s \in Int32
    PROVE  /\ Step(s) \in Int32 /\ Step(s) # 0
           /\ s # 0 /\ s \notin Sticking => Step(s) \notin Sticking /\ Step(s) \in 1..(Modulus - 1)
           /\ Int16Of256(Step(s)) % 256 \in 0..255
  <1>1. Step(s) \in Int /\ 1 <= Step(s) /\ Step(s) <= Modulus
    BY Fits
  <1>2. Modulus \in Int /\ Modulus > 1
    BY Values, SMT
  <1>3. Step(s) \in Int32 /\ Step(s) # 0
    BY <1>1, <1>2, Int32Bounds, SMT
  <1>4. ASSUME s # 0, s \notin Sticking
        PROVE  Step(s) \notin Sticking /\ Step(s) \in 1..(Modulus - 1)
    <2>1. Step(s) < Modulus
      BY <1>4, StepInRange
    <2> QED BY <1>1, <1>2, <2>1, SMT DEF Sticking
  <1>5. Int16Of256(Step(s)) \in Int
    BY <1>1, SMT DEF Int16Of256
  <1>6. \A x \in Int : x % 256 \in 0..255
    BY SMT
  <1> QED BY <1>3, <1>4, <1>5, <1>6

LEMMA InitInv == Init => Inv
  <1> SUFFICES ASSUME Init PROVE Inv
    OBVIOUS
  <1>1. origin \in Int32 /\ seed = Seeded(origin) /\ draws = 0 /\ i = 0 /\ lut = <<>>
    BY AppSeedsAssumption DEF Init
  <1>2. TypeOK
    BY <1>1, SeededType, MaxDrawsAssumption, SeedConstants DEF TypeOK
  <1>3. 0 > 0 <=> FALSE
    OBVIOUS
  <1> QED BY <1>1, <1>2, <1>3, SeededType DEF Inv, SeedInRange

LEMMA SeedRandomInv ==
    ASSUME Inv, NEW s \in AppSeeds, SeedRandom(s)
    PROVE  Inv'
  <1>1. s \in Int32 /\ seed' = Seeded(s) /\ origin' = s /\ draws' = 0 /\ i' = i /\ i = 0
        /\ lut' = lut
    BY AppSeedsAssumption DEF SeedRandom, Seed
  <1>2. TypeOK'
    BY <1>1, SeededType, MaxDrawsAssumption, SeedConstants DEF Inv, TypeOK
  <1>3. ~(i' > 0) /\ ~(draws' > 0)
    BY <1>1
  <1> QED BY <1>1, <1>2, <1>3, SeededType DEF Inv, SeedInRange

LEMMA RandomInt32Inv ==
    ASSUME Inv, RandomInt32
    PROVE  Inv'
  <1>1. seed' = Step(seed) /\ draws' = draws + 1 /\ draws' \in 1..MaxDraws /\ i' = i /\ i = 0
        /\ lut' = lut /\ origin' = origin /\ seed \in Int32 /\ seed # 0
    BY MaxDrawsAssumption DEF RandomInt32, Inv, TypeOK
  <1>2. TypeOK'
    BY <1>1, StepType, MaxDrawsAssumption, SeedConstants DEF Inv, TypeOK
  <1>3. ~(i' > 0) /\ draws' # 0
    BY <1>1
  <1>4. origin \notin Sticking => seed \notin Sticking
    BY DEF Inv
  <1> QED BY <1>1, <1>2, <1>3, <1>4, StepType DEF Inv, SeedInRange

LEMMA InitPalCryptoInv ==
    ASSUME Inv, InitPalCrypto
    PROVE  Inv'
  <1>1. seed' = Seeded(InitSeed) /\ origin' = InitSeed /\ draws' = 0 /\ i' = LutLen
        /\ lut' = <<>>
    BY DEF InitPalCrypto, Seed
  <1>2. TypeOK'
    <2>1. i' \in 0..LutLen /\ draws' \in 0..(MaxDraws + LutLen)
      BY <1>1, MaxDrawsAssumption, SeedConstants
    <2> QED BY <1>1, <2>1, SeededType, SeedConstants DEF Inv, TypeOK
  <1>3. draws' = LutLen - i' /\ ~(draws' > 0) /\ Len(lut') = draws'
    BY <1>1, SeedConstants
  <1> QED BY <1>1, <1>2, <1>3, SeededType, SeedConstants DEF Inv, SeedInRange

(* An entry is drawn; after the last one the seed is set to 1.               *)
LEMMA FillEntryInv ==
    ASSUME Inv, FillEntry
    PROVE  Inv'
  <1> DEFINE b == Int16Of256(Step(seed)) % 256
  <1>1. /\ i \in 1..LutLen /\ i' = i - 1 /\ seed \in Int32 /\ seed # 0
        /\ origin = InitSeed /\ draws = LutLen - i /\ Len(lut) = draws
        /\ seed \notin Sticking
        /\ lut \in Seq(0..255)
    BY SeedConstants DEF FillEntry, Inv, TypeOK
  <1>2. b \in 0..255
    BY <1>1, StepType
  <1>3. lut' = Append(lut, b)
    BY DEF FillEntry
  <1> HIDE DEF b
  <1>4. lut' \in Seq(0..255) /\ Len(lut') = LutLen - i' /\ i' \in 0..LutLen
    BY <1>1, <1>2, <1>3, SeedConstants
  <1>5. CASE i > 1
    <2>1. seed' = Step(seed) /\ draws' = draws + 1 /\ origin' = origin
      BY <1>5 DEF FillEntry
    <2>2. draws' = LutLen - i' /\ draws' \in 0..(MaxDraws + LutLen) /\ draws' # 0
      BY <1>1, <2>1, SeedConstants, MaxDrawsAssumption
    <2>3. TypeOK'
      BY <1>1, <1>4, <2>1, <2>2, StepType, SeedConstants DEF TypeOK
    <2> QED BY <1>1, <1>4, <2>1, <2>2, <2>3, StepType DEF Inv, SeedInRange
  <1>6. CASE i = 1
    <2>1. seed' = Seeded(1) /\ draws' = 0 /\ origin' = 1 /\ i' = 0
      BY <1>1, <1>6 DEF FillEntry, Seed
    <2>2. TypeOK'
      BY <1>1, <1>4, <2>1, SeededType, SeedConstants, MaxDrawsAssumption DEF TypeOK
    <2>3. ~(i' > 0) /\ ~(draws' > 0)
      BY <2>1
    <2> QED BY <2>1, <2>2, <2>3, SeededType, SeedConstants DEF Inv, SeedInRange
  <1> QED BY <1>1, <1>5, <1>6, SeedConstants

LEMMA InvNext == Inv /\ [Next]_vars => Inv'
  <1> SUFFICES ASSUME Inv, [Next]_vars PROVE Inv'
    OBVIOUS
  <1>1. CASE \E s \in AppSeeds : SeedRandom(s)
    BY <1>1, SeedRandomInv
  <1>2. CASE RandomInt32
    BY <1>2, RandomInt32Inv
  <1>3. CASE InitPalCrypto
    BY <1>3, InitPalCryptoInv
  <1>4. CASE FillEntry
    BY <1>4, FillEntryInv
  <1>5. CASE UNCHANGED vars
    BY <1>5 DEF vars, Inv, TypeOK, SeedInRange
  <1> QED BY <1>1, <1>2, <1>3, <1>4, <1>5 DEF Next

(* Inv is an invariant of the generator.                                     *)
THEOREM Invariant == Spec => []Inv
  <1> QED BY InitInv, InvNext, PTL DEF Spec

(* Seed and table keep their types: no draw leaves an int32_t or a byte.     *)
THEOREM TypeCorrect == Spec => []TypeOK
  <1>1. Inv => TypeOK
    BY DEF Inv
  <1> QED BY <1>1, Invariant, PTL

(* The sequence never sticks, whatever the application seeds it with, but for *)
(* the modulus and its negative.                                             *)
THEOREM SeedAlwaysInRange == Spec => []SeedInRange
  <1>1. Inv => SeedInRange
    BY DEF Inv
  <1> QED BY <1>1, Invariant, PTL

(* No draw overflows an int32_t.                                             *)
THEOREM NoOverflow == Spec => []IntermediatesFit
  <1>1. ASSUME Inv PROVE IntermediatesFit
    <2>1. Product(seed) \in Int32 /\ Correction(seed) \in Int32
          /\ Product(seed) - Correction(seed) \in Int32
      BY <1>1, Fits DEF Inv, TypeOK
    <2>2. PICK p, c \in Int : p = Product(seed) /\ c = Correction(seed)
      BY <2>1, Int32Bounds
    <2>3. p <= Modulus /\ p >= -Modulus - 1 /\ p - c <= Modulus /\ p - c >= -Modulus - 1
      BY <2>1, <2>2, Int32Bounds
    <2> QED BY <2>1, <2>2, <2>3, Values, SMT DEF IntermediatesFit
  <1> QED BY <1>1, Invariant, PTL

(* In every behaviour, also while a table is filled, a draw from a seed in    *)
(* range is the product by the multiplier modulo 2^31 - 1.                   *)
THEOREM DrawsMultiply ==
    Spec => [][draws' = draws + 1 /\ seed \in 1..(Modulus - 1) =>
                   seed' = (Multiplier * seed) % Modulus]_vars
  <1>0. Modulus \in Int
    BY Values, SMT
  <1>1. Inv /\ [Next]_vars =>
            [draws' = draws + 1 /\ seed \in 1..(Modulus - 1) =>
                   seed' = (Multiplier * seed) % Modulus]_vars
    <2> SUFFICES ASSUME Inv, Next, draws' = draws + 1, seed \in 1..(Modulus - 1)
                 PROVE  seed' = (Multiplier * seed) % Modulus
      OBVIOUS
    <2>1. draws \in Nat /\ draws' # 0
      BY MaxDrawsAssumption, SeedConstants DEF Inv, TypeOK
    <2>2. seed' = Step(seed)
      BY <2>1 DEF Next, SeedRandom, Seed, RandomInt32, InitPalCrypto, FillEntry
    <2>3. seed \in Int /\ 1 <= seed /\ seed < Modulus
      BY <1>0, SMT
    <2> QED BY <2>2, <2>3, SchrageStep
  <1> QED BY <1>1, Invariant, PTL DEF Spec

-----------------------------------------------------------------------------
(* What the reference definitions compute.                                   *)

(* A set of natural numbers that is not empty has a least element.           *)
LEMMA LeastElement ==
    ASSUME NEW T \in SUBSET Nat, T # {}
    PROVE  \E x \in T : \A y \in T : x <= y
  <1> DEFINE L == OpToRel(<, Nat)
  <1>1. IsWellFoundedOn(L, Nat)
    BY NatLessThanWellFounded
  <1> HIDE DEF L
  <1>2. PICK x \in T : \A y \in T : <<y, x>> \notin L
    BY <1>1, WFMin
  <1>3. ASSUME NEW y \in T, ~(x <= y) PROVE <<y, x>> \in L
    <2>1. x \in Nat /\ y \in Nat /\ y < x
      BY <1>3
    <2> QED BY <2>1, Zenon DEF L, OpToRel
  <1> QED BY <1>2, <1>3

(* Induction over the natural numbers, for a set instead of a predicate.      *)
LEMMA SetInduction ==
    ASSUME NEW S, 0 \in S, \A n \in Nat : n \in S => n + 1 \in S
    PROVE  Nat \subseteq S
  <1> DEFINE T == Nat \ S
  <1> SUFFICES ASSUME T # {} PROVE FALSE
    OBVIOUS
  <1>1. PICK x \in T : \A y \in T : x <= y
    BY LeastElement
  <1>2. x \in Nat /\ x # 0 /\ x - 1 \in Nat /\ x - 1 + 1 = x
    OBVIOUS
  <1> QED BY <1>1, <1>2

(* A function that follows its value at half the argument is given by the     *)
(* value at 0: two that agree there, and agree at n when they agree at half   *)
(* of n, are equal.                                                          *)
LEMMA HalvingInduction ==
    ASSUME NEW f, NEW h, f[0] = h[0],
           \A n \in Nat : n # 0 /\ f[n \div 2] = h[n \div 2] => f[n] = h[n]
    PROVE  \A n \in Nat : f[n] = h[n]
  <1> DEFINE T == {n \in Nat : f[n] # h[n]}
  <1> SUFFICES ASSUME T # {} PROVE FALSE
    OBVIOUS
  <1>1. PICK n \in T : \A k \in T : n <= k
    BY LeastElement
  <1>2. n \in Nat /\ n # 0
    BY <1>1
  <1>3. n \div 2 \in Nat /\ n \div 2 < n
    BY <1>2, SMT
  <1>4. f[n \div 2] = h[n \div 2]
    BY <1>1, <1>3
  <1> QED BY <1>1, <1>2, <1>4

(* A remainder may be taken before a sum or a product is.                    *)
LEMMA Congruence ==
    /\ \A a \in Int : a % Modulus \in Int /\ 0 <= a % Modulus /\ a % Modulus < Modulus
    /\ \A a \in Int : 0 <= a /\ a < Modulus => a % Modulus = a
    /\ \A a, k \in Int : (Modulus * k + a) % Modulus = a % Modulus
    /\ \A a, b \in Int : ((a % Modulus) + (b % Modulus)) % Modulus = (a + b) % Modulus
    /\ \A a, b \in Int : ((a % Modulus) * b) % Modulus = (a * b) % Modulus
  <1>1. \A a \in Int : a % Modulus \in Int /\ 0 <= a % Modulus /\ a % Modulus < Modulus
    BY Values, SMT
  <1>2. \A a \in Int : 0 <= a /\ a < Modulus => a % Modulus = a
    BY Values, SMT
  <1>3. \A a, k \in Int : (Modulus * k + a) % Modulus = a % Modulus
    BY Values, SMT
  <1>4. \A a, b \in Int : ((a % Modulus) + (b % Modulus)) % Modulus = (a + b) % Modulus
    BY Values, SMT
  <1>5. ASSUME NEW a \in Int, NEW b \in Int
        PROVE  ((a % Modulus) * b) % Modulus = (a * b) % Modulus
    <2>1. PICK q, r \in Int : a = Modulus * q + r /\ r = a % Modulus
      <3>1. a \div Modulus \in Int /\ a % Modulus \in Int
            /\ a = Modulus * (a \div Modulus) + (a % Modulus)
        BY Values, SMT
      <3> QED BY <3>1
    <2>2. PICK c, d \in Int : c = q * b /\ d = r * b
      OBVIOUS
    <2>3. a * b = Modulus * c + d
      BY <2>1, <2>2, Values, SMT
    <2> QED BY <1>3, <2>1, <2>2, <2>3
  <1> QED BY <1>1, <1>2, <1>3, <1>4, <1>5

LEMMA AddModIs ==
    ASSUME NEW x \in Int, NEW y \in Int, 0 <= x, x < Modulus, 0 <= y, y < Modulus
    PROVE  AddMod(x, y) = (x + y) % Modulus
  BY Values, SMT DEF AddMod

(* Doubling and adding multiplies.                                           *)
LEMMA MulModIs ==
    ASSUME NEW x \in Int, 0 <= x, x < Modulus, NEW y \in Nat
    PROVE  MulMod(x, y) = (x * y) % Modulus
  <1> DEFINE F(f) == [n \in Nat |->
                         IF n = 0 THEN 0
                         ELSE LET half == f[n \div 2]
                              IN  AddMod(AddMod(half, half), IF n % 2 = 1 THEN x ELSE 0)]
             h == [n \in Nat |-> (x * n) % Modulus]
  <1>1. MulMod(x, y) = (CHOOSE f : f = F(f))[y]
    BY DEF MulMod
  <1>2. ASSUME NEW n \in Nat PROVE h[n] = F(h)[n]
    <2>1. CASE n = 0
      <3>1. x * 0 = 0 /\ 0 % Modulus = 0
        BY Values, SMT
      <3> QED BY <2>1, <3>1
    <2>2. CASE n # 0
      <3>1. PICK k, b \in Nat : k = n \div 2 /\ b = n % 2 /\ n = 2 * k + b /\ b \in {0, 1}
        <4>1. n \div 2 \in Nat /\ n % 2 \in Nat /\ n = 2 * (n \div 2) + (n % 2)
              /\ n % 2 \in {0, 1}
          BY SMT
        <4> QED BY <4>1
      <3>2. PICK c \in Int : c = x * k
        OBVIOUS
      <3>3. PICK d \in Int : d = (IF n % 2 = 1 THEN x ELSE 0) /\ d = x * b /\ 0 <= d /\ d < Modulus
        BY <3>1, Values, SMT
      <3>4. x * n = 2 * c + d
        BY <3>1, <3>2, <3>3, SMT
      <3>5. PICK u \in Int : u = c % Modulus /\ 0 <= u /\ u < Modulus
        BY Congruence
      <3>6. AddMod(u, u) = (2 * c) % Modulus
        <4>1. AddMod(u, u) = (u + u) % Modulus
          BY <3>5, AddModIs
        <4>2. (u + u) % Modulus = (c + c) % Modulus
          BY <3>5, Congruence
        <4> QED BY <4>1, <4>2, SMT
      <3>7. AddMod(AddMod(u, u), d) = (2 * c + d) % Modulus
        <4>0. PICK c2 \in Int : c2 = 2 * c
          OBVIOUS
        <4>1. PICK v \in Int : v = (2 * c) % Modulus /\ 0 <= v /\ v < Modulus
          BY <4>0, Congruence
        <4>2. AddMod(v, d) = (v + d) % Modulus
          BY <3>3, <4>1, AddModIs
        <4>3. d = d % Modulus
          BY <3>3, Congruence
        <4>4. (v + d) % Modulus = (2 * c + d) % Modulus
          BY <4>0, <4>1, <4>3, Congruence
        <4> QED BY <3>6, <4>1, <4>2, <4>4
      <3>8. h[n \div 2] = u /\ h[n] = (2 * c + d) % Modulus
        BY <3>1, <3>2, <3>4, <3>5
      <3>9. F(h)[n] = AddMod(AddMod(u, u), d)
        BY <2>2, <3>3, <3>8
      <3> QED BY <3>7, <3>8, <3>9
    <2> QED BY <2>1, <2>2
  <1>3. h = F(h)
    <2>1. h = [n \in Nat |-> h[n]] /\ F(h) = [n \in Nat |-> F(h)[n]]
      OBVIOUS
    <2> HIDE DEF h, F
    <2> QED BY <1>2, <2>1
  <1>4. PICK g : g = F(g) /\ g = (CHOOSE f : f = F(f))
    <2> HIDE DEF h, F
    <2> QED BY <1>3
  <1>5. \A n \in Nat : n # 0 /\ g[n \div 2] = h[n \div 2] => g[n] = h[n]
    <2> SUFFICES ASSUME NEW n \in Nat, n # 0, g[n \div 2] = h[n \div 2] PROVE g[n] = h[n]
      OBVIOUS
    <2>1. g[n] = F(g)[n] /\ h[n] = F(h)[n]
      BY <1>3, <1>4
    <2> HIDE DEF h
    <2> QED BY <2>1
  <1>6. g[0] = h[0]
    <2>1. g[0] = F(g)[0] /\ h[0] = F(h)[0]
      BY <1>3, <1>4
    <2> HIDE DEF h
    <2> QED BY <2>1
  <1>7. g[y] = h[y]
    <2> HIDE DEF h, F
    <2> QED BY <1>5, <1>6, HalvingInduction
  <1> QED BY <1>1, <1>4, <1>7

(* Lehmer's generator is one multiplication modulo the modulus.              *)
LEMMA LehmerIs ==
    ASSUME NEW s \in Int, 0 <= s, s < Modulus
    PROVE  Lehmer(s) = (Multiplier * s) % Modulus
  <1>1. Multiplier \in Nat
    BY Values, SMT
  <1>2. MulMod(s, Multiplier) = (s * Multiplier) % Modulus
    BY <1>1, MulModIs
  <1>3. s * Multiplier = Multiplier * s
    BY <1>1, SMT
  <1> QED BY <1>2, <1>3 DEF Lehmer

(* Every draw from a seed in range is a step of Lehmer's generator.          *)
THEOREM DrawIsLehmerAlways == Spec => DrawIsLehmer
  <1>0. Modulus \in Int
    BY Values, SMT
  <1>1. ASSUME draws' = draws + 1 /\ seed \in 1..(Modulus - 1) =>
                   seed' = (Multiplier * seed) % Modulus,
               draws' = draws + 1, seed \in 1..(Modulus - 1)
        PROVE  seed' = Lehmer(seed)
    <2>1. seed \in Int /\ 0 <= seed /\ seed < Modulus
      BY <1>0, <1>1, SMT
    <2> QED BY <1>1, <2>1, LehmerIs
  <1>2. [draws' = draws + 1 /\ seed \in 1..(Modulus - 1) =>
                   seed' = (Multiplier * seed) % Modulus]_vars
        => [draws' = draws + 1 /\ seed \in 1..(Modulus - 1) => seed' = Lehmer(seed)]_vars
    BY <1>1
  <1> QED BY <1>2, DrawsMultiply, PTL DEF DrawIsLehmer

-----------------------------------------------------------------------------
(* The powers of the multiplier.                                             *)

Residues == 0..(Modulus - 1)

(* The first n powers, each from the one before.                             *)
IsPowers(f, n) ==
    /\ f \in [0..n -> Residues]
    /\ f[0] = 1
    /\ \A k \in 1..n : f[k] = (Multiplier * f[k - 1]) % Modulus

LEMMA ResidueType ==
    /\ \A a \in Int : a % Modulus \in Residues
    /\ \A a \in Residues : a \in Int /\ 0 <= a /\ a < Modulus
    /\ 1 \in Residues /\ Multiplier \in Residues /\ Multiplier \in Int
  <1>1. Modulus \in Int /\ Modulus > Multiplier /\ Multiplier > 1 /\ Multiplier \in Int
    BY Values, SMT
  <1> QED BY <1>1, Congruence DEF Residues

LEMMA PowersExist ==
    ASSUME NEW n \in Nat
    PROVE  \E f : IsPowers(f, n)
  <1> DEFINE T == {k \in Nat : \E f : IsPowers(f, k)}
  <1>1. 0 \in T
    <2> DEFINE f == [k \in 0..0 |-> 1]
    <2>1. f \in [0..0 -> Residues] /\ f[0] = 1 /\ 1..0 = {}
      BY ResidueType
    <2>2. IsPowers(f, 0)
      BY <2>1 DEF IsPowers
    <2> QED BY <2>2
  <1>2. ASSUME NEW k \in Nat, k \in T PROVE k + 1 \in T
    <2>1. PICK f : IsPowers(f, k)
      BY <1>2
    <2>2. f \in [0..k -> Residues] /\ f[0] = 1
          /\ \A j \in 1..k : f[j] = (Multiplier * f[j - 1]) % Modulus
      BY <2>1 DEF IsPowers
    <2>3. PICK a \in Residues : a = (Multiplier * f[k]) % Modulus
      <3>0. k \in 0..k
        OBVIOUS
      <3>1. f[k] \in Int /\ Multiplier \in Int
        BY <2>2, <3>0, ResidueType
      <3>2. Multiplier * f[k] \in Int
        BY <3>1
      <3> QED BY <3>2, ResidueType
    <2> DEFINE h == [j \in 0..(k + 1) |-> IF j = k + 1 THEN a ELSE f[j]]
    <2>4. h \in [0..(k + 1) -> Residues] /\ h[0] = 1
      BY <2>2
    <2>5. ASSUME NEW j \in 1..(k + 1) PROVE h[j] = (Multiplier * h[j - 1]) % Modulus
      <3>1. CASE j = k + 1
        <4>1. h[j] = a /\ h[j - 1] = f[k]
          BY <3>1
        <4> HIDE DEF h
        <4> QED BY <2>3, <4>1
      <3>2. CASE j # k + 1
        <4>1. j \in 1..k /\ h[j] = f[j] /\ h[j - 1] = f[j - 1]
          BY <3>2
        <4> HIDE DEF h
        <4> QED BY <2>2, <4>1
      <3> QED BY <3>1, <3>2
    <2> HIDE DEF h
    <2>6. IsPowers(h, k + 1)
      BY <2>4, <2>5 DEF IsPowers
    <2> QED BY <2>6
  <1> HIDE DEF T
  <1>3. Nat \subseteq T
    BY <1>1, <1>2, SetInduction
  <1> QED BY <1>3 DEF T

(* They do not depend on how many there are.                                 *)
LEMMA PowersAgree ==
    ASSUME NEW m \in Nat, NEW n \in Nat, NEW f, NEW h, IsPowers(f, m), IsPowers(h, n),
           NEW k \in Nat, k <= m, k <= n
    PROVE  f[k] = h[k]
  <1> DEFINE T == {j \in Nat : j <= m /\ j <= n => f[j] = h[j]}
  <1>1. 0 \in T
    BY DEF IsPowers
  <1>2. ASSUME NEW j \in Nat, j \in T PROVE j + 1 \in T
    <2> SUFFICES ASSUME j + 1 <= m, j + 1 <= n PROVE f[j + 1] = h[j + 1]
      OBVIOUS
    <2>1. j + 1 \in 1..m /\ j + 1 \in 1..n /\ j + 1 - 1 = j /\ j <= m /\ j <= n
      OBVIOUS
    <2>2. f[j] = h[j]
      BY <1>2, <2>1
    <2>3. f[j + 1] = (Multiplier * f[j]) % Modulus /\ h[j + 1] = (Multiplier * h[j]) % Modulus
      BY <2>1 DEF IsPowers
    <2> QED BY <2>2, <2>3
  <1> HIDE DEF T
  <1>3. Nat \subseteq T
    BY <1>1, <1>2, SetInduction
  <1> QED BY <1>3 DEF T

(* So there is a sequence of all of them.                                    *)
LEMMA AllPowers ==
    \E g \in [Nat -> Residues] :
        g[0] = 1 /\ \A k \in Nat : g[k + 1] = (Multiplier * g[k]) % Modulus
  <1> DEFINE p(n) == CHOOSE f : IsPowers(f, n)
             g == [n \in Nat |-> p(n)[n]]
  <1>1. \A n \in Nat : IsPowers(p(n), n)
    BY PowersExist
  <1> HIDE DEF p
  <1>2. ASSUME NEW n \in Nat PROVE p(n)[n] \in Residues
    BY <1>1 DEF IsPowers
  <1>3. p(0)[0] = 1
    BY <1>1 DEF IsPowers
  <1>4. ASSUME NEW k \in Nat PROVE p(k + 1)[k + 1] = (Multiplier * p(k)[k]) % Modulus
    <2>1. IsPowers(p(k), k) /\ IsPowers(p(k + 1), k + 1)
      BY <1>1
    <2>2. p(k)[k] = p(k + 1)[k]
      BY <2>1, PowersAgree
    <2>3. k + 1 \in 1..(k + 1) /\ k + 1 - 1 = k
      OBVIOUS
    <2>4. p(k + 1)[k + 1] = (Multiplier * p(k + 1)[k]) % Modulus
      BY <2>1, <2>3 DEF IsPowers
    <2> QED BY <2>2, <2>4
  <1>5. g \in [Nat -> Residues] /\ g[0] = 1
    BY <1>2, <1>3
  <1>6. \A k \in Nat : g[k + 1] = (Multiplier * g[k]) % Modulus
    BY <1>4
  <1> HIDE DEF g
  <1> QED BY <1>5, <1>6

(* The product of two powers is the power of the sum.                        *)
LEMMA PowersAdd ==
    ASSUME NEW g \in [Nat -> Residues], g[0] = 1,
           \A k \in Nat : g[k + 1] = (Multiplier * g[k]) % Modulus,
           NEW a \in Nat, NEW b \in Nat
    PROVE  (g[a] * g[b]) % Modulus = g[a + b]
  <1> DEFINE T == {n \in Nat : (g[a] * g[n]) % Modulus = g[a + n]}
  <1>1. \A n \in Nat : g[n] \in Int /\ g[n] % Modulus = g[n]
    <2>1. \A n \in Nat : g[n] \in Residues
      OBVIOUS
    <2> QED BY <2>1, ResidueType, Congruence
  <1>2. 0 \in T
    <2>1. g[a] * g[0] = g[a] /\ a + 0 = a
      BY <1>1
    <2>2. g[a] % Modulus = g[a]
      BY <1>1
    <2> QED BY <2>1, <2>2
  <1>3. ASSUME NEW n \in Nat, n \in T PROVE n + 1 \in T
    <2>1. PICK x, y, z \in Int : x = g[a] /\ y = g[n] /\ z = Multiplier
      BY <1>1, ResidueType
    <2>2. (x * y) % Modulus = g[a + n]
      BY <1>3, <2>1
    <2>3. g[n + 1] = (z * y) % Modulus /\ g[a + (n + 1)] = (z * g[a + n]) % Modulus
      <3>1. a + n \in Nat /\ a + (n + 1) = a + n + 1
        OBVIOUS
      <3> QED BY <2>1, <3>1
    <2>4. (x * ((z * y) % Modulus)) % Modulus = (x * (z * y)) % Modulus
      <3>0. PICK u \in Int : u = z * y
        <4>1. z * y \in Int
          OBVIOUS
        <4> QED BY <4>1
      <3>1. PICK v \in Int : v = u % Modulus
        BY Congruence
      <3>2. x * v = v * x /\ x * u = u * x
        OBVIOUS
      <3>3. (v * x) % Modulus = (u * x) % Modulus
        BY <3>1, Congruence
      <3> QED BY <3>0, <3>1, <3>2, <3>3
    <2>5. (z * ((x * y) % Modulus)) % Modulus = (z * (x * y)) % Modulus
      <3>0. PICK u \in Int : u = x * y
        <4>1. x * y \in Int
          OBVIOUS
        <4> QED BY <4>1
      <3>1. PICK v \in Int : v = u % Modulus
        BY Congruence
      <3>2. z * v = v * z /\ z * u = u * z
        OBVIOUS
      <3>3. (v * z) % Modulus = (u * z) % Modulus
        BY <3>1, Congruence
      <3> QED BY <3>0, <3>1, <3>2, <3>3
    <2>6. x * (z * y) = z * (x * y)
      OBVIOUS
    <2>7. (x * g[n + 1]) % Modulus = g[a + (n + 1)]
      BY <2>2, <2>3, <2>4, <2>5, <2>6
    <2> QED BY <2>1, <2>7
  <1> HIDE DEF T
  <1>4. Nat \subseteq T
    BY <1>2, <1>3, SetInduction
  <1> QED BY <1>4 DEF T

(* Power is that sequence, by squaring.                                      *)
LEMMA PowerIs ==
    /\ Power \in [Nat -> Residues]
    /\ Power[0] = 1
    /\ \A k \in Nat : Power[k + 1] = (Multiplier * Power[k]) % Modulus
  <1> DEFINE F(f) == [k \in Nat |->
                         IF k = 0 THEN 1
                         ELSE LET half == f[k \div 2]
                              IN  MulMod(IF k % 2 = 1 THEN Multiplier ELSE 1, MulMod(half, half))]
  <1>1. Power = CHOOSE f : f = F(f)
    BY DEF Power
  <1>2. PICK g \in [Nat -> Residues] :
            g[0] = 1 /\ \A k \in Nat : g[k + 1] = (Multiplier * g[k]) % Modulus
    BY AllPowers
  <1>3. ASSUME NEW k \in Nat PROVE g[k] = F(g)[k]
    <2>1. CASE k = 0
      BY <1>2, <2>1
    <2>2. CASE k # 0
      <3>1. PICK j, b \in Nat : j = k \div 2 /\ b = k % 2 /\ k = j + j + b /\ b \in {0, 1}
        <4>1. k \div 2 \in Nat /\ k % 2 \in Nat /\ k = (k \div 2) + (k \div 2) + (k % 2)
              /\ k % 2 \in {0, 1}
          BY SMT
        <4> QED BY <4>1
      <3>2. PICK h \in Residues : h = g[j]
        OBVIOUS
      <3>3. PICK s \in Residues : s = g[j + j]
        OBVIOUS
      <3>4. MulMod(h, h) = s
        <4>1. h \in Nat /\ h \in Int /\ 0 <= h /\ h < Modulus
          BY ResidueType
        <4>2. MulMod(h, h) = (h * h) % Modulus
          BY <4>1, MulModIs
        <4>3. (h * h) % Modulus = g[j + j]
          BY <1>2, <3>2, PowersAdd
        <4> QED BY <3>3, <4>2, <4>3
      <3>5. s \in Nat /\ s \in Int /\ 0 <= s /\ s < Modulus
        BY ResidueType
      <3>6. MulMod(IF b = 1 THEN Multiplier ELSE 1, s) = g[k]
        <4>1. CASE b = 1
          <5>1. MulMod(Multiplier, s) = (Multiplier * s) % Modulus
            BY <3>5, ResidueType, MulModIs
          <5>2. g[j + j + 1] = (Multiplier * s) % Modulus
            BY <1>2, <3>3
          <5> QED BY <3>1, <4>1, <5>1, <5>2
        <4>2. CASE b = 0
          <5>1. 1 \in Int /\ 0 <= 1 /\ 1 < Modulus
            BY ResidueType
          <5>2. MulMod(1, s) = (1 * s) % Modulus
            BY <3>5, <5>1, MulModIs
          <5>3. 1 * s = s /\ s % Modulus = s
            BY <3>5, Congruence
          <5>4. k = j + j
            BY <3>1, <4>2
          <5> QED BY <3>3, <4>2, <5>2, <5>3, <5>4
        <4> QED BY <3>1, <4>1, <4>2
      <3>7. F(g)[k] = MulMod(IF b = 1 THEN Multiplier ELSE 1, MulMod(h, h))
        BY <2>2, <3>1, <3>2
      <3> QED BY <3>4, <3>6, <3>7
    <2> QED BY <2>1, <2>2
  <1>4. g = F(g)
    <2>1. g = [k \in Nat |-> g[k]] /\ F(g) = [k \in Nat |-> F(g)[k]]
      OBVIOUS
    <2> HIDE DEF F
    <2> QED BY <1>3, <2>1
  <1>5. Power = F(Power)
    <2> HIDE DEF F
    <2> QED BY <1>1, <1>4
  <1>6. \A k \in Nat : k # 0 /\ Power[k \div 2] = g[k \div 2] => Power[k] = g[k]
    <2> SUFFICES ASSUME NEW k \in Nat, k # 0, Power[k \div 2] = g[k \div 2]
                 PROVE  Power[k] = g[k]
      OBVIOUS
    <2>1. Power[k] = F(Power)[k] /\ g[k] = F(g)[k]
      BY <1>4, <1>5
    <2>2. F(Power)[k] = F(g)[k]
      OBVIOUS
    <2> QED BY <2>1, <2>2
  <1>7. Power[0] = g[0]
    <2>1. Power[0] = F(Power)[0]
      BY <1>5
    <2> QED BY <1>2, <2>1
  <1>8. \A k \in Nat : Power[k] = g[k]
    <2> HIDE DEF F
    <2> QED BY <1>6, <1>7, HalvingInduction
  <1>9. Power = [k \in Nat |-> Power[k]]
    <2>1. F(Power) = [k \in Nat |-> F(Power)[k]]
      OBVIOUS
    <2> HIDE DEF F
    <2> QED BY <1>5, <2>1
  <1> HIDE DEF F
  <1>10. Power \in [Nat -> Residues]
    BY <1>8, <1>9
  <1> QED BY <1>2, <1>8, <1>10

-----------------------------------------------------------------------------
(* The seed, the table, and the published value.                             *)

LEMMA RangeBounds ==
    ASSUME NEW s
    PROVE  s \in 1..(Modulus - 1) <=> s \in Int /\ 1 <= s /\ s < Modulus
  <1>1. Modulus \in Int
    BY Values, SMT
  <1> QED BY <1>1, SMT

LEMMA RangeApart ==
    ASSUME NEW s \in Int, 1 <= s, s < Modulus
    PROVE  s # 0 /\ s \notin Sticking /\ Modulus \in Int
  BY Values, SMT DEF Sticking

(* One draw more is one power more.                                          *)
LEMMA NextPower ==
    ASSUME NEW o \in 1..(Modulus - 1), NEW n \in Nat, NEW s \in 1..(Modulus - 1),
           s = MulMod(o, Power[n])
    PROVE  Step(s) = MulMod(o, Power[n + 1])
  <1>1. o \in Int /\ 0 <= o /\ o < Modulus /\ s \in Int /\ 1 <= s /\ s < Modulus
    <2>1. o \in Int /\ 1 <= o /\ o < Modulus /\ s \in Int /\ 1 <= s /\ s < Modulus
      BY RangeBounds
    <2> QED BY <2>1, SMT
  <1>2. PICK p, q \in Nat : /\ p = Power[n] /\ q = Power[n + 1]
                            /\ q = (Multiplier * p) % Modulus /\ p \in Int /\ q \in Int
    <2>1. Power[n] \in Residues /\ Power[n + 1] \in Residues
      BY PowerIs
    <2>2. \A r \in Residues : r \in Nat /\ r \in Int
      BY ResidueType
    <2> QED BY <2>1, <2>2, PowerIs
  <1>3. MulMod(o, p) = (o * p) % Modulus /\ MulMod(o, q) = (o * q) % Modulus
    BY <1>1, MulModIs
  <1>4. PICK z \in Int : z = Multiplier
    BY ResidueType
  <1>5. PICK a, b \in Int : a = o * p /\ b = z * p
    <2>1. o * p \in Int /\ z * p \in Int
      BY <1>1, <1>2
    <2> QED BY <2>1
  <1>6. Step(s) = (z * (a % Modulus)) % Modulus
    BY <1>1, <1>2, <1>3, <1>4, <1>5, SchrageStep
  <1>7. (z * (a % Modulus)) % Modulus = (a * z) % Modulus
    <2>1. PICK v \in Int : v = a % Modulus
      BY Congruence
    <2>2. z * v = v * z
      OBVIOUS
    <2> QED BY <2>1, <2>2, Congruence
  <1>8. MulMod(o, q) = (b * o) % Modulus
    <2>1. PICK v \in Int : v = b % Modulus
      BY Congruence
    <2>2. o * v = v * o
      BY <1>1
    <2>3. (v * o) % Modulus = (b * o) % Modulus
      BY <1>1, <2>1, Congruence
    <2> QED BY <1>2, <1>3, <1>4, <1>5, <2>1, <2>2, <2>3
  <1>9. a * z = b * o
    BY <1>1, <1>2, <1>5, SMT
  <1> QED BY <1>2, <1>6, <1>7, <1>8, <1>9

(* A draw from a seed that is such a product; it is in range.                *)
LEMMA DrawPower ==
    ASSUME Inv, SeedIsPower, origin \in 1..(Modulus - 1)
    PROVE  /\ seed \in 1..(Modulus - 1)
           /\ Step(seed) = MulMod(origin, Power[draws + 1])
           /\ Step(seed) \in 1..(Modulus - 1)
  <1>1. origin \in Int /\ origin >= 1 /\ origin # 0 /\ origin \notin Sticking /\ Modulus \in Int
    <2>1. origin \in Int /\ 1 <= origin /\ origin < Modulus
      BY RangeBounds
    <2> QED BY <2>1, RangeApart
  <1>2. seed \in Int32 /\ seed # 0 /\ seed \notin Sticking /\ draws \in Nat
    BY <1>1, MaxDrawsAssumption, SeedConstants DEF Inv, TypeOK
  <1>3. seed \in 1..(Modulus - 1)
    <2>1. CASE draws = 0
      BY <1>1, <2>1 DEF Inv, Seeded
    <2>2. CASE draws # 0
      BY <1>1, <1>2, <2>2 DEF Inv, SeedInRange
    <2> QED BY <2>1, <2>2
  <1> QED BY <1>2, <1>3, NextPower, StepType DEF SeedIsPower

LEMMA InitialPower ==
    ASSUME NEW s \in 1..(Modulus - 1)
    PROVE  Seeded(s) = MulMod(s, Power[0])
  <1>1. s \in Int /\ 0 <= s /\ s < Modulus /\ s # 0 /\ s * 1 = s
    <2>1. s \in Int /\ 1 <= s /\ s < Modulus
      BY RangeBounds
    <2> QED BY <2>1, SMT
  <1>2. MulMod(s, 1) = (s * 1) % Modulus /\ s % Modulus = s
    BY <1>1, MulModIs, Congruence
  <1> QED BY <1>1, <1>2, PowerIs DEF Seeded

(* SeedIsPower and TableShared are inductive, given Inv.                     *)
LEMMA PowerInit == Init => SeedIsPower /\ TableShared
  <1> SUFFICES ASSUME Init PROVE SeedIsPower /\ TableShared
    OBVIOUS
  <1>1. SeedIsPower
    BY InitialPower DEF Init, SeedIsPower
  <1>2. TableShared
    BY DEF Init, TableShared
  <1> QED BY <1>1, <1>2

LEMMA PowerNext == Inv /\ SeedIsPower /\ [Next]_vars => SeedIsPower'
  <1> SUFFICES ASSUME Inv, SeedIsPower, [Next]_vars PROVE SeedIsPower'
    OBVIOUS
  <1>1. ASSUME NEW s, Seed(s) PROVE SeedIsPower'
    <2>1. seed' = Seeded(s) /\ origin' = s /\ draws' = 0
      BY <1>1 DEF Seed
    <2> QED BY <2>1, InitialPower DEF SeedIsPower
  <1>2. ASSUME seed' = Step(seed), draws' = draws + 1, origin' = origin PROVE SeedIsPower'
    BY <1>2, DrawPower DEF SeedIsPower
  <1>3. CASE \E s \in AppSeeds : SeedRandom(s)
    BY <1>1, <1>3 DEF SeedRandom
  <1>4. CASE RandomInt32
    BY <1>2, <1>4 DEF RandomInt32
  <1>5. CASE InitPalCrypto
    BY <1>1, <1>5 DEF InitPalCrypto
  <1>6. CASE FillEntry
    BY <1>1, <1>2, <1>6 DEF FillEntry
  <1>7. CASE UNCHANGED vars
    BY <1>7 DEF vars, SeedIsPower
  <1> QED BY <1>3, <1>4, <1>5, <1>6, <1>7 DEF Next

LEMMA SubSeqNext ==
    ASSUME NEW t \in Seq(Int), NEW n \in Nat, n + 1 <= Len(t)
    PROVE  SubSeq(t, 1, n + 1) = Append(SubSeq(t, 1, n), t[n + 1])
  <1> DEFINE u == SubSeq(t, 1, n)
             w == SubSeq(t, 1, n + 1)
  <1>1. /\ u \in Seq(Int) /\ Len(u) = n /\ \A k \in 1..n : u[k] = t[k]
        /\ w \in Seq(Int) /\ Len(w) = n + 1 /\ \A k \in 1..(n + 1) : w[k] = t[k]
    OBVIOUS
  <1> HIDE DEF u, w
  <1>2. t[n + 1] \in Int
    OBVIOUS
  <1>3. w = Append(u, t[n + 1])
    BY <1>1, <1>2
  <1> QED BY <1>3 DEF u, w

LEMMA InitSeedRange == InitSeed \in Int /\ 1 <= InitSeed /\ 0 <= InitSeed /\ InitSeed < Modulus
  BY Values, SMT DEF InitSeed

(* Nothing of the quotient is lost in the byte.                              *)
LEMMA TopByte ==
    ASSUME NEW s \in Int, 1 <= s, s < Modulus
    PROVE  Int16Of256(s) % 256 = s \div 8388608
  <1>1. s # Modulus /\ (s \div 8388608) % 256 = s \div 8388608
    BY Values, SMT
  <1> QED BY <1>1 DEF Int16Of256

(* The entry that is drawn is the one the table should have there.            *)
LEMMA EntryShared ==
    ASSUME Inv, SeedIsPower, TableShared, FillEntry
    PROVE  TableShared'
  <1>1. /\ i \in 1..LutLen /\ origin = InitSeed /\ draws = LutLen - i /\ Len(lut) = draws
        /\ lut \in Seq(0..255) /\ draws \in Nat /\ LutLen \in Nat /\ draws < LutLen
    <2>1. /\ i \in 1..LutLen /\ origin = InitSeed /\ draws = LutLen - i /\ Len(lut) = draws
          /\ lut \in Seq(0..255) /\ LutLen \in Nat
      BY SeedConstants DEF FillEntry, Inv, TypeOK
    <2> QED BY <2>1
  <1>2. origin \in 1..(Modulus - 1)
    BY <1>1, InitSeedRange, RangeBounds
  <1>3. PICK s \in 1..(Modulus - 1) : s = Step(seed) /\ s = MulMod(InitSeed, Power[draws + 1])
    BY <1>1, <1>2, DrawPower
  <1>4. Int16Of256(s) % 256 = s \div 8388608
    BY RangeBounds, TopByte
  <1>5. draws + 1 \in 1..LutLen
    BY <1>1
  <1>6. SharedTable[draws + 1] = s \div 8388608
    BY <1>3, <1>5 DEF SharedTable
  <1>7. lut' = Append(lut, SharedTable[draws + 1])
    BY <1>3, <1>4, <1>6 DEF FillEntry
  <1>8. PICK t \in Seq(Int) : t = SharedTable /\ Len(t) = LutLen
    <2>1. ASSUME NEW k \in 1..LutLen PROVE MulMod(InitSeed, Power[k]) \div 8388608 \in Int
      <3>1. Power[k] \in Residues /\ InitSeed \in Int /\ 0 <= InitSeed /\ InitSeed < Modulus
        <4>2. k \in Nat
          BY SeedConstants
        <4> QED BY <4>2, InitSeedRange, PowerIs
      <3>2. PICK p \in Nat : p = Power[k] /\ p \in Int
        <4>1. Power[k] \in Nat /\ Power[k] \in Int
          <5>1. Power[k] \in Int /\ 0 <= Power[k]
            BY <3>1, ResidueType
          <5> QED BY <5>1, SMT
        <4> QED BY <4>1
      <3>3. MulMod(InitSeed, p) = (InitSeed * p) % Modulus
        BY <3>1, <3>2, MulModIs
      <3>4. PICK v \in Int : v = (InitSeed * p) % Modulus
        <4>1. InitSeed * p \in Int
          BY <3>1, <3>2
        <4> QED BY <4>1, Congruence
      <3>5. v \div 8388608 \in Int
        BY SMT
      <3> QED BY <3>2, <3>3, <3>4, <3>5
    <2>2. SharedTable \in [1..LutLen -> Int]
      BY <2>1 DEF SharedTable
    <2>3. SharedTable \in Seq(Int) /\ Len(SharedTable) = LutLen
      BY <1>1, <2>2
    <2> QED BY <2>3
  <1>9. SubSeq(t, 1, draws + 1) = Append(SubSeq(t, 1, draws), t[draws + 1])
    <2>1. draws + 1 <= Len(t)
      BY <1>1, <1>8
    <2> QED BY <1>1, <2>1, SubSeqNext
  <1>10. lut = SubSeq(t, 1, draws) /\ lut' = Append(lut, t[draws + 1]) /\ Len(lut') = draws + 1
    <2>1. lut = SubSeq(t, 1, draws)
      BY <1>1, <1>8 DEF TableShared
    <2>2. lut' = Append(lut, t[draws + 1])
      BY <1>7, <1>8
    <2>3. PICK e : e = t[draws + 1]
      OBVIOUS
    <2>4. Len(Append(lut, e)) = Len(lut) + 1
      BY <1>1
    <2> QED BY <1>1, <2>1, <2>2, <2>3, <2>4
  <1> QED BY <1>8, <1>9, <1>10 DEF TableShared

LEMMA TableNext == Inv /\ SeedIsPower /\ TableShared /\ [Next]_vars => TableShared'
  <1> SUFFICES ASSUME Inv, SeedIsPower, TableShared, [Next]_vars PROVE TableShared'
    OBVIOUS
  <1>1. CASE lut' = lut
    BY <1>1 DEF TableShared
  <1>2. CASE lut' = <<>>
    BY <1>2 DEF TableShared
  <1> QED BY <1>1, <1>2, EntryShared DEF Next, vars, SeedRandom, RandomInt32, InitPalCrypto

(* Each draw from a seed in range is one power of the multiplier further.     *)
THEOREM SeedAlwaysPower == Spec => []SeedIsPower
  <1> QED BY PowerInit, PowerNext, Invariant, PTL DEF Spec

(* Every table that is filled is the one table, whatever was drawn before it. *)
THEOREM TableAlwaysShared == Spec => []TableShared
  <1> QED BY PowerInit, TableNext, SeedAlwaysPower, Invariant, PTL DEF Spec

(* Squares of powers.                                                        *)
LEMMA PowerSquared ==
    ASSUME NEW n \in Nat, NEW p \in Int, Power[n] = p
    PROVE  /\ Power[n + n] = (p * p) % Modulus
           /\ Power[n + n + 1] = (Multiplier * ((p * p) % Modulus)) % Modulus
  <1>1. (p * p) % Modulus = Power[n + n]
    BY PowerIs, PowersAdd
  <1>2. n + n \in Nat
    OBVIOUS
  <1> QED BY <1>1, <1>2, PowerIs

(* The published value is the ten-thousandth power of 16807.                 *)
LEMMA PublishedValue == Power[10000] = 1043618065
  <1>1. Power[1] = 16807
    <2>1. Power[0 + 1] = (Multiplier * 1) % Modulus
      BY PowerIs, 0 \in Nat
    <2> QED BY <2>1, Values, SMT
  <1>2. Power[2] = 282475249
    <2>1. Power[1 + 1] = (16807 * 16807) % Modulus
      BY <1>1, PowerSquared, SMT
    <2> QED BY <2>1, Values, SMT
  <1>3. Power[4] = 984943658
    <2>1. Power[2 + 2] = (282475249 * 282475249) % Modulus
      BY <1>2, PowerSquared, SMT
    <2> QED BY <2>1, Values, SMT
  <1>4. Power[9] = 1458777923
    <2>1. Power[4 + 4 + 1] = (Multiplier * ((984943658 * 984943658) % Modulus)) % Modulus
      BY <1>3, PowerSquared, SMT
    <2> QED BY <2>1, Values, SMT
  <1>5. Power[19] = 823378840
    <2>1. Power[9 + 9 + 1] = (Multiplier * ((1458777923 * 1458777923) % Modulus)) % Modulus
      BY <1>4, PowerSquared, SMT
    <2> QED BY <2>1, Values, SMT
  <1>6. Power[39] = 2128236579
    <2>1. Power[19 + 19 + 1] = (Multiplier * ((823378840 * 823378840) % Modulus)) % Modulus
      BY <1>5, PowerSquared, SMT
    <2> QED BY <2>1, Values, SMT
  <1>7. Power[78] = 107554536
    <2>1. Power[39 + 39] = (2128236579 * 2128236579) % Modulus
      BY <1>6, PowerSquared, SMT
    <2> QED BY <2>1, Values, SMT
  <1>8. Power[156] = 1351345223
    <2>1. Power[78 + 78] = (107554536 * 107554536) % Modulus
      BY <1>7, PowerSquared, SMT
    <2> QED BY <2>1, Values, SMT
  <1>9. Power[312] = 1129841133
    <2>1. Power[156 + 156] = (1351345223 * 1351345223) % Modulus
      BY <1>8, PowerSquared, SMT
    <2> QED BY <2>1, Values, SMT
  <1>10. Power[625] = 1124791247
    <2>1. Power[312 + 312 + 1] = (Multiplier * ((1129841133 * 1129841133) % Modulus)) % Modulus
      BY <1>9, PowerSquared, SMT
    <2> QED BY <2>1, Values, SMT
  <1>11. Power[1250] = 1903958413
    <2>1. Power[625 + 625] = (1124791247 * 1124791247) % Modulus
      BY <1>10, PowerSquared, SMT
    <2> QED BY <2>1, Values, SMT
  <1>12. Power[2500] = 566390040
    <2>1. Power[1250 + 1250] = (1903958413 * 1903958413) % Modulus
      BY <1>11, PowerSquared, SMT
    <2> QED BY <2>1, Values, SMT
  <1>13. Power[5000] = 1069865427
    <2>1. Power[2500 + 2500] = (566390040 * 566390040) % Modulus
      BY <1>12, PowerSquared, SMT
    <2> QED BY <2>1, Values, SMT
  <1>14. Power[10000] = 1043618065
    <2>1. Power[5000 + 5000] = (1069865427 * 1069865427) % Modulus
      BY <1>13, PowerSquared, SMT
    <2> QED BY <2>1, Values, SMT
  <1> QED BY <1>14, SMT

(* However the seed 1 is reached, after ten thousand draws it has become the  *)
(* published value.                                                          *)
THEOREM MinimalStandardAlways == Spec => []MinimalStandard
  <1>1. ASSUME SeedIsPower PROVE MinimalStandard
    <2> SUFFICES ASSUME origin = 1, draws = 10000 PROVE seed = 1043618065
      BY DEF MinimalStandard
    <2>1. 1 \in Int /\ 1 <= 1 /\ 0 <= 1 /\ 1 < Modulus
      BY Values, SMT
    <2>2. seed = MulMod(1, Power[10000])
      BY <1>1, <2>1, RangeBounds, SMT DEF SeedIsPower
    <2>3. PICK p \in Nat : p = Power[10000] /\ p = 1043618065
      BY PublishedValue, SMT
    <2>4. seed = (1 * p) % Modulus
      BY <2>1, <2>2, <2>3, MulModIs, SMT
    <2> QED BY <2>3, <2>4, Values, SMT
  <1> QED BY <1>1, SeedAlwaysPower, PTL

=============================================================================
