------------------------------ MODULE PalRandom ------------------------------
(***************************************************************************)
(* The pseudo-random numbers of palcrypto.c: the seed of an                *)
(* OXLPalCrypto, the draws, and the table OXLInitPalCrypto fills.          *)
(*                                                                         *)
(* RandomInt16 goes through doubles.  For max = 256 the truncated quotient  *)
(* is exact: what seed / 2147483647.0 * 256.0 lacks to the next integer is  *)
(* 2^-31 at least, far more than the roundings of the two operations.       *)
(***************************************************************************)
EXTENDS Integers, Sequences

CONSTANTS
    AppSeeds,   \* arguments the application passes to SeedRandom
    MaxDraws    \* bound: draws after the seed was set

Modulus == 2147483647       \* 0x7fffffff
Int32 == (-Modulus - 1)..Modulus

ASSUME AppSeedsAssumption == AppSeeds \subseteq Int32
ASSUME MaxDrawsAssumption == MaxDraws \in Nat

VARIABLES
    seed,       \* crypto->seed
    lut,        \* crypto->lut, as unsigned bytes, as far as it was filled
    i,          \* the entries OXLInitPalCrypto has still to fill
    origin,     \* history: the last argument of SeedRandom
    draws       \* history: the draws since then

vars == <<seed, lut, i, origin, draws>>

LutLen == 512               \* PAL_CRYPTO_LUT_LEN
InitSeed == 666666          \* 0xa2c2a
Multiplier == 16807
Q == 127773                 \* 0x1f31d, Modulus \div Multiplier
R == 2836                   \* Modulus % Multiplier

(* The division of C truncates.                                              *)
Quot(s) == IF s >= 0 THEN s \div Q ELSE (s + (Q - 1)) \div Q

Product(s) == Multiplier * (s - Q * Quot(s))

(* Variant: the two products are added.                                      *)
AddedCorrection(s) == -(R * Quot(s))

Correction(s) == R * Quot(s)

(* Variant: a negative difference is left as it is.                          *)
UncorrectedStep(s) == Product(s) - Correction(s)

(* Variant: 0x80000000 is added.                                             *)
PowerOfTwoStep(s) ==
    LET a == Product(s) - Correction(s) IN IF a < 0 THEN a + Modulus + 1 ELSE a

(* RandomInt32: one step, by Schrage's decomposition of the modulus.         *)
Step(s) ==
    LET a == Product(s) - Correction(s) IN IF a <= 0 THEN a + Modulus ELSE a

(* Variant: zero is not replaced.                                            *)
PlainSeeded(s) == s

(* SeedRandom: s + !s                                                        *)
Seeded(s) == IF s = 0 THEN 1 ELSE s

(* RandomInt16(crypto, 256) of the seed just drawn.                          *)
Int16Of256(s) == IF s = Modulus THEN 256 ELSE s \div 8388608

Seed(s) ==
    /\ seed' = Seeded(s)
    /\ origin' = s
    /\ draws' = 0

-----------------------------------------------------------------------------
(* Whoever draws has set the seed before.                                    *)
Init ==
    /\ origin \in AppSeeds
    /\ seed = Seeded(origin)
    /\ lut = <<>>
    /\ i = 0
    /\ draws = 0

SeedRandom(s) ==
    /\ i = 0
    /\ Seed(s)
    /\ UNCHANGED <<lut, i>>

RandomInt32 ==
    /\ i = 0 /\ draws < MaxDraws
    /\ seed' = Step(seed)
    /\ draws' = draws + 1
    /\ UNCHANGED <<lut, i, origin>>

(* Variant: the table is drawn from the seed that is there.                  *)
UnseededInitPalCrypto ==
    /\ i = 0
    /\ i' = LutLen
    /\ lut' = <<>>
    /\ UNCHANGED <<seed, origin, draws>>

(* Variant: the loop begins behind the table.                                *)
OverlongInitPalCrypto ==
    /\ i = 0
    /\ Seed(InitSeed)
    /\ i' = LutLen + 1
    /\ lut' = <<>>

(* OXLInitPalCrypto: seed, fill the table from its end, seed again.           *)
InitPalCrypto ==
    /\ i = 0
    /\ Seed(InitSeed)
    /\ i' = LutLen
    /\ lut' = <<>>

(* One entry; they are kept in the order they are drawn, the last one first.  *)
FillEntry ==
    /\ i > 0
    /\ i' = i - 1
    /\ lut' = Append(lut, Int16Of256(Step(seed)) % 256)
    /\ IF i > 1
       THEN seed' = Step(seed) /\ draws' = draws + 1 /\ UNCHANGED origin
       ELSE Seed(1)

Next ==
    \/ \E s \in AppSeeds : SeedRandom(s)
    \/ RandomInt32
    \/ InitPalCrypto
    \/ FillEntry

Spec == Init /\ [][Next]_vars

-----------------------------------------------------------------------------
(* What the code is meant to compute: products and powers modulo 2^31 - 1,    *)
(* here by doubling and adding, so that nothing exceeds 32 bits.              *)

AddMod(x, y) == IF x >= Modulus - y THEN x - (Modulus - y) ELSE x + y

MulMod(x, y) ==
    LET Times[n \in Nat] ==
            IF n = 0 THEN 0
            ELSE LET half == Times[n \div 2]
                 IN  AddMod(AddMod(half, half), IF n % 2 = 1 THEN x ELSE 0)
    IN  Times[y]

Lehmer(s) == MulMod(s, Multiplier)

Power[k \in Nat] ==
    IF k = 0 THEN 1
    ELSE LET half == Power[k \div 2]
         IN  MulMod(IF k % 2 = 1 THEN Multiplier ELSE 1, MulMod(half, half))

(* The high bytes of the numbers that follow InitSeed.                       *)
SharedTable == [k \in 1..LutLen |-> MulMod(InitSeed, Power[k]) \div 8388608]

(* The seeds from which the code draws nothing but 0x7fffffff.               *)
Sticking == {-Modulus, Modulus}

-----------------------------------------------------------------------------
(* Properties.                                                              *)

(* Every variable has its type, and a table entry fits a byte.               *)
TypeOK ==
    /\ seed \in Int32
    /\ lut \in Seq(0..255) /\ Len(lut) \in {0, LutLen - i}
    /\ i \in 0..LutLen
    /\ origin \in Int32
    /\ draws \in 0..(MaxDraws + LutLen)

(* No int32_t of RandomInt32 overflows, for any seed an int32_t can hold.     *)
IntermediatesFit ==
    /\ Product(seed) \in Int32
    /\ Correction(seed) \in Int32
    /\ Product(seed) <= (IF Correction(seed) < 0 THEN Modulus + Correction(seed) ELSE Modulus)
    /\ Product(seed) >= (IF Correction(seed) > 0 THEN -Modulus - 1 + Correction(seed)
                                                 ELSE -Modulus - 1)

(* From any seed but the two that stick, zero and the negative ones included, *)
(* the draws stay strictly between 0 and 0x7fffffff: the sequence never stops *)
(* and RandomInt16 stays below its max.                                       *)
SeedInRange ==
    draws > 0 /\ origin \notin Sticking => seed \in 1..(Modulus - 1)

(* Each draw is the product by 16807 modulo 2^31 - 1, although nothing wider   *)
(* than 32 bits is used.                                                     *)
DrawIsLehmer ==
    [][draws' = draws + 1 /\ seed \in 1..(Modulus - 1) => seed' = Lehmer(seed)]_vars

(* Whatever was drawn before, entry by entry the table is the one two clients *)
(* have to agree on, or they could not read each other's lines.              *)
TableShared == lut = SubSeq(SharedTable, 1, Len(lut))

(* The generator is the "minimal standard": seeded with 1 it arrives at the   *)
(* published value after ten thousand draws, also after a table was filled.   *)
MinimalStandard == origin = 1 /\ draws = 10000 => seed = 1043618065

-----------------------------------------------------------------------------
(* The inductive invariant: also, a table is drawn from its own seed, one     *)
(* draw for each entry.                                                      *)
Inv ==
    /\ TypeOK
    /\ seed # 0
    /\ draws = 0 => seed = Seeded(origin)
    /\ i > 0 => origin = InitSeed /\ draws = LutLen - i /\ Len(lut) = draws
    /\ origin \notin Sticking => seed \notin Sticking
    /\ SeedInRange

(* Behind a seed in range comes its product by a power of the multiplier, of  *)
(* which the table and the published value are instances.                    *)
SeedIsPower ==
    origin \in 1..(Modulus - 1) => seed = MulMod(origin, Power[draws])

=============================================================================
