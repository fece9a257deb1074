----------------------------- MODULE MCPalRandom -----------------------------
(***************************************************************************)
(* PalRandom for TLC.  The seeds: the smallest and largest int32_t, those   *)
(* about zero, about the divisor and about the modulus, the ones with the   *)
(* largest remainder, and a negative one at which the two products differ   *)
(* most in sign.                                                           *)
(***************************************************************************)
EXTENDS PalRandom

MCSeeds ==
    {-Modulus - 1, -Modulus, -766639, -Q, -1, 0, 1, Q - 1, Q, 16806 * Q + Q - 1,
     Modulus - 1, Modulus}

=============================================================================
