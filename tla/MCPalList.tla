------------------------------ MODULE MCPalList ------------------------------
(***************************************************************************)
(* A small instance of PalList for TLC: the room list and one more, four   *)
(* items, so that a list of three can be cut in the middle while the other *)
(* one shares its tail.                                                    *)
(***************************************************************************)
EXTENDS PalList, TLC

(* Items are told apart by nothing but the lists they are in.                *)
Symmetry == Permutations(Items)

=============================================================================
