----------------------------- MODULE MCPalMemory -----------------------------
(***************************************************************************)
(* A small instance of PalMemory for TLC: two handles and three connects,  *)
(* so that one connection can be left for another, and one be refused.     *)
(***************************************************************************)
EXTENDS PalMemory, TLC

(* Handles are told apart by nothing but their history.                     *)
Symmetry == Permutations(Sockets)

=============================================================================
