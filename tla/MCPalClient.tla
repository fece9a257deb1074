----------------------------- MODULE MCPalClient -----------------------------
(***************************************************************************)
(* A small instance of PalClient for TLC: two handles are enough for two   *)
(* overlapping connects, the second replacing the first.  No symmetry: the *)
(* liveness properties of the same run would not be sound under it.        *)
(***************************************************************************)
EXTENDS PalClient

=============================================================================
