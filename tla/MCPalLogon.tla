------------------------------ MODULE MCPalLogon ------------------------------
(***************************************************************************)
(* A small instance of PalLogon for TLC: two sets of settings for two      *)
(* handles, and a PUID whose checksum does not fit in half its width.      *)
(***************************************************************************)
EXTENDS PalLogon, TLC

(* Handles are told apart by nothing but their history.                     *)
Symmetry == Permutations(Sockets)

=============================================================================
