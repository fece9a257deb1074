----------------------------- MODULE MCPalCipher -----------------------------
(***************************************************************************)
(* PalCipher for TLC: bytes of two bits, every text of up to four of them,  *)
(* 64 tables, and every byte the stack may have held.                      *)
(***************************************************************************)
EXTENDS PalCipher

MCBits == 0..1
MCTables == [0..(LutLen - 1) -> {{0}, {0, 1}}]

=============================================================================
