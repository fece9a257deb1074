--------------------------- MODULE MCPalKeepAlive ---------------------------
(***************************************************************************)
(* A small instance of PalKeepAlive for TLC: two ticks to the second, and  *)
(* a width at which one interval wraps to 0 and a longer one to less than  *)
(* was asked for.                                                          *)
(***************************************************************************)
EXTENDS PalKeepAlive

MCSeconds == {0, 1, 3, 4, 5, 7}

=============================================================================
