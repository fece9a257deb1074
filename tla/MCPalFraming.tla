----------------------------- MODULE MCPalFraming -----------------------------
(***************************************************************************)
(* A small instance of PalFraming for TLC, with the header of the code: an *)
(* empty payload, one shorter and one longer than a header, and for a field *)
(* that is not one a length no chunk reaches as well.                      *)
(***************************************************************************)
EXTENDS PalFraming

MCPayloadLens == {0, 4, 14}
MCAnyLens == {0, 5, 1000}

=============================================================================
