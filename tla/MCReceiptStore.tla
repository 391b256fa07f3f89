--------------------------- MODULE MCReceiptStore ---------------------------
(* Two recorders, two names and two receipt identifiers. *)
EXTENDS ReceiptStore
CONSTANTS r1, r2, p1, p2, i1, i2
MCRecorders == {r1, r2}
MCPaths == {p1, p2}
MCIds == {i1, i2}
=============================================================================
