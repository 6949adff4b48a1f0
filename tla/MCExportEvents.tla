--------------------------- MODULE MCExportEvents ---------------------------
(* Four events, the first of which alone exceeds the limit.                  *)
EXTENDS ExportEvents

CONSTANTS e1, e2, e3, e4

MCSizeOf == [e \in Events |-> CASE e = e1 -> 5 [] e = e2 -> 2 [] OTHER -> 3]
=============================================================================
