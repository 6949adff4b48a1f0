------------------------- MODULE MCHistoricalExport -------------------------
(* Two exports, the second over more intervals: one of two chunks, one empty. *)
EXTENDS HistoricalExport

CONSTANTS t1, t2, x1, x2

MCDateTo == [x \in Exports |-> IF x = x1 THEN 3 ELSE 4]
MCChunksIn == [i \in 3..4 |-> IF i = 3 THEN 2 ELSE 0]
=============================================================================
