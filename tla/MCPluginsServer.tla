-------------------------- MODULE MCPluginsServer --------------------------
(* One server, two messages of two persons: what servers owe each other is    *)
(* checked by MCEachBatch and, for any number of them, proved.                 *)
EXTENDS PluginsServer

CONSTANTS s1, a, b

MCKey == [o \in Offsets |-> IF o = 2 THEN b ELSE a]
=============================================================================
