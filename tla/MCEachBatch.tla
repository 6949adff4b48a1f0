---------------------------- MODULE MCEachBatch ----------------------------
(* Three messages of two ids: a group must end before the second a. *)
EXTENDS EachBatch

CONSTANTS s1, s2, a, b

MCServers == {s1, s2}
MCKey == <<b, a, a>>
=============================================================================
