-------------------------- MODULE MCAsyncMigrations --------------------------
(* Two migrations of two operations, two tasks, one administrator. Nothing is *)
(* looked for in the first migration (0001, and 0002 under MULTI_TENANCY, are *)
(* never required); the second is not required any more once its first       *)
(* operation is in force (0006, which sets a codec first).                   *)
EXTENDS AsyncMigrations, TLC

CONSTANTS t1, t2, admin
Symmetric == Permutations(Tasks)
ExemptThenFirst == <<{}, {0}>>
=============================================================================
