--------------------------- MODULE AtLeastOnceLog ---------------------------
(***************************************************************************)
(* What a consumer that commits only what it has handled promises: offsets *)
(* are handled in any order and any number of times, the committed prefix  *)
(* only grows, and it never runs ahead of what was handled.                *)
(***************************************************************************)
EXTENDS Naturals

CONSTANT N                       \* length of the log

VARIABLES handled, cursor        \* offsets handled; the prefix 1..cursor is committed

vars == <<handled, cursor>>

Init == handled = {} /\ cursor = 0

Handle == \E o \in 1..N : handled' = handled \cup {o} /\ UNCHANGED cursor

Advance ==
  \E c \in 1..N :
    /\ c > cursor /\ 1..c \subseteq handled
    /\ cursor' = c /\ UNCHANGED handled

Next == Handle \/ Advance

Spec == Init /\ [][Next]_vars

=============================================================================
