------------------------- MODULE AtMostOnceChannel -------------------------
(***************************************************************************)
(* What a producer buffer without retries promises its users: messages are *)
(* handed over whole batches at a time and in order, each at most once;    *)
(* every message handed over is later delivered or lost; a crash loses     *)
(* whatever was not handed over and, of the rest, anything.                *)
(***************************************************************************)
EXTENDS Naturals, Sequences, Functions

CONSTANT Msgs

VARIABLES
  queue,        \* accepted, not yet handed over
  outstanding,  \* handed over, outcome unknown
  delivered,
  lost,
  up

vars == <<queue, outstanding, delivered, lost, up>>

Init ==
  /\ queue = <<>> /\ outstanding = {}
  /\ delivered = {} /\ lost = {} /\ up = TRUE

Fresh(m) == m \notin Range(queue) \cup outstanding \cup delivered \cup lost

(* m joins the queue; what was there may be handed over first, or everything  *)
(* including m may be handed over.                                            *)
Accept(m) ==
  /\ up /\ Fresh(m)
  /\ \/ /\ queue' = Append(queue, m)
        /\ UNCHANGED outstanding
     \/ /\ queue # <<>>
        /\ queue' = <<m>>
        /\ outstanding' = outstanding \cup Range(queue)
     \/ /\ queue' = <<>>
        /\ outstanding' = outstanding \cup Range(queue) \cup {m}
  /\ UNCHANGED <<delivered, lost, up>>

HandOver ==
  /\ up /\ queue # <<>>
  /\ queue' = <<>>
  /\ outstanding' = outstanding \cup Range(queue)
  /\ UNCHANGED <<delivered, lost, up>>

(* A group of outstanding messages settles; part of it may have been written. *)
Settle ==
  /\ up
  /\ \E group \in SUBSET outstanding : \E written \in SUBSET group :
       /\ group # {}
       /\ outstanding' = outstanding \ group
       /\ delivered' = delivered \cup written
       /\ lost' = lost \cup (group \ written)
  /\ UNCHANGED <<queue, up>>

Crash ==
  /\ up /\ up' = FALSE
  /\ \E written \in SUBSET outstanding :
       /\ delivered' = delivered \cup written
       /\ lost' = lost \cup Range(queue) \cup (outstanding \ written)
  /\ queue' = <<>> /\ outstanding' = {}

Next == (\E m \in Msgs : Accept(m)) \/ HandOver \/ Settle \/ Crash

Spec == Init /\ [][Next]_vars

=============================================================================
