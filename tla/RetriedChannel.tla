--------------------------- MODULE RetriedChannel ---------------------------
(***************************************************************************)
(* What a buffer with bounded retries promises: messages are handed over   *)
(* whole batches at a time and in order; a batch may be tried again, up to *)
(* MaxTries times in all, but never once it was delivered or given up; the *)
(* end of the process loses what was not handed over and, of the rest,     *)
(* anything.  What is being retried may live on without the process.       *)
(***************************************************************************)
EXTENDS Naturals, Sequences, Functions

CONSTANTS Msgs, MaxTries

VARIABLES
  queue,        \* accepted, not yet handed over
  outstanding,  \* handed over, neither delivered nor given up
  tries,        \* per message: how often it was handed over
  delivered,
  lost,
  up

vars == <<queue, outstanding, tries, delivered, lost, up>>

Init ==
  /\ queue = <<>> /\ outstanding = {} /\ tries = [m \in Msgs |-> 0]
  /\ delivered = {} /\ lost = {} /\ up = TRUE

Fresh(m) == m \notin Range(queue) \cup outstanding \cup delivered \cup lost

Hand(batch) ==
  /\ outstanding' = outstanding \cup batch
  /\ tries' = [m \in Msgs |-> IF m \in batch THEN 1 ELSE tries[m]]

(* A message joins the queue, or completes a batch that is handed over with it. *)
Accept(m) ==
  /\ up /\ Fresh(m)
  /\ \/ /\ queue' = Append(queue, m)
        /\ UNCHANGED <<outstanding, tries>>
     \/ /\ queue' = <<>>
        /\ Hand(Range(queue) \cup {m})
  /\ UNCHANGED <<delivered, lost, up>>

HandOver ==
  /\ up /\ queue # <<>>
  /\ queue' = <<>>
  /\ Hand(Range(queue))
  /\ UNCHANGED <<delivered, lost, up>>

TryAgain ==
  /\ \E batch \in SUBSET outstanding :
       /\ batch # {}
       /\ \A m \in batch : tries[m] \in 1..(MaxTries - 1)
       /\ tries' = [m \in Msgs |-> IF m \in batch THEN tries[m] + 1 ELSE tries[m]]
  /\ UNCHANGED <<queue, outstanding, delivered, lost, up>>

Settle ==
  /\ \E batch \in SUBSET outstanding :
       /\ batch # {}
       /\ outstanding' = outstanding \ batch
       /\ \/ delivered' = delivered \cup batch /\ UNCHANGED lost
          \/ lost' = lost \cup batch /\ UNCHANGED delivered
  /\ UNCHANGED <<queue, tries, up>>

Crash ==
  /\ up /\ up' = FALSE
  /\ \E gone \in SUBSET outstanding :
       /\ outstanding' = outstanding \ gone
       /\ lost' = lost \cup gone \cup Range(queue)
  /\ queue' = <<>>
  /\ UNCHANGED <<tries, delivered>>

Next == (\E m \in Msgs : Accept(m)) \/ HandOver \/ TryAgain \/ Settle \/ Crash

Spec == Init /\ [][Next]_vars

=============================================================================
