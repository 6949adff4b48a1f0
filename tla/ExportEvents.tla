---------------------------- MODULE ExportEvents ----------------------------
(***************************************************************************)
(* The export upgrade of a plugin on one worker thread: onEvent adds to an *)
(* ExportEventsBuffer, a flush calls the plugin's exportEvents at once,    *)
(* and a batch whose export asks for a retry comes back as a job           *)
(* (src/plugin-server/src/worker/vm/upgrades/export-events.ts,             *)
(* utils/export-events-buffer.ts and ../promise-manager.ts).               *)
(*                                                                         *)
(* Any number of add() calls are under way on the thread; each step is the *)
(* code between two awaits.  A flush empties the buffer, clears the timer  *)
(* and starts the export without an await in between; the add() that       *)
(* called it goes on later, when the promise manager lets it, and looks at *)
(* the buffer no second time before it pushes its event.  Jobs outlive the *)
(* thread.  A batch is named by its first event.                           *)
(***************************************************************************)
EXTENDS Naturals, Sequences, FiniteSets, Functions

CONSTANTS
  Events,           \* the calls of add(), one event each
  SizeOf,           \* JSON.stringify(event).length
  Limit,            \* exportEventsBufferBytes
  MAXIMUM_RETRIES,
  MaxPending        \* MAX_PENDING_PROMISES_PER_WORKER

ASSUME ExportAssumption ==
  /\ SizeOf \in [Events -> Nat \ {0}]
  /\ Limit \in Nat /\ MAXIMUM_RETRIES \in Nat /\ MaxPending \in Nat

VARIABLES
  buffer,   \* events waiting for the next flush
  points,   \* their size, as the code keeps it
  timer,    \* a flush timeout is set
  pc,       \* per event: where its add() is, and what became of it before a flush
  race,     \* per event: the promises its Promise.race waits for
  batch,    \* per event: the batch it is the first of
  size,     \* the points of that batch
  stage,    \* where that batch is
  retries,  \* its retriesPerformedSoFar
  alive     \* the worker thread

vars == <<buffer, points, timer, pc, race, batch, size, stage, retries, alive>>

content == <<buffer, points, timer, batch, size>>
adds    == <<pc, race>>
exports == <<stage, retries>>

Init ==
  /\ buffer = <<>> /\ points = 0 /\ timer = FALSE
  /\ pc = [e \in Events |-> "idle"] /\ race = [e \in Events |-> {}]
  /\ batch = [e \in Events |-> <<>>] /\ size = [e \in Events |-> 0]
  /\ stage = [e \in Events |-> "none"] /\ retries = [e \in Events |-> 0]
  /\ alive = TRUE

(* pendingPromises: the flushes whose export or enqueueing has not ended.      *)
Pending == {b \in Events : stage[b] \in {"exporting", "enqueuing"} /\ retries[b] = 0}

-----------------------------------------------------------------------------
(* Mutant of Flush: the flushed events stay in the buffer. *)
Flush_keepsEvents(events, total) ==
  /\ buffer' = events /\ points' = 0 /\ timer' = FALSE
  /\ IF events = <<>>
       THEN UNCHANGED <<batch, size, stage>>
       ELSE /\ batch' = [batch EXCEPT ![Head(events)] = events]
            /\ size' = [size EXCEPT ![Head(events)] = total]
            /\ stage' = [stage EXCEPT ![Head(events)] = "exporting"]

(* flush() up to its await: the buffer is exchanged and _flush starts the      *)
(* export.  An empty batch is exported too; there is nothing to account for.  *)
Flush(events, total) ==
  /\ buffer' = <<>> /\ points' = 0 /\ timer' = FALSE
  /\ IF events = <<>>
       THEN UNCHANGED <<batch, size, stage>>
       ELSE /\ batch' = [batch EXCEPT ![Head(events)] = events]
            /\ size' = [size EXCEPT ![Head(events)] = total]
            /\ stage' = [stage EXCEPT ![Head(events)] = "exporting"]

(* awaitPromisesIfNeeded: one turn of its loop, over the pending promises.     *)
AwaitIfNeeded(e, pending) ==
  IF Cardinality(pending) > MaxPending
    THEN pc' = [pc EXCEPT ![e] = "racing"] /\ race' = [race EXCEPT ![e] = pending]
    ELSE pc' = [pc EXCEPT ![e] = "flushed"] /\ UNCHANGED race

(* Mutants of Push: the second look at the limit is left out; no timer for an  *)
(* event that has waited for a flush.                                         *)
Push_neverFlushes(e) ==
  /\ pc' = [pc EXCEPT ![e] = "added"] /\ UNCHANGED race
  /\ buffer' = Append(buffer, e) /\ points' = points + SizeOf[e] /\ timer' = TRUE
  /\ UNCHANGED <<batch, size, stage>>

Push_timerBeforeFlush(e) ==
  /\ pc' = [pc EXCEPT ![e] = "added"] /\ UNCHANGED race
  /\ IF points + SizeOf[e] > Limit
       THEN Flush(Append(buffer, e), points + SizeOf[e])
       ELSE /\ buffer' = Append(buffer, e) /\ points' = points + SizeOf[e]
            /\ timer' = (timer \/ pc[e] = "idle")
            /\ UNCHANGED <<batch, size, stage>>

(* The rest of add(), once the event has its turn.                             *)
Push(e) ==
  /\ pc' = [pc EXCEPT ![e] = "added"] /\ UNCHANGED race
  /\ IF points + SizeOf[e] > Limit
       THEN Flush(Append(buffer, e), points + SizeOf[e])
       ELSE /\ buffer' = Append(buffer, e) /\ points' = points + SizeOf[e] /\ timer' = TRUE
            /\ UNCHANGED <<batch, size, stage>>

Add(e) ==
  /\ alive /\ pc[e] = "idle"
  /\ UNCHANGED <<retries, alive>>
  /\ IF points # 0 /\ points + SizeOf[e] > Limit
       THEN Flush(buffer, points) /\ AwaitIfNeeded(e, Pending')
       ELSE Push(e)

(* Promise.race resolved: the loop looks again.                                *)
AwaitAgain(e) ==
  /\ alive /\ pc[e] = "woken"
  /\ AwaitIfNeeded(e, Pending)
  /\ UNCHANGED <<content, exports, alive>>

Resume(e) ==
  /\ alive /\ pc[e] = "flushed"
  /\ Push(e)
  /\ UNCHANGED <<retries, alive>>

TimerFires ==
  /\ alive /\ timer
  /\ Flush(buffer, points)
  /\ UNCHANGED <<adds, retries, alive>>

(* teardownPlugin flushes whatever there is.                                   *)
Teardown ==
  /\ alive
  /\ Flush(buffer, points)
  /\ UNCHANGED <<adds, retries, alive>>

-----------------------------------------------------------------------------
(* The promise of a flush settles: whoever races it goes on, or throws.        *)
Settles(b, outcome) ==
  /\ pc' = [e \in Events |-> IF b \in race[e] THEN outcome ELSE pc[e]]
  /\ race' = [e \in Events |-> IF b \in race[e] THEN {} ELSE race[e]]
  /\ UNCHANGED <<content, alive>>

Exports(b) ==
  /\ stage[b] = "exporting"
  /\ stage' = [stage EXCEPT ![b] = "exported"] /\ UNCHANGED retries
  /\ Settles(b, "woken")

(* Mutant of AsksForRetry: one retry too many. *)
AsksForRetry_offByOne(b) ==
  /\ stage[b] = "exporting" /\ retries[b] <= MAXIMUM_RETRIES
  /\ stage' = [stage EXCEPT ![b] = "enqueuing"] /\ UNCHANGED retries
  /\ UNCHANGED <<content, adds, alive>>

(* exportEvents threw a RetryError: meta.jobs is asked for a job.              *)
AsksForRetry(b) ==
  /\ stage[b] = "exporting" /\ retries[b] < MAXIMUM_RETRIES
  /\ stage' = [stage EXCEPT ![b] = "enqueuing"] /\ UNCHANGED retries
  /\ UNCHANGED <<content, adds, alive>>

GivesUp(b) ==
  /\ stage[b] = "exporting" /\ retries[b] >= MAXIMUM_RETRIES
  /\ stage' = [stage EXCEPT ![b] = "dropped"] /\ UNCHANGED retries
  /\ Settles(b, "woken")

(* Any other error is thrown again: the promise rejects, and with it the race  *)
(* of every add() that waits for it.  Their events are not in the buffer yet.  *)
ExportThrows(b) ==
  /\ stage[b] = "exporting"
  /\ stage' = [stage EXCEPT ![b] = "failed"] /\ UNCHANGED retries
  /\ Settles(b, "refused")

Enqueued(b) ==
  /\ stage[b] = "enqueuing"
  /\ stage' = [stage EXCEPT ![b] = "queued"]
  /\ retries' = [retries EXCEPT ![b] = @ + 1]
  /\ Settles(b, "woken")

(* runJob logs that the job was not enqueued, and swallows the error: there    *)
(* is no job, or there is one and its answer was lost.                         *)
EnqueueFails(b) ==
  /\ stage[b] = "enqueuing"
  /\ \/ stage' = [stage EXCEPT ![b] = "unqueued"] /\ UNCHANGED retries
     \/ /\ stage' = [stage EXCEPT ![b] = "queued"]
        /\ retries' = [retries EXCEPT ![b] = @ + 1]
  /\ Settles(b, "woken")

(* A worker takes the job: exportEventsWithRetry, this time not as a flush.    *)
RunJob(b) ==
  /\ stage[b] = "queued"
  /\ stage' = [stage EXCEPT ![b] = "exporting"] /\ UNCHANGED retries
  /\ UNCHANGED <<content, adds, alive>>

(* A worker dies with the job.  Jobs have one attempt; the next one may have   *)
(* been written.                                                              *)
JobDies(b) ==
  /\ stage[b] \in {"exporting", "enqueuing"} /\ retries[b] # 0
  /\ \/ stage' = [stage EXCEPT ![b] = "lost"] /\ UNCHANGED retries
     \/ /\ stage[b] = "enqueuing"
        /\ stage' = [stage EXCEPT ![b] = "queued"]
        /\ retries' = [retries EXCEPT ![b] = @ + 1]
  /\ UNCHANGED <<content, adds, alive>>

(* piscina.destroy(), or the process dies: the thread's memory is gone.        *)
Kill ==
  /\ alive /\ alive' = FALSE
  /\ buffer' = <<>> /\ points' = 0 /\ timer' = FALSE
  /\ pc' = [e \in Events |-> CASE pc[e] \in {"racing", "woken", "flushed"} -> "refused"
                               [] e \in Range(buffer) -> "lost"
                               [] OTHER -> pc[e]]
  /\ race' = [e \in Events |-> {}]
  /\ \E written \in SUBSET {b \in Pending : stage[b] = "enqueuing"} :
       /\ stage' = [b \in Events |-> CASE b \in written -> "queued"
                                       [] b \in Pending \ written -> "lost"
                                       [] OTHER -> stage[b]]
       /\ retries' = [b \in Events |-> IF b \in written THEN 1 ELSE retries[b]]
  /\ UNCHANGED <<batch, size>>

Next ==
  \/ \E e \in Events : Add(e) \/ AwaitAgain(e) \/ Resume(e)
  \/ TimerFires \/ Teardown \/ Kill
  \/ \E b \in Events : \/ Exports(b) \/ AsksForRetry(b) \/ GivesUp(b) \/ ExportThrows(b)
                       \/ Enqueued(b) \/ EnqueueFails(b) \/ RunJob(b) \/ JobDies(b)

Spec == Init /\ [][Next]_vars

(* Timers fire, promises go on, exports and enqueueing end, jobs are taken;    *)
(* nothing makes a plugin be torn down.                                       *)
Fairness ==
  /\ WF_vars(TimerFires)
  /\ \A e \in Events : WF_vars(AwaitAgain(e)) /\ WF_vars(Resume(e))
  /\ \A b \in Events :
       /\ WF_vars(Exports(b) \/ AsksForRetry(b) \/ GivesUp(b) \/ ExportThrows(b))
       /\ WF_vars(Enqueued(b) \/ EnqueueFails(b)) /\ WF_vars(RunJob(b))

FairSpec == Spec /\ Fairness

-----------------------------------------------------------------------------
Live  == {"exporting", "enqueuing", "queued"}
Ended == {"exported", "dropped", "failed", "unqueued", "lost"}

TypeOK ==
  /\ buffer \in Seq(Events) /\ points \in Nat /\ timer \in BOOLEAN /\ alive \in BOOLEAN
  /\ pc \in [Events -> {"idle", "racing", "woken", "flushed", "added", "refused", "lost"}]
  /\ race \in [Events -> SUBSET Events]
  /\ batch \in [Events -> Seq(Events)] /\ size \in [Events -> Nat]
  /\ stage \in [Events -> {"none"} \cup Live \cup Ended]
  /\ retries \in [Events -> 0..MAXIMUM_RETRIES]

(* "Flush existing if adding would make us go over the limit": although adds   *)
(* that wait for a flush do not look again before they push, what rests in the *)
(* buffer is within the limit and has a timer, and a batch exceeds the limit   *)
(* by its last event only.                                                    *)
BatchesWithinLimit ==
  /\ points <= Limit
  /\ alive /\ buffer # <<>> => timer
  /\ \A b \in Events : batch[b] # <<>> =>
       size[b] <= Limit + SizeOf[batch[b][Len(batch[b])]]

(* Every event that add() was called with comes to an end, exported or not,    *)
(* though its batch may have to wait for jobs.                                *)
Settled(e) ==
  \/ pc[e] \in {"refused", "lost"}
  \/ \E b \in Events : e \in Range(batch[b]) /\ stage[b] \in Ended

EventsSettle == \A e \in Events : pc[e] # "idle" ~> Settled(e)

-----------------------------------------------------------------------------
(* The abstract promise: batches are tried MAXIMUM_RETRIES + 1 times at most,  *)
(* never again once exported or given up, whatever dies in between.           *)
EventsIn(stages) == UNION {Range(batch[b]) : b \in {c \in Events : stage[c] \in stages}}

Tries(e) ==
  IF \E b \in Events : e \in Range(batch[b])
    THEN LET b == CHOOSE b \in Events : e \in Range(batch[b])
         IN  IF stage[b] = "queued" THEN retries[b] ELSE retries[b] + 1
    ELSE 0

Channel == INSTANCE RetriedChannel WITH
  Msgs <- Events, MaxTries <- MAXIMUM_RETRIES + 1,
  queue <- buffer, outstanding <- EventsIn(Live), tries <- [e \in Events |-> Tries(e)],
  delivered <- EventsIn({"exported"}),
  lost <- EventsIn(Ended \ {"exported"}) \cup {e \in Events : pc[e] = "lost"},
  up <- alive

ImplementsRetries == Channel!Spec

=============================================================================
