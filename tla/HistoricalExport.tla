-------------------------- MODULE HistoricalExport --------------------------
(***************************************************************************)
(* A plugin's export of its team's past events: a chain of jobs, each of   *)
(* which exports one chunk and enqueues the next, a watchdog that starts   *)
(* the chain again, and the job a user starts it all with                  *)
(* (plugin-server/src/worker/vm/upgrades/historical-export).               *)
(*                                                                         *)
(* What they share is in the plugin's storage: rows of Postgres, read and  *)
(* written one statement at a time by any thread.  Adjacent statements of  *)
(* one kind (reads, deletes, or writes) are one step, with the code up to  *)
(* the next one.                                                           *)
(* Time is counted in intervals: an absent cursor counts from 0, the       *)
(* epoch; dateFrom begins interval 3, so cursor.init sets the cursor to 2. *)
(* A job is taken once (maxAttempts 1), so a batch is one chain of jobs,   *)
(* named by its batch id.                                                  *)
(***************************************************************************)
EXTENDS Naturals, FiniteSets

CONSTANTS
  Threads,    \* worker threads, one of each server: a server runs one job at a time
  Exports,    \* jobs from the interface
  DateTo,     \* per such job: the last interval it asks for
  ChunksIn,   \* per interval: how many times EVENTS_PER_RUN it has events
  MaxBatch,   \* bounds the batches
  MaxFaults   \* bounds failed fetches and exports, deaths of threads, delays

Intervals == DOMAIN ChunksIn

ASSUME HistoricalAssumption ==
  /\ ChunksIn \in [Intervals -> Nat] /\ Intervals \subseteq Nat \ (0..2)
  /\ DateTo \in [Exports -> Intervals]
  /\ "none" \notin Threads
  /\ MaxBatch \in Nat /\ MaxFaults \in Nat

Batches == 1..MaxBatch

VARIABLES
  running,    \* is_export_running
  cursor,     \* timestamp_cursor, 0 if there is none
  old,        \* old_timestamp_cursor
  last,       \* max_timestamp, 0 if there is none
  batchId,    \* batch_id
  recent,     \* Date.now() - run_every_minute_last is below ten minutes
  maxSeen,    \* per thread: meta.global.maxTimestamp, 0 for null
  job,        \* per batch: its job
  user,       \* per export: where its interface job is
  dog,        \* where the watchdog is
  exported,   \* history, per chunk: how often it was exported since the cursor was last set
  disturbed,  \* history: the export under way was interfered with
  faults

storage == <<running, cursor, old, last, batchId, recent>>
vars == <<storage, maxSeen, job, user, dog, exported, disturbed, faults>>

Chunks == UNION {{i} \X (0..(ChunksIn[i] - 1)) : i \in {i \in Intervals : ChunksIn[i] > 0}}

(* id: the payload's batchId, 0 for none; at: its timestampCursor; inc: its      *)
(* incrementTimestampCursor; on: the thread; ours: the cursor was not reset      *)
(* since (kept for the properties).                                             *)
NoJob == [pc |-> "none", id |-> 0, at |-> 0, offset |-> 0, inc |-> FALSE,
          on |-> "none", ours |-> FALSE]

NoUser == [pc |-> "new", on |-> "none", batch |-> 0]
Left   == [NoUser EXCEPT !.pc = "ended"]

Asleep == [pc |-> "idle", seen |-> 0, batch |-> 0]

Init ==
  /\ running = FALSE /\ cursor = 0 /\ old = 0 /\ last = 0 /\ batchId = 0 /\ recent = TRUE
  /\ maxSeen = [t \in Threads |-> 0]
  /\ job = [b \in Batches |-> NoJob]
  /\ user = [x \in Exports |-> NoUser]
  /\ dog = Asleep
  /\ exported = [c \in Chunks |-> 0] /\ disturbed = FALSE /\ faults = 0

Fault == faults < MaxFaults /\ faults' = faults + 1

(* A job that asks for the next interval; what else it carries is not read.     *)
Queued(b) == [pc |-> "queued", id |-> b, at |-> 0, offset |-> 0, inc |-> TRUE,
              on |-> "none", ours |-> TRUE]

(* Mutant of First: a chain that replaces another goes on at its chunk. *)
First_resumes(b) ==
  [job EXCEPT ![b] = IF cursor < 3 THEN Queued(b)
                     ELSE [Queued(b) EXCEPT !.inc = FALSE, !.at = cursor]]

First(b) == [job EXCEPT ![b] = Queued(b)]

(* The job queue of a server has concurrency 1.                                *)
Free(t) == (\A b \in Batches : job[b].on # t) /\ (\A x \in Exports : user[x].on # t)

-----------------------------------------------------------------------------
(* exportHistoricalEvents: one job of batch b                                  *)

Goto(b, pc) == job' = [job EXCEPT ![b].pc = pc]

Over == [NoJob EXCEPT !.pc = "ended"]

(* A job that has an interval, since the cursor was last set. *)
Holds(b) == job[b].ours /\ (job[b].pc = "placed" \/ (job[b].pc = "queued" /\ ~job[b].inc))

(* What is left of a chain: the place it had come to (kept for the properties).  *)
Ended(b) ==
  IF Holds(b)
    THEN [Over EXCEPT !.at = job[b].at, !.offset = job[b].offset, !.ours = TRUE]
    ELSE Over

(* The jobs when the cursor is taken away from them.                           *)
Disowned ==
  [b \in Batches |-> IF job[b].pc = "ended" THEN Over ELSE [job[b] EXCEPT !.ours = FALSE]]

End(b) == job' = [job EXCEPT ![b] = Ended(b)]

(* Jobs that are queued, or run.                                               *)
AtWork == {b \in Batches : job[b].pc \notin {"none", "ended"}}

(* Mutant of Take: the cursor moves on before the batch id is looked at. *)
Take_countsFirst(b, t) ==
  /\ job[b].pc = "queued" /\ Free(t)
  /\ IF job[b].id = batchId
       THEN /\ maxSeen' = [maxSeen EXCEPT ![t] = IF @ = 0 THEN last ELSE @]
            /\ job' = [job EXCEPT ![b].pc = IF job[b].inc THEN "due" ELSE "placed",
                                  ![b].on = t]
            /\ disturbed' = (disturbed \/ maxSeen'[t] # last)
            /\ UNCHANGED cursor
       ELSE /\ cursor' = IF job[b].inc THEN cursor + 1 ELSE cursor
            /\ End(b) /\ UNCHANGED <<maxSeen, disturbed>>
  /\ UNCHANGED <<running, old, last, batchId, recent, user, dog, exported, faults>>

(* "this is handling for duplicates when the plugin server restarts"; then     *)
(* setTimestampBoundaries: a thread that knows a limit does not ask again.     *)
Take(b, t) ==
  /\ job[b].pc = "queued" /\ Free(t)
  /\ IF job[b].id = batchId
       THEN /\ maxSeen' = [maxSeen EXCEPT ![t] = IF @ = 0 THEN last ELSE @]
            /\ job' = [job EXCEPT ![b].pc = IF job[b].inc THEN "due" ELSE "placed",
                                  ![b].on = t]
            /\ disturbed' = (disturbed \/ maxSeen'[t] # last)
       ELSE End(b) /\ UNCHANGED <<maxSeen, disturbed>>
  /\ UNCHANGED <<storage, user, dog, exported, faults>>

(* cursor.increment, in one statement: "we never process an interval twice".   *)
NextInterval(b) ==
  /\ job[b].pc = "due"
  /\ cursor' = cursor + 1
  /\ job' = [job EXCEPT ![b].pc = "placed", ![b].at = cursor + 1, ![b].offset = 0, ![b].ours = TRUE]
  /\ UNCHANGED <<running, old, last, batchId, recent, maxSeen, user, dog, exported, disturbed, faults>>

Beyond(b) == job[b].at > maxSeen[job[b].on]

Done(b) ==
  /\ job[b].pc = "placed" /\ Beyond(b)
  /\ running' = FALSE /\ End(b)
  /\ UNCHANGED <<cursor, old, last, batchId, recent, maxSeen, user, dog, exported, disturbed, faults>>

FetchFails(b) ==
  /\ job[b].pc = "placed" /\ ~Beyond(b) /\ Fault
  /\ running' = FALSE /\ End(b) /\ disturbed' = TRUE
  /\ UNCHANGED <<cursor, old, last, batchId, recent, maxSeen, user, dog, exported>>

(* A chunk handed to the plugin, if it is one.                                 *)
Count(b) ==
  LET chunk == <<job[b].at, job[b].offset>> IN
  exported' = IF chunk \in Chunks /\ job[b].ours
                THEN [exported EXCEPT ![chunk] = @ + 1] ELSE exported

(* fetchEventsForInterval, the plugin's exportEvents, and the next job of the  *)
(* chain: an empty chunk ends the interval.                                    *)
Export(b) ==
  /\ job[b].pc = "placed" /\ ~Beyond(b)
  /\ Count(b)
  /\ job' = [job EXCEPT ![b] =
       IF <<job[b].at, job[b].offset>> \in Chunks
         THEN [job[b] EXCEPT !.pc = "queued", !.inc = FALSE, !.offset = job[b].offset + 1,
                             !.on = "none"]
         ELSE [Queued(b) EXCEPT !.ours = job[b].ours]]
  /\ UNCHANGED <<storage, maxSeen, user, dog, disturbed, faults>>

(* exportEvents asks for a retry: the job that is enqueued has no batchId.     *)
AsksForRetry(b) ==
  /\ job[b].pc = "placed" /\ ~Beyond(b) /\ Fault
  /\ job' = [job EXCEPT ![b] = [@ EXCEPT !.pc = "queued", !.id = 0, !.inc = FALSE, !.on = "none"]]
  /\ disturbed' = TRUE
  /\ UNCHANGED <<storage, maxSeen, user, dog, exported>>

(* Any other error, before or after the plugin has sent the events, or an      *)
(* error of meta.jobs: nothing is enqueued.                                    *)
ExportFails(b) ==
  /\ job[b].pc = "placed" /\ ~Beyond(b) /\ Fault
  /\ End(b) /\ disturbed' = TRUE
  /\ Count(b) \/ UNCHANGED exported
  /\ UNCHANGED <<storage, maxSeen, user, dog>>

-----------------------------------------------------------------------------
(* The job "Export historical events" of the interface                         *)

UserGoto(x, pc) == user' = [user EXCEPT ![x].pc = pc]

Leave(x) == user' = [user EXCEPT ![x] = Left]

StartExport(x, t) ==
  /\ user[x].pc = "new" /\ Free(t)
  /\ IF running THEN Leave(x)
                ELSE user' = [user EXCEPT ![x].pc = "starting", ![x].on = t]
  /\ UNCHANGED <<storage, maxSeen, job, dog, exported, disturbed, faults>>

(* Others that write while x starts: a chain, the watchdog, another start.     *)
Company(x) ==
  \/ AtWork # {} \/ dog.pc # "idle"
  \/ \E y \in Exports \ {x} : user[y].pc \notin {"new", "ended"}

(* It marks the export as running.                                             *)
Claim(x) ==
  /\ user[x].pc = "starting"
  /\ recent' = TRUE /\ running' = TRUE
  /\ UserGoto(x, "claimed")
  /\ UNCHANGED <<cursor, old, last, batchId, maxSeen, job, dog, exported, disturbed, faults>>

(* It gets "rid of all state pertaining to a previous run": the storage's, and  *)
(* what this thread remembers.                                                 *)
Reset(x) ==
  /\ user[x].pc = "claimed"
  /\ cursor' = 0 /\ last' = 0
  /\ maxSeen' = [maxSeen EXCEPT ![user[x].on] = 0]
  /\ UserGoto(x, "cleared")
  /\ exported' = [c \in Chunks |-> 0]
  /\ job' = Disowned
  /\ disturbed' = (Company(x) \/ ~running)
  /\ UNCHANGED <<running, old, batchId, recent, dog, faults>>

(* initTimestampsAndCursor: the cursor is set unless there is one already, ... *)
InitCursor(x) ==
  /\ user[x].pc = "cleared"
  /\ cursor' = IF cursor = 0 THEN 2 ELSE cursor
  /\ UserGoto(x, "begun")
  /\ UNCHANGED <<running, old, last, batchId, recent, maxSeen, job, dog, exported, disturbed, faults>>

(* ... the limit always.  A job that is taken before that finds none.          *)
InitLimit(x) ==
  /\ user[x].pc = "begun"
  /\ last' = DateTo[x]
  /\ UserGoto(x, "initialised")
  /\ UNCHANGED <<running, cursor, old, batchId, recent, maxSeen, job, dog, exported, disturbed, faults>>

(* A boundary is not known: the job throws, and is_export_running stays.       *)
InitThrows(x) ==
  /\ user[x].pc \in {"cleared", "begun"} /\ Fault
  /\ Leave(x) /\ disturbed' = TRUE
  /\ UNCHANGED <<storage, maxSeen, job, dog, exported>>

NewBatch(x) ==
  /\ user[x].pc = "initialised" /\ batchId < MaxBatch
  /\ batchId' = batchId + 1
  /\ user' = [user EXCEPT ![x].pc = "numbered", ![x].batch = batchId + 1]
  /\ UNCHANGED <<running, cursor, old, last, recent, maxSeen, job, dog, exported, disturbed, faults>>

FirstJob(x) ==
  /\ user[x].pc = "numbered"
  /\ job' = First(user[x].batch)
  /\ Leave(x)
  /\ UNCHANGED <<storage, maxSeen, dog, exported, disturbed, faults>>

-----------------------------------------------------------------------------
(* runEveryMinute                                                              *)

(* have10MinutesPassed is true while they have not.                            *)
DogLooks ==
  /\ dog.pc = "idle" /\ running /\ recent
  /\ dog' = [Asleep EXCEPT !.pc = IF old = cursor THEN "alarmed" ELSE "content", !.seen = cursor]
  /\ UNCHANGED <<storage, maxSeen, job, user, exported, disturbed, faults>>

(* The chain that stood still, or was only slow, is replaced.                  *)
DogReplaces ==
  /\ dog.pc = "alarmed" /\ batchId < MaxBatch
  /\ batchId' = batchId + 1 /\ disturbed' = TRUE
  /\ dog' = [dog EXCEPT !.pc = "replacing", !.batch = batchId + 1]
  /\ UNCHANGED <<running, cursor, old, last, recent, maxSeen, job, user, exported, faults>>

Noted(seen) == old' = seen /\ recent' = TRUE /\ dog' = Asleep

DogRestarts ==
  /\ dog.pc = "replacing"
  /\ job' = First(dog.batch)
  /\ Noted(dog.seen)
  /\ UNCHANGED <<running, cursor, last, batchId, maxSeen, user, exported, disturbed, faults>>

(* Mutant of DogNotes: old_timestamp_cursor is not kept up to date. *)
DogNotes_forgets ==
  /\ dog.pc = "content"
  /\ Noted(old)
  /\ UNCHANGED <<running, cursor, last, batchId, maxSeen, job, user, exported, disturbed, faults>>

(* The cursor has moved: look again in a minute.                               *)
DogNotes ==
  /\ dog.pc = "content"
  /\ Noted(dog.seen)
  /\ UNCHANGED <<running, cursor, last, batchId, maxSeen, job, user, exported, disturbed, faults>>

(* The watchdog is kept from running for ten minutes.                          *)
DogIsLate ==
  /\ dog.pc = "idle" /\ recent /\ Fault
  /\ recent' = FALSE
  /\ UNCHANGED <<running, cursor, old, last, batchId, maxSeen, job, user, dog, exported, disturbed>>

-----------------------------------------------------------------------------
(* A thread dies, with what ran on it, and is replaced by one that sets the    *)
(* plugin up.                                                                  *)
Restart(t) ==
  /\ Fault
  /\ maxSeen' = [maxSeen EXCEPT ![t] = 0]
  /\ job' = [b \in Batches |-> IF job[b].on = t THEN Ended(b) ELSE job[b]]
  /\ user' = [x \in Exports |-> IF user[x].on = t THEN Left ELSE user[x]]
  /\ dog' \in {dog, Asleep}
  /\ disturbed' = (disturbed \/ ~Free(t) \/ dog' # dog)
  /\ old' = cursor /\ recent' = TRUE
  /\ UNCHANGED <<running, cursor, last, batchId, exported>>

JobStep(b) ==
  \/ NextInterval(b) \/ Done(b) \/ Export(b)
  \/ \E t \in Threads : Take(b, t)

UserStep(x) ==
  \/ Claim(x) \/ Reset(x) \/ InitCursor(x) \/ InitLimit(x) \/ NewBatch(x) \/ FirstJob(x)

DogStep == DogLooks \/ DogReplaces \/ DogRestarts \/ DogNotes

Next ==
  \/ \E b \in Batches : JobStep(b) \/ FetchFails(b) \/ AsksForRetry(b) \/ ExportFails(b)
  \/ \E x \in Exports : UserStep(x) \/ InitThrows(x) \/ \E t \in Threads : StartExport(x, t)
  \/ DogStep \/ DogIsLate
  \/ \E t \in Threads : Restart(t)

Spec == Init /\ [][Next]_vars

(* Some job is taken or goes on, if any can; the watchdog runs every minute.    *)
Fairness ==
  /\ WF_vars((\E b \in Batches : JobStep(b)) \/ (\E x \in Exports : UserStep(x)))
  /\ WF_vars(DogStep)

FairSpec == Spec /\ Fairness

-----------------------------------------------------------------------------
(* Properties *)

(* "This ensures we never process an interval twice": however many chains are  *)
(* at work because the watchdog took a slow one for dead, no chunk is exported *)
(* twice before somebody starts the export anew.                               *)
NoChunkTwice == \A c \in Chunks : exported[c] <= 1

(* Chunk c is still batch b's to export, or was when b ended.                  *)
LeftTo(b, c) == job[b].ours /\ job[b].at = c[1] /\ job[b].offset <= c[2]

(* However many chains, leftovers of the export before, users and faults meet  *)
(* at the cursor, it passes no interval that nobody took: a chunk behind it    *)
(* was exported, or is left to a chain that holds the interval or ended there. *)
NobodySkips ==
  \A c \in Chunks :
    c[1] <= cursor => exported[c] >= 1 \/ \E b \in Batches : LeftTo(b, c)

(* An export nobody interfered with is complete: the cursor passes an interval *)
(* only when all its chunks were exported, and the export is over only when it *)
(* has passed the last one.                                                    *)
Complete ==
  ~disturbed /\ last # 0 =>
    /\ \A c \in Chunks : c[1] < cursor /\ c[1] <= last => exported[c] >= 1
    /\ ~running => cursor > last

(* What an export misses was given up by a chain that broke or was replaced,   *)
(* and by nothing else that happens to the cursor; left alone, it misses       *)
(* nothing.                                                                    *)
NothingMissed == NobodySkips /\ Complete

(* The bound on batches keeps a chain from being started.                      *)
Capped ==
  batchId = MaxBatch /\ (dog.pc = "alarmed" \/ \E x \in Exports : user[x].pc = "initialised")

(* A running export comes to its end whatever broke its chain, since the       *)
(* watchdog starts another, as long as it is never late.                       *)
ExportEnds == running ~> ~running \/ ~recent \/ Capped
=============================================================================
