----------------------------- MODULE JobQueues -----------------------------
(***************************************************************************)
(* The consumer of background jobs: one GraphileQueue, started and stopped *)
(* by the server, paused by a job that finds the worker threads full, and  *)
(* resumed when they have drained (plugin-server/src/main/job-queues).     *)
(*                                                                         *)
(* All four end in syncState, which tests started, paused and runner, and  *)
(* then waits for Postgres or for a job.  Pause and resume are not awaited *)
(* by anybody, so calls of syncState overlap.  Each step is the code       *)
(* between two awaits.  A pool and the runner that works over it have the  *)
(* same number.  graphile-worker and pg are external.                      *)
(***************************************************************************)
EXTENDS Naturals, FiniteSets

CONSTANTS
  Jobs,
  Slots,       \* calls of pauseConsumer and resumeConsumer that nobody awaits
  MaxRunners,  \* bounds the pools created
  MaxFaults    \* bounds failed connections, failed answers and crashes

ASSUME QueueAssumption ==
  /\ Slots \cap {"start", "stop"} = {}
  /\ MaxRunners \in Nat /\ MaxFaults \in Nat

Calls   == Slots \cup {"start", "stop"}
Runners == 1..MaxRunners

VARIABLES
  started, paused,  \* the flags of JobQueueBase
  runner,           \* this.runner: its number, 0 for null
  consumerPool,     \* this.consumerPool, likewise
  pc,               \* per call of syncState: what it awaits
  own,              \* the pool it has created, stops the runner of, or ends
  made,             \* pools created so far
  live,             \* runners that have not ended
  stopping,         \* those that take no job any more
  open,             \* pools nobody has called end() on
  jobs,             \* what became of each job
  on,               \* the runner that took it
  phase,            \* the server, as far as it concerns its consumer
  overlapped,       \* history: two calls were under way at once
  broken,           \* history: a connection failed, or run() did
  faults

flags   == <<started, paused>>
calls   == <<pc, own>>
runners == <<made, live, stopping, open>>
work    == <<jobs, on>>
history == <<overlapped, broken>>
vars == <<flags, runner, consumerPool, calls, runners, work, phase, history, faults>>

Init ==
  /\ started = FALSE /\ paused = FALSE /\ runner = 0 /\ consumerPool = 0
  /\ pc = [c \in Calls |-> "idle"] /\ own = [c \in Calls |-> 0]
  /\ made = 0 /\ live = {} /\ stopping = {} /\ open = {}
  /\ jobs = [j \in Jobs |-> "new"] /\ on = [j \in Jobs |-> 0]
  /\ phase = "new" /\ overlapped = FALSE /\ broken = FALSE /\ faults = 0

Fault == faults < MaxFaults /\ faults' = faults + 1

Busy(r) == \E j \in Jobs : jobs[j] = "running" /\ on[j] = r

-----------------------------------------------------------------------------
(* syncState *)

(* A call returns to whoever awaited it; only the server's stop matters.       *)
Return(c, outcome) ==
  /\ pc' = [pc EXCEPT ![c] = "idle"] /\ UNCHANGED own
  /\ phase' = IF c = "stop" THEN outcome ELSE phase

(* Mutant of Sync: the runner is stopped, but the field keeps it. *)
Sync_keepsRunner(c, during) ==
  /\ overlapped' = (overlapped \/ \E d \in Calls \ {c} : pc[d] # "idle")
  /\ UNCHANGED <<consumerPool, made, live, open, broken, runner>>
  /\ IF started' /\ ~paused'
       THEN /\ pc' = [pc EXCEPT ![c] = IF runner = 0 THEN "creating" ELSE "idle"]
            /\ phase' = during /\ UNCHANGED <<own, stopping>>
       ELSE IF runner # 0
         THEN /\ pc' = [pc EXCEPT ![c] = "stopping"] /\ own' = [own EXCEPT ![c] = runner]
              /\ stopping' = stopping \cup {runner} /\ phase' = during
         ELSE /\ phase' = IF c = "stop" THEN "closed" ELSE during
              /\ UNCHANGED <<pc, own, stopping>>

(* Up to the first await, with the flags the caller has set; during is the     *)
(* server's phase while it waits.                                              *)
Sync(c, during) ==
  /\ overlapped' = (overlapped \/ \E d \in Calls \ {c} : pc[d] # "idle")
  /\ UNCHANGED <<consumerPool, made, live, open, broken>>
  /\ IF started' /\ ~paused'
       THEN /\ pc' = [pc EXCEPT ![c] = IF runner = 0 THEN "creating" ELSE "idle"]
            /\ phase' = during /\ UNCHANGED <<runner, own, stopping>>
       ELSE IF runner # 0
         THEN /\ pc' = [pc EXCEPT ![c] = "stopping"] /\ own' = [own EXCEPT ![c] = runner]
              /\ stopping' = stopping \cup {runner} /\ runner' = 0 /\ phase' = during
         ELSE /\ phase' = IF c = "stop" THEN "closed" ELSE during
              /\ UNCHANGED <<runner, pc, own, stopping>>

(* createPool resolves: the field is set and run() called.                     *)
Created(c) ==
  /\ pc[c] = "creating" /\ made < MaxRunners
  /\ made' = made + 1 /\ open' = open \cup {made + 1}
  /\ consumerPool' = made + 1 /\ own' = [own EXCEPT ![c] = made + 1]
  /\ pc' = [pc EXCEPT ![c] = "starting"]
  /\ UNCHANGED <<flags, runner, live, stopping, work, phase, history, faults>>

(* createPool rejects.  start logs the error (or sends itself a SIGTERM, a     *)
(* Stop to come); of a resume nobody hears.                                    *)
CreateFails(c) ==
  /\ pc[c] = "creating" /\ Fault
  /\ Return(c, "stuck") /\ broken' = TRUE
  /\ UNCHANGED <<flags, runner, consumerPool, runners, work, overlapped>>

(* run() resolves: the runner works, and replaces whatever the field held.     *)
RunnerUp(c) ==
  /\ pc[c] = "starting" /\ own[c] \in open
  /\ runner' = own[c] /\ live' = live \cup {own[c]}
  /\ Return(c, "closed")
  /\ UNCHANGED <<flags, consumerPool, made, stopping, open, work, history, faults>>

(* run() rejects, as it does when its pool was ended under it.                 *)
RunFails(c) ==
  /\ pc[c] = "starting"
  /\ IF own[c] \in open THEN Fault ELSE UNCHANGED faults
  /\ Return(c, "stuck") /\ broken' = TRUE
  /\ UNCHANGED <<flags, runner, consumerPool, runners, work, overlapped>>

(* Mutant of Stopped: the job is not waited for. *)
Stopped_atOnce(c) ==
  /\ pc[c] = "stopping"
  /\ live' = live \ {own[c]} /\ stopping' = stopping \ {own[c]}
  /\ IF consumerPool \in open
       THEN /\ open' = open \ {consumerPool}
            /\ pc' = [pc EXCEPT ![c] = "ending"]
            /\ own' = [own EXCEPT ![c] = consumerPool]
            /\ UNCHANGED phase
       ELSE Return(c, "stuck") /\ UNCHANGED open
  /\ UNCHANGED <<flags, runner, consumerPool, made, work, history, faults>>

(* stop() of the old runner resolves once its job has ended; end() is called   *)
(* on the pool the field holds by now, and throws if that was ended before.    *)
Stopped(c) ==
  /\ pc[c] = "stopping" /\ ~Busy(own[c])
  /\ live' = live \ {own[c]} /\ stopping' = stopping \ {own[c]}
  /\ IF consumerPool \in open
       THEN /\ open' = open \ {consumerPool}
            /\ pc' = [pc EXCEPT ![c] = "ending"]
            /\ own' = [own EXCEPT ![c] = consumerPool]
            /\ UNCHANGED phase
       ELSE Return(c, "stuck") /\ UNCHANGED open
  /\ UNCHANGED <<flags, runner, consumerPool, made, work, history, faults>>

(* end() resolves when no client is checked out; a runner keeps one to listen. *)
Ended(c) ==
  /\ pc[c] = "ending" /\ own[c] \notin live
  /\ Return(c, "closed")
  /\ UNCHANGED <<flags, runner, consumerPool, runners, work, history, faults>>

-----------------------------------------------------------------------------
(* The callers *)

(* startConsumer, awaited by the server before anything else can call.         *)
Start ==
  /\ phase = "new"
  /\ started' = TRUE /\ UNCHANGED paused
  /\ Sync("start", "up")
  /\ UNCHANGED <<work, faults>>

Serving == phase # "new" /\ phase # "gone" /\ pc["start"] = "idle"

(* A signal: closeJobs begins, and awaits queue.stop() and pubSub.stop().      *)
Signal ==
  /\ Serving /\ phase = "up"
  /\ phase' = "told"
  /\ UNCHANGED <<flags, runner, consumerPool, calls, runners, work, history, faults>>

(* stopConsumer, in closeJobs.                                                 *)
Stop ==
  /\ Serving /\ phase = "told"
  /\ started' = FALSE /\ UNCHANGED paused
  /\ Sync("stop", "closing")
  /\ UNCHANGED <<work, faults>>

(* Mutant of Resume: the queue stays marked as paused. *)
Resume_staysPaused(c) ==
  /\ Serving /\ paused /\ pc[c] = "idle"
  /\ UNCHANGED flags
  /\ Sync(c, phase)
  /\ UNCHANGED <<work, faults>>

(* Mutant of Resume: it does not look whether the queue is paused. *)
Resume_unasked(c) ==
  /\ Serving /\ pc[c] = "idle"
  /\ paused' = FALSE /\ UNCHANGED started
  /\ Sync(c, phase)
  /\ UNCHANGED <<work, faults>>

(* piscina has drained: resumeConsumer does nothing unless paused.             *)
Resume(c) ==
  /\ Serving /\ paused /\ pc[c] = "idle"
  /\ paused' = FALSE /\ UNCHANGED started
  /\ Sync(c, phase)
  /\ UNCHANGED <<work, faults>>

(* pauseConsumer, whether or not it is paused already.                         *)
Pause(c) ==
  /\ pc[c] = "idle"
  /\ paused' = TRUE /\ UNCHANGED started
  /\ Sync(c, phase)

(* A runner takes a job (concurrency 1), whose handler begins with             *)
(* pauseQueueIfWorkerFull.                                                     *)
TakeJob(r, j) ==
  /\ r \in (live \ stopping) \cap open /\ ~Busy(r) /\ jobs[j] = "queued"
  /\ jobs' = [jobs EXCEPT ![j] = "running"] /\ on' = [on EXCEPT ![j] = r]
  /\ \/ \E c \in Slots : Pause(c)
     \/ UNCHANGED <<flags, runner, consumerPool, calls, runners, phase, history>>
  /\ UNCHANGED faults

JobEnds(j) ==
  /\ jobs[j] = "running"
  /\ jobs' = [jobs EXCEPT ![j] = "done"]
  /\ UNCHANGED <<flags, runner, consumerPool, calls, runners, on, phase, history, faults>>

-----------------------------------------------------------------------------
(* The producers: JobQueueManager.enqueue on any thread, or another server.    *)

Settle(j, fate) ==
  /\ jobs[j] = "new" /\ jobs' = [jobs EXCEPT ![j] = fate]
  /\ UNCHANGED <<flags, runner, consumerPool, calls, runners, on, phase, history>>

Enqueue(j) == Settle(j, "queued") /\ UNCHANGED faults

(* "No JobQueue available": addJob failed, or its answer was lost.             *)
EnqueueFails(j) == Settle(j, "refused") /\ Fault

(* A job is added although its producer was told that it was not.              *)
AnswerLost(j) == Settle(j, "queued") /\ Fault

-----------------------------------------------------------------------------
(* The signal that makes the server close also reaches graphile-worker's own   *)
(* handlers, which end a runner and its job, at once or later.                 *)
SignalEnds(r) ==
  /\ phase \in {"told", "closing", "closed", "stuck"} /\ r \in live
  /\ live' = live \ {r}
  /\ jobs' = [j \in Jobs |-> IF jobs[j] = "running" /\ on[j] = r THEN "cut" ELSE jobs[j]]
  /\ UNCHANGED <<flags, runner, consumerPool, calls, made, stopping, open, on, phase, history, faults>>

(* The process is gone, after closeJobs or by a crash.  Nobody takes a job     *)
(* again that had been taken: maxAttempts is 1.                                *)
Gone ==
  /\ phase' = "gone"
  /\ live' = {} /\ stopping' = {} /\ open' = {} /\ UNCHANGED made
  /\ pc' = [c \in Calls |-> "idle"] /\ UNCHANGED own
  /\ runner' = 0 /\ consumerPool' = 0
  /\ jobs' = [j \in Jobs |-> IF jobs[j] = "running" THEN "cut" ELSE jobs[j]]
  /\ UNCHANGED <<flags, on, history>>

Exit  == phase = "closed" /\ Gone /\ UNCHANGED faults
Crash == phase \notin {"new", "gone"} /\ Gone /\ Fault

GoesOn(c) == Created(c) \/ RunnerUp(c) \/ Stopped(c) \/ Ended(c)

Next ==
  \/ Start \/ Signal \/ Stop \/ Exit \/ Crash
  \/ \E c \in Calls : GoesOn(c) \/ CreateFails(c) \/ RunFails(c)
  \/ \E c \in Slots : Resume(c)
  \/ \E r \in Runners : SignalEnds(r) \/ \E j \in Jobs : TakeJob(r, j)
  \/ \E j \in Jobs : JobEnds(j) \/ Enqueue(j) \/ EnqueueFails(j) \/ AnswerLost(j)

Spec == Init /\ [][Next]_vars

(* The server starts, Postgres answers, runners poll, jobs end (a task has a   *)
(* time limit), and the threads that were full drain.  Nothing makes the       *)
(* server stop.                                                                *)
Fairness ==
  /\ WF_vars(Start)
  /\ \A c \in Calls : WF_vars(GoesOn(c) \/ CreateFails(c) \/ RunFails(c))
  /\ WF_vars(\E c \in Slots : Resume(c))
  /\ \A j \in Jobs : WF_vars(JobEnds(j)) /\ WF_vars(\E r \in Runners : TakeJob(r, j))

FairSpec == Spec /\ Fairness

-----------------------------------------------------------------------------
(* Properties *)

(* Types; and a job that runs has its runner to itself, and keeps it, also     *)
(* when calls overlap, until it has ended or the process is told to go.        *)
TypeOK ==
  /\ started \in BOOLEAN /\ paused \in BOOLEAN
  /\ made \in 0..MaxRunners /\ runner \in 0..made /\ consumerPool \in 0..made
  /\ pc \in [Calls -> {"idle", "creating", "starting", "stopping", "ending"}]
  /\ own \in [Calls -> 0..made]
  /\ live \subseteq 1..made /\ stopping \subseteq 1..made /\ open \subseteq 1..made
  /\ jobs \in [Jobs -> {"new", "queued", "running", "done", "refused", "cut"}]
  /\ on \in [Jobs -> 0..made]
  /\ phase \in {"new", "up", "told", "closing", "closed", "stuck", "gone"}
  /\ overlapped \in BOOLEAN /\ broken \in BOOLEAN /\ faults \in 0..MaxFaults
  /\ \A j \in Jobs : jobs[j] = "running" =>
       /\ on[j] \in live
       /\ \A i \in Jobs \ {j} : jobs[i] = "running" => on[i] # on[j]

(* While calls of syncState follow one another, the flags, the fields and what *)
(* Postgres sees agree: one runner at most works, the one the field holds,     *)
(* over an open pool; between calls nobody works unless the queue is started   *)
(* and not paused, and somebody does if it is and no connection failed; after  *)
(* stopConsumer nothing is left, and it never throws.  syncState has no lock,  *)
(* so overlapping calls keep none of this: see the README.                     *)
SequentialSyncIsSafe ==
  ~overlapped =>
    /\ Cardinality(live) <= 1
    /\ runner # 0 => consumerPool = runner /\ runner \in open \ stopping
    /\ phase # "stuck"
    /\ phase \notin {"new", "gone"} /\ (\A c \in Calls : pc[c] = "idle") =>
         /\ live \subseteq {runner}
         /\ runner # 0 => started /\ ~paused /\ open = {runner}
         /\ runner = 0 /\ started /\ ~paused => broken
         /\ ~broken => open \subseteq {runner}
    /\ phase = "closed" => runner = 0 /\ live = {}

(* However calls overlap, every runner that works is the one the field holds,  *)
(* or a call waits for its end: none is left that nobody can stop, and only    *)
(* one takes jobs.  syncState does not see to it; it comes from who calls it:  *)
(* only a job of the runner in the field pauses, and only a pause is resumed,  *)
(* so nobody finds the field empty while a call fills it.                      *)
RunnersAreHeld ==
  \A r \in live :
    r = runner \/ (r \in stopping /\ \E c \in Calls : pc[c] = "stopping" /\ own[c] = r)

(* An accepted job is taken while the server runs, however often the queue is  *)
(* paused and resumed, if no two calls overlapped and no connection failed:    *)
(* a resume that fails is not tried again.                                     *)
JobsAreTaken ==
  \A j \in Jobs :
    jobs[j] = "queued" ~> jobs[j] # "queued" \/ phase # "up" \/ overlapped \/ broken
=============================================================================
