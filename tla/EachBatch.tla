----------------------------- MODULE EachBatch -----------------------------
(***************************************************************************)
(* The batch consumer of the plugin server: eachBatch, its grouping by     *)
(* distinct id, and the KafkaQueue that runs it, for one partition of the  *)
(* ingestion topic and a consumer group of servers.                        *)
(*                                                                         *)
(* kafkajs and the group coordinator are external: a fetched batch starts  *)
(* after the consumer's resolved offset; a batch whose handler throws is   *)
(* fetched again; an evicted member goes on until a commit or a heartbeat  *)
(* tells it; consumer.stop() waits for the handler and leaves the group.   *)
(* A piscina task is rejected only when its thread dies; the rejection     *)
(* fails the batch at once and leaves the other tasks running (strays).    *)
(***************************************************************************)
EXTENDS Integers, FiniteSets

CONSTANTS
  Servers,
  N,            \* offsets 1..N
  Key,          \* Key[o]: team and distinct id of the message at o
  BATCH_SIZE,   \* WORKER_CONCURRENCY * TASKS_PER_WORKER
  ByKey,        \* TRUE: eachBatchIngestion; FALSE: eachBatchAsyncHandlers
  MaxFaults,    \* bounds evictions, stale batches, thread deaths and crashes
  NoOne

Offsets == 1..N

ASSUME EachBatchAssumption ==
  /\ N \in Nat \ {0} /\ BATCH_SIZE \in Nat \ {0} /\ MaxFaults \in Nat
  /\ ByKey \in BOOLEAN
  /\ NoOne \notin Servers
  /\ \A o \in Offsets : Key[o] = Key[o]

VARIABLES
  committed,   \* the group's committed offset: 1..committed is never fetched again
  owner,       \* the member the coordinator has assigned the partition to
  con,         \* each server's consumer
  settled,     \* offsets for which some task has returned a response
  faults

vars == <<committed, owner, con, settled, faults>>

(* pc: "down", "idle" (no batch), "batch" (about to take a group), "group"   *)
(* (tasks in flight). at: resolved offset; hi: end of the batch; to: end of  *)
(* the group; left: its unsettled offsets; strays: tasks of failed batches,  *)
(* each tagged with the number of the fault that left it behind.             *)
Consumers ==
  [pc : {"down", "idle", "batch", "group"}, member : BOOLEAN, running : BOOLEAN,
   at : 0..N, hi : 0..N, to : 0..N, left : SUBSET Offsets, strays : SUBSET (Offsets \X Nat)]

Down == [pc |-> "down", member |-> FALSE, running |-> FALSE,
         at |-> 0, hi |-> 0, to |-> 0, left |-> {}, strays |-> {}]

Init ==
  /\ committed = 0 /\ owner = NoOne
  /\ con = [s \in Servers |-> Down]
  /\ settled = {} /\ faults = 0

Fault == faults < MaxFaults /\ faults' = faults + 1

----------------------------------------------------------------------------
(* Grouping *)

Distinct_first(a, b) == \A j \in a..b : j # a => Key[j] # Key[a]

Distinct(a, b) == \A i, j \in a..b : i # j => Key[i] # Key[j]

IsGroup_overrun(a, b, hi) ==
  /\ b - a < BATCH_SIZE /\ b >= a
  /\ ByKey => Distinct(a, b)
  /\ \/ b = hi + 1
     \/ b - a + 1 = BATCH_SIZE
     \/ b = N

(* The group that starts at a ends at b: full, or at the end of the batch, or *)
(* before the first message whose id the group already has.                   *)
IsGroup(a, b, hi) ==
  /\ b \in a..hi /\ b - a < BATCH_SIZE
  /\ ByKey => Distinct(a, b)
  /\ \/ b = hi
     \/ b - a + 1 = BATCH_SIZE
     \/ b < hi /\ ByKey /\ ~Distinct(a, b + 1)

----------------------------------------------------------------------------
(* Group membership *)

(* GROUP_JOIN after start(): the coordinator assigns the partition, and the  *)
(* consumer goes on from the committed offset.                               *)
Join(s) ==
  /\ owner = NoOne /\ con[s].pc = "idle" /\ con[s].running /\ ~con[s].member
  /\ owner' = s
  /\ con' = [con EXCEPT ![s].member = TRUE, ![s].at = committed]
  /\ UNCHANGED <<committed, settled, faults>>

(* The session times out; the member learns of it only later. *)
Evict ==
  /\ owner # NoOne /\ Fault
  /\ owner' = NoOne
  /\ UNCHANGED <<committed, con, settled>>

(* kafkajs commits what is resolved, between groups or after the batch. *)
Commit(s) ==
  /\ owner = s /\ con[s].member /\ con[s].at > committed
  /\ committed' = con[s].at
  /\ UNCHANGED <<owner, con, settled, faults>>

StartServer(s) ==
  /\ con[s].pc = "down"
  /\ con' = [con EXCEPT ![s] = [Down EXCEPT !.pc = "idle", !.running = TRUE]]
  /\ UNCHANGED <<committed, owner, settled, faults>>

(* kafkajs sends heartbeats between batches too; one of them tells an evicted *)
(* member to join again.                                                      *)
LearnEvicted(s) ==
  /\ con[s].pc = "idle" /\ con[s].member /\ owner # s
  /\ con' = [con EXCEPT ![s].member = FALSE]
  /\ UNCHANGED <<committed, owner, settled, faults>>

(* KafkaQueue.stop *)
Stop(s) ==
  /\ con[s].pc # "down" /\ con[s].running
  /\ con' = [con EXCEPT ![s].running = FALSE]
  /\ UNCHANGED <<committed, owner, settled, faults>>

(* consumer.stop() returns once no handler runs, and has left the group. *)
Leave(s) ==
  /\ con[s].pc = "idle" /\ ~con[s].running /\ con[s].member
  /\ owner' = IF owner = s THEN NoOne ELSE owner
  /\ con' = [con EXCEPT ![s].member = FALSE]
  /\ UNCHANGED <<committed, settled, faults>>

(* The process ends: its tasks end with it, its session times out later. *)
Exit(s) ==
  /\ con[s].pc # "down"
  /\ con' = [con EXCEPT ![s] = Down]
  /\ owner' = IF owner = s THEN NoOne ELSE owner
  /\ UNCHANGED <<committed, settled>>

Quit(s) == Exit(s) /\ ~con[s].running /\ con[s].pc = "idle" /\ ~con[s].member /\ UNCHANGED faults

Crash(s) == Exit(s) /\ Fault

----------------------------------------------------------------------------
(* eachBatch *)

(* A poll returns some messages after the resolved offset, also to a member *)
(* that was evicted and does not know it.                                   *)
Fetch(s) ==
  /\ con[s].pc = "idle" /\ con[s].member /\ con[s].running
  /\ \E hi \in con[s].at + 1..N :
       con' = [con EXCEPT ![s].pc = "batch", ![s].hi = hi]
  /\ UNCHANGED <<committed, owner, settled, faults>>

(* What heartbeat() leaves of s's membership: it throws if s was evicted. *)
Heartbeat(s) == con[s].member /\ owner = s

Bail_staleOnly(s) ==
  /\ con[s].pc = "batch" /\ Fault
  /\ con' = [con EXCEPT ![s].pc = "idle", ![s].hi = 0, ![s].member = Heartbeat(s)]
  /\ UNCHANGED <<committed, owner, settled>>

(* Bailing out of the batch: the consumer is stopping, or the batch is stale. *)
Bail(s) ==
  /\ con[s].pc = "batch"
  /\ con' = [con EXCEPT ![s].pc = "idle", ![s].hi = 0, ![s].member = Heartbeat(s)]
  /\ \/ ~con[s].running /\ UNCHANGED faults
     \/ con[s].running /\ Fault
  /\ UNCHANGED <<committed, owner, settled>>

(* Promise.all(messageBatch.map(eachMessage)): the tasks of the group start. *)
StartGroup(s) ==
  /\ con[s].pc = "batch" /\ con[s].running
  /\ \E b \in Offsets :
       /\ IsGroup(con[s].at + 1, b, con[s].hi)
       /\ con' = [con EXCEPT ![s].pc = "group", ![s].to = b, ![s].left = con[s].at + 1..b]
  /\ UNCHANGED <<committed, owner, settled, faults>>

(* A task answers. createTaskRunner has turned an error into a response, so *)
(* that the message counts as handled whatever became of it.                *)
Settle(s, o) ==
  /\ o \in con[s].left
  /\ con' = [con EXCEPT ![s].left = @ \ {o}]
  /\ settled' = settled \cup {o}
  /\ UNCHANGED <<committed, owner, faults>>

SettleStray(s, t) ==
  /\ t \in con[s].strays
  /\ con' = [con EXCEPT ![s].strays = @ \ {t}]
  /\ settled' = settled \cup {t[1]}
  /\ UNCHANGED <<committed, owner, faults>>

FinishGroup_early(s) ==
  /\ con[s].pc = "group"
  /\ LET more == Heartbeat(s) /\ con[s].to < con[s].hi
     IN con' = [con EXCEPT ![s].pc = IF more THEN "batch" ELSE "idle",
                           ![s].hi = IF more THEN @ ELSE 0, ![s].to = 0, ![s].left = {},
                           ![s].at = con[s].to, ![s].member = Heartbeat(s)]
  /\ committed' \in {committed, IF Heartbeat(s) THEN con[s].to ELSE committed}
  /\ UNCHANGED <<owner, settled, faults>>

FinishGroup_unresolved(s) ==
  /\ con[s].pc = "group" /\ con[s].left = {}
  /\ con' = [con EXCEPT ![s].pc = "idle", ![s].hi = 0, ![s].to = 0, ![s].member = Heartbeat(s)]
  /\ UNCHANGED <<committed, owner, settled, faults>>

(* All tasks of the group have answered: resolveOffset of its last message,   *)
(* commitOffsetsIfNecessary, heartbeat, next group. The last two throw for an *)
(* evicted member, which fails the batch and makes it join again.             *)
FinishGroup(s) ==
  /\ con[s].pc = "group" /\ con[s].left = {}
  /\ LET more == Heartbeat(s) /\ con[s].to < con[s].hi
     IN con' = [con EXCEPT ![s].pc = IF more THEN "batch" ELSE "idle",
                           ![s].hi = IF more THEN @ ELSE 0, ![s].to = 0,
                           ![s].at = con[s].to, ![s].member = Heartbeat(s)]
  /\ committed' \in {committed, IF Heartbeat(s) THEN con[s].to ELSE committed}
  /\ UNCHANGED <<owner, settled, faults>>

(* A worker thread dies under the tasks D. Promise.all rejects: the batch     *)
(* fails, to be fetched again after the resolved offset, while the tasks of   *)
(* the other threads run on.                                                  *)
ThreadDies(s, D) ==
  /\ D # {} /\ D \subseteq con[s].left /\ Fault
  /\ con' = [con EXCEPT ![s].pc = "idle", ![s].hi = 0, ![s].to = 0, ![s].left = {},
                        ![s].strays = @ \cup ((con[s].left \ D) \X {faults'})]
  /\ UNCHANGED <<committed, owner, settled>>

Step(s) ==
  \/ Join(s) \/ LearnEvicted(s) \/ Commit(s) \/ StartServer(s) \/ Leave(s)
  \/ Fetch(s) \/ Bail(s) \/ StartGroup(s) \/ FinishGroup(s)
  \/ \E o \in Offsets : Settle(s, o)
  \/ \E t \in con[s].strays : SettleStray(s, t)
  \/ \E D \in SUBSET con[s].left : ThreadDies(s, D)
  \/ Stop(s) \/ Quit(s) \/ Crash(s)

Next == Evict \/ \E s \in Servers : Step(s)

(* Servers that are down are started again; a handler, kafkajs and the        *)
(* coordinator keep going. Nothing obliges a server to stop, or a task to     *)
(* fail.                                                                      *)
Fairness ==
  \A s \in Servers :
    /\ WF_vars(StartServer(s)) /\ WF_vars(Leave(s)) /\ WF_vars(Quit(s))
    /\ WF_vars(Join(s)) /\ WF_vars(LearnEvicted(s)) /\ WF_vars(Fetch(s)) /\ WF_vars(Commit(s))
    /\ WF_vars(Bail(s) /\ ~con[s].running)
    /\ WF_vars(StartGroup(s)) /\ WF_vars(FinishGroup(s))
    /\ WF_vars(\E o \in Offsets : Settle(s, o))
    /\ WF_vars(\E t \in con[s].strays : SettleStray(s, t))

Spec == Init /\ [][Next]_vars
LiveSpec == Spec /\ Fairness

----------------------------------------------------------------------------
(* Properties *)

(* Each consumer keeps its type, and works on a group inside its batch that *)
(* begins after what it has resolved.                                       *)
TypeOK ==
  /\ committed \in 0..N /\ owner \in Servers \cup {NoOne}
  /\ con \in [Servers -> Consumers]
  /\ settled \subseteq Offsets /\ faults \in 0..MaxFaults
  /\ \A s \in Servers :
       LET c == con[s] IN
       /\ c.pc = "batch" => c.at < c.hi
       /\ c.pc = "group" => c.at < c.to /\ c.to <= c.hi /\ c.left \subseteq c.at + 1..c.to
       /\ c.pc # "group" => c.left = {}

(* The group's committed offset only grows, and never passes a message no task *)
(* has answered for: what a server had in hand when it stopped, crashed, lost  *)
(* its session or a thread is delivered again.                                 *)
Log == INSTANCE AtLeastOnceLog WITH handled <- settled, cursor <- committed
ImplementsLog == Log!Spec

(* The tasks that are running for messages of id k; strays have a number. *)
Running(k) ==
  {t \in Servers \X Offsets \X (0..MaxFaults) :
     /\ Key[t[2]] = k
     /\ \/ t[3] = 0 /\ t[2] \in con[t[1]].left
        \/ <<t[2], t[3]>> \in con[t[1]].strays}

(* eachBatchIngestion breaks up a batch at an id it has already seen, so that  *)
(* events of one person are processed one at a time: two overlap only after an *)
(* eviction, a crash or a dead thread, and each of these adds at most one.     *)
OverlapNeedsAFault ==
  ByKey => \A o \in Offsets : Cardinality(Running(Key[o])) <= 1 + faults

(* When a message is started, every earlier message of its id has been handled, *)
(* whatever was redelivered, on whichever server.                               *)
StartsInOrder ==
  [][\A s \in Servers : \A o \in con'[s].left \ con[s].left :
       ByKey => \A i \in 1..o - 1 : Key[i] = Key[o] => i \in settled']_vars

(* Once servers are no longer stopped, the whole log is handled and committed, *)
(* although members are evicted, threads die and processes crash.              *)
EventuallyCommitted == <>[](\A s \in Servers : con[s].running) => <>(committed = N)

=============================================================================
