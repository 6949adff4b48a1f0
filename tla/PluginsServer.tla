--------------------------- MODULE PluginsServer ---------------------------
(***************************************************************************)
(* The life of a plugin server process around its batch consumer: worker   *)
(* threads that queue what a task produced in their producers' buffers,    *)
(* signals, the shutdown sequence of closeJobs, and the ends a process can *)
(* come to. It composes EachBatch with, per server, the at-most-once       *)
(* buffers of its threads (AtMostOnceChannel, which KafkaProducerWrapper   *)
(* implements), seen as the set of messages queued and the set handed over.*)
(*                                                                         *)
(* The message a task leaves for an offset is identified with the offset:  *)
(* the ingested event, or its dead-letter entry.                           *)
(***************************************************************************)
EXTENDS EachBatch

CONSTANT MaxMishaps   \* bounds sends and dead-letter writes that fail, services that throw

ASSUME MishapsAssumption == MaxMishaps \in Nat

VARIABLES
  stage,       \* where closeJobs is: see Stages
  signals,     \* shutdownStatus: signals received by this incarnation
  buf,         \* messages in the buffers of the server's threads
  out,         \* messages handed to Kafka, outcome unknown
  safe,        \* written to Kafka, in the job queue, or dropped by a plugin on purpose
  casualties,  \* messages hit by a failed send, a failed dead-letter write, or a sudden end
  mishaps

threads == <<buf, out, safe, casualties>>
svars == <<vars, stage, signals, threads, mishaps>>

Stages == {"serving", "queue", "jobs", "teardown", "flush", "stuck", "off"}

ServerInit ==
  /\ Init
  /\ stage = [s \in Servers |-> "off"] /\ signals = [s \in Servers |-> 0]
  /\ buf = [s \in Servers |-> {}] /\ out = [s \in Servers |-> {}]
  /\ safe = {} /\ casualties = {} /\ mishaps = 0

Mishap == mishaps < MaxMishaps /\ mishaps' = mishaps + 1

----------------------------------------------------------------------------
(* Tasks and the threads' producers *)

(* A pipeline run ends with its event, or a dead-letter message, in the      *)
(* producer's buffer; or with the event in the job queue or dropped; or with *)
(* neither, when queueing the dead-letter message throws.                    *)
Leaves(s, o) ==
  \/ buf' = [buf EXCEPT ![s] = @ \cup {o}] /\ UNCHANGED <<out, safe, casualties, mishaps>>
  \/ safe' = safe \cup {o} /\ UNCHANGED <<buf, out, casualties, mishaps>>
  \/ casualties' = casualties \cup {o} /\ Mishap /\ UNCHANGED <<buf, out, safe>>

Answer(s, o) == Settle(s, o) /\ Leaves(s, o) /\ UNCHANGED <<stage, signals>>

AnswerStray(s, t) == SettleStray(s, t) /\ Leaves(s, t[1]) /\ UNCHANGED <<stage, signals>>

(* A thread's producer flushes: on a full buffer, or on its interval. *)
Flush(s, B) ==
  /\ B # {} /\ B \subseteq buf[s]
  /\ buf' = [buf EXCEPT ![s] = @ \ B]
  /\ out' = [out EXCEPT ![s] = @ \cup B]
  /\ UNCHANGED <<vars, stage, signals, safe, casualties, mishaps>>

Delivered(s, B) ==
  /\ B # {} /\ B \subseteq out[s]
  /\ out' = [out EXCEPT ![s] = @ \ B]
  /\ safe' = safe \cup B
  /\ UNCHANGED <<vars, stage, signals, buf, casualties, mishaps>>

SendFails(s, B) ==
  /\ B # {} /\ B \subseteq out[s] /\ Mishap
  /\ out' = [out EXCEPT ![s] = @ \ B]
  /\ casualties' = casualties \cup B
  /\ UNCHANGED <<vars, stage, signals, buf, safe>>

(* A thread dies with the tasks D and with what its producer held. *)
ThreadEnds(s, D) ==
  /\ ThreadDies(s, D)
  /\ \E H \in SUBSET (buf[s] \cup out[s]) :
       /\ buf' = [buf EXCEPT ![s] = @ \ H]
       /\ out' = [out EXCEPT ![s] = @ \ H]
       /\ casualties' = casualties \cup H
  /\ UNCHANGED <<stage, signals, safe, mishaps>>

----------------------------------------------------------------------------
(* The process *)

Consume(s) ==
  /\ Join(s) \/ LearnEvicted(s) \/ Commit(s) \/ Leave(s)
     \/ Fetch(s) \/ Bail(s) \/ StartGroup(s) \/ FinishGroup(s)
  /\ UNCHANGED <<stage, signals, threads, mishaps>>

Launch(s) ==
  /\ StartServer(s)
  /\ stage' = [stage EXCEPT ![s] = "serving"]
  /\ signals' = [signals EXCEPT ![s] = 0]
  /\ UNCHANGED <<threads, mishaps>>

(* SIGTERM, SIGINT or SIGHUP, killProcess or killGracefully: emits beforeExit, *)
(* which runs closeJobs. The first stops the queue and waits for it.           *)
FirstSignal(s) ==
  /\ stage[s] = "serving" /\ signals[s] = 0
  /\ Stop(s)
  /\ stage' = [stage EXCEPT ![s] = "queue"]
  /\ signals' = [signals EXCEPT ![s] = 1]
  /\ UNCHANGED <<threads, mishaps>>

(* A process that ends at once loses all that its threads hold. *)
SuddenEnd(s) ==
  /\ Crash(s)
  /\ buf' = [buf EXCEPT ![s] = {}] /\ out' = [out EXCEPT ![s] = {}]
  /\ casualties' = casualties \cup buf[s] \cup out[s]
  /\ UNCHANGED <<stage, safe, mishaps>>

(* A second signal: closeJobs says "Try again" and returns, and the handler *)
(* that awaited it goes on to process.exit(0).                              *)
SecondSignal(s) ==
  /\ signals[s] = 1
  /\ signals' = [signals EXCEPT ![s] = 2]
  /\ SuddenEnd(s)

(* A kill, an out-of-memory, or the exit that killGracefully forces. *)
Killed(s) == SuddenEnd(s) /\ UNCHANGED signals

QueueStopped_early(s) ==
  /\ stage[s] = "queue"
  /\ stage' = [stage EXCEPT ![s] = "jobs"]
  /\ UNCHANGED <<vars, signals, threads, mishaps>>

(* await queue.stop() has returned. *)
QueueStopped(s) ==
  /\ stage[s] = "queue" /\ con[s].pc = "idle" /\ ~con[s].member
  /\ stage' = [stage EXCEPT ![s] = "jobs"]
  /\ UNCHANGED <<vars, signals, threads, mishaps>>

(* Pub-sub, the job queue consumer, the plugin schedule and the MMDB server   *)
(* are stopped; one that throws ends closeJobs, and with it the way to exit.  *)
ServicesStopped(s) ==
  /\ stage[s] = "jobs"
  /\ \/ stage' = [stage EXCEPT ![s] = "teardown"] /\ UNCHANGED mishaps
     \/ stage' = [stage EXCEPT ![s] = "stuck"] /\ Mishap
  /\ UNCHANGED <<vars, signals, threads>>

TornDown_unflushed(s) ==
  /\ stage[s] = "teardown"
  /\ stage' = [stage EXCEPT ![s] = "flush"]
  /\ UNCHANGED <<vars, signals, threads, mishaps>>

(* stopPiscina: plugins are torn down, for up to 5 seconds; then every thread *)
(* flushes its producer.                                                      *)
TornDown(s) ==
  /\ stage[s] = "teardown"
  /\ stage' = [stage EXCEPT ![s] = "flush"]
  /\ out' = [out EXCEPT ![s] = @ \cup buf[s]]
  /\ buf' = [buf EXCEPT ![s] = {}]
  /\ UNCHANGED <<vars, signals, safe, casualties, mishaps>>

(* The flushes have returned: piscina.destroy(), closeHub, process.exit(0).   *)
(* What a task left behind by a dead thread queued since is dropped with its  *)
(* thread.                                                                    *)
Finish(s) ==
  /\ stage[s] = "flush" /\ out[s] = {}
  /\ Quit(s)
  /\ stage' = [stage EXCEPT ![s] = "off"]
  /\ buf' = [buf EXCEPT ![s] = {}]
  /\ UNCHANGED <<signals, out, safe, casualties, mishaps>>

ServerStep(s) ==
  \/ Consume(s) \/ Launch(s) \/ FirstSignal(s) \/ SecondSignal(s) \/ Killed(s)
  \/ QueueStopped(s) \/ ServicesStopped(s) \/ TornDown(s) \/ Finish(s)
  \/ \E o \in Offsets : Answer(s, o)
  \/ \E t \in con[s].strays : AnswerStray(s, t)
  \/ \E D \in SUBSET con[s].left : ThreadEnds(s, D)
  \/ \E B \in SUBSET (buf[s] \cup out[s]) : Flush(s, B) \/ Delivered(s, B) \/ SendFails(s, B)

ServerNext ==
  \/ Evict /\ UNCHANGED <<stage, signals, threads, mishaps>>
  \/ \E s \in Servers : ServerStep(s)

ServerSpec == ServerInit /\ [][ServerNext]_svars

(* Tasks end, Kafka answers, kafkajs and the shutdown sequence go on. *)
ServerFairness ==
  \A s \in Servers :
    /\ WF_svars(Consume(s))
    /\ WF_svars(\E o \in Offsets : Answer(s, o))
    /\ WF_svars(\E B \in SUBSET out[s] : Delivered(s, B))
    /\ WF_svars(QueueStopped(s)) /\ WF_svars(ServicesStopped(s))
    /\ WF_svars(TornDown(s)) /\ WF_svars(Finish(s))

LiveServerSpec == ServerSpec /\ ServerFairness

----------------------------------------------------------------------------
(* Properties *)

(* Threads and shutdown keep their types; a process that has gone holds nothing, *)
(* and one past queue.stop() has no batch and is out of the group.               *)
ServerTypeOK ==
  /\ TypeOK
  /\ stage \in [Servers -> Stages] /\ signals \in [Servers -> 0..2]
  /\ buf \in [Servers -> SUBSET Offsets] /\ out \in [Servers -> SUBSET Offsets]
  /\ safe \subseteq Offsets /\ casualties \subseteq Offsets /\ mishaps \in 0..MaxMishaps
  /\ \A s \in Servers :
       /\ con[s].pc = "down" => buf[s] = {} /\ out[s] = {}
       /\ con[s].pc # "down" /\ stage[s] \in {"jobs", "teardown", "flush", "stuck"} =>
            con[s].pc = "idle" /\ ~con[s].member /\ ~con[s].running

(* Kafka offsets are committed while the messages of their events still wait in *)
(* a thread's buffer. Still every committed message is safe, or on its way in a *)
(* live process, or was itself hit by a fault: a graceful shutdown loses none.  *)
InThreads == UNION {buf[s] \cup out[s] : s \in Servers}
CommittedIsAccountedFor == 1..committed \subseteq safe \cup casualties \cup InThreads

(* A process that is told to stop does, unless a service that closeJobs stops *)
(* throws: consuming, evicted, or in the middle of a batch.                   *)
ShutdownEnds ==
  \A s \in Servers : stage[s] = "queue" ~> (con[s].pc = "down" \/ stage[s] = "stuck")

=============================================================================
