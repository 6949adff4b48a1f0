--------------------------- MODULE PluginSchedule ---------------------------
(***************************************************************************)
(* The scheduler of plugin tasks (startPluginSchedules) on several servers *)
(* and the Redis lock (startRedlock) that lets one of them run the tasks.  *)
(*                                                                         *)
(* Redis executes the commands of one connection in order, and drops a key *)
(* when its time to live ends. A holder extends in half that time, so that *)
(* losing the key while one extends takes a fault: a blocked event loop, a *)
(* late or failed command. Overlapping reloads are taken as one.           *)
(***************************************************************************)
EXTENDS Integers, FiniteSets

CONSTANTS
  Servers,
  Names,       \* runEveryMinute, runEveryHour, runEveryDay
  Configs,     \* plugin configs
  MaxFaults,   \* bounds lost locks, failed commands, loads and tasks, crashes
  NoOne

Tasks == Names \X Configs

ASSUME ScheduleAssumption == NoOne \notin Servers /\ MaxFaults \in Nat

VARIABLES
  key,       \* the server whose value the lock key has in Redis
  lock,      \* each server's lock client, from startRedlock
  phase,     \* where each server is between its start and the end of stopSchedule
  load,      \* pluginSchedulePromise: "ready", "loading" or "failed"
  waiting,   \* cron callbacks that wait for pluginSchedulePromise
  running,   \* pluginSchedulePromises: tasks that are running
  awaited,   \* the promises waitForTasksToFinish waits for
  faults

redis == <<key, lock>>
cron  == <<load, waiting, running, awaited>>
vars  == <<redis, phase, cron, faults>>

(* pc: "due" (a timer runs tryToGetTheLock), a command sent, its answer on the *)
(* way, "holding" (a timer runs extendLock), "ended" (no timer left), "givenUp" *)
(* (none either, after an error that is not a LockError).                      *)
(* mine: the lock variable has the key's value, if the key is this server's.   *)
(* have: weHaveTheLock of the scheduler. lost: since it was acquired, the key  *)
(* ran out or was deleted by a failed extension (kept for the properties).     *)
Asked   == {"asking", "extending"}
Answers == {"granted", "refused", "thrown", "extended", "failed"}
GivenUp == {"thrown", "givenUp"}
Clients == [pc : {"due", "holding", "ended", "givenUp"} \cup Asked \cup Answers,
            mine : BOOLEAN, have : BOOLEAN, lost : BOOLEAN]

Phases == {"off", "up", "unlocking", "released", "waiting", "stopped"}

NoClient == [pc |-> "ended", mine |-> FALSE, have |-> FALSE, lost |-> FALSE]

Init ==
  /\ key = NoOne
  /\ lock = [s \in Servers |-> NoClient]
  /\ phase = [s \in Servers |-> "off"]
  /\ load = [s \in Servers |-> "ready"]
  /\ waiting = [s \in Servers |-> {}]
  /\ running = [s \in Servers |-> {}]
  /\ awaited = [s \in Servers |-> {}]
  /\ faults = 0

Fault == faults < MaxFaults /\ faults' = faults + 1

Goto(s, pc) == lock' = [lock EXCEPT ![s].pc = pc]

(* A timer set after stop finds stopped = TRUE, and that is the end of it. *)
Timer(s, pc) == IF phase[s] = "up" THEN pc ELSE "ended"

----------------------------------------------------------------------------
(* startRedlock *)

(* tryToGetTheLock does not look at stopped: a failed extension that ends after *)
(* stop asks again, until the connection is closed.                             *)
Ask(s) ==
  /\ lock[s].pc = "due" /\ phase[s] \in {"up", "released"}
  /\ Goto(s, "asking")
  /\ UNCHANGED <<key, phase, cron, faults>>

RedisLocks(s) ==
  /\ lock[s].pc = "asking"
  /\ IF key = NoOne
     THEN key' = s /\ lock' = [lock EXCEPT ![s].pc = "granted", ![s].mine = FALSE]
     ELSE key' = key /\ Goto(s, "refused")
  /\ UNCHANGED <<phase, cron, faults>>

(* The command fails, or only its answer is lost; redlock then deletes a key  *)
(* it may have set, or fails at that too. What it throws is a LockError, or    *)
(* whatever else went wrong in it.                                             *)
LockFails(s) ==
  /\ lock[s].pc = "asking" /\ Fault
  /\ \E answer \in {"refused", "thrown"} :
       \/ key' = key /\ Goto(s, answer)
       \/ /\ key = NoOne
          /\ key' = s
          /\ lock' = [lock EXCEPT ![s].pc = answer, ![s].mine = FALSE]
  /\ UNCHANGED <<phase, cron>>

(* The lock is ours, in redlock.ts and by onLock in schedule.ts. *)
Acquired(s) ==
  /\ lock[s].pc = "granted"
  /\ lock' = [lock EXCEPT ![s].pc = Timer(s, "holding"), ![s].have = TRUE,
                          ![s].mine = @ \/ phase[s] = "up", ![s].lost = key # s]
  /\ UNCHANGED <<key, phase, cron, faults>>

Refused_givesUp(s) ==
  /\ lock[s].pc = "refused"
  /\ Goto(s, "ended")
  /\ UNCHANGED <<key, phase, cron, faults>>

(* A LockError: try again after retryDelay. *)
Refused(s) ==
  /\ lock[s].pc = "refused"
  /\ Goto(s, Timer(s, "due"))
  /\ UNCHANGED <<key, phase, cron, faults>>

(* Any other error is reported, and no timer is set. *)
CannotLock(s) ==
  /\ lock[s].pc = "thrown"
  /\ Goto(s, Timer(s, "givenUp"))
  /\ UNCHANGED <<key, phase, cron, faults>>

Extend(s) ==
  /\ lock[s].pc = "holding"
  /\ Goto(s, "extending")
  /\ UNCHANGED <<key, phase, cron, faults>>

RedisExtends(s) ==
  /\ lock[s].pc = "extending"
  /\ Goto(s, IF key = s /\ lock[s].mine THEN "extended" ELSE "failed")
  /\ UNCHANGED <<key, phase, cron, faults>>

(* A command that fails, or an answer that is late or lost: redlock deletes the *)
(* key that it could not extend, if that succeeds.                              *)
ExtendFails(s) ==
  /\ lock[s].pc = "extending" /\ Fault
  /\ \/ key' = key /\ Goto(s, "failed")
     \/ /\ key = s /\ lock[s].mine
        /\ key' = NoOne
        /\ lock' = [lock EXCEPT ![s].pc = "failed", ![s].lost = TRUE]
  /\ UNCHANGED <<phase, cron>>

Extended(s) ==
  /\ lock[s].pc = "extended"
  /\ Goto(s, Timer(s, "holding"))
  /\ UNCHANGED <<key, phase, cron, faults>>

(* "cannot extend": start over. Only redlock.ts forgets that it has the lock; *)
(* onUnlock is not called.                                                    *)
CannotExtend(s) ==
  /\ lock[s].pc = "failed"
  /\ Goto(s, "due")
  /\ UNCHANGED <<key, phase, cron, faults>>

(* The key's time to live ends. *)
RunsOut(s) ==
  /\ key = s
  /\ key' = NoOne
  /\ lock' = [lock EXCEPT ![s].lost = TRUE]
  /\ UNCHANGED <<phase, cron>>

Extends(s) == phase[s] = "up" /\ lock[s].pc \in {"granted", "holding", "extending", "extended"}

(* Nobody extends it any more, or whoever does is late. *)
Expire(s)   == ~Extends(s) /\ RunsOut(s) /\ UNCHANGED faults
LoseLock(s) == Extends(s) /\ RunsOut(s) /\ Fault

----------------------------------------------------------------------------
(* startPluginSchedules *)

(* The schedule is loaded and the first attempt at the lock is due. *)
Start(s) ==
  /\ phase[s] = "off"
  /\ phase' = [phase EXCEPT ![s] = "up"]
  /\ lock' = [lock EXCEPT ![s] = [NoClient EXCEPT !.pc = "due"]]
  /\ UNCHANGED <<key, cron, faults>>

(* runScheduleDebounced, for the tasks named N of whatever schedule is loaded: *)
(* one that still runs is skipped.                                             *)
RunScheduleDebounced(s, N) ==
  \E T \in SUBSET (N \X Configs) : running' = [running EXCEPT ![s] = @ \cup T]

(* A cron job of the holder: it runs its tasks, after a reload that is going on; *)
(* nothing when the last load failed.                                            *)
Tick(s, n) ==
  /\ phase[s] = "up" /\ lock[s].have
  /\ \/ load[s] = "ready" /\ RunScheduleDebounced(s, {n}) /\ UNCHANGED waiting
     \/ load[s] = "loading" /\ waiting' = [waiting EXCEPT ![s] = @ \cup {n}] /\ UNCHANGED running
  /\ UNCHANGED <<redis, phase, load, awaited, faults>>

(* reloadSchedule, on a message to reload the plugins *)
Reload(s) ==
  /\ phase[s] = "up" /\ load[s] # "loading"
  /\ load' = [load EXCEPT ![s] = "loading"]
  /\ UNCHANGED <<redis, phase, waiting, running, awaited, faults>>

(* The new schedule is there; callbacks that waited for it go on, and do not  *)
(* look at stopped or at the lock again.                                      *)
Loaded(s) ==
  /\ load[s] = "loading"
  /\ load' = [load EXCEPT ![s] = "ready"]
  /\ RunScheduleDebounced(s, waiting[s])
  /\ waiting' = [waiting EXCEPT ![s] = {}]
  /\ UNCHANGED <<redis, phase, awaited, faults>>

(* loadPluginSchedule gives up: the callbacks reject, as all do until a reload. *)
LoadFails(s) ==
  /\ load[s] = "loading" /\ Fault
  /\ load' = [load EXCEPT ![s] = "failed"]
  /\ waiting' = [waiting EXCEPT ![s] = {}]
  /\ UNCHANGED <<redis, phase, running, awaited>>

TaskEnds(s, t) ==
  /\ t \in running[s]
  /\ running' = [running EXCEPT ![s] = @ \ {t}]
  /\ awaited' = [awaited EXCEPT ![s] = @ \ {t}]
  /\ UNCHANGED <<redis, phase, load, waiting, faults>>

(* Its thread dies: Promise.all of waitForTasksToFinish rejects at once. *)
TaskFails(s, t) ==
  /\ t \in running[s] /\ Fault
  /\ running' = [running EXCEPT ![s] = @ \ {t}]
  /\ IF t \in awaited[s]
     THEN phase' = [phase EXCEPT ![s] = "stopped"] /\ awaited' = [awaited EXCEPT ![s] = {}]
     ELSE UNCHANGED <<phase, awaited>>
  /\ UNCHANGED <<redis, load, waiting>>

----------------------------------------------------------------------------
(* stopSchedule: no timers, unlock(), redis.quit(), onUnlock(), and then the  *)
(* tasks that are still running are waited for.                               *)

Stop(s) ==
  /\ phase[s] = "up"
  /\ phase' = [phase EXCEPT ![s] = IF lock[s].mine THEN "unlocking" ELSE "released"]
  /\ lock' = [lock EXCEPT ![s].pc = IF @ \in {"due", "holding"} THEN "ended" ELSE @,
                          ![s].mine = @ /\ key = s]
  /\ UNCHANGED <<key, cron, faults>>

Unlock_anyones(s) ==
  /\ phase[s] = "unlocking" /\ lock[s].pc \notin Asked
  /\ key' = NoOne
  /\ phase' = [phase EXCEPT ![s] = "released"]
  /\ UNCHANGED <<lock, cron, faults>>

(* Redis deletes the key if it has the value of our lock variable. *)
Unlock(s) ==
  /\ phase[s] = "unlocking" /\ lock[s].pc \notin Asked
  /\ key' = IF key = s /\ lock[s].mine THEN NoOne ELSE key
  /\ phase' = [phase EXCEPT ![s] = "released"]
  /\ UNCHANGED <<lock, cron, faults>>

UnlockFails(s) ==
  /\ phase[s] = "unlocking" /\ Fault
  /\ phase' = [phase EXCEPT ![s] = "released"]
  /\ UNCHANGED <<redis, cron>>

QuitRedis_early(s) ==
  /\ phase[s] = "released"
  /\ phase' = [phase EXCEPT ![s] = "waiting"]
  /\ lock' = [lock EXCEPT ![s].have = FALSE]
  /\ awaited' = [awaited EXCEPT ![s] = running[s]]
  /\ UNCHANGED <<key, load, waiting, running, faults>>

(* quit() is answered after all commands sent before it; then onUnlock. *)
QuitRedis(s) ==
  /\ phase[s] = "released" /\ lock[s].pc \notin Asked \cup Answers
  /\ phase' = [phase EXCEPT ![s] = "waiting"]
  /\ lock' = [lock EXCEPT ![s].pc = "ended", ![s].have = FALSE]
  /\ awaited' = [awaited EXCEPT ![s] = running[s]]
  /\ UNCHANGED <<key, load, waiting, running, faults>>

Waited(s) ==
  /\ phase[s] = "waiting" /\ awaited[s] = {}
  /\ phase' = [phase EXCEPT ![s] = "stopped"]
  /\ UNCHANGED <<redis, cron, faults>>

Gone(s) ==
  /\ phase' = [phase EXCEPT ![s] = "off"]
  /\ lock' = [lock EXCEPT ![s] = NoClient]
  /\ load' = [load EXCEPT ![s] = "ready"]
  /\ waiting' = [waiting EXCEPT ![s] = {}]
  /\ running' = [running EXCEPT ![s] = {}]
  /\ awaited' = [awaited EXCEPT ![s] = {}]
  /\ UNCHANGED key

Exit(s)  == phase[s] = "stopped" /\ Gone(s) /\ UNCHANGED faults
Crash(s) == phase[s] # "off" /\ Gone(s) /\ Fault

Redlock(s) ==
  \/ Ask(s) \/ RedisLocks(s) \/ Acquired(s) \/ Refused(s) \/ CannotLock(s)
  \/ Extend(s) \/ RedisExtends(s) \/ Extended(s) \/ CannotExtend(s)

StopGoesOn(s) == Unlock(s) \/ QuitRedis(s) \/ Waited(s) \/ Exit(s)

Step(s) ==
  \/ Redlock(s) \/ LockFails(s) \/ ExtendFails(s) \/ Expire(s) \/ LoseLock(s)
  \/ Start(s) \/ Reload(s) \/ Loaded(s) \/ LoadFails(s) \/ (\E n \in Names : Tick(s, n))
  \/ (\E t \in Tasks : TaskEnds(s, t) \/ TaskFails(s, t))
  \/ Stop(s) \/ StopGoesOn(s) \/ UnlockFails(s) \/ Crash(s)

Next == \E s \in Servers : Step(s)

Spec == Init /\ [][Next]_vars

(* Timers fire, Redis answers and forgets keys, tasks and loads end. *)
Fairness ==
  \A s \in Servers :
    /\ WF_vars(Redlock(s)) /\ WF_vars(StopGoesOn(s))
    /\ WF_vars(Expire(s))
    /\ WF_vars(Loaded(s)) /\ \A t \in Tasks : WF_vars(TaskEnds(s, t))

LiveSpec == Spec /\ Fairness

----------------------------------------------------------------------------
(* Properties *)

(* Types; and a server past onUnlock has no timer left, no command under way, *)
(* and does not take itself for the holder again.                             *)
TypeOK ==
  /\ key \in Servers \cup {NoOne}
  /\ lock \in [Servers -> Clients]
  /\ phase \in [Servers -> Phases]
  /\ load \in [Servers -> {"ready", "loading", "failed"}]
  /\ waiting \in [Servers -> SUBSET Names]
  /\ running \in [Servers -> SUBSET Tasks]
  /\ awaited \in [Servers -> SUBSET Tasks]
  /\ faults \in 0..MaxFaults
  /\ \A s \in Servers :
       /\ awaited[s] \subseteq running[s]
       /\ phase[s] \in {"waiting", "stopped", "off"} => lock[s].pc = "ended" /\ ~lock[s].have

(* A scheduler that runs tasks because it has the lock does have it, unless    *)
(* its key ran out or its extension failed since: no unlock, retry or restart  *)
(* of another server takes it away. So two can be active only after one lost   *)
(* its lock.                                                                   *)
SchedulerHoldsTheLock ==
  \A s \in Servers : phase[s] = "up" /\ lock[s].have => key = s \/ lock[s].lost

(* Once servers are no longer started or stopped, and some are up that have    *)
(* not given up, there is always again one that schedules and holds the lock,  *)
(* whatever locks were lost or attempts failed before, and whoever left its    *)
(* key behind. A server that met an error other than a LockError never tries   *)
(* again until it is restarted: the others must take over from it.             *)
AlwaysAScheduler ==
  LET Steady == /\ \A s \in Servers : phase[s] \in {"up", "off"}
                /\ \E s \in Servers : phase[s] = "up" /\ lock[s].pc \notin GivenUp
  IN <>[]Steady => []<>(\E s \in Servers : phase[s] = "up" /\ lock[s].have /\ key = s)

(* A task runs on two servers only if one of them lost the lock (to its time to *)
(* live or a failed extension), or has given it up in stopSchedule and waits    *)
(* for its tasks to end: a reload, a skipped tick, a failed attempt or a        *)
(* restart does not make it so.                                                 *)
OverlapIsExplained ==
  \A s, r \in Servers :
    s # r /\ running[s] \cap running[r] # {} =>
      \E p \in {s, r} : phase[p] \notin {"up", "unlocking"} \/ lock[p].lost

=============================================================================
