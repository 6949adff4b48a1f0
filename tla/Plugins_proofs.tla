--------------------------- MODULE Plugins_proofs ---------------------------
(* The plugins of the server: the scheduler of their tasks and its lock, and    *)
(* the VMs of a plugin config.                                                  *)
(*                                                                              *)
(* First the scheduler: its type invariant, that an active scheduler has the    *)
(* lock or has lost it, and when a task may run on two servers, for any number  *)
(* of servers and tasks and any faults.                                         *)
(*                                                                              *)
(* Then the VMs: that their attempts stay apart and that reloads converge, for  *)
(* any number of calls, reloads, VMs and retries.                               *)
EXTENDS PluginSchedule, PluginVMs, FiniteSetTheorems, TLAPS

Pcs == {"due", "holding", "ended", "givenUp"} \cup Asked \cup Answers

(* A server waits for tasks only in waitForTasksToFinish. *)
Inv ==
  /\ TypeOK /\ SchedulerHoldsTheLock
  /\ \A s \in Servers : awaited[s] # {} => phase[s] = "waiting"

(* The initial state satisfies the invariant. *)
LEMMA InitInv == ASSUME Init PROVE Inv
BY ScheduleAssumption DEF Init, Inv, TypeOK, SchedulerHoldsTheLock, NoClient, Clients, Phases, Asked, Answers

(* A client record with some fields replaced. *)
LEMMA ClientFields ==
  ASSUME NEW c \in Clients, NEW p \in Pcs,
         NEW m \in BOOLEAN, NEW h \in BOOLEAN, NEW l \in BOOLEAN
  PROVE  /\ [c EXCEPT !.pc = p] \in Clients
         /\ [c EXCEPT !.pc = p, !.mine = m] \in Clients
         /\ [c EXCEPT !.pc = p, !.have = h] \in Clients
         /\ [c EXCEPT !.pc = p, !.have = h, !.mine = m, !.lost = l] \in Clients
         /\ [c EXCEPT !.lost = l] \in Clients
         /\ [c EXCEPT !.pc = p].have = c.have /\ [c EXCEPT !.pc = p].lost = c.lost
         /\ [c EXCEPT !.pc = p, !.mine = m].have = c.have
         /\ [c EXCEPT !.pc = p, !.mine = m].lost = c.lost
         /\ [c EXCEPT !.pc = p, !.have = h].pc = p /\ [c EXCEPT !.pc = p, !.have = h].have = h
         /\ [c EXCEPT !.pc = p, !.have = h, !.mine = m, !.lost = l].lost = l
         /\ [c EXCEPT !.lost = l].pc = c.pc /\ [c EXCEPT !.lost = l].have = c.have
         /\ [c EXCEPT !.lost = l].lost = l
         /\ [c EXCEPT !.pc = p, !.lost = l] \in Clients
         /\ [c EXCEPT !.pc = p, !.lost = l].pc = p /\ [c EXCEPT !.pc = p, !.lost = l].have = c.have
         /\ [c EXCEPT !.pc = p, !.lost = l].lost = l
BY DEF Clients, Pcs

(* onLock: the key is this server's, unless it ran out in the meantime. *)
LEMMA AcquiredInv ==
  ASSUME Inv, NEW s \in Servers, Acquired(s) PROVE Inv'
<1>1. lock[s] \in Clients
  BY DEF Inv, TypeOK
<1>2. Timer(s, "holding") \in Pcs /\ TRUE \in BOOLEAN
  BY DEF Timer, Pcs
<1>3. PICK m \in BOOLEAN : m = (lock[s].mine \/ phase[s] = "up")
  OBVIOUS
<1>4. PICK l \in BOOLEAN : l = (key # s)
  OBVIOUS
<1> DEFINE d == [lock[s] EXCEPT !.pc = Timer(s, "holding"), !.have = TRUE, !.mine = m, !.lost = l]
<1>5. lock' = [lock EXCEPT ![s] = d]
  BY <1>1, <1>3, <1>4 DEF Acquired
<1>6. d \in Clients /\ d.lost = l
  BY <1>1, <1>2 DEF Clients, Pcs
<1>7. phase[s] \notin {"waiting", "stopped", "off"} /\ UNCHANGED <<key, phase, cron, faults>>
  BY DEF Acquired, Inv, TypeOK
<1> HIDE DEF d
<1>8. lock'[s] = d /\ \A r \in Servers \ {s} : lock'[r] = lock[r]
  BY <1>5 DEF Inv, TypeOK
<1>9. SchedulerHoldsTheLock'
  <2>1. ASSUME phase[s] = "up" PROVE key = s \/ lock'[s].lost
    BY <1>4, <1>6, <1>8
  <2> QED BY <2>1, <1>7, <1>8 DEF SchedulerHoldsTheLock, Inv
<1>10. TypeOK'
  BY <1>5, <1>6, <1>7, <1>8 DEF TypeOK, Inv, cron
<1> QED BY <1>7, <1>9, <1>10 DEF Inv, cron

(* Commands to Redis, their answers, and the key running out. *)
LEMMA RedlockInv ==
  ASSUME Inv, NEW s \in Servers,
         Redlock(s) \/ LockFails(s) \/ ExtendFails(s) \/ Expire(s) \/ LoseLock(s)
  PROVE Inv'
<1> USE ScheduleAssumption DEF Inv, TypeOK, SchedulerHoldsTheLock, Clients, Asked, Answers, Phases,
      cron, Goto, Fault, Timer
<1>1. CASE Ask(s) BY <1>1 DEF Ask
<1>2. CASE RedisLocks(s) \/ LockFails(s)
  <2>1. PICK c \in Clients : /\ lock' = [lock EXCEPT ![s] = c]
                            /\ c.have = lock[s].have /\ c.lost = lock[s].lost
    <3>1. lock[s] \in Clients
      OBVIOUS
    <3>2. \/ lock' = [lock EXCEPT ![s] = [lock[s] EXCEPT !.pc = "granted", !.mine = FALSE]]
          \/ \E p \in {"refused", "thrown"} :
               \/ lock' = [lock EXCEPT ![s] = [lock[s] EXCEPT !.pc = p, !.mine = FALSE]]
               \/ lock' = [lock EXCEPT ![s] = [lock[s] EXCEPT !.pc = p]]
      BY <1>2, <3>1 DEF RedisLocks, LockFails
    <3>3. PICK p \in {"granted", "refused", "thrown"} :
            \/ lock' = [lock EXCEPT ![s] = [lock[s] EXCEPT !.pc = p, !.mine = FALSE]]
            \/ lock' = [lock EXCEPT ![s] = [lock[s] EXCEPT !.pc = p]]
      BY <3>2
    <3>6. p \in Pcs /\ FALSE \in BOOLEAN
      BY DEF Pcs
    <3> HIDE DEF Clients, Inv, TypeOK, SchedulerHoldsTheLock, Asked, Answers
    <3>4. [lock[s] EXCEPT !.pc = p] \in Clients /\ [lock[s] EXCEPT !.pc = p, !.mine = FALSE] \in Clients
      BY <3>1, <3>6, ClientFields
    <3>5. /\ [lock[s] EXCEPT !.pc = p].have = lock[s].have
          /\ [lock[s] EXCEPT !.pc = p].lost = lock[s].lost
          /\ [lock[s] EXCEPT !.pc = p, !.mine = FALSE].have = lock[s].have
          /\ [lock[s] EXCEPT !.pc = p, !.mine = FALSE].lost = lock[s].lost
      BY <3>1 DEF Clients
    <3> QED BY <3>3, <3>4, <3>5
  <2>2. key' \in {key, s} /\ (key' # key => key = NoOne)
    BY <1>2 DEF RedisLocks, LockFails
  <2>3. phase[s] \notin {"waiting", "stopped", "off"} /\ phase' = phase
    BY <1>2 DEF RedisLocks, LockFails
  <2>4. SchedulerHoldsTheLock'
    BY <2>1, <2>2, <2>3
  <2>5. faults' \in 0..MaxFaults /\ UNCHANGED cron
    BY <1>2 DEF RedisLocks, LockFails
  <2> QED BY <2>1, <2>2, <2>3, <2>4, <2>5
<1>4. CASE Acquired(s) BY <1>4, AcquiredInv
<1>5. CASE Refused(s) BY <1>5 DEF Refused
<1>12. CASE CannotLock(s) BY <1>12 DEF CannotLock
<1>6. CASE Extend(s) BY <1>6 DEF Extend
<1>7. CASE RedisExtends(s) BY <1>7 DEF RedisExtends
<1>8. CASE ExtendFails(s)
  <2>1. CASE key' = key /\ Goto(s, "failed")
    BY <1>8, <2>1 DEF ExtendFails
  <2>2. CASE key = s /\ key' = NoOne /\ lock' = [lock EXCEPT ![s].pc = "failed", ![s].lost = TRUE]
    <3>1. PICK c \in Clients : lock' = [lock EXCEPT ![s] = c] /\ c.have = lock[s].have /\ c.lost
      <4>1. lock[s] \in Clients /\ "failed" \in Pcs
        BY DEF Pcs
      <4>2. lock' = [lock EXCEPT ![s] = [lock[s] EXCEPT !.pc = "failed", !.lost = TRUE]]
        BY <2>2, <4>1
      <4> HIDE DEF Clients, Inv, TypeOK, SchedulerHoldsTheLock, Asked, Answers
      <4> QED BY <4>1, <4>2, ClientFields
    <3>2. lock[s].pc = "extending" /\ UNCHANGED <<phase, cron>> /\ faults' \in 0..MaxFaults
      BY <1>8 DEF ExtendFails
    <3>3. key \in Servers /\ key' = NoOne /\ key = s
      BY <2>2
    <3>4. lock' \in [Servers -> Clients] /\ lock'[s] = c
          /\ \A r \in Servers \ {s} : lock'[r] = lock[r]
      BY <3>1
    <3>5. phase[s] \notin {"waiting", "stopped", "off"}
      BY <3>2
    <3>6. SchedulerHoldsTheLock'
      BY <3>1, <3>2, <3>3, <3>4
    <3>7. TypeOK'
      BY <3>2, <3>3, <3>4, <3>5
    <3> QED BY <3>2, <3>6, <3>7
  <2> QED BY <1>8, <2>1, <2>2 DEF ExtendFails
<1>9. CASE Extended(s) BY <1>9 DEF Extended
<1>10. CASE CannotExtend(s) BY <1>10 DEF CannotExtend
<1>11. CASE Expire(s) \/ LoseLock(s)
  <2>1. PICK c \in Clients : /\ lock' = [lock EXCEPT ![s] = c]
                            /\ c.pc = lock[s].pc /\ c.have = lock[s].have /\ c.lost
    <3>1. lock[s] \in Clients
      OBVIOUS
    <3>2. lock' = [lock EXCEPT ![s] = [lock[s] EXCEPT !.lost = TRUE]]
      BY <1>11, <3>1 DEF Expire, LoseLock, RunsOut
    <3> DEFINE d == [lock[s] EXCEPT !.lost = TRUE]
    <3>3. d \in Clients /\ d.pc = lock[s].pc /\ d.have = lock[s].have /\ d.lost
      BY <3>1
    <3> HIDE DEF Clients, Inv, TypeOK, SchedulerHoldsTheLock
    <3> QED BY <3>2, <3>3
  <2>2. key = s /\ key' = NoOne /\ UNCHANGED <<phase, cron>> /\ faults' \in 0..MaxFaults
    BY <1>11 DEF Expire, LoseLock, RunsOut
  <2> QED BY <2>1, <2>2
<1> QED BY <1>1, <1>2, <1>4, <1>5, <1>6, <1>7, <1>8, <1>9, <1>10, <1>11, <1>12 DEF Redlock

(* Cron jobs, reloads and tasks. *)
LEMMA CronInv ==
  ASSUME Inv, NEW s \in Servers,
         \/ Reload(s) \/ Loaded(s) \/ LoadFails(s) \/ (\E n \in Names : Tick(s, n))
         \/ (\E t \in Tasks : TaskEnds(s, t) \/ TaskFails(s, t))
  PROVE Inv'
<1> USE ScheduleAssumption DEF Inv, TypeOK, SchedulerHoldsTheLock, Clients, Asked, Answers, Phases,
      redis, Fault
<1>1. CASE Reload(s) BY <1>1 DEF Reload
<1>2. CASE Loaded(s) BY <1>2 DEF Loaded, RunScheduleDebounced, Tasks
<1>3. CASE LoadFails(s) BY <1>3 DEF LoadFails
<1>4. ASSUME NEW n \in Names, Tick(s, n) PROVE Inv'
  <2>1. CASE load[s] = "ready"
    BY <1>4, <2>1, SMTT(30) DEF Tick, RunScheduleDebounced, Tasks
  <2>2. CASE load[s] = "loading"
    BY <1>4, <2>2 DEF Tick
  <2> QED BY <1>4, <2>1, <2>2 DEF Tick
<1>5. ASSUME NEW t \in Tasks, TaskEnds(s, t) PROVE Inv'
  BY <1>5 DEF TaskEnds
<1>6. ASSUME NEW t \in Tasks, TaskFails(s, t) PROVE Inv'
  <2>1. CASE t \in awaited[s]
    <3>1. phase[s] = "waiting" /\ lock[s].pc = "ended" /\ ~lock[s].have
      BY <2>1
    <3>2. phase' = [phase EXCEPT ![s] = "stopped"] /\ awaited' = [awaited EXCEPT ![s] = {}]
          /\ running' = [running EXCEPT ![s] = @ \ {t}] /\ faults' \in 0..MaxFaults
          /\ UNCHANGED <<key, lock, load, waiting>>
      BY <1>6, <2>1 DEF TaskFails
    <3> QED BY <3>1, <3>2
  <2>2. CASE t \notin awaited[s]
    BY <1>6, <2>2 DEF TaskFails
  <2> QED BY <2>1, <2>2
<1> QED BY <1>1, <1>2, <1>3, <1>4, <1>5, <1>6

(* Starting, stopping and crashing. *)
LEMMA LifeInv ==
  ASSUME Inv, NEW s \in Servers,
         Start(s) \/ Stop(s) \/ StopGoesOn(s) \/ UnlockFails(s) \/ Crash(s)
  PROVE Inv'
<1> USE ScheduleAssumption DEF Inv, TypeOK, SchedulerHoldsTheLock, Clients, Asked, Answers, Phases,
      redis, cron, NoClient, Fault
<1>1. CASE Start(s) BY <1>1 DEF Start
<1>2. CASE Stop(s)
  <2>1. PICK c \in Clients : lock' = [lock EXCEPT ![s] = c]
    <3>1. lock[s] \in Clients /\ lock[s].pc \in Pcs /\ "ended" \in Pcs
      BY DEF Pcs
    <3>2. PICK p \in {lock[s].pc, "ended"}, m \in BOOLEAN :
            lock' = [lock EXCEPT ![s] = [lock[s] EXCEPT !.pc = p, !.mine = m]]
      <4>1. PICK m \in BOOLEAN : m = (lock[s].mine /\ key = s)
        OBVIOUS
      <4>2. PICK p \in {lock[s].pc, "ended"} :
              lock' = [lock EXCEPT ![s] = [lock[s] EXCEPT !.pc = p, !.mine = lock[s].mine /\ key = s]]
        BY <1>2, <3>1 DEF Stop
      <4> QED BY <4>1, <4>2
    <3>4. p \in Pcs
      BY <3>1
    <3> HIDE DEF Clients, Inv, TypeOK, SchedulerHoldsTheLock, Asked, Answers
    <3>3. [lock[s] EXCEPT !.pc = p, !.mine = m] \in Clients
      BY <3>1, <3>4, ClientFields
    <3> QED BY <3>2, <3>3
  <2>2. phase' \in [Servers -> Phases] /\ phase'[s] \in {"unlocking", "released"}
        /\ (\A r \in Servers \ {s} : phase'[r] = phase[r]) /\ phase[s] = "up"
    BY <1>2 DEF Stop
  <2>3. UNCHANGED <<key, cron, faults>>
    BY <1>2 DEF Stop
  <2>4. lock'[s] \in Clients /\ \A r \in Servers \ {s} : lock'[r] = lock[r]
    BY <2>1
  <2>5. awaited[s] = {}
    BY <2>2
  <2>6. SchedulerHoldsTheLock'
    BY <2>2, <2>3, <2>4
  <2>7. TypeOK'
    <3>1. ASSUME NEW r \in Servers PROVE
             /\ awaited'[r] \subseteq running'[r]
             /\ phase'[r] \in {"waiting", "stopped", "off"} =>
                  lock'[r].pc = "ended" /\ ~lock'[r].have
      BY <2>2, <2>3, <2>4
    <3>2. lock' \in [Servers -> Clients]
      BY <2>1
    <3>3. /\ key' \in Servers \cup {NoOne} /\ faults' \in 0..MaxFaults
          /\ load' \in [Servers -> {"ready", "loading", "failed"}]
          /\ waiting' \in [Servers -> SUBSET Names]
          /\ running' \in [Servers -> SUBSET Tasks] /\ awaited' \in [Servers -> SUBSET Tasks]
      BY <2>3
    <3> HIDE DEF Inv, SchedulerHoldsTheLock, Clients, Phases
    <3> QED BY <2>2, <3>1, <3>2, <3>3
  <2>8. \A r \in Servers : awaited'[r] # {} => phase'[r] = "waiting"
    BY <2>2, <2>3, <2>5
  <2> HIDE DEF TypeOK, SchedulerHoldsTheLock, Clients, Phases
  <2> QED BY <2>6, <2>7, <2>8
<1>3. CASE Unlock(s) BY <1>3 DEF Unlock
<1>4. CASE UnlockFails(s) BY <1>4 DEF UnlockFails
<1>5. CASE QuitRedis(s)
  <2>1. PICK c \in Clients : /\ lock' = [lock EXCEPT ![s] = c]
                            /\ c.pc = "ended" /\ ~c.have
    <3>1. lock[s] \in Clients
      OBVIOUS
    <3>2. lock' = [lock EXCEPT ![s] = [lock[s] EXCEPT !.pc = "ended", !.have = FALSE]]
      BY <1>5, <3>1 DEF QuitRedis
    <3> DEFINE d == [lock[s] EXCEPT !.pc = "ended", !.have = FALSE]
    <3>3. d \in Clients /\ d.pc = "ended" /\ ~d.have
      BY <3>1
    <3> HIDE DEF Clients, Inv, TypeOK, SchedulerHoldsTheLock
    <3> QED BY <3>2, <3>3
  <2>2. phase' = [phase EXCEPT ![s] = "waiting"] /\ awaited' = [awaited EXCEPT ![s] = running[s]]
        /\ UNCHANGED <<key, load, waiting, running, faults>>
    BY <1>5 DEF QuitRedis
  <2> QED BY <2>1, <2>2
<1>6. CASE Waited(s) BY <1>6 DEF Waited
<1>7. CASE Exit(s) BY <1>7 DEF Exit, Gone
<1>8. CASE Crash(s) BY <1>8 DEF Crash, Gone
<1> QED BY <1>1, <1>2, <1>3, <1>4, <1>5, <1>6, <1>7, <1>8 DEF StopGoesOn

(* Every step preserves the invariant: no unlock or retry of a server touches *)
(* the key of another.                                                        *)
THEOREM ScheduleInvariant == Spec => []Inv
<1>1. Init => Inv
  BY InitInv
<1>2. Inv /\ [Next]_vars => Inv'
  <2> SUFFICES ASSUME Inv, [Next]_vars PROVE Inv'
    OBVIOUS
  <2>1. CASE UNCHANGED vars
    BY <2>1 DEF vars, redis, cron, Inv, TypeOK, SchedulerHoldsTheLock
  <2>2. ASSUME NEW s \in Servers, Step(s) PROVE Inv'
    BY <2>2, RedlockInv, CronInv, LifeInv DEF Step
  <2> QED BY <2>1, <2>2 DEF Next
<1> QED BY <1>1, <1>2, PTL DEF Spec

(* TypeOK: types, and a server past onUnlock is quiet, for every instance. *)
THEOREM ScheduleTypeCorrect == Spec => []TypeOK
<1>1. Inv => TypeOK
  BY DEF Inv
<1> QED BY <1>1, ScheduleInvariant, PTL

(* SchedulerHoldsTheLock: an active scheduler has the lock, or lost it to its *)
(* time to live or a failed extension, for every instance.                    *)
THEOREM ScheduleHoldsTheLock == Spec => []SchedulerHoldsTheLock
<1>1. Inv => SchedulerHoldsTheLock
  BY DEF Inv
<1> QED BY <1>1, ScheduleInvariant, PTL

-----------------------------------------------------------------------------
(* Tasks on two servers *)

Active(s) == phase[s] \in {"up", "unlocking"}

(* What keeps running tasks and the lock together: a server that has not given *)
(* the lock up runs tasks, or will after a reload, only since it took the lock *)
(* for its own; and it has the lock, or lost it.                               *)
HolderInv(s) ==
  /\ Active(s) /\ (running[s] # {} \/ waiting[s] # {}) => lock[s].have
  /\ Active(s) /\ lock[s].have => key = s \/ lock[s].lost
  /\ phase[s] = "off" => running[s] = {} /\ waiting[s] = {} /\ load[s] = "ready"

Holders == \A s \in Servers : HolderInv(s)

(* A step of one server leaves another's alone, and its key. *)
LEMMA OthersUntouched ==
  ASSUME TypeOK, NEW s \in Servers, Step(s), NEW r \in Servers \ {s}
  PROVE  /\ lock'[r] = lock[r] /\ phase'[r] = phase[r] /\ load'[r] = load[r]
         /\ running'[r] = running[r] /\ waiting'[r] = waiting[r]
         /\ key = r => key' = r
<1> USE ScheduleAssumption DEF TypeOK, Goto, redis, cron
<1>1. CASE Redlock(s) \/ LockFails(s) \/ ExtendFails(s) \/ Expire(s) \/ LoseLock(s)
  <2>1. CASE Ask(s) \/ RedisLocks(s) \/ Acquired(s) \/ Refused(s) \/ CannotLock(s) \/ LockFails(s)
    BY <2>1 DEF Ask, RedisLocks, Acquired, Refused, CannotLock, LockFails
  <2>2. CASE Extend(s) \/ RedisExtends(s) \/ Extended(s) \/ CannotExtend(s) \/ ExtendFails(s)
    BY <2>2 DEF Extend, RedisExtends, Extended, CannotExtend, ExtendFails
  <2>3. CASE Expire(s) \/ LoseLock(s)
    BY <2>3 DEF Expire, LoseLock, RunsOut
  <2> QED BY <1>1, <2>1, <2>2, <2>3 DEF Redlock
<1>2. CASE \/ Start(s) \/ Reload(s) \/ Loaded(s) \/ LoadFails(s) \/ (\E n \in Names : Tick(s, n))
           \/ (\E t \in Tasks : TaskEnds(s, t) \/ TaskFails(s, t))
  <2>1. CASE Start(s) \/ Reload(s) \/ LoadFails(s)
    BY <2>1 DEF Start, Reload, LoadFails
  <2>2. CASE Loaded(s)
    BY <2>2 DEF Loaded, RunScheduleDebounced
  <2>3. ASSUME NEW n \in Names, Tick(s, n)
        PROVE  /\ lock'[r] = lock[r] /\ phase'[r] = phase[r] /\ load'[r] = load[r]
               /\ running'[r] = running[r] /\ waiting'[r] = waiting[r]
               /\ key = r => key' = r
    BY <2>3 DEF Tick, RunScheduleDebounced
  <2>4. CASE \E t \in Tasks : TaskEnds(s, t) \/ TaskFails(s, t)
    BY <2>4 DEF TaskEnds, TaskFails
  <2> QED BY <1>2, <2>1, <2>2, <2>3, <2>4
<1>3. CASE Stop(s) \/ StopGoesOn(s) \/ UnlockFails(s) \/ Crash(s)
  BY <1>3 DEF Stop, StopGoesOn, Unlock, QuitRedis, Waited, Exit, UnlockFails, Crash, Gone
<1> QED BY <1>1, <1>2, <1>3 DEF Step

(* What a step of s does to s. *)
LEMMA OwnHolderInv ==
  ASSUME TypeOK, NEW s \in Servers, HolderInv(s), Step(s) PROVE HolderInv(s)'
<1> USE ScheduleAssumption DEF TypeOK, HolderInv, Active, Goto, redis, cron, Clients
<1>1. CASE Redlock(s) \/ LockFails(s) \/ ExtendFails(s) \/ Expire(s) \/ LoseLock(s)
  <2>1. UNCHANGED <<phase, running, waiting, load>>
    BY <1>1 DEF Redlock, Ask, RedisLocks, Acquired, Refused, CannotLock, LockFails, Extend, RedisExtends,
                Extended, CannotExtend, ExtendFails, Expire, LoseLock, RunsOut
  <2>2. (lock'[s].have /\ ~lock[s].have) => lock'[s].lost \/ key' = s
    <3>1. CASE Acquired(s)
      BY <3>1 DEF Acquired
    <3>2. CASE Ask(s) \/ RedisLocks(s) \/ Refused(s) \/ CannotLock(s) \/ LockFails(s) \/ Extend(s)
      BY <3>2 DEF Ask, RedisLocks, Refused, CannotLock, LockFails, Extend
    <3>3. CASE RedisExtends(s) \/ Extended(s) \/ CannotExtend(s) \/ ExtendFails(s)
      BY <3>3 DEF RedisExtends, Extended, CannotExtend, ExtendFails
    <3>4. CASE Expire(s) \/ LoseLock(s)
      BY <3>4 DEF Expire, LoseLock, RunsOut
    <3> QED BY <1>1, <3>1, <3>2, <3>3, <3>4 DEF Redlock
  <2>3. lock[s].have => lock'[s].have
    BY <1>1 DEF Redlock, Ask, RedisLocks, Acquired, Refused, CannotLock, LockFails, Extend, RedisExtends,
                Extended, CannotExtend, ExtendFails, Expire, LoseLock, RunsOut
  <2>4. lock[s].have /\ (key = s \/ lock[s].lost) => key' = s \/ lock'[s].lost
    <3>1. CASE Acquired(s)
      BY <3>1 DEF Acquired
    <3>2. CASE Ask(s) \/ RedisLocks(s) \/ Refused(s) \/ CannotLock(s) \/ LockFails(s) \/ Extend(s)
      BY <3>2 DEF Ask, RedisLocks, Refused, CannotLock, LockFails, Extend
    <3>3. CASE RedisExtends(s) \/ Extended(s) \/ CannotExtend(s) \/ ExtendFails(s)
      BY <3>3 DEF RedisExtends, Extended, CannotExtend, ExtendFails
    <3>4. CASE Expire(s) \/ LoseLock(s)
      BY <3>4 DEF Expire, LoseLock, RunsOut
    <3> QED BY <1>1, <3>1, <3>2, <3>3, <3>4 DEF Redlock
  <2> QED BY <2>1, <2>2, <2>3, <2>4
<1>2. CASE Start(s)
  BY <1>2 DEF Start, NoClient
<1>3. CASE Reload(s) \/ LoadFails(s)
  BY <1>3 DEF Reload, LoadFails
<1>4. CASE Loaded(s)
  <2>1. waiting[s] = {} => running'[s] = running[s]
    <3>1. PICK T \in SUBSET (waiting[s] \X Configs) : running' = [running EXCEPT ![s] = @ \cup T]
      BY <1>4 DEF Loaded, RunScheduleDebounced
    <3>2. waiting[s] = {} => T = {}
      OBVIOUS
    <3> QED BY <3>1, <3>2
  <2> QED BY <1>4, <2>1 DEF Loaded
<1>5. ASSUME NEW n \in Names, Tick(s, n) PROVE HolderInv(s)'
  BY <1>5 DEF Tick, RunScheduleDebounced
<1>6. ASSUME NEW t \in Tasks, TaskEnds(s, t) \/ TaskFails(s, t) PROVE HolderInv(s)'
  BY <1>6 DEF TaskEnds, TaskFails
<1>7. CASE Stop(s) \/ UnlockFails(s)
  BY <1>7, SMTT(30) DEF Stop, UnlockFails
<1>8. CASE StopGoesOn(s) \/ Crash(s)
  BY <1>8 DEF StopGoesOn, Unlock, QuitRedis, Waited, Exit, Crash, Gone
<1> QED BY <1>1, <1>2, <1>3, <1>4, <1>5, <1>6, <1>7, <1>8 DEF Step

(* OverlapIsExplained: tasks of one name run twice only past unlock() or after *)
(* a lost lock, for any number of servers and tasks.                           *)
THEOREM ScheduleOverlapIsExplained == Spec => []OverlapIsExplained
<1>1. Init => Holders
  BY DEF Init, Holders, HolderInv, Active
<1>2. TypeOK /\ Holders /\ [Next]_vars => Holders'
  <2> SUFFICES ASSUME TypeOK, Holders, [Next]_vars PROVE Holders'
    OBVIOUS
  <2>1. CASE UNCHANGED vars
    BY <2>1 DEF vars, redis, cron, Holders, HolderInv, Active
  <2>2. ASSUME NEW s \in Servers, Step(s), NEW r \in Servers PROVE HolderInv(r)'
    <3>1. CASE r = s
      BY <2>2, <3>1, OwnHolderInv DEF Holders
    <3>2. CASE r # s
      BY <2>2, <3>2, OthersUntouched DEF Holders, HolderInv, Active
    <3> QED BY <3>1, <3>2
  <2> QED BY <2>1, <2>2 DEF Next, Holders
<1>3. Holders => OverlapIsExplained
  BY DEF Holders, HolderInv, Active, OverlapIsExplained
<1> QED BY <1>1, <1>2, <1>3, ScheduleTypeCorrect, PTL DEF Spec

-----------------------------------------------------------------------------
(* The VMs of a plugin config: the types of their fields *)

Kinds    == {"none", "lazy", "eager", "missing"}
VmStages == {"none", "loading", "settingUp", "resolved", "null", "failing", "hung"}
Doings   == {"none", "setup", "logging", "failing", "waiting", "over"}

VmRecords == [kind : Kinds, version : Nat, stage : VmStages, ready : BOOLEAN,
              inErroredState : BOOLEAN, count : Nat, timer : {"init"} \cup Timers,
              up : BOOLEAN, torn : BOOLEAN, raced : BOOLEAN, left : BOOLEAN]
CallRecords   == [pc : {"new", "waiting", "decided", "settingUp", "answered"}, vm : 0..MaxVms]
ReloadRecords == [pc : {"new", "rows", "loading", "schedule", "ended"}, seen : Nat, vm : 0..MaxVms]

Attempts == [Starters -> Doings]

VmTypes ==
  /\ row \in [version : Nat, enabled : BOOLEAN]
  /\ made \in 0..MaxVms /\ current \in 0..made
  /\ vm \in [Vms -> VmRecords]
  /\ attempt \in [Vms -> Attempts]
  /\ call \in [Calls -> CallRecords]
  /\ reload \in [Reloads -> ReloadRecords]
  /\ crossings \in Nat
  /\ vmFaults \in Nat
  /\ \A c \in Calls : /\ call[c].vm <= made
                      /\ call[c].pc \in {"waiting", "decided", "settingUp"} => call[c].vm # 0
  /\ \A r \in Reloads : reload[r].vm <= made
  /\ \A v \in Vms : v > made => vm[v] = NewVm /\ \A w \in Starters : attempt[v][w] = "none"

(* The attempts of a VM by what they do, and the timers it has set. *)
At(v, s) == {w \in Starters : attempt[v][w] = s}
Spent(v) == {t \in Timers : attempt[v][t] # "none"}

(* _setupPlugin counts an attempt before it is made, and asks for a retry only   *)
(* below VM_INIT_MAX_RETRIES: so retries set or about to be set, with the        *)
(* attempts that may still ask for one, never exceed the count.                  *)
Counted(v) ==
  /\ IsFiniteSet(At(v, "setup")) /\ IsFiniteSet(At(v, "logging"))
  /\ Cardinality(Spent(v)) + Cardinality(At(v, "logging")) + Cardinality(At(v, "setup"))
       <= vm[v].count
  /\ Cardinality(Spent(v)) + Cardinality(At(v, "logging")) <= VM_INIT_MAX_RETRIES - 1

(* Calls that have decided to set the VM up; and all who set it up or will.      *)
Decided(v) == {c \in Calls : call[c].pc = "decided" /\ call[c].vm = v}
Busy(v)    == UnderWay(v) \cup Pending(v) \cup Decided(v)

(* How the fields of a VM, its attempts and the calls go together: a call whose  *)
(* attempt is under way waits for it, initialize waits for its own, an eager VM  *)
(* that resolved is ready and is set up by no call.                              *)
Linked(v) ==
  /\ \A c \in Calls : c \in UnderWay(v) => call[c].pc = "settingUp" /\ call[c].vm = v
  /\ \A c \in Calls : call[c].pc \in {"decided", "settingUp"} /\ call[c].vm = v =>
        vm[v].kind # "eager" /\ vm[v].stage = "resolved"
  /\ "init" \in UnderWay(v) => vm[v].stage = "settingUp"
  /\ vm[v].stage = "settingUp" => vm[v].kind = "eager"
  /\ vm[v].stage \in {"none", "loading"} => /\ UnderWay(v) \cup Pending(v) = {} /\ vm[v].count = 0
                                  /\ ~vm[v].up /\ ~vm[v].inErroredState
  /\ vm[v].kind = "eager" /\ vm[v].stage = "resolved" => vm[v].ready
  /\ vm[v].up => vm[v].ready
  /\ \A w \in Starters : attempt[v][w] = "failing" => vm[v].inErroredState
  /\ \A w \in Starters : attempt[v][w] \in {"waiting", "over"} => w \in Timers

(* Why the attempts of a VM stay apart, if it is eager or they happened not to   *)
(* meet: whoever is busy with it is alone; one that may go on has not used up    *)
(* the retries, and the VM did not fail for good; the timer that waits is the    *)
(* one that teardown clears; and a call can only decide, the attempts all over   *)
(* without success or failure, if there was none.                                *)
Sole(v) ==
  vm[v].kind = "eager" \/ ~vm[v].raced =>
    /\ \A a, b \in Busy(v) : a = b
    /\ \A w \in Starters : attempt[v][w] \in {"logging", "waiting"} =>
         vm[v].count < VM_INIT_MAX_RETRIES
    /\ vm[v].count <= VM_INIT_MAX_RETRIES
    /\ vm[v].up => Busy(v) = {} /\ ~vm[v].inErroredState
    /\ vm[v].inErroredState =>
         Decided(v) = {} /\ \A w \in Starters : attempt[v][w] \notin {"setup", "logging", "waiting"}
    /\ vm[v].torn /\ ~vm[v].raced => UnderWay(v) \cup Pending(v) = {}
    /\ \A t \in Timers : attempt[v][t] = "waiting" => vm[v].timer = t
    /\ ~vm[v].torn /\ Decided(v) # {} => vm[v].count = 0
    /\ /\ Busy(v) = {} /\ vm[v].stage = "resolved"
       /\ ~vm[v].up /\ ~vm[v].inErroredState /\ ~vm[v].torn
       => vm[v].count = 0

AloneInv == \A v \in Vms : Counted(v) /\ Linked(v) /\ Sole(v)

(* Reloads that have rows, or a VM still to put in use.                          *)
Reloading(r) == reload[r].pc \in {"rows", "loading"}

Newest(v) == \A u \in 1..made : vm[u].version <= vm[v].version

(* No version is newer than the row; and while no two reloads crossed, at        *)
(* most one is under way, the rows it read are no older than any VM, and the VM  *)
(* it made is the newest, with the one in use torn down.                         *)
InTurn ==
  /\ \A v \in 1..made : vm[v].version <= row.version
  /\ \A r \in Reloads : reload[r].pc = "rows" => reload[r].seen <= row.version
  /\ crossings = 0 =>
       /\ \A q, r \in Reloads : Reloading(q) /\ Reloading(r) => q = r
       /\ \A r \in Reloads : reload[r].pc = "rows" /\ reload[r].seen # 0 =>
            \A v \in 1..made : vm[v].version <= reload[r].seen
       /\ \A r \in Reloads : reload[r].pc = "loading" /\ reload[r].vm \notin {0, current} =>
            /\ reload[r].vm = made /\ made > current /\ ~vm[made].torn /\ Newest(made)
            /\ current # 0 => vm[current].torn

-----------------------------------------------------------------------------
(* Steps on one VM *)

(* What the assumption says of the constants. *)
LEMMA Bounds ==
  /\ VM_INIT_MAX_RETRIES \in Nat /\ VM_INIT_MAX_RETRIES >= 1
  /\ MaxVms \in Nat /\ MaxReloads \in Nat /\ MaxReloads >= 1
BY VmAssumption

(* Who may start an attempt: initialize, a call, or a timer, and these are distinct. *)
LEMMA Apart ==
  /\ "init" \notin Calls /\ "init" \notin Timers
  /\ \A c \in Calls : c \notin Timers
BY VmAssumption

(* A VM made is one of the VMs. *)
LEMMA MadeVms == ASSUME VmTypes, NEW v \in 1..made PROVE v \in Vms /\ v \in Nat /\ v # 0 /\ ~(v > made)
BY Bounds DEF VmTypes, Vms

(* The records of VMs, calls and reloads, field by field. *)
LEMMA VmFields ==
  ASSUME NEW m \in VmRecords
  PROVE  /\ m.kind \in Kinds /\ m.version \in Nat /\ m.stage \in VmStages /\ m.ready \in BOOLEAN
         /\ m.inErroredState \in BOOLEAN /\ m.count \in Nat /\ m.timer \in {"init"} \cup Timers
         /\ m.up \in BOOLEAN /\ m.torn \in BOOLEAN /\ m.raced \in BOOLEAN /\ m.left \in BOOLEAN
BY DEF VmRecords

(* Replaced(m, n, F): n is m but for the fields named F. *)
Replaced(m, n, F) ==
  /\ n \in VmRecords
  /\ "kind" \notin F => n.kind = m.kind
  /\ "version" \notin F => n.version = m.version
  /\ "stage" \notin F => n.stage = m.stage
  /\ "ready" \notin F => n.ready = m.ready
  /\ "inErroredState" \notin F => n.inErroredState = m.inErroredState
  /\ "count" \notin F => n.count = m.count
  /\ "timer" \notin F => n.timer = m.timer
  /\ "up" \notin F => n.up = m.up
  /\ "torn" \notin F => n.torn = m.torn
  /\ "raced" \notin F => n.raced = m.raced
  /\ "left" \notin F => n.left = m.left

(* The replacements the steps make. *)
LEMMA Stage ==
  ASSUME NEW m \in VmRecords, NEW s \in VmStages
  PROVE  Replaced(m, [m EXCEPT !.stage = s], {"stage"}) /\ [m EXCEPT !.stage = s].stage = s
BY DEF Replaced, VmRecords

(* The marks an attempt leaves on its VM change what they name and nothing else. *)
LEMMA Marks ==
  ASSUME NEW m \in VmRecords, NEW t \in {"init"} \cup Timers
  PROVE  /\ Replaced(m, [m EXCEPT !.ready = TRUE, !.up = TRUE], {"ready", "up"})
         /\ [m EXCEPT !.ready = TRUE, !.up = TRUE].ready /\ [m EXCEPT !.ready = TRUE, !.up = TRUE].up
         /\ Replaced(m, [m EXCEPT !.timer = t], {"timer"}) /\ [m EXCEPT !.timer = t].timer = t
         /\ Replaced(m, [m EXCEPT !.inErroredState = TRUE], {"inErroredState"})
         /\ [m EXCEPT !.inErroredState = TRUE].inErroredState
         /\ Replaced(m, [m EXCEPT !.left = TRUE], {"left"}) /\ [m EXCEPT !.left = TRUE].left
BY DEF Replaced, VmRecords

(* A step that replaces the record of one VM. *)
LEMMA OneVm ==
  ASSUME VmTypes, NEW v \in Vms, NEW m \in VmRecords, vm' = [vm EXCEPT ![v] = m]
  PROVE  vm' \in [Vms -> VmRecords] /\ vm'[v] = m /\ \A u \in Vms : u # v => vm'[u] = vm[u]
BY DEF VmTypes

(* A step of one attempt. *)
LEMMA OneAttempt ==
  ASSUME VmTypes, NEW v \in Vms, NEW w \in Starters, NEW s \in Doings,
         attempt' = [attempt EXCEPT ![v][w] = s]
  PROVE  /\ attempt' \in [Vms -> Attempts] /\ attempt'[v][w] = s
         /\ \A x \in Starters : x # w => attempt'[v][x] = attempt[v][x]
         /\ \A u \in Vms : u # v => attempt'[u] = attempt[u]
BY DEF VmTypes, Attempts

(* clearRetryTimeoutIfExists *)
LEMMA ClearedAttempts ==
  ASSUME VmTypes, NEW v \in Vms
  PROVE  /\ Cleared(attempt, v) \in [Vms -> Attempts]
         /\ \A x \in Starters : Cleared(attempt, v)[v][x] =
              IF x = vm[v].timer /\ attempt[v][x] = "waiting" THEN "over" ELSE attempt[v][x]
         /\ \A u \in Vms : u # v => Cleared(attempt, v)[u] = attempt[u]
<1> DEFINE f == [x \in Starters |->
              IF x = vm[v].timer /\ attempt[v][x] = "waiting" THEN "over" ELSE attempt[v][x]]
<1>1. attempt \in [Vms -> Attempts]
  BY DEF VmTypes
<1>2. f \in Attempts
  BY <1>1 DEF Attempts, Doings
<1>3. Cleared(attempt, v) = [attempt EXCEPT ![v] = f]
  BY DEF Cleared
<1>4. \A x \in Starters : f[x] = IF x = vm[v].timer /\ attempt[v][x] = "waiting" THEN "over" ELSE attempt[v][x]
  OBVIOUS
<1> HIDE DEF f
<1> QED BY <1>1, <1>2, <1>3, <1>4

(* The same, and a step of one attempt. *)
LEMMA ClearedAttempt ==
  ASSUME VmTypes, NEW v \in Vms, NEW w \in Starters, NEW s \in Doings,
         attempt' = [Cleared(attempt, v) EXCEPT ![v][w] = s]
  PROVE  /\ attempt' \in [Vms -> Attempts] /\ attempt'[v][w] = s
         /\ \A x \in Starters : x # w => attempt'[v][x] =
              IF x = vm[v].timer /\ attempt[v][x] = "waiting" THEN "over" ELSE attempt[v][x]
         /\ \A u \in Vms : u # v => attempt'[u] = attempt[u]
<1> DEFINE a == Cleared(attempt, v)
<1>1. /\ a \in [Vms -> Attempts]
      /\ \A x \in Starters : a[v][x] =
           IF x = vm[v].timer /\ attempt[v][x] = "waiting" THEN "over" ELSE attempt[v][x]
      /\ \A u \in Vms : u # v => a[u] = attempt[u]
  BY ClearedAttempts
<1>2. attempt' = [a EXCEPT ![v][w] = s]
  OBVIOUS
<1> HIDE DEF a
<1>3. /\ attempt' \in [Vms -> Attempts] /\ attempt'[v][w] = s
      /\ \A x \in Starters : x # w => attempt'[v][x] = a[v][x]
      /\ \A u \in Vms : u # v => attempt'[u] = a[u]
  <2> DEFINE g == [a[v] EXCEPT ![w] = s]
  <2>1. a[v] \in Attempts
    BY <1>1
  <2>2. g \in Attempts /\ g[w] = s /\ \A x \in Starters : x # w => g[x] = a[v][x]
    BY <2>1 DEF Attempts
  <2>3. attempt' = [a EXCEPT ![v] = g]
    BY <1>1, <1>2
  <2> HIDE DEF g
  <2> QED BY <1>1, <2>2, <2>3
<1> QED BY <1>1, <1>3

(* A call gets its answer. *)
LEMMA AnswerDoes ==
  ASSUME VmTypes, NEW w \in Calls, Answer(w)
  PROVE  /\ call' \in [Calls -> CallRecords] /\ call'[w] = [pc |-> "answered", vm |-> 0]
         /\ \A c \in Calls : c # w => call'[c] = call[c]
BY Bounds DEF VmTypes, Answer, CallRecords

(* How an attempt ends, for its caller. *)
Outcomes == {"fine", "SetupPluginError", "error"}

(* What the caller of an attempt does when it ends. *)
LEMMA EndsDoes ==
  ASSUME VmTypes, NEW v \in Vms, NEW w \in Starters, NEW m \in VmRecords,
         NEW o \in Outcomes, Ends(v, w, m, o)
  PROVE  /\ vm' \in [Vms -> VmRecords] /\ \A u \in Vms : u # v => vm'[u] = vm[u]
         /\ Replaced(m, vm'[v], {"ready", "stage"})
         /\ vm'[v].ready = (m.ready \/ (w = "init" /\ o = "fine"))
         /\ w # "init" => vm'[v].stage = m.stage
         /\ w = "init" => vm'[v].stage \in {"resolved", "null", "failing"}
         /\ w = "init" /\ vm'[v].stage = "resolved" => o = "fine"
         /\ call' \in [Calls -> CallRecords]
         /\ \A c \in Calls : c # w => call'[c] = call[c]
         /\ w \in Calls => call'[w] = [pc |-> "answered", vm |-> 0]
<1>1. /\ call' \in [Calls -> CallRecords]
      /\ \A c \in Calls : c # w => call'[c] = call[c]
      /\ w \in Calls => call'[w] = [pc |-> "answered", vm |-> 0]
  <2>1. CASE w \in Calls
    BY <2>1, AnswerDoes DEF Ends
  <2>2. CASE w \notin Calls
    BY <2>2 DEF Ends, VmTypes
  <2> QED BY <2>1, <2>2
<1>2. CASE w = "init"
  <2>1. PICK s \in {"resolved", "null", "failing"} :
           /\ s = CASE o = "fine" -> "resolved" [] o = "SetupPluginError" -> "null" [] OTHER -> "failing"
           /\ s = "resolved" => o = "fine"
    BY DEF Outcomes
  <2>2. PICK b \in BOOLEAN : b = (m.ready \/ o = "fine")
    BY VmFields
  <2>8. PICK n : n = [m EXCEPT !.ready = b, !.stage = s]
    OBVIOUS
  <2>3. vm' = [vm EXCEPT ![v] = n]
    BY <1>2, <2>1, <2>2, <2>8 DEF Ends
  <2>4. s \in VmStages
    BY DEF VmStages
  <2>5. Replaced(m, n, {"ready", "stage"}) /\ n.ready = b /\ n.stage = s
    BY <2>4, <2>8 DEF Replaced, VmRecords
  <2>6. n \in VmRecords
    BY <2>5 DEF Replaced
  <2>7. vm' \in [Vms -> VmRecords] /\ vm'[v] = n /\ \A u \in Vms : u # v => vm'[u] = vm[u]
    BY <2>3, <2>6, OneVm
  <2> QED BY <1>1, <1>2, <2>1, <2>2, <2>5, <2>7
<1>3. CASE w # "init"
  <2>1. vm' = [vm EXCEPT ![v] = m]
    BY <1>3 DEF Ends
  <2>2. vm' \in [Vms -> VmRecords] /\ vm'[v] = m /\ \A u \in Vms : u # v => vm'[u] = vm[u]
    BY <2>1, OneVm
  <2>3. Replaced(m, m, {"ready", "stage"})
    BY DEF Replaced
  <2>4. m.ready \in BOOLEAN
    BY VmFields
  <2> QED BY <1>1, <1>3, <2>2, <2>3, <2>4
<1> QED BY <1>2, <1>3

(* The start of an attempt. *)
LEMMA StartsDoes ==
  ASSUME VmTypes, NEW v \in Vms, NEW w \in Starters, NEW m \in VmRecords, Starts(v, w, m)
  PROVE  /\ vm' \in [Vms -> VmRecords] /\ \A u \in Vms : u # v => vm'[u] = vm[u]
         /\ Replaced(m, vm'[v], {"count", "raced"})
         /\ vm'[v].count = m.count + 1
         /\ vm'[v].raced = (m.raced \/ m.torn \/ Others(v, w) # {})
         /\ attempt' \in [Vms -> Attempts] /\ attempt'[v][w] = "setup"
         /\ \A x \in Starters : x # w => attempt'[v][x] = attempt[v][x]
         /\ \A u \in Vms : u # v => attempt'[u] = attempt[u]
<1>1. PICK b \in BOOLEAN : b = (m.torn \/ Others(v, w) # {})
  OBVIOUS
<1>8. PICK n : n = [m EXCEPT !.count = @ + 1, !.raced = @ \/ b]
  OBVIOUS
<1>2. vm' = [vm EXCEPT ![v] = n]
  <2>1. m.raced \in BOOLEAN
    BY VmFields
  <2>2. (m.raced \/ m.torn \/ Others(v, w) # {}) = (m.raced \/ b)
    BY <1>1, <2>1
  <2> QED BY <2>2, <1>8 DEF Starts
<1>3. Replaced(m, n, {"count", "raced"}) /\ n.count = m.count + 1 /\ n.raced = (m.raced \/ b)
  <2>1. m.count + 1 \in Nat /\ (m.raced \/ b) \in BOOLEAN
    BY VmFields
  <2>2. PICK k \in Nat : k = m.count + 1
    BY <2>1
  <2>3. PICK c \in BOOLEAN : c = (m.raced \/ b)
    BY <2>1
  <2>4. n = [m EXCEPT !.count = k, !.raced = c]
    BY <1>8, <2>2, <2>3
  <2>5. Replaced(m, n, {"count", "raced"}) /\ n.count = k /\ n.raced = c
    BY <2>4 DEF Replaced, VmRecords
  <2> QED BY <2>2, <2>3, <2>5
<1>4. n \in VmRecords
  BY <1>3 DEF Replaced
<1>5. vm' \in [Vms -> VmRecords] /\ vm'[v] = n /\ \A u \in Vms : u # v => vm'[u] = vm[u]
  BY <1>2, <1>4, OneVm
<1>6. "setup" \in Doings /\ attempt' = [attempt EXCEPT ![v][w] = "setup"]
  BY DEF Starts, Doings
<1>7. /\ attempt' \in [Vms -> Attempts] /\ attempt'[v][w] = "setup"
      /\ \A x \in Starters : x # w => attempt'[v][x] = attempt[v][x]
      /\ \A u \in Vms : u # v => attempt'[u] = attempt[u]
  BY <1>6, OneAttempt
<1> QED BY <1>1, <1>3, <1>5, <1>7

(* A step of one VM, of its attempts and of those who call it. *)
OneVmStep(v) ==
  /\ vm' \in [Vms -> VmRecords] /\ attempt' \in [Vms -> Attempts]
  /\ \A u \in Vms : u # v => vm'[u] = vm[u] /\ attempt'[u] = attempt[u]
  /\ vm'[v].kind = vm[v].kind /\ vm'[v].version = vm[v].version
  /\ vm'[v].torn = vm[v].torn /\ vm'[v].left = vm[v].left
  /\ UNCHANGED <<made, current, reload, crossings>>
  /\ row' \in [version : Nat, enabled : BOOLEAN] /\ row'.version = row.version
  /\ vmFaults' \in Nat
  /\ call' \in [Calls -> CallRecords]
  /\ \A c \in Calls :
       \/ call'[c] = call[c]
       \/ /\ call[c].vm = v
          /\ \/ call'[c] = [pc |-> "answered", vm |-> 0]
             \/ /\ call[c].pc = "waiting" /\ call'[c].pc = "decided" /\ call'[c].vm = v
             \/ /\ call[c].pc = "decided" /\ call'[c].pc = "settingUp" /\ call'[c].vm = v

(* A step on one VM keeps the types. *)
LEMMA OneVmTypes == ASSUME VmTypes, NEW v \in 1..made, OneVmStep(v) PROVE VmTypes'
<1>1. v \in Vms /\ v # 0 /\ v \in Nat /\ ~(v > made)
  BY MadeVms
<1>2. \A c \in Calls : /\ call'[c].vm <= made
                       /\ call'[c].pc \in {"waiting", "decided", "settingUp"} => call'[c].vm # 0
  <2> TAKE c \in Calls
  <2>1. /\ call[c].vm <= made
        /\ call[c].pc \in {"waiting", "decided", "settingUp"} => call[c].vm # 0
        /\ made \in Nat
    BY Bounds DEF VmTypes
  <2>2. CASE call'[c] = call[c]
    BY <2>1, <2>2
  <2>3. CASE call'[c] = [pc |-> "answered", vm |-> 0]
    BY <2>1, <2>3
  <2>4. CASE call'[c].vm = v /\ call[c].vm = v
    BY <1>1, <2>1, <2>4
  <2> QED BY <2>2, <2>3, <2>4 DEF OneVmStep
<1>3. \A u \in Vms : u > made => vm'[u] = NewVm /\ \A w \in Starters : attempt'[u][w] = "none"
  BY <1>1 DEF OneVmStep, VmTypes
<1> QED BY <1>2, <1>3 DEF OneVmStep, VmTypes

(* It leaves the other VMs alone. *)
LEMMA Elsewhere ==
  ASSUME VmTypes, AloneInv, NEW v \in 1..made, OneVmStep(v), Counted(v)', Linked(v)', Sole(v)'
  PROVE  AloneInv'
<1>1. v \in Vms
  BY MadeVms
<1> SUFFICES ASSUME NEW u \in Vms, u # v PROVE Counted(u)' /\ Linked(u)' /\ Sole(u)'
  BY DEF AloneInv, Vms
<1>2. vm'[u] = vm[u] /\ attempt'[u] = attempt[u] /\ u # 0 /\ Counted(u) /\ Linked(u) /\ Sole(u)
  BY Bounds DEF OneVmStep, AloneInv, Vms
<1>3. /\ At(u, "setup")' = At(u, "setup") /\ At(u, "logging")' = At(u, "logging")
      /\ Spent(u)' = Spent(u) /\ UnderWay(u)' = UnderWay(u) /\ Pending(u)' = Pending(u)
  BY <1>2 DEF At, Spent, UnderWay, Pending
<1>4. \A c \in Calls : \/ call'[c] = call[c]
                       \/ call[c].vm # u /\ call'[c].vm # u
  BY <1>2 DEF OneVmStep
<1>5. Decided(u)' = Decided(u)
  BY <1>4 DEF Decided
<1>6. Busy(u)' = Busy(u)
  BY <1>3, <1>5 DEF Busy
<1>7. Counted(u)'
  BY <1>2, <1>3 DEF Counted
<1>8. Linked(u)'
  <2>1. \A c \in Calls : c \in UnderWay(u)' => call'[c].pc = "settingUp" /\ call'[c].vm = u
    BY <1>2, <1>3, <1>4 DEF Linked
  <2>2. \A c \in Calls : call'[c].pc \in {"decided", "settingUp"} /\ call'[c].vm = u =>
          vm'[u].kind # "eager" /\ vm'[u].stage = "resolved"
    BY <1>2, <1>4 DEF Linked
  <2> QED BY <1>2, <1>3, <2>1, <2>2 DEF Linked
<1>9. Sole(u)'
  BY <1>2, <1>3, <1>5, <1>6 DEF Sole
<1> QED BY <1>7, <1>8, <1>9

(* Postgres, as a failure leaves it. *)
LEMMA Rows ==
  ASSUME VmTypes, row' \in {row, Disabled}
  PROVE row' \in [version : Nat, enabled : BOOLEAN] /\ row'.version = row.version
BY DEF VmTypes, Disabled

-----------------------------------------------------------------------------
(* The retries of a VM are counted *)

(* The timers that were set, finitely many. *)
LEMMA SpentFinite ==
  ASSUME NEW v \in Vms
  PROVE  /\ IsFiniteSet(Spent(v)) /\ Cardinality(Spent(v)) \in Nat
         /\ Cardinality(Spent(v)) < Cardinality(Timers) => Unset(v) # {}
<1>1. IsFiniteSet(Timers) /\ Spent(v) \subseteq Timers
  BY VmAssumption DEF Spent
<1>2. IsFiniteSet(Spent(v)) /\ Cardinality(Spent(v)) \in Nat
  BY <1>1, FS_Subset, FS_CardinalityType
<1>3. ASSUME Unset(v) = {} PROVE Spent(v) = Timers
  BY <1>3, <1>1 DEF Unset, Spent
<1>4. Cardinality(Spent(v)) < Cardinality(Spent(v)) => FALSE
  BY <1>2
<1> QED BY <1>2, <1>3, <1>4

(* The account is one of natural numbers. *)
LEMMA CountedNats ==
  ASSUME VmTypes, NEW v \in Vms, Counted(v)
  PROVE  /\ Cardinality(At(v, "setup")) \in Nat /\ Cardinality(At(v, "logging")) \in Nat
         /\ Cardinality(Spent(v)) \in Nat /\ vm[v].count \in Nat
<1>1. vm[v] \in VmRecords
  BY DEF VmTypes
<1> QED BY <1>1, VmFields, SpentFinite, FS_CardinalityType DEF Counted

(* The account stays while its entries do. *)
LEMMA CountedSame ==
  ASSUME VmTypes, NEW v \in Vms, Counted(v), vm'[v].count = vm[v].count,
         At(v, "setup")' = At(v, "setup"), At(v, "logging")' = At(v, "logging"), Spent(v)' = Spent(v)
  PROVE  Counted(v)'
BY DEF Counted

(* One more attempt, and the count one higher. *)
LEMMA CountedStarts ==
  ASSUME VmTypes, NEW v \in Vms, Counted(v), NEW w, w \notin At(v, "setup"),
         vm'[v].count = vm[v].count + 1,
         At(v, "setup")' = At(v, "setup") \cup {w}, At(v, "logging")' = At(v, "logging"), Spent(v)' = Spent(v)
  PROVE  Counted(v)'
<1>1. /\ IsFiniteSet(At(v, "setup") \cup {w})
      /\ Cardinality(At(v, "setup") \cup {w}) = Cardinality(At(v, "setup")) + 1
  BY FS_AddElement DEF Counted
<1>8. PICK a \in Nat, b \in Nat, d \in Nat, k \in Nat, n \in Nat :
         /\ a = Cardinality(At(v, "setup")) /\ b = Cardinality(At(v, "logging"))
         /\ d = Cardinality(Spent(v)) /\ k = vm[v].count /\ n = VM_INIT_MAX_RETRIES
  BY CountedNats, Bounds
<1>9. d + b + a <= k /\ d + b <= n - 1
  BY <1>8 DEF Counted
<1>2. d + b + (a + 1) <= k + 1
  BY <1>9
<1>3. /\ IsFiniteSet(At(v, "setup")') /\ Cardinality(At(v, "setup")') = a + 1
      /\ IsFiniteSet(At(v, "logging")') /\ Cardinality(At(v, "logging")') = b
      /\ Cardinality(Spent(v)') = d /\ vm'[v].count = k + 1
  BY <1>1, <1>8 DEF Counted
<1> QED BY <1>2, <1>3, <1>8, <1>9 DEF Counted

(* An attempt that ends, or fails. *)
LEMMA CountedLeaves ==
  ASSUME VmTypes, NEW v \in Vms, Counted(v), NEW w \in At(v, "setup"),
         vm'[v].count = vm[v].count,
         At(v, "setup")' = At(v, "setup") \ {w}, At(v, "logging")' = At(v, "logging"), Spent(v)' = Spent(v)
  PROVE  Counted(v)'
<1>1. /\ IsFiniteSet(At(v, "setup") \ {w})
      /\ Cardinality(At(v, "setup") \ {w}) = Cardinality(At(v, "setup")) - 1
  BY FS_RemoveElement DEF Counted
<1>8. PICK a \in Nat, b \in Nat, d \in Nat, k \in Nat, n \in Nat :
         /\ a = Cardinality(At(v, "setup")) /\ b = Cardinality(At(v, "logging"))
         /\ d = Cardinality(Spent(v)) /\ k = vm[v].count /\ n = VM_INIT_MAX_RETRIES
  BY CountedNats, Bounds
<1>9. d + b + a <= k /\ d + b <= n - 1
  BY <1>8 DEF Counted
<1>2. d + b + (a - 1) <= k
  BY <1>9
<1>3. /\ IsFiniteSet(At(v, "setup")') /\ Cardinality(At(v, "setup")') = a - 1
      /\ IsFiniteSet(At(v, "logging")') /\ Cardinality(At(v, "logging")') = b
      /\ Cardinality(Spent(v)') = d /\ vm'[v].count = k
  BY <1>1, <1>8 DEF Counted
<1> QED BY <1>2, <1>3, <1>8, <1>9 DEF Counted

(* One that asks for a retry: not the last, so that a timer is left. *)
LEMMA CountedAsks ==
  ASSUME VmTypes, NEW v \in Vms, Counted(v), NEW w \in At(v, "setup"), w \notin At(v, "logging"),
         vm[v].count < VM_INIT_MAX_RETRIES, vm'[v].count = vm[v].count,
         At(v, "setup")' = At(v, "setup") \ {w}, At(v, "logging")' = At(v, "logging") \cup {w},
         Spent(v)' = Spent(v)
  PROVE  Counted(v)'
<1>1. /\ IsFiniteSet(At(v, "setup") \ {w})
      /\ Cardinality(At(v, "setup") \ {w}) = Cardinality(At(v, "setup")) - 1
  BY FS_RemoveElement DEF Counted
<1>2. /\ IsFiniteSet(At(v, "logging") \cup {w})
      /\ Cardinality(At(v, "logging") \cup {w}) = Cardinality(At(v, "logging")) + 1
  BY FS_AddElement DEF Counted
<1>3. Cardinality(At(v, "setup") \ {w}) \in Nat
  BY <1>1, FS_CardinalityType
<1>8. PICK a \in Nat, b \in Nat, d \in Nat, k \in Nat, n \in Nat :
         /\ a = Cardinality(At(v, "setup")) /\ b = Cardinality(At(v, "logging"))
         /\ d = Cardinality(Spent(v)) /\ k = vm[v].count /\ n = VM_INIT_MAX_RETRIES
  BY CountedNats, Bounds
<1>9. d + b + a <= k /\ d + b <= n - 1
  BY <1>8 DEF Counted
<1>4. a - 1 >= 0 /\ k < n
  BY <1>1, <1>3, <1>8
<1>5. d + (b + 1) + (a - 1) <= k /\ d + (b + 1) <= n - 1
  BY <1>4, <1>9
<1>6. /\ IsFiniteSet(At(v, "setup")') /\ Cardinality(At(v, "setup")') = a - 1
      /\ IsFiniteSet(At(v, "logging")') /\ Cardinality(At(v, "logging")') = b + 1
      /\ Cardinality(Spent(v)') = d /\ vm'[v].count = k
  BY <1>1, <1>2, <1>8 DEF Counted
<1> QED BY <1>5, <1>6, <1>8 DEF Counted

(* One that sets its timer. *)
LEMMA CountedSets ==
  ASSUME VmTypes, NEW v \in Vms, Counted(v), NEW w \in At(v, "logging"), NEW t, t \notin Spent(v),
         vm'[v].count = vm[v].count,
         At(v, "setup")' = At(v, "setup"), At(v, "logging")' = At(v, "logging") \ {w},
         Spent(v)' = Spent(v) \cup {t}
  PROVE  Counted(v)'
<1>1. /\ IsFiniteSet(At(v, "logging") \ {w})
      /\ Cardinality(At(v, "logging") \ {w}) = Cardinality(At(v, "logging")) - 1
  BY FS_RemoveElement DEF Counted
<1>2. Cardinality(Spent(v) \cup {t}) = Cardinality(Spent(v)) + 1
  BY SpentFinite, FS_AddElement
<1>8. PICK a \in Nat, b \in Nat, d \in Nat, k \in Nat, n \in Nat :
         /\ a = Cardinality(At(v, "setup")) /\ b = Cardinality(At(v, "logging"))
         /\ d = Cardinality(Spent(v)) /\ k = vm[v].count /\ n = VM_INIT_MAX_RETRIES
  BY CountedNats, Bounds
<1>9. d + b + a <= k /\ d + b <= n - 1
  BY <1>8 DEF Counted
<1>3. (d + 1) + (b - 1) + a <= k /\ (d + 1) + (b - 1) <= n - 1
  BY <1>9
<1>4. /\ IsFiniteSet(At(v, "setup")') /\ Cardinality(At(v, "setup")') = a
      /\ IsFiniteSet(At(v, "logging")') /\ Cardinality(At(v, "logging")') = b - 1
      /\ Cardinality(Spent(v)') = d + 1 /\ vm'[v].count = k
  BY <1>1, <1>2, <1>8 DEF Counted
<1> QED BY <1>3, <1>4, <1>8 DEF Counted

(* While an attempt logs its retry, a timer is left for it. *)
LEMMA TimerLeft ==
  ASSUME VmTypes, NEW v \in Vms, Counted(v), NEW w \in At(v, "logging") PROVE Unset(v) # {}
<1>1. /\ IsFiniteSet(At(v, "logging") \ {w})
      /\ Cardinality(At(v, "logging") \ {w}) = Cardinality(At(v, "logging")) - 1
  BY FS_RemoveElement DEF Counted
<1>2. Cardinality(At(v, "logging") \ {w}) \in Nat
  BY <1>1, FS_CardinalityType
<1>3. Cardinality(Timers) = VM_INIT_MAX_RETRIES - 1
  BY VmAssumption
<1>4. Cardinality(Spent(v)) < Cardinality(Timers)
  BY <1>1, <1>2, <1>3, CountedNats, Bounds DEF Counted
<1> QED BY <1>4, SpentFinite

-----------------------------------------------------------------------------
(* The end of an attempt *)

(* What a step that ends w leaves: nobody is decided anew, no attempt is begun. *)
LEMMA EndsLinked ==
  ASSUME VmTypes, AloneInv, NEW v \in 1..made, NEW w \in UnderWay(v),
         NEW m \in VmRecords, Replaced(vm[v], m, {"ready", "up", "timer"}),
         vm[v].ready => m.ready, m.up => m.ready,
         NEW o \in Outcomes, Ends(v, w, m, o),
         attempt' \in [Vms -> Attempts], attempt'[v][w] = Over(w),
         \A x \in Starters : \/ x = w \/ attempt'[v][x] = attempt[v][x]
                             \/ x \in Timers /\ attempt[v][x] = "none" /\ attempt'[v][x] = "waiting",
         \A u \in Vms : u # v => attempt'[u] = attempt[u],
         row' \in {row, Disabled}, vmFaults' \in Nat,
         UNCHANGED <<made, current, reload, crossings>>
  PROVE  /\ OneVmStep(v) /\ Linked(v)' /\ Decided(v)' = Decided(v)
         /\ Replaced(m, vm'[v], {"ready", "stage"})
         /\ vm'[v].stage = vm[v].stage \/ (w = "init" /\ vm'[v].stage # "settingUp")
<1>1. v \in Vms /\ v # 0 /\ w \in Starters
  BY MadeVms DEF UnderWay
<1>2. /\ vm' \in [Vms -> VmRecords] /\ \A u \in Vms : u # v => vm'[u] = vm[u]
      /\ Replaced(m, vm'[v], {"ready", "stage"})
      /\ vm'[v].ready = (m.ready \/ (w = "init" /\ o = "fine"))
      /\ w # "init" => vm'[v].stage = m.stage
      /\ w = "init" => vm'[v].stage \in {"resolved", "null", "failing"}
      /\ w = "init" /\ vm'[v].stage = "resolved" => o = "fine"
      /\ call' \in [Calls -> CallRecords]
      /\ \A c \in Calls : c # w => call'[c] = call[c]
      /\ w \in Calls => call'[w] = [pc |-> "answered", vm |-> 0]
  BY <1>1, EndsDoes
<1>3. Linked(v) /\ vm[v] \in VmRecords
  BY <1>1 DEF AloneInv, VmTypes
<1>4. w \in Calls => call[w].pc = "settingUp" /\ call[w].vm = v
  BY <1>3 DEF Linked
<1>5. w = "init" => vm[v].stage = "settingUp"
  BY <1>3 DEF Linked
<1>6. /\ vm'[v].kind = vm[v].kind /\ vm'[v].version = vm[v].version
      /\ vm'[v].torn = vm[v].torn /\ vm'[v].left = vm[v].left
      /\ vm'[v].inErroredState = vm[v].inErroredState /\ vm'[v].up = m.up /\ m.stage = vm[v].stage
  BY <1>2 DEF Replaced
<1>7. OneVmStep(v)
  <2>1. \A c \in Calls : call'[c] = call[c]
                         \/ (call[c].vm = v /\ call'[c] = [pc |-> "answered", vm |-> 0])
    BY <1>2, <1>4
  <2>2. row' \in [version : Nat, enabled : BOOLEAN] /\ row'.version = row.version
    BY Rows
  <2> QED BY <1>2, <1>6, <2>1, <2>2 DEF OneVmStep
<1>8. Decided(v)' = Decided(v)
  BY <1>2, <1>4 DEF Decided
<1>9. Linked(v)'
  <2>1. UnderWay(v)' = UnderWay(v) \ {w}
    BY <1>1 DEF UnderWay, Over
  <2>2. \A c \in Calls : c \in UnderWay(v)' => call'[c].pc = "settingUp" /\ call'[c].vm = v
    BY <1>2, <1>3, <2>1 DEF Linked
  <2>3. \A c \in Calls : call'[c].pc \in {"decided", "settingUp"} /\ call'[c].vm = v =>
          vm'[v].kind # "eager" /\ vm'[v].stage = "resolved"
    <3> SUFFICES ASSUME NEW c \in Calls, call'[c].pc \in {"decided", "settingUp"}, call'[c].vm = v
                 PROVE vm'[v].kind # "eager" /\ vm'[v].stage = "resolved"
      OBVIOUS
    <3>1. call'[c] = call[c]
      BY <1>2
    <3>2. vm[v].kind # "eager" /\ vm[v].stage = "resolved"
      BY <1>3, <3>1 DEF Linked
    <3> QED BY <1>2, <1>5, <1>6, <3>2
  <2>4. "init" \in UnderWay(v)' => vm'[v].stage = "settingUp"
    BY <1>2, <1>3, <1>6, <2>1 DEF Linked
  <2>5. vm'[v].stage = "settingUp" => vm'[v].kind = "eager"
    BY <1>2, <1>3, <1>6 DEF Linked
  <2>6. vm'[v].stage \notin {"none", "loading"}
    <3>1. vm[v].stage \notin {"none", "loading"}
      BY <1>3 DEF Linked
    <3> QED BY <1>2, <1>6, <3>1
  <2>7. vm'[v].kind = "eager" /\ vm'[v].stage = "resolved" => vm'[v].ready
    BY <1>2, <1>3, <1>6 DEF Linked
  <2>8. vm'[v].up => vm'[v].ready
    BY <1>2, <1>6
  <2>9. \A x \in Starters : attempt'[v][x] = "failing" => vm'[v].inErroredState
    BY <1>3, <1>6 DEF Linked, Over
  <2>10. \A x \in Starters : attempt'[v][x] \in {"waiting", "over"} => x \in Timers
    BY <1>3 DEF Linked, Over
  <2> QED BY <2>2, <2>3, <2>4, <2>5, <2>6, <2>7, <2>8, <2>9, <2>10 DEF Linked
<1>10. vm'[v].stage = vm[v].stage \/ (w = "init" /\ vm'[v].stage # "settingUp")
  BY <1>2, <1>6
<1> QED BY <1>2, <1>7, <1>8, <1>9, <1>10

(* Which attempts and calls are left. *)
LEMMA BusyOne ==
  ASSUME VmTypes, AloneInv, NEW v \in Vms, vm[v].kind = "eager" \/ ~vm[v].raced, NEW w \in Busy(v)
  PROVE Busy(v) = {w}
BY DEF AloneInv, Sole

(* A success: whoever was alone with the VM leaves it up. *)
LEMMA SucceedsAlone ==
  ASSUME VmTypes, AloneInv, NEW v \in 1..made, NEW w \in Starters, Succeeds(v, w)
  PROVE  OneVmStep(v) /\ AloneInv'
<1> DEFINE m == [vm[v] EXCEPT !.ready = TRUE, !.up = TRUE]
<1>1. v \in Vms /\ vm[v] \in VmRecords /\ Counted(v) /\ Linked(v) /\ Sole(v)
  BY MadeVms DEF AloneInv, VmTypes
<1>2. /\ attempt[v][w] = "setup" /\ attempt' = [attempt EXCEPT ![v][w] = Over(w)]
      /\ Ends(v, w, m, "fine") /\ UNCHANGED <<row, current, made, reload, crossings, vmFaults>>
  BY DEF Succeeds
<1>3. Replaced(vm[v], m, {"ready", "up"}) /\ m.ready /\ m.up
  BY <1>1, Marks
<1> HIDE DEF m
<1>4. /\ attempt' \in [Vms -> Attempts] /\ attempt'[v][w] = Over(w)
      /\ \A x \in Starters : x # w => attempt'[v][x] = attempt[v][x]
      /\ \A u \in Vms : u # v => attempt'[u] = attempt[u]
  <2>1. Over(w) \in Doings
    BY DEF Over, Doings
  <2> QED BY <1>1, <1>2, <2>1, OneAttempt
<1>5. m \in VmRecords /\ Replaced(vm[v], m, {"ready", "up", "timer"}) /\ vmFaults' \in Nat
      /\ w \in UnderWay(v)
  BY <1>2, <1>3 DEF Replaced, VmTypes, UnderWay
<1>6. /\ OneVmStep(v) /\ Linked(v)' /\ Decided(v)' = Decided(v)
      /\ Replaced(m, vm'[v], {"ready", "stage"})
  <2>1. row' \in {row, Disabled} /\ UNCHANGED <<made, current, reload, crossings>>
    BY <1>2
  <2>2. \A x \in Starters : \/ x = w \/ attempt'[v][x] = attempt[v][x]
                            \/ x \in Timers /\ attempt[v][x] = "none" /\ attempt'[v][x] = "waiting"
    BY <1>4
  <2>3. "fine" \in Outcomes /\ Ends(v, w, m, "fine")
    BY <1>2 DEF Outcomes
  <2>4. m.ready
    BY <1>3
  <2> QED BY <1>4, <1>5, <2>1, <2>2, <2>3, <2>4, EndsLinked
<1>7. /\ vm'[v].kind = vm[v].kind /\ vm'[v].raced = vm[v].raced /\ vm'[v].count = vm[v].count
      /\ vm'[v].inErroredState = vm[v].inErroredState /\ vm'[v].up
  BY <1>3, <1>6 DEF Replaced
<1>8. Counted(v)'
  <2>1. /\ w \in At(v, "setup") /\ At(v, "setup")' = At(v, "setup") \ {w}
        /\ At(v, "logging")' = At(v, "logging") /\ Spent(v)' = Spent(v)
    BY <1>2, <1>4 DEF At, Spent, Over
  <2> QED BY <1>1, <1>7, <2>1, CountedLeaves
<1>9. Sole(v)'
  <2> SUFFICES ASSUME vm[v].kind = "eager" \/ ~vm[v].raced
               PROVE  /\ Busy(v)' = {} /\ vm'[v].count <= VM_INIT_MAX_RETRIES /\ ~vm'[v].inErroredState
    <3>1. Busy(v)' = {} => /\ UnderWay(v)' \cup Pending(v)' = {} /\ Decided(v)' = {}
                           /\ \A x \in Starters : attempt'[v][x] \notin {"setup", "logging", "waiting"}
      BY <1>1, <1>4, <1>6 DEF Busy, UnderWay, Pending, Linked
    <3> QED BY <1>7, <3>1, Apart DEF Sole, Starters
  <2>1. Busy(v) = {w}
    BY <1>1, <1>5, BusyOne DEF Busy
  <2>2. Busy(v)' = Busy(v) \ {w}
    BY <1>1, <1>2, <1>4, <1>6, <2>1 DEF Busy, UnderWay, Pending, Over, Linked, Decided
  <2> QED BY <1>1, <1>2, <1>7, <2>1, <2>2 DEF Sole
<1> QED BY <1>6, <1>8, <1>9, Elsewhere

(* One attempt under way is all there is. *)
LEMMA SoleOne ==
  ASSUME NEW v \in Vms, NEW w \in UnderWay(v)', Linked(v)', Busy(v)' = {w},
         attempt'[v][w] = "logging" => vm'[v].count < VM_INIT_MAX_RETRIES,
         vm'[v].count <= VM_INIT_MAX_RETRIES, ~vm'[v].up,
         ~vm'[v].inErroredState \/ attempt'[v][w] = "failing", ~vm'[v].torn \/ vm'[v].raced
  PROVE  Sole(v)'
<1>1. \A x \in Starters : attempt'[v][x] \in {"setup", "logging", "failing"} => x = w
  BY DEF Busy, UnderWay
<1>2. \A x \in Starters : attempt'[v][x] # "waiting"
  <2> SUFFICES ASSUME NEW x \in Starters, attempt'[v][x] = "waiting" PROVE FALSE
    OBVIOUS
  <2>1. x \in Pending(v)'
    BY DEF Pending, Linked
  <2>2. x = w
    BY <2>1 DEF Busy
  <2> QED BY <2>2 DEF UnderWay
<1>3. Decided(v)' = {}
  <2> SUFFICES ASSUME NEW c \in Calls, c \in Decided(v)' PROVE FALSE
    BY DEF Decided
  <2>1. c = w
    BY DEF Busy
  <2> QED BY <2>1 DEF Linked, Decided
<1>4. \A t \in Timers : t \in Starters
  BY DEF Starters
<1>5. w \in Starters /\ attempt'[v][w] \in {"setup", "logging", "failing"}
  BY DEF UnderWay
<1> QED BY <1>1, <1>2, <1>3, <1>4, <1>5 DEF Sole

(* Nothing is under way, and nobody has decided to set the VM up. *)
LEMMA SoleNone ==
  ASSUME NEW v \in Vms, Linked(v)', Busy(v)' = {}, vm'[v].count <= VM_INIT_MAX_RETRIES,
         vm'[v].up => ~vm'[v].inErroredState,
         vm'[v].stage = "resolved" /\ ~vm'[v].up /\ ~vm'[v].inErroredState /\ ~vm'[v].torn =>
           vm'[v].count = 0
  PROVE  Sole(v)'
<1>1. /\ UnderWay(v)' \cup Pending(v)' = {} /\ Decided(v)' = {}
      /\ \A x \in Starters : attempt'[v][x] \notin {"setup", "logging", "waiting"}
  BY DEF Busy, UnderWay, Pending, Linked
<1>2. \A t \in Timers : t \in Starters
  BY DEF Starters
<1> QED BY <1>1, <1>2 DEF Sole

(* The attempts of a VM among those who are busy with it. *)
LEMMA BusyIn ==
  ASSUME NEW v \in Vms, Linked(v), NEW w \in Starters, attempt[v][w] \in {"setup", "logging", "failing", "waiting"}
  PROVE  w \in Busy(v)
BY DEF Busy, UnderWay, Pending, Linked

(* An attempt that asks for a retry has one left. *)
LEMMA AsksForRetryAlone ==
  ASSUME VmTypes, AloneInv, NEW v \in 1..made, NEW w \in Starters, AsksForRetry(v, w)
  PROVE  OneVmStep(v) /\ AloneInv'
<1>1. v \in Vms /\ vm[v] \in VmRecords /\ Counted(v) /\ Linked(v) /\ Sole(v)
  BY MadeVms DEF AloneInv, VmTypes
<1>2. /\ attempt[v][w] = "setup" /\ vm[v].count < VM_INIT_MAX_RETRIES
      /\ attempt' = [Cleared(attempt, v) EXCEPT ![v][w] = "logging"]
      /\ UNCHANGED <<row, current, made, vm, call, reload, crossings, vmFaults>>
  BY DEF AsksForRetry
<1>3. /\ attempt' \in [Vms -> Attempts] /\ attempt'[v][w] = "logging"
      /\ \A x \in Starters : x # w => attempt'[v][x] =
           IF x = vm[v].timer /\ attempt[v][x] = "waiting" THEN "over" ELSE attempt[v][x]
      /\ \A u \in Vms : u # v => attempt'[u] = attempt[u]
  BY <1>1, <1>2, ClearedAttempt DEF Doings
<1>4. OneVmStep(v)
  BY <1>2, <1>3 DEF OneVmStep, VmTypes
<1>5. UnderWay(v)' = UnderWay(v) /\ Decided(v)' = Decided(v) /\ w \in UnderWay(v)
  BY <1>2, <1>3 DEF UnderWay, Decided
<1>6. Pending(v)' \subseteq Pending(v)
  BY <1>2, <1>3 DEF Pending, Starters
<1>7. Counted(v)'
  <2>1. /\ At(v, "setup")' = At(v, "setup") \ {w} /\ At(v, "logging")' = At(v, "logging") \cup {w}
        /\ w \in At(v, "setup") /\ w \notin At(v, "logging")
    BY <1>2, <1>3 DEF At
  <2>2. Spent(v)' = Spent(v)
    BY <1>2, <1>3 DEF Spent, Starters
  <2> QED BY <1>1, <1>2, <2>1, <2>2, CountedAsks
<1>8. Linked(v)'
  <2>1. \A x \in Starters : attempt'[v][x] \in {"waiting", "over"} => x \in Timers
    BY <1>1, <1>3 DEF Linked
  <2>2. \A x \in Starters : attempt'[v][x] = "failing" => attempt[v][x] = "failing"
    BY <1>3
  <2> QED BY <1>1, <1>2, <1>5, <1>6, <2>1, <2>2 DEF Linked
<1>9. Sole(v)'
  <2>1. CASE vm[v].kind = "eager" \/ ~vm[v].raced
    <3>1. Busy(v) = {w}
      BY <1>1, <1>5, <2>1, BusyOne DEF Busy
    <3>2. Busy(v)' = {w}
      BY <1>5, <1>6, <3>1 DEF Busy
    <3>3. ~vm[v].up /\ ~vm[v].inErroredState /\ (~vm[v].torn \/ vm[v].raced)
      BY <1>1, <1>2, <1>5, <2>1, <3>1 DEF Sole
    <3>4. vm[v].count <= VM_INIT_MAX_RETRIES
      BY <1>1, <2>1 DEF Sole
    <3> QED BY <1>1, <1>2, <1>5, <1>8, <3>2, <3>3, <3>4, SoleOne
  <2>2. CASE ~(vm[v].kind = "eager" \/ ~vm[v].raced)
    BY <1>2, <2>2 DEF Sole
  <2> QED BY <2>1, <2>2
<1> QED BY <1>4, <1>7, <1>8, <1>9, Elsewhere

(* An attempt that fails for good marks the VM. *)
LEMMA FailsForGoodAlone ==
  ASSUME VmTypes, AloneInv, NEW v \in 1..made, NEW w \in Starters, FailsForGood(v, w)
  PROVE  OneVmStep(v) /\ AloneInv'
<1> DEFINE m == [vm[v] EXCEPT !.inErroredState = TRUE]
<1>1. v \in Vms /\ vm[v] \in VmRecords /\ Counted(v) /\ Linked(v) /\ Sole(v)
  BY MadeVms DEF AloneInv, VmTypes
<1>2. /\ attempt[v][w] = "setup"
      /\ attempt' = [Cleared(attempt, v) EXCEPT ![v][w] = "failing"]
      /\ UNCHANGED <<row, current, made, call, reload, crossings, vmFaults>>
      /\ vm' = [vm EXCEPT ![v] = m]
  BY <1>1 DEF FailsForGood, VmTypes
<1>3. /\ attempt' \in [Vms -> Attempts] /\ attempt'[v][w] = "failing"
      /\ \A x \in Starters : x # w => attempt'[v][x] =
           IF x = vm[v].timer /\ attempt[v][x] = "waiting" THEN "over" ELSE attempt[v][x]
      /\ \A u \in Vms : u # v => attempt'[u] = attempt[u]
  BY <1>1, <1>2, ClearedAttempt DEF Doings
<1>10. Replaced(vm[v], m, {"inErroredState"}) /\ m.inErroredState
  BY <1>1, Marks
<1> HIDE DEF m
<1>11. vm' \in [Vms -> VmRecords] /\ vm'[v] = m /\ \A u \in Vms : u # v => vm'[u] = vm[u]
  BY <1>1, <1>2, <1>10, OneVm DEF Replaced
<1>12. /\ vm'[v].kind = vm[v].kind /\ vm'[v].version = vm[v].version /\ vm'[v].torn = vm[v].torn
       /\ vm'[v].left = vm[v].left /\ vm'[v].stage = vm[v].stage /\ vm'[v].ready = vm[v].ready
       /\ vm'[v].count = vm[v].count /\ vm'[v].timer = vm[v].timer /\ vm'[v].up = vm[v].up
       /\ vm'[v].raced = vm[v].raced /\ vm'[v].inErroredState
  BY <1>10, <1>11 DEF Replaced
<1>4. OneVmStep(v)
  BY <1>2, <1>3, <1>11, <1>12 DEF OneVmStep, VmTypes
<1>5. UnderWay(v)' = UnderWay(v) /\ Decided(v)' = Decided(v) /\ w \in UnderWay(v)
  BY <1>2, <1>3 DEF UnderWay, Decided
<1>6. Pending(v)' \subseteq Pending(v)
  BY <1>2, <1>3 DEF Pending, Starters
<1>7. Counted(v)'
  <2>1. /\ At(v, "setup")' = At(v, "setup") \ {w} /\ At(v, "logging")' = At(v, "logging")
        /\ w \in At(v, "setup")
    BY <1>2, <1>3 DEF At
  <2>2. Spent(v)' = Spent(v)
    <3> SUFFICES ASSUME NEW t \in Timers PROVE attempt'[v][t] # "none" <=> attempt[v][t] # "none"
      BY DEF Spent
    <3>1. t \in Starters
      BY DEF Starters
    <3> QED BY <1>2, <1>3, <3>1
  <2> QED BY <1>1, <1>12, <2>1, <2>2, CountedLeaves
<1>8. Linked(v)'
  <2>1. \A x \in Starters : attempt'[v][x] \in {"waiting", "over"} => x \in Timers
    BY <1>1, <1>3 DEF Linked
  <2>2. vm[v].stage \notin {"none", "loading"}
    BY <1>1, <1>5 DEF Linked
  <2> QED BY <1>1, <1>2, <1>5, <1>6, <1>12, <2>1, <2>2 DEF Linked
<1>9. Sole(v)'
  <2>1. CASE vm[v].kind = "eager" \/ ~vm[v].raced
    <3>1. Busy(v) = {w}
      BY <1>1, <1>5, <2>1, BusyOne DEF Busy
    <3>2. Busy(v)' = {w}
      BY <1>5, <1>6, <3>1 DEF Busy
    <3>3. ~vm[v].up /\ (~vm[v].torn \/ vm[v].raced)
      BY <1>1, <1>2, <1>5, <2>1, <3>1 DEF Sole
    <3>4. vm[v].count <= VM_INIT_MAX_RETRIES
      BY <1>1, <2>1 DEF Sole
    <3> QED BY <1>1, <1>3, <1>5, <1>8, <1>12, <3>2, <3>3, <3>4, SoleOne
  <2>2. CASE ~(vm[v].kind = "eager" \/ ~vm[v].raced)
    BY <1>12, <2>2 DEF Sole
  <2> QED BY <2>1, <2>2
<1> QED BY <1>4, <1>7, <1>8, <1>9, Elsewhere

(* The retry asked for becomes a timer that waits. *)
LEMMA SetsTimerAlone ==
  ASSUME VmTypes, AloneInv, NEW v \in 1..made, NEW w \in Starters, SetsTimer(v, w)
  PROVE  OneVmStep(v) /\ AloneInv'
<1>1. v \in Vms /\ vm[v] \in VmRecords /\ Counted(v) /\ Linked(v) /\ Sole(v)
  BY MadeVms DEF AloneInv, VmTypes
<1>2. PICK t \in Unset(v) : /\ attempt' = [attempt EXCEPT ![v][w] = Over(w), ![v][t] = "waiting"]
                            /\ Ends(v, w, [vm[v] EXCEPT !.timer = t], "fine")
  BY DEF SetsTimer
<1>3. attempt[v][w] = "logging" /\ UNCHANGED <<row, current, made, reload, crossings, vmFaults>>
  BY DEF SetsTimer
<1>4. t \in Timers /\ attempt[v][t] = "none" /\ t # w /\ t \in Starters
  BY <1>3 DEF Unset, Starters
<1>5. /\ attempt' \in [Vms -> Attempts] /\ attempt'[v][w] = Over(w) /\ attempt'[v][t] = "waiting"
      /\ \A x \in Starters : x \notin {w, t} => attempt'[v][x] = attempt[v][x]
      /\ \A u \in Vms : u # v => attempt'[u] = attempt[u]
  <2>1. Over(w) \in Doings /\ "waiting" \in Doings
    BY DEF Over, Doings
  <2>2. PICK f : f = [attempt EXCEPT ![v][w] = Over(w)]
    OBVIOUS
  <2>3. f \in [Vms -> Attempts] /\ f[v][w] = Over(w)
        /\ (\A x \in Starters : x # w => f[v][x] = attempt[v][x]) /\ \A u \in Vms : u # v => f[u] = attempt[u]
    BY <1>1, <2>1, <2>2 DEF VmTypes, Attempts
  <2>4. attempt' = [f EXCEPT ![v][t] = "waiting"]
    BY <1>2, <2>2
  <2>5. PICK g : g = [f[v] EXCEPT ![t] = "waiting"]
    OBVIOUS
  <2>6. attempt' = [f EXCEPT ![v] = g]
    BY <1>1, <2>3, <2>4, <2>5
  <2>7. g \in Attempts /\ g[t] = "waiting" /\ \A x \in Starters : x # t => g[x] = f[v][x]
    BY <1>1, <1>4, <2>1, <2>3, <2>5 DEF Attempts
  <2> QED BY <1>1, <1>4, <2>3, <2>6, <2>7
<1>6. PICK m : m = [vm[v] EXCEPT !.timer = t]
  OBVIOUS
<1>7. Replaced(vm[v], m, {"timer"}) /\ m.timer = t
  BY <1>1, <1>4, <1>6 DEF Replaced, VmRecords
<1>8. /\ m \in VmRecords /\ Replaced(vm[v], m, {"ready", "up", "timer"}) /\ vmFaults' \in Nat
      /\ w \in UnderWay(v) /\ m.up = vm[v].up /\ m.ready = vm[v].ready
  BY <1>3, <1>7 DEF Replaced, VmTypes, UnderWay
<1>9. /\ OneVmStep(v) /\ Linked(v)' /\ Decided(v)' = Decided(v)
      /\ Replaced(m, vm'[v], {"ready", "stage"})
  <2>1. row' \in {row, Disabled} /\ UNCHANGED <<made, current, reload, crossings>>
    BY <1>3
  <2>2. \A x \in Starters : \/ x = w \/ attempt'[v][x] = attempt[v][x]
                            \/ x \in Timers /\ attempt[v][x] = "none" /\ attempt'[v][x] = "waiting"
    BY <1>4, <1>5
  <2>3. "fine" \in Outcomes /\ Ends(v, w, m, "fine")
    BY <1>2, <1>6 DEF Outcomes
  <2>4. (vm[v].ready => m.ready) /\ (m.up => m.ready)
    BY <1>1, <1>8 DEF Linked
  <2> QED BY <1>5, <1>8, <2>1, <2>2, <2>3, <2>4, EndsLinked
<1>10. /\ vm'[v].kind = vm[v].kind /\ vm'[v].raced = vm[v].raced /\ vm'[v].count = vm[v].count
       /\ vm'[v].inErroredState = vm[v].inErroredState /\ vm'[v].up = vm[v].up
       /\ vm'[v].torn = vm[v].torn /\ vm'[v].timer = t
  BY <1>7, <1>9 DEF Replaced
<1>11. Counted(v)'
  <2>1. /\ w \in At(v, "logging") /\ At(v, "logging")' = At(v, "logging") \ {w}
        /\ At(v, "setup")' = At(v, "setup")
    BY <1>3, <1>4, <1>5 DEF At, Over
  <2>2. Spent(v)' = Spent(v) \cup {t} /\ t \notin Spent(v)
    <3> SUFFICES ASSUME NEW x \in Timers, x # t PROVE attempt'[v][x] # "none" <=> attempt[v][x] # "none"
      BY <1>4, <1>5 DEF Spent
    <3>1. x \in Starters
      BY DEF Starters
    <3> QED BY <1>3, <1>5, <3>1 DEF Over
  <2> QED BY <1>1, <1>10, <2>1, <2>2, CountedSets
<1>12. Sole(v)'
  <2>1. CASE vm[v].kind = "eager" \/ ~vm[v].raced
    <3>1. Busy(v) = {w}
      BY <1>1, <1>8, <2>1, BusyOne DEF Busy
    <3>2. /\ vm[v].count < VM_INIT_MAX_RETRIES /\ ~vm[v].up /\ ~vm[v].inErroredState
          /\ (~vm[v].torn \/ vm[v].raced) /\ vm[v].count <= VM_INIT_MAX_RETRIES
      BY <1>1, <1>3, <1>8, <2>1, <3>1 DEF Sole, UnderWay
    <3>3. \A x \in Starters : attempt'[v][x] \in {"setup", "logging", "failing", "waiting"} => x = t
      <4> SUFFICES ASSUME NEW x \in Starters, x # t, x # w,
                          attempt[v][x] \in {"setup", "logging", "failing", "waiting"} PROVE FALSE
        BY <1>5 DEF Over
      <4> QED BY <1>1, <3>1, BusyIn
    <3>4. Decided(v)' = {}
      <4>1. w \notin Decided(v)
        BY <1>1, <1>8 DEF Linked, Decided
      <4> QED BY <1>9, <3>1, <4>1 DEF Busy
    <3>5. UnderWay(v)' = {} /\ Pending(v)' = {t}
      BY <1>4, <1>5, <3>3 DEF UnderWay, Pending, Starters
    <3>6. \A x \in Starters : attempt'[v][x] \notin {"setup", "logging"}
      BY <1>4, <1>5, <3>3
    <3>7. Busy(v)' = {t}
      BY <3>4, <3>5 DEF Busy
    <3>8. \A x \in Timers : attempt'[v][x] = "waiting" => vm'[v].timer = x
      BY <1>10, <3>3 DEF Starters
    <3> QED BY <1>10, <3>2, <3>4, <3>5, <3>6, <3>7, <3>8 DEF Sole
  <2>2. CASE ~(vm[v].kind = "eager" \/ ~vm[v].raced)
    BY <1>10, <2>2 DEF Sole
  <2> QED BY <2>1, <2>2
<1> QED BY <1>9, <1>11, <1>12, Elsewhere

(* processFatalVmSetupError, whether or not Postgres fails. *)
LEMMA DisablesAlone ==
  ASSUME VmTypes, AloneInv, NEW v \in 1..made, NEW w \in Starters, attempt[v][w] = "failing",
         attempt' = [attempt EXCEPT ![v][w] = Over(w)],
         NEW o \in Outcomes, Ends(v, w, vm[v], o),
         row' \in {row, Disabled}, vmFaults' \in Nat, UNCHANGED <<made, current, reload, crossings>>
  PROVE  OneVmStep(v) /\ AloneInv'
<1>1. v \in Vms /\ vm[v] \in VmRecords /\ Counted(v) /\ Linked(v) /\ Sole(v)
  BY MadeVms DEF AloneInv, VmTypes
<1>2. /\ attempt' \in [Vms -> Attempts] /\ attempt'[v][w] = Over(w)
      /\ \A x \in Starters : x # w => attempt'[v][x] = attempt[v][x]
      /\ \A u \in Vms : u # v => attempt'[u] = attempt[u]
  <2>1. Over(w) \in Doings
    BY DEF Over, Doings
  <2> QED BY <1>1, <2>1, OneAttempt
<1>3. Replaced(vm[v], vm[v], {"ready", "up", "timer"}) /\ w \in UnderWay(v)
  BY <1>1 DEF Replaced, UnderWay
<1>4. /\ OneVmStep(v) /\ Linked(v)' /\ Decided(v)' = Decided(v)
      /\ Replaced(vm[v], vm'[v], {"ready", "stage"})
  <2>1. \A x \in Starters : \/ x = w \/ attempt'[v][x] = attempt[v][x]
                            \/ x \in Timers /\ attempt[v][x] = "none" /\ attempt'[v][x] = "waiting"
    BY <1>2
  <2>2. PICK m \in VmRecords : m = vm[v]
    BY <1>1
  <2>3. (vm[v].ready => m.ready) /\ (m.up => m.ready) /\ Ends(v, w, m, o)
        /\ Replaced(vm[v], m, {"ready", "up", "timer"})
    BY <1>1, <1>3, <2>2 DEF Linked
  <2>4. /\ OneVmStep(v) /\ Linked(v)' /\ Decided(v)' = Decided(v)
        /\ Replaced(m, vm'[v], {"ready", "stage"})
    BY <1>2, <1>3, <2>1, <2>3, EndsLinked
  <2> QED BY <2>2, <2>4
<1>5. /\ vm'[v].kind = vm[v].kind /\ vm'[v].raced = vm[v].raced /\ vm'[v].count = vm[v].count
      /\ vm'[v].inErroredState = vm[v].inErroredState /\ vm'[v].up = vm[v].up
  BY <1>4 DEF Replaced
<1>6. Counted(v)'
  <2>1. At(v, "setup")' = At(v, "setup") /\ At(v, "logging")' = At(v, "logging")
    BY <1>2 DEF At, Over
  <2>2. Spent(v)' = Spent(v)
    <3> SUFFICES ASSUME NEW x \in Timers PROVE attempt'[v][x] # "none" <=> attempt[v][x] # "none"
      BY DEF Spent
    <3>1. x \in Starters
      BY DEF Starters
    <3> QED BY <1>2, <3>1 DEF Over
  <2> QED BY <1>1, <1>5, <2>1, <2>2, CountedSame
<1>7. Sole(v)'
  <2>1. CASE vm[v].kind = "eager" \/ ~vm[v].raced
    <3>1. Busy(v) = {w}
      BY <1>1, <1>3, <2>1, BusyOne DEF Busy
    <3>2. /\ ~vm[v].up /\ vm[v].inErroredState /\ vm[v].count <= VM_INIT_MAX_RETRIES
      BY <1>1, <2>1, <3>1 DEF Sole, Linked
    <3>3. Busy(v)' = {}
      <4>1. w \notin Decided(v)
        BY <1>1, <1>3 DEF Linked, Decided
      <4>2. Decided(v)' = {}
        BY <1>4, <3>1, <4>1 DEF Busy
      <4>3. UnderWay(v)' = {} /\ Pending(v)' = {}
        <5>1. \A x \in Starters : attempt'[v][x] \notin {"setup", "logging", "failing", "waiting"}
          <6> SUFFICES ASSUME NEW x \in Starters, x # w,
                              attempt[v][x] \in {"setup", "logging", "failing", "waiting"} PROVE FALSE
            BY <1>2 DEF Over
          <6> QED BY <1>1, <3>1, BusyIn
        <5> QED BY <5>1 DEF UnderWay, Pending, Starters
      <4> QED BY <4>2, <4>3 DEF Busy
    <3> QED BY <1>1, <1>4, <1>5, <3>2, <3>3, SoleNone
  <2>2. CASE ~(vm[v].kind = "eager" \/ ~vm[v].raced)
    BY <1>5, <2>2 DEF Sole
  <2> QED BY <2>1, <2>2
<1> QED BY <1>4, <1>6, <1>7, Elsewhere

-----------------------------------------------------------------------------
(* The start of an attempt *)

(* An attempt begins and is counted. *)
LEMMA StartsAlone ==
  ASSUME VmTypes, AloneInv, NEW v \in 1..made, NEW w \in Starters, w \notin UnderWay(v),
         w \in Timers => attempt[v][w] = "waiting",
         NEW m \in VmRecords, Replaced(vm[v], m, {"stage"}), Starts(v, w, m),
         Busy(v)' \subseteq Busy(v) \cup {w}, OneVmStep(v), Linked(v)',
         vm[v].kind = "eager" \/ (~vm[v].raced /\ ~vm[v].torn) =>
           /\ Busy(v) \subseteq {w} /\ vm[v].count < VM_INIT_MAX_RETRIES
           /\ ~vm[v].up /\ ~vm[v].inErroredState
  PROVE  AloneInv'
<1>1. v \in Vms /\ vm[v] \in VmRecords /\ Counted(v)
  BY MadeVms DEF AloneInv, VmTypes
<1>2. /\ Replaced(m, vm'[v], {"count", "raced"})
      /\ vm'[v].count = m.count + 1
      /\ vm'[v].raced = (m.raced \/ m.torn \/ Others(v, w) # {})
      /\ attempt'[v][w] = "setup"
      /\ \A x \in Starters : x # w => attempt'[v][x] = attempt[v][x]
  BY <1>1, StartsDoes
<1>3. /\ m.kind = vm[v].kind /\ m.count = vm[v].count /\ m.raced = vm[v].raced /\ m.torn = vm[v].torn
      /\ m.up = vm[v].up /\ m.inErroredState = vm[v].inErroredState
  BY DEF Replaced
<1>4. /\ vm'[v].kind = vm[v].kind /\ vm'[v].torn = vm[v].torn /\ vm'[v].up = vm[v].up
      /\ vm'[v].inErroredState = vm[v].inErroredState
  BY <1>2, <1>3 DEF Replaced
<1>5. Counted(v)'
  <2>1. /\ w \notin At(v, "setup") /\ At(v, "setup")' = At(v, "setup") \cup {w}
    BY <1>2 DEF At, UnderWay
  <2>2. At(v, "logging")' = At(v, "logging")
    BY <1>2 DEF At, UnderWay
  <2>3. Spent(v)' = Spent(v)
    <3> SUFFICES ASSUME NEW x \in Timers PROVE attempt'[v][x] # "none" <=> attempt[v][x] # "none"
      BY DEF Spent
    <3>1. x \in Starters
      BY DEF Starters
    <3> QED BY <1>2, <3>1
  <2> QED BY <1>1, <1>2, <1>3, <2>1, <2>2, <2>3, CountedStarts
<1>6. Sole(v)'
  <2>1. CASE vm[v].kind = "eager" \/ (~vm[v].raced /\ ~vm[v].torn)
    <3>1. w \in UnderWay(v)'
      BY <1>2 DEF UnderWay
    <3>2. Busy(v)' = {w}
      BY <2>1, <3>1 DEF Busy
    <3>3. vm'[v].count <= VM_INIT_MAX_RETRIES
      <4>1. vm[v].count \in Nat /\ vm[v].count < VM_INIT_MAX_RETRIES
        BY <1>1, <2>1, VmFields
      <4> QED BY <1>2, <1>3, <4>1, Bounds
    <3>4. ~vm'[v].torn \/ vm'[v].raced
      BY <1>2, <1>3, <1>4
    <3> QED BY <1>1, <1>2, <1>4, <2>1, <3>1, <3>2, <3>3, <3>4, SoleOne
  <2>2. CASE ~(vm[v].kind = "eager" \/ (~vm[v].raced /\ ~vm[v].torn))
    <3>1. vm'[v].raced /\ vm'[v].kind # "eager"
      BY <1>1, <1>2, <1>3, <1>4, <2>2, VmFields
    <3> QED BY <3>1 DEF Sole
  <2> QED BY <2>1, <2>2
<1> QED BY <1>5, <1>6, Elsewhere

(* initialize, of a VM that is eager. *)
LEMMA InitStartsAlone ==
  ASSUME VmTypes, AloneInv, NEW v \in 1..made, vm[v].stage = "loading", vm[v].kind = "eager",
         Starts(v, "init", [vm[v] EXCEPT !.stage = "settingUp"]),
         UNCHANGED <<row, current, made, call, reload, crossings, vmFaults>>
  PROVE  OneVmStep(v) /\ AloneInv'
<1>1. v \in Vms /\ vm[v] \in VmRecords /\ Linked(v) /\ "init" \in Starters
  BY MadeVms DEF AloneInv, VmTypes, Starters
<1>2. PICK m : m = [vm[v] EXCEPT !.stage = "settingUp"]
  OBVIOUS
<1>3. Replaced(vm[v], m, {"stage"}) /\ m.stage = "settingUp" /\ m \in VmRecords
  <2>1. "settingUp" \in VmStages
    BY DEF VmStages
  <2> QED BY <1>1, <1>2, <2>1, Stage DEF Replaced
<1>4. Starts(v, "init", m)
  BY <1>2
<1>5. /\ vm' \in [Vms -> VmRecords] /\ \A u \in Vms : u # v => vm'[u] = vm[u]
      /\ Replaced(m, vm'[v], {"count", "raced"})
      /\ attempt' \in [Vms -> Attempts] /\ attempt'[v]["init"] = "setup"
      /\ \A x \in Starters : x # "init" => attempt'[v][x] = attempt[v][x]
      /\ \A u \in Vms : u # v => attempt'[u] = attempt[u]
  BY <1>1, <1>3, <1>4, StartsDoes
<1>6. /\ vm'[v].kind = "eager" /\ vm'[v].version = vm[v].version /\ vm'[v].torn = vm[v].torn
      /\ vm'[v].left = vm[v].left /\ vm'[v].stage = "settingUp" /\ vm'[v].up = vm[v].up
      /\ vm'[v].ready = vm[v].ready /\ vm'[v].inErroredState = vm[v].inErroredState
  BY <1>3, <1>5 DEF Replaced
<1>7. OneVmStep(v)
  BY <1>5, <1>6 DEF OneVmStep, VmTypes
<1>8. /\ UnderWay(v) = {} /\ Pending(v) = {} /\ Decided(v) = {} /\ vm[v].count = 0
      /\ ~vm[v].up /\ ~vm[v].inErroredState
  BY <1>1 DEF Linked, Decided
<1>9. UnderWay(v)' = {"init"} /\ Pending(v)' \subseteq Pending(v) /\ Decided(v)' = {}
  BY <1>1, <1>5, <1>8, Apart DEF UnderWay, Pending, Decided, Starters
<1>10. Linked(v)'
  <2>1. \A c \in Calls : ~(call[c].pc \in {"decided", "settingUp"} /\ call[c].vm = v)
    BY <1>1 DEF Linked
  <2>2. \A x \in Starters : attempt'[v][x] # "failing"
    BY <1>5, <1>8 DEF UnderWay
  <2>3. \A x \in Starters : attempt'[v][x] \in {"waiting", "over"} => x \in Timers
    BY <1>1, <1>5 DEF Linked
  <2> QED BY <1>6, <1>8, <1>9, <2>1, <2>2, <2>3, Apart DEF Linked
<1>11. Busy(v) = {} /\ Busy(v)' = {"init"}
  BY <1>8, <1>9 DEF Busy
<1>12. vm[v].count < VM_INIT_MAX_RETRIES
  BY <1>8, Bounds
<1> QED BY <1>1, <1>3, <1>4, <1>7, <1>8, <1>10, <1>11, <1>12, Apart, StartsAlone

(* A timer that fires begins the attempt it waited for. *)
LEMMA TimerFiresAlone ==
  ASSUME VmTypes, AloneInv, NEW v \in 1..made, NEW t \in Timers, TimerFires(v, t)
  PROVE  OneVmStep(v) /\ AloneInv'
<1>1. v \in Vms /\ vm[v] \in VmRecords /\ Linked(v) /\ Sole(v) /\ t \in Starters
  BY MadeVms DEF AloneInv, VmTypes, Starters
<1>2. /\ attempt[v][t] = "waiting" /\ Starts(v, t, vm[v])
      /\ UNCHANGED <<row, current, made, call, reload, crossings, vmFaults>>
  BY DEF TimerFires
<1>3. Replaced(vm[v], vm[v], {"stage"})
  BY <1>1 DEF Replaced
<1>5. /\ vm' \in [Vms -> VmRecords] /\ \A u \in Vms : u # v => vm'[u] = vm[u]
      /\ Replaced(vm[v], vm'[v], {"count", "raced"})
      /\ attempt' \in [Vms -> Attempts] /\ attempt'[v][t] = "setup"
      /\ \A x \in Starters : x # t => attempt'[v][x] = attempt[v][x]
      /\ \A u \in Vms : u # v => attempt'[u] = attempt[u]
  BY <1>1, <1>2, StartsDoes
<1>6. /\ vm'[v].kind = vm[v].kind /\ vm'[v].version = vm[v].version /\ vm'[v].torn = vm[v].torn
      /\ vm'[v].left = vm[v].left /\ vm'[v].stage = vm[v].stage /\ vm'[v].up = vm[v].up
      /\ vm'[v].ready = vm[v].ready /\ vm'[v].inErroredState = vm[v].inErroredState
  BY <1>5 DEF Replaced
<1>7. OneVmStep(v)
  BY <1>2, <1>5, <1>6 DEF OneVmStep, VmTypes
<1>8. t \in Pending(v) /\ t \notin UnderWay(v) /\ t \in Busy(v)
  BY <1>1, <1>2 DEF Pending, UnderWay, Busy
<1>9. UnderWay(v)' = UnderWay(v) \cup {t} /\ Pending(v)' \subseteq Pending(v) /\ Decided(v)' = Decided(v)
  BY <1>1, <1>2, <1>5 DEF UnderWay, Pending, Decided, Starters
<1>10. Linked(v)'
  <2>1. vm[v].stage \notin {"none", "loading"}
    BY <1>1, <1>8 DEF Linked
  <2>2. \A x \in Starters : attempt'[v][x] = "failing" => vm'[v].inErroredState
    BY <1>1, <1>5, <1>6 DEF Linked
  <2>3. \A x \in Starters : attempt'[v][x] \in {"waiting", "over"} => x \in Timers
    BY <1>1, <1>5 DEF Linked
  <2>4. \A c \in Calls : c \in UnderWay(v)' => call'[c].pc = "settingUp" /\ call'[c].vm = v
    BY <1>1, <1>2, <1>9, Apart DEF Linked
  <2>5. "init" \in UnderWay(v)' => vm'[v].stage = "settingUp"
    BY <1>1, <1>6, <1>9, Apart DEF Linked
  <2> QED BY <1>1, <1>2, <1>6, <2>1, <2>2, <2>3, <2>4, <2>5 DEF Linked
<1>11. Busy(v)' \subseteq Busy(v) \cup {t}
  BY <1>9 DEF Busy
<1>12. ASSUME vm[v].kind = "eager" \/ (~vm[v].raced /\ ~vm[v].torn)
       PROVE  /\ Busy(v) \subseteq {t} /\ vm[v].count < VM_INIT_MAX_RETRIES
              /\ ~vm[v].up /\ ~vm[v].inErroredState
  <2>1. Busy(v) = {t}
    BY <1>1, <1>8, <1>12, BusyOne
  <2> QED BY <1>1, <1>2, <1>12, <2>1 DEF Sole
<1> QED BY <1>1, <1>2, <1>3, <1>7, <1>8, <1>10, <1>11, <1>12, StartsAlone

(* A call that decided to set the VM up begins its attempt. *)
LEMMA SetsUpAlone ==
  ASSUME VmTypes, AloneInv, NEW c \in Calls, SetsUp(c)
  PROVE  /\ call[c].vm \in 1..made /\ OneVmStep(call[c].vm) /\ AloneInv'
<1>0. PICK v \in 1..made : v = call[c].vm
  BY Bounds DEF VmTypes, SetsUp, CallRecords
<1>1. v \in Vms /\ vm[v] \in VmRecords /\ Linked(v) /\ Sole(v) /\ c \in Starters
  BY MadeVms DEF AloneInv, VmTypes, Starters
<1>2. /\ call[c].pc = "decided" /\ Starts(v, c, vm[v])
      /\ call' = [call EXCEPT ![c].pc = "settingUp"]
      /\ UNCHANGED <<row, current, made, reload, crossings, vmFaults>>
  BY <1>0 DEF SetsUp
<1>3. Replaced(vm[v], vm[v], {"stage"})
  BY <1>1 DEF Replaced
<1>4. /\ call' \in [Calls -> CallRecords] /\ call'[c].pc = "settingUp" /\ call'[c].vm = v
      /\ \A d \in Calls : d # c => call'[d] = call[d]
  BY <1>0, <1>2 DEF VmTypes, CallRecords
<1>5. /\ vm' \in [Vms -> VmRecords] /\ \A u \in Vms : u # v => vm'[u] = vm[u]
      /\ Replaced(vm[v], vm'[v], {"count", "raced"})
      /\ attempt' \in [Vms -> Attempts] /\ attempt'[v][c] = "setup"
      /\ \A x \in Starters : x # c => attempt'[v][x] = attempt[v][x]
      /\ \A u \in Vms : u # v => attempt'[u] = attempt[u]
  BY <1>1, <1>2, StartsDoes
<1>6. /\ vm'[v].kind = vm[v].kind /\ vm'[v].version = vm[v].version /\ vm'[v].torn = vm[v].torn
      /\ vm'[v].left = vm[v].left /\ vm'[v].stage = vm[v].stage /\ vm'[v].up = vm[v].up
      /\ vm'[v].ready = vm[v].ready /\ vm'[v].inErroredState = vm[v].inErroredState
  BY <1>5 DEF Replaced
<1>7. OneVmStep(v)
  BY <1>0, <1>2, <1>4, <1>5, <1>6 DEF OneVmStep, VmTypes
<1>8. /\ c \notin UnderWay(v) /\ c \in Decided(v) /\ c \in Busy(v) /\ c \notin Timers
      /\ vm[v].kind # "eager" /\ vm[v].stage = "resolved"
  BY <1>0, <1>1, <1>2, Apart DEF Linked, Decided, Busy
<1>9. UnderWay(v)' = UnderWay(v) \cup {c} /\ Pending(v)' = Pending(v) /\ Decided(v)' \subseteq Decided(v)
  BY <1>1, <1>4, <1>5, <1>8 DEF UnderWay, Pending, Decided, Starters
<1>10. Linked(v)'
  <2>1. \A x \in Starters : attempt'[v][x] = "failing" => vm'[v].inErroredState
    BY <1>1, <1>5, <1>6 DEF Linked
  <2>2. \A x \in Starters : attempt'[v][x] \in {"waiting", "over"} => x \in Timers
    BY <1>1, <1>5 DEF Linked
  <2>3. \A d \in Calls : d \in UnderWay(v)' => call'[d].pc = "settingUp" /\ call'[d].vm = v
    BY <1>1, <1>4, <1>9 DEF Linked
  <2>4. "init" \in UnderWay(v)' => vm'[v].stage = "settingUp"
    BY <1>1, <1>6, <1>9, Apart DEF Linked
  <2> QED BY <1>1, <1>6, <1>8, <2>1, <2>2, <2>3, <2>4 DEF Linked
<1>11. Busy(v)' \subseteq Busy(v) \cup {c}
  BY <1>9 DEF Busy
<1>12. ASSUME vm[v].kind = "eager" \/ (~vm[v].raced /\ ~vm[v].torn)
       PROVE  /\ Busy(v) \subseteq {c} /\ vm[v].count < VM_INIT_MAX_RETRIES
              /\ ~vm[v].up /\ ~vm[v].inErroredState
  <2>1. Busy(v) = {c}
    BY <1>1, <1>8, <1>12, BusyOne
  <2>2. vm[v].count = 0 /\ ~vm[v].up /\ ~vm[v].inErroredState
    BY <1>1, <1>8, <1>12, <2>1 DEF Sole
  <2> QED BY <2>1, <2>2, Bounds
<1> QED BY <1>0, <1>1, <1>2, <1>3, <1>7, <1>8, <1>10, <1>11, <1>12, StartsAlone

-----------------------------------------------------------------------------
(* initialize and getVmMethod *)

(* A step of initialize that is no attempt. *)
LEMMA StageAlone ==
  ASSUME VmTypes, AloneInv, NEW v \in 1..made, NEW s \in {"resolved", "null", "failing", "hung"},
         vm[v].stage \in {"loading", "failing"},
         s = "resolved" => vm[v].stage = "loading" /\ vm[v].kind = "lazy",
         vm' = [vm EXCEPT ![v].stage = s], row' \in {row, Disabled}, vmFaults' \in Nat,
         UNCHANGED <<current, made, attempt, call, reload, crossings>>
  PROVE  OneVmStep(v) /\ AloneInv'
<1>1. v \in Vms /\ vm[v] \in VmRecords /\ Counted(v) /\ Linked(v) /\ Sole(v)
  BY MadeVms DEF AloneInv, VmTypes
<1>2. PICK m : m = [vm[v] EXCEPT !.stage = s]
  OBVIOUS
<1>3. Replaced(vm[v], m, {"stage"}) /\ m.stage = s /\ m \in VmRecords
  <2>1. s \in VmStages
    BY DEF VmStages
  <2> QED BY <1>1, <1>2, <2>1, Stage DEF Replaced
<1>4. vm' = [vm EXCEPT ![v] = m]
  BY <1>1, <1>2 DEF VmTypes
<1>5. vm' \in [Vms -> VmRecords] /\ vm'[v] = m /\ \A u \in Vms : u # v => vm'[u] = vm[u]
  BY <1>1, <1>3, <1>4, OneVm
<1>6. /\ vm'[v].kind = vm[v].kind /\ vm'[v].version = vm[v].version /\ vm'[v].torn = vm[v].torn
      /\ vm'[v].left = vm[v].left /\ vm'[v].stage = s /\ vm'[v].up = vm[v].up
      /\ vm'[v].ready = vm[v].ready /\ vm'[v].inErroredState = vm[v].inErroredState
      /\ vm'[v].count = vm[v].count /\ vm'[v].timer = vm[v].timer /\ vm'[v].raced = vm[v].raced
  BY <1>3, <1>5 DEF Replaced
<1>7. OneVmStep(v)
  <2>1. row' \in [version : Nat, enabled : BOOLEAN] /\ row'.version = row.version
    BY Rows
  <2> QED BY <1>5, <1>6, <2>1 DEF OneVmStep, VmTypes
<1>8. /\ UnderWay(v)' = UnderWay(v) /\ Pending(v)' = Pending(v) /\ Decided(v)' = Decided(v)
      /\ Busy(v)' = Busy(v)
      /\ At(v, "setup")' = At(v, "setup") /\ At(v, "logging")' = At(v, "logging") /\ Spent(v)' = Spent(v)
  BY DEF UnderWay, Pending, Decided, Busy, At, Spent
<1>9. Counted(v)'
  BY <1>1, <1>6, <1>8, CountedSame
<1>10. /\ \A c \in Calls : ~(call[c].pc \in {"decided", "settingUp"} /\ call[c].vm = v)
       /\ "init" \notin UnderWay(v)
  BY <1>1 DEF Linked
<1>11. Linked(v)'
  BY <1>1, <1>6, <1>8, <1>10 DEF Linked
<1>12. Sole(v)'
  <2>1. s = "resolved" => vm[v].count = 0
    BY <1>1 DEF Linked
  <2> QED BY <1>1, <1>6, <1>8, <2>1 DEF Sole
<1> QED BY <1>7, <1>9, <1>11, <1>12, Elsewhere

(* The steps of initialize. *)
LEMMA InitStepAlone ==
  ASSUME VmTypes, AloneInv, NEW v \in 1..made, InitStep(v) PROVE OneVmStep(v) /\ AloneInv'
<1>0. vmFaults \in Nat /\ vmFaults + 1 \in Nat
  BY DEF VmTypes
<1>1. CASE Loads(v)
  <2>1. CASE vm[v].kind = "eager" /\ Starts(v, "init", [vm[v] EXCEPT !.stage = "settingUp"])
    BY <1>1, <2>1, InitStartsAlone DEF Loads
  <2>2. CASE vm[v].kind = "lazy" /\ vm' = [vm EXCEPT ![v].stage = "resolved"] /\ UNCHANGED attempt
    BY <1>0, <1>1, <2>2, StageAlone DEF Loads
  <2>3. CASE vm' = [vm EXCEPT ![v].stage = "null"] /\ UNCHANGED attempt
    BY <1>0, <1>1, <2>3, StageAlone DEF Loads
  <2> QED BY <1>1, <2>1, <2>2, <2>3 DEF Loads
<1>2. CASE LoadThrows(v)
  BY <1>0, <1>2, StageAlone DEF LoadThrows
<1>3. CASE GivesUp(v)
  BY <1>0, <1>3, StageAlone DEF GivesUp
<1>4. CASE Hangs(v)
  BY <1>0, <1>4, StageAlone DEF Hangs, VmFault
<1> QED BY <1>1, <1>2, <1>3, <1>4 DEF InitStep

(* The steps of an attempt under way. *)
LEMMA AttemptStepAlone ==
  ASSUME VmTypes, AloneInv, NEW v \in 1..made, NEW w \in UnderWay(v), AttemptStep(v, w)
  PROVE  OneVmStep(v) /\ AloneInv'
<1>0. vmFaults \in Nat /\ vmFaults + 1 \in Nat /\ w \in Starters
  BY DEF VmTypes, UnderWay
<1>1. CASE Succeeds(v, w) BY <1>0, <1>1, SucceedsAlone
<1>2. CASE AsksForRetry(v, w) BY <1>0, <1>2, AsksForRetryAlone
<1>3. CASE SetsTimer(v, w) BY <1>0, <1>3, SetsTimerAlone
<1>4. CASE FailsForGood(v, w) BY <1>0, <1>4, FailsForGoodAlone
<1>5. CASE DisablesPlugin(v, w)
  <2>1. Ends(v, w, vm[v], "SetupPluginError") /\ "SetupPluginError" \in Outcomes
    BY <1>5 DEF DisablesPlugin, Outcomes
  <2>2. /\ attempt[v][w] = "failing" /\ attempt' = [attempt EXCEPT ![v][w] = Over(w)]
        /\ row' \in {row, Disabled} /\ vmFaults' \in Nat /\ UNCHANGED <<made, current, reload, crossings>>
    BY <1>0, <1>5 DEF DisablesPlugin
  <2> QED BY <1>0, <2>1, <2>2, DisablesAlone
<1>6. CASE DisablingFails(v, w)
  <2>1. Ends(v, w, vm[v], "error") /\ "error" \in Outcomes
    BY <1>6 DEF DisablingFails, Outcomes
  <2>2. /\ attempt[v][w] = "failing" /\ attempt' = [attempt EXCEPT ![v][w] = Over(w)]
        /\ row' \in {row, Disabled} /\ vmFaults' \in Nat /\ UNCHANGED <<made, current, reload, crossings>>
    BY <1>0, <1>6 DEF DisablingFails, VmFault
  <2> QED BY <1>0, <2>1, <2>2, DisablesAlone
<1> QED BY <1>1, <1>2, <1>3, <1>4, <1>5, <1>6 DEF AttemptStep

(* What Others sees, for a call that has not decided yet. *)
LEMMA OthersBusy ==
  ASSUME VmTypes, NEW v \in Vms, NEW w PROVE Others(v, w) = Busy(v) \ {w}
<1>1. {c \in Calls : call[c] = [pc |-> "decided", vm |-> v]} = Decided(v)
  <2>1. \A c \in Calls : call[c] \in CallRecords
    BY DEF VmTypes
  <2>2. \A c \in Calls : call[c] = [pc |-> "decided", vm |-> v] <=> call[c].pc = "decided" /\ call[c].vm = v
    BY <2>1 DEF CallRecords
  <2> QED BY <2>2 DEF Decided
<1> QED BY <1>1 DEF Others, Busy

(* A call that decides to set the VM up has checked what an attempt would change. *)
LEMMA DecidesAlone ==
  ASSUME VmTypes, AloneInv, NEW c \in Calls, NEW v \in 1..made, v = call[c].vm, call[c].pc = "waiting",
         vm[v].stage = "resolved", ~vm[v].ready, ~vm[v].inErroredState,
         call' = [call EXCEPT ![c].pc = "decided"],
         vm' = [vm EXCEPT ![v].raced = @ \/ Others(v, c) # {}],
         UNCHANGED <<row, current, made, attempt, reload, crossings, vmFaults>>
  PROVE  OneVmStep(v) /\ AloneInv'
<1>1. v \in Vms /\ vm[v] \in VmRecords /\ Counted(v) /\ Linked(v) /\ Sole(v)
  BY MadeVms DEF AloneInv, VmTypes
<1>2. PICK b \in BOOLEAN : b = (vm[v].raced \/ Others(v, c) # {})
  OBVIOUS
<1>3. PICK m : m = [vm[v] EXCEPT !.raced = b]
  OBVIOUS
<1>4. Replaced(vm[v], m, {"raced"}) /\ m.raced = b
  BY <1>1, <1>3 DEF Replaced, VmRecords
<1>5. vm' = [vm EXCEPT ![v] = m]
  BY <1>1, <1>2, <1>3 DEF VmTypes
<1>6. vm' \in [Vms -> VmRecords] /\ vm'[v] = m /\ \A u \in Vms : u # v => vm'[u] = vm[u]
  BY <1>1, <1>4, <1>5, OneVm DEF Replaced
<1>7. /\ vm'[v].kind = vm[v].kind /\ vm'[v].version = vm[v].version /\ vm'[v].torn = vm[v].torn
      /\ vm'[v].left = vm[v].left /\ vm'[v].stage = vm[v].stage /\ vm'[v].up = vm[v].up
      /\ vm'[v].ready = vm[v].ready /\ vm'[v].inErroredState = vm[v].inErroredState
      /\ vm'[v].count = vm[v].count /\ vm'[v].timer = vm[v].timer
      /\ vm'[v].raced = b
  BY <1>4, <1>6 DEF Replaced
<1>8. /\ call' \in [Calls -> CallRecords] /\ call'[c].pc = "decided" /\ call'[c].vm = v
      /\ \A d \in Calls : d # c => call'[d] = call[d]
  BY DEF VmTypes, CallRecords
<1>9. OneVmStep(v)
  BY <1>6, <1>7, <1>8 DEF OneVmStep, VmTypes
<1>10. /\ UnderWay(v)' = UnderWay(v) /\ Pending(v)' = Pending(v)
       /\ At(v, "setup")' = At(v, "setup") /\ At(v, "logging")' = At(v, "logging") /\ Spent(v)' = Spent(v)
       /\ Decided(v)' = Decided(v) \cup {c}
  BY <1>8 DEF UnderWay, Pending, Decided, At, Spent
<1>11. c \notin UnderWay(v) /\ c \notin Pending(v) /\ c \notin Decided(v) /\ c \notin Busy(v)
  BY <1>1, Apart DEF Linked, Pending, Decided, Busy
<1>12. vm[v].kind # "eager" /\ ~vm[v].up
  BY <1>1 DEF Linked
<1>13. Counted(v)'
  BY <1>1, <1>7, <1>10, CountedSame
<1>14. Linked(v)'
  <2>1. \A d \in Calls : d \in UnderWay(v)' => call'[d].pc = "settingUp" /\ call'[d].vm = v
    BY <1>1, <1>8, <1>10, <1>11 DEF Linked
  <2> QED BY <1>1, <1>7, <1>10, <1>12, <2>1 DEF Linked
<1>15. Sole(v)'
  <2>1. CASE ~b
    <3>1. ~vm[v].raced /\ Others(v, c) = {}
      BY <1>2, <2>1
    <3>2. Busy(v) = {}
      <4>1. Others(v, c) = Busy(v) \ {c}
        BY <1>1, OthersBusy
      <4> QED BY <1>11, <3>1, <4>1
    <3>3. Busy(v)' = {c} /\ UnderWay(v)' = {} /\ Pending(v)' = {}
      BY <1>10, <3>2 DEF Busy
    <3>4. \A x \in Starters : attempt'[v][x] \notin {"setup", "logging", "waiting"}
      BY <1>1, <3>2, BusyIn
    <3>5. vm[v].count <= VM_INIT_MAX_RETRIES /\ (~vm[v].torn => vm[v].count = 0)
      BY <1>1, <1>12, <3>1, <3>2 DEF Sole
    <3>6. \A t \in Timers : t \in Starters
      BY DEF Starters
    <3> QED BY <1>7, <1>12, <3>3, <3>4, <3>5, <3>6 DEF Sole
  <2>2. CASE b
    BY <1>7, <1>12, <2>2 DEF Sole
  <2> QED BY <2>1, <2>2
<1> QED BY <1>9, <1>13, <1>14, <1>15, Elsewhere

(* A step that starts, ends and decides nothing. *)
LEMMA AloneKept ==
  ASSUME VmTypes, AloneInv, UNCHANGED attempt,
         \A v \in Vms : Replaced(vm[v], vm'[v], {"left"}),
         \A c \in Calls : \/ call'[c] = call[c]
                          \/ /\ call[c].pc \notin {"decided", "settingUp"}
                             /\ call'[c].pc \notin {"decided", "settingUp"}
  PROVE  AloneInv'
<1> SUFFICES ASSUME NEW v \in Vms PROVE Counted(v)' /\ Linked(v)' /\ Sole(v)'
  BY DEF AloneInv, Vms
<1>1. Counted(v) /\ Linked(v) /\ Sole(v)
  BY DEF AloneInv
<1>2. /\ vm'[v].kind = vm[v].kind /\ vm'[v].version = vm[v].version /\ vm'[v].torn = vm[v].torn
      /\ vm'[v].stage = vm[v].stage /\ vm'[v].up = vm[v].up
      /\ vm'[v].ready = vm[v].ready /\ vm'[v].inErroredState = vm[v].inErroredState
      /\ vm'[v].count = vm[v].count /\ vm'[v].timer = vm[v].timer /\ vm'[v].raced = vm[v].raced
  BY DEF Replaced
<1>3. /\ UnderWay(v)' = UnderWay(v) /\ Pending(v)' = Pending(v)
      /\ At(v, "setup")' = At(v, "setup") /\ At(v, "logging")' = At(v, "logging") /\ Spent(v)' = Spent(v)
  BY DEF UnderWay, Pending, At, Spent
<1>4. Decided(v)' = Decided(v)
  BY DEF Decided
<1>5. Busy(v)' = Busy(v)
  BY <1>3, <1>4 DEF Busy
<1>6. Counted(v)'
  BY <1>1, <1>2, <1>3, CountedSame
<1>7. Linked(v)'
  <2>1. \A c \in Calls : c \in UnderWay(v)' => call'[c].pc = "settingUp" /\ call'[c].vm = v
    BY <1>1, <1>3 DEF Linked
  <2>2. \A c \in Calls : call'[c].pc \in {"decided", "settingUp"} /\ call'[c].vm = v =>
          vm'[v].kind # "eager" /\ vm'[v].stage = "resolved"
    BY <1>1, <1>2 DEF Linked
  <2> QED BY <1>1, <1>2, <1>3, <2>1, <2>2 DEF Linked
<1>8. Sole(v)'
  BY <1>1, <1>2, <1>3, <1>4, <1>5 DEF Sole
<1> QED BY <1>6, <1>7, <1>8

(* A call whose VM has resolved decides, or is answered. *)
LEMMA ProceedAlone ==
  ASSUME VmTypes, AloneInv, NEW c \in Calls, Proceed(c)
  PROVE  /\ call[c].vm \in 1..made /\ OneVmStep(call[c].vm) /\ AloneInv'
<1>0. PICK v \in 1..made : v = call[c].vm
  BY Bounds DEF VmTypes, Proceed, CallRecords
<1>1. /\ call[c].pc = "waiting"
      /\ UNCHANGED <<row, current, made, attempt, reload, crossings, vmFaults>>
  BY DEF Proceed
<1>2. CASE vm[v].stage = "resolved" /\ ~vm[v].ready /\ ~vm[v].inErroredState
  <2>1. /\ call' = [call EXCEPT ![c].pc = "decided"]
        /\ vm' = [vm EXCEPT ![v].raced = @ \/ Others(v, c) # {}]
    BY <1>0, <1>2 DEF Proceed
  <2> QED BY <1>0, <1>1, <1>2, <2>1, DecidesAlone
<1>3. CASE ~(vm[v].stage = "resolved" /\ ~vm[v].ready /\ ~vm[v].inErroredState)
  <2>1. Answer(c) /\ UNCHANGED vm
    BY <1>0, <1>3 DEF Proceed
  <2>2. /\ call' \in [Calls -> CallRecords] /\ call'[c] = [pc |-> "answered", vm |-> 0]
        /\ \A d \in Calls : d # c => call'[d] = call[d]
    BY <2>1, AnswerDoes
  <2>3. OneVmStep(v)
    BY <1>0, <1>1, <2>1, <2>2 DEF OneVmStep, VmTypes
  <2>4. \A u \in Vms : Replaced(vm[u], vm'[u], {"left"})
    BY <2>1 DEF Replaced, VmTypes
  <2>5. AloneInv'
    BY <1>1, <2>2, <2>4, AloneKept
  <2> QED BY <1>0, <2>3, <2>5
<1> QED BY <1>2, <1>3

-----------------------------------------------------------------------------
(* Calls that come, saves and reloads *)

(* A reload moves on. *)
LEMMA OneReload ==
  ASSUME VmTypes, NEW r \in Reloads, NEW x \in ReloadRecords, reload' = [reload EXCEPT ![r] = x]
  PROVE  /\ reload' \in [Reloads -> ReloadRecords] /\ reload'[r] = x
         /\ \A q \in Reloads : q # r => reload'[q] = reload[q]
BY DEF VmTypes

(* The VM and version a reload holds. *)
LEMMA ReloadFields ==
  ASSUME VmTypes, NEW r \in Reloads
  PROVE  /\ reload[r] \in ReloadRecords /\ reload[r].seen \in Nat /\ reload[r].vm \in 0..MaxVms
         /\ reload[r].vm \in 0..made /\ made \in Nat /\ made <= MaxVms /\ current \in 0..made
BY Bounds DEF VmTypes, ReloadRecords

(* A reload that makes no VM. *)
LEMMA ReloadTypes ==
  ASSUME VmTypes, NEW r \in Reloads, NEW p \in {"rows", "loading", "schedule", "ended"},
         NEW n \in Nat, NEW k \in 0..made,
         reload' = [reload EXCEPT ![r] = [pc |-> p, seen |-> n, vm |-> k]],
         UNCHANGED <<row, made, vm, attempt, call, vmFaults>>, current' \in 0..made, crossings' \in Nat
  PROVE  VmTypes'
<1> DEFINE x == [pc |-> p, seen |-> n, vm |-> k]
<1>1. k \in 0..MaxVms /\ k <= made
  BY Bounds DEF VmTypes
<1>2. x \in ReloadRecords /\ x.vm = k
  BY <1>1 DEF ReloadRecords
<1>3. reload' = [reload EXCEPT ![r] = x]
  OBVIOUS
<1> HIDE DEF x
<1>4. /\ reload' \in [Reloads -> ReloadRecords] /\ reload'[r] = x
      /\ \A q \in Reloads : q # r => reload'[q] = reload[q]
  BY <1>2, <1>3, OneReload
<1>5. \A q \in Reloads : reload'[q].vm <= made
  BY <1>1, <1>2, <1>4 DEF VmTypes
<1> QED BY <1>4, <1>5 DEF VmTypes

(* Nothing of the VMs changes. *)
LEMMA SameVms ==
  ASSUME VmTypes, UNCHANGED vm PROVE \A v \in Vms : Replaced(vm[v], vm'[v], {"left"})
BY DEF Replaced, VmTypes

(* The steps that concern no VM that was made: a save, a call, what a reload reads. *)
LEMMA SaveSafe == ASSUME VmTypes, AloneInv, Save PROVE VmTypes' /\ AloneInv'
<1>1. row' \in [version : Nat, enabled : BOOLEAN]
  BY DEF Save, VmTypes
<1>2. UNCHANGED <<current, made, vm, attempt, call, reload, crossings, vmFaults>>
  BY DEF Save
<1>3. VmTypes'
  BY <1>1, <1>2 DEF VmTypes
<1>4. AloneInv'
  BY <1>2, SameVms, AloneKept
<1> QED BY <1>3, <1>4

(* A call takes the VM in use and waits for it. *)
LEMMA CallSafe ==
  ASSUME VmTypes, AloneInv, NEW c \in Calls, Call(c) PROVE VmTypes' /\ AloneInv'
<1>1. /\ current # 0 /\ call' = [call EXCEPT ![c] = [pc |-> "waiting", vm |-> current]]
      /\ UNCHANGED <<row, current, made, vm, attempt, reload, crossings, vmFaults>>
  BY DEF Call
<1>2. call[c].pc = "new"
  BY DEF Call
<1>3. current \in 0..made /\ current \in 0..MaxVms /\ current <= made
  BY Bounds DEF VmTypes
<1>4. /\ call' \in [Calls -> CallRecords] /\ call'[c].pc = "waiting" /\ call'[c].vm = current
      /\ \A d \in Calls : d # c => call'[d] = call[d]
  BY <1>1, <1>3 DEF VmTypes, CallRecords
<1>5. \A d \in Calls : /\ call'[d].vm <= made
                       /\ call'[d].pc \in {"waiting", "decided", "settingUp"} => call'[d].vm # 0
  BY <1>1, <1>3, <1>4 DEF VmTypes
<1>6. VmTypes'
  BY <1>1, <1>4, <1>5 DEF VmTypes
<1>7. \A d \in Calls : \/ call'[d] = call[d]
                       \/ /\ call[d].pc \notin {"decided", "settingUp"}
                          /\ call'[d].pc \notin {"decided", "settingUp"}
  BY <1>2, <1>4
<1>8. AloneInv'
  BY <1>1, <1>7, SameVms, AloneKept
<1> QED BY <1>6, <1>8

(* A reload reads the row. *)
LEMMA ReadSafe ==
  ASSUME VmTypes, AloneInv, NEW r \in Reloads, Read(r) PROVE VmTypes' /\ AloneInv'
<1>1. UNCHANGED <<row, current, made, vm, attempt, call, vmFaults>>
  BY DEF Read
<1>2. PICK n \in Nat : n = IF row.enabled THEN row.version ELSE 0
  BY DEF VmTypes
<1>3. reload' = [reload EXCEPT ![r] = [pc |-> "rows", seen |-> n, vm |-> 0]]
  BY <1>2 DEF Read
<1>4. crossings' \in Nat /\ 0 \in 0..made /\ current' \in 0..made
  BY <1>1, Bounds DEF Read, VmTypes
<1>5. VmTypes'
  BY <1>1, <1>3, <1>4, ReloadTypes
<1>6. AloneInv'
  BY <1>1, SameVms, AloneKept
<1> QED BY <1>5, <1>6

(* The record of a reload that keeps the VM in use, or has none to put in use. *)
LEMMA KeepDoes ==
  ASSUME VmTypes, NEW r \in Reloads, Keep(r)
  PROVE  \E k \in {0, current} :
           /\ k = IF reload[r].seen = 0 THEN 0 ELSE current
           /\ reload' = [reload EXCEPT ![r] = [pc |-> "loading", seen |-> 0, vm |-> k]]
<1>1. PICK k \in {0, current} : k = IF reload[r].seen = 0 THEN 0 ELSE current
  OBVIOUS
<1>2. reload[r] \in ReloadRecords
  BY ReloadFields
<1>3. [reload[r] EXCEPT !.pc = "loading", !.seen = 0, !.vm = k] = [pc |-> "loading", seen |-> 0, vm |-> k]
  <2>1. PICK x : x = [reload[r] EXCEPT !.pc = "loading", !.seen = 0, !.vm = k]
    OBVIOUS
  <2>2. k \in 0..MaxVms
    BY ReloadFields, Bounds
  <2>3. x \in ReloadRecords /\ x.pc = "loading" /\ x.seen = 0 /\ x.vm = k
    BY <1>2, <2>1, <2>2 DEF ReloadRecords
  <2>4. x = [pc |-> "loading", seen |-> 0, vm |-> k]
    BY <2>3 DEF ReloadRecords
  <2> QED BY <2>1, <2>4
<1>4. reload' = [reload EXCEPT ![r] = [reload[r] EXCEPT !.pc = "loading", !.seen = 0, !.vm = k]]
  BY <1>1 DEF Keep, VmTypes
<1> QED BY <1>1, <1>3, <1>4

(* A reload that finds its version in use keeps the VM. *)
LEMMA KeepSafe ==
  ASSUME VmTypes, AloneInv, NEW r \in Reloads, Keep(r) PROVE VmTypes' /\ AloneInv'
<1>1. UNCHANGED <<row, current, made, vm, attempt, call, crossings, vmFaults>>
  BY DEF Keep
<1>2. PICK k \in {0, current} : reload' = [reload EXCEPT ![r] = [pc |-> "loading", seen |-> 0, vm |-> k]]
  BY KeepDoes
<1>3. k \in 0..made /\ current' \in 0..made /\ crossings' \in Nat
  BY <1>1, ReloadFields DEF VmTypes
<1>4. VmTypes'
  BY <1>1, <1>2, <1>3, ReloadTypes
<1>5. AloneInv'
  BY <1>1, SameVms, AloneKept
<1> QED BY <1>4, <1>5

(* A reload that has the schedule is over. *)
LEMMA ScheduledSafe ==
  ASSUME VmTypes, AloneInv, NEW r \in Reloads, Scheduled(r) PROVE VmTypes' /\ AloneInv'
<1>1. UNCHANGED <<row, current, made, vm, attempt, call, crossings, vmFaults>>
  BY DEF Scheduled
<1>2. reload' = [reload EXCEPT ![r] = [pc |-> "ended", seen |-> 0, vm |-> 0]]
  <2>1. [NewReload EXCEPT !.pc = "ended"] = [pc |-> "ended", seen |-> 0, vm |-> 0]
    BY DEF NewReload
  <2> QED BY <2>1 DEF Scheduled
<1>3. 0 \in 0..made /\ current' \in 0..made /\ crossings' \in Nat
  BY <1>1, ReloadFields DEF VmTypes
<1>4. VmTypes'
  BY <1>1, <1>2, <1>3, ReloadTypes
<1>5. AloneInv'
  BY <1>1, SameVms, AloneKept
<1> QED BY <1>4, <1>5

(* A VM that nothing refers to any more is marked so. *)
LEMMA LeftDoes ==
  ASSUME VmTypes, NEW S, S \subseteq 1..made,
         vm' = [v \in Vms |-> IF v \in S THEN [vm[v] EXCEPT !.left = TRUE] ELSE vm[v]]
  PROVE  /\ vm' \in [Vms -> VmRecords]
         /\ \A v \in Vms : Replaced(vm[v], vm'[v], {"left"}) /\ (v \notin S => vm'[v] = vm[v])
         /\ \A v \in S : vm'[v].left
<1>1. \A v \in Vms : vm[v] \in VmRecords
  BY DEF VmTypes
<1>2. \A v \in Vms : v \in S => Replaced(vm[v], vm'[v], {"left"}) /\ vm'[v].left
  <2> SUFFICES ASSUME NEW v \in Vms, v \in S PROVE Replaced(vm[v], vm'[v], {"left"}) /\ vm'[v].left
    OBVIOUS
  <2>1. vm'[v] = [vm[v] EXCEPT !.left = TRUE]
    OBVIOUS
  <2> QED BY <1>1, <2>1, Marks
<1>3. \A v \in Vms : v \notin S => Replaced(vm[v], vm'[v], {"left"}) /\ vm'[v] = vm[v]
  BY <1>1 DEF Replaced
<1>4. \A v \in S : v \in Vms
  BY Bounds DEF Vms, VmTypes
<1>5. \A v \in Vms : vm'[v] \in VmRecords
  BY <1>2, <1>3 DEF Replaced
<1> QED BY <1>2, <1>3, <1>4, <1>5

(* It is no VM still to be made. *)
LEMMA LeftTypes ==
  ASSUME VmTypes, NEW S, S \subseteq 1..made,
         vm' = [v \in Vms |-> IF v \in S THEN [vm[v] EXCEPT !.left = TRUE] ELSE vm[v]],
         UNCHANGED <<made, attempt>>
  PROVE  /\ vm' \in [Vms -> VmRecords]
         /\ \A v \in Vms : v > made' => vm'[v] = NewVm /\ \A w \in Starters : attempt'[v][w] = "none"
<1>1. \A v \in S : ~(v > made) /\ v \in Vms
  BY Bounds DEF VmTypes, Vms
<1>2. vm' \in [Vms -> VmRecords] /\ \A v \in Vms : v \notin S => vm'[v] = vm[v]
  BY LeftDoes
<1> QED BY <1>1, <1>2 DEF VmTypes

(* The VM that the maps of the hub lose, if the reload puts none in use. *)
Dropped(r) == IF reload[r].vm = 0 /\ current # 0 THEN {current} ELSE {}

(* Putting a VM in use leaves the one before it, unless the reload tore it down. *)
LEMMA AssignDoes ==
  ASSUME VmTypes, NEW r \in Reloads, Assign(r)
  PROVE  /\ vm' = [v \in Vms |-> IF v \in Dropped(r) THEN [vm[v] EXCEPT !.left = TRUE] ELSE vm[v]]
         /\ Dropped(r) \subseteq 1..made
         /\ reload' = [reload EXCEPT ![r] = [pc |-> "schedule", seen |-> reload[r].seen, vm |-> reload[r].vm]]
<1>1. \A v \in Vms : v \in Dropped(r) <=> v = current /\ reload[r].vm = 0
  BY Bounds DEF Dropped, Vms
<1>2. vm' = [v \in Vms |-> IF v \in Dropped(r) THEN [vm[v] EXCEPT !.left = TRUE] ELSE vm[v]]
  BY <1>1 DEF Assign
<1>3. Dropped(r) \subseteq 1..made
  BY ReloadFields DEF Dropped
<1>4. reload[r] \in ReloadRecords
  BY ReloadFields
<1>5. [reload[r] EXCEPT !.pc = "schedule"] = [pc |-> "schedule", seen |-> reload[r].seen, vm |-> reload[r].vm]
  <2>1. PICK x : x = [reload[r] EXCEPT !.pc = "schedule"]
    OBVIOUS
  <2>2. x \in ReloadRecords /\ x.pc = "schedule" /\ x.seen = reload[r].seen /\ x.vm = reload[r].vm
    BY <1>4, <2>1 DEF ReloadRecords
  <2> QED BY <2>1, <2>2 DEF ReloadRecords
<1>6. reload' = [reload EXCEPT ![r] = [reload[r] EXCEPT !.pc = "schedule"]]
  BY DEF Assign, VmTypes
<1> QED BY <1>2, <1>3, <1>5, <1>6

(* It concerns no attempt. *)
LEMMA AssignSafe ==
  ASSUME VmTypes, AloneInv, NEW r \in Reloads, Assign(r) PROVE VmTypes' /\ AloneInv'
<1>1. UNCHANGED <<row, made, attempt, call, crossings, vmFaults>> /\ current' = reload[r].vm
  BY DEF Assign
<1>2. /\ vm' = [v \in Vms |-> IF v \in Dropped(r) THEN [vm[v] EXCEPT !.left = TRUE] ELSE vm[v]]
      /\ Dropped(r) \subseteq 1..made
      /\ reload' = [reload EXCEPT ![r] = [pc |-> "schedule", seen |-> reload[r].seen, vm |-> reload[r].vm]]
  BY AssignDoes
<1>3. PICK x : x = [pc |-> "schedule", seen |-> reload[r].seen, vm |-> reload[r].vm]
  OBVIOUS
<1>4. x \in ReloadRecords /\ x.vm = reload[r].vm
  BY <1>3, ReloadFields DEF ReloadRecords
<1>5. /\ reload' \in [Reloads -> ReloadRecords] /\ reload'[r] = x
      /\ \A q \in Reloads : q # r => reload'[q] = reload[q]
  BY <1>2, <1>3, <1>4, OneReload
<1>6. \A q \in Reloads : reload'[q].vm <= made
  BY <1>4, <1>5 DEF VmTypes
<1>7. /\ vm' \in [Vms -> VmRecords]
      /\ \A v \in Vms : v > made' => vm'[v] = NewVm /\ \A w \in Starters : attempt'[v][w] = "none"
  BY <1>1, <1>2, LeftTypes
<1>8. current' \in 0..made
  BY <1>1, ReloadFields
<1>9. VmTypes'
  BY <1>1, <1>5, <1>6, <1>7, <1>8 DEF VmTypes
<1>10. \A v \in Vms : Replaced(vm[v], vm'[v], {"left"})
  BY <1>2, LeftDoes
<1>11. AloneInv'
  BY <1>1, <1>10, AloneKept
<1> QED BY <1>9, <1>11

(* A load that throws leaves its VM, which was never in use. *)
LEMMA ThrowsDoes ==
  ASSUME VmTypes, NEW r \in Reloads, Throws(r)
  PROVE  /\ reload[r].vm \in 1..made /\ reload[r].vm # current
         /\ vm' = [v \in Vms |-> IF v \in {reload[r].vm} THEN [vm[v] EXCEPT !.left = TRUE] ELSE vm[v]]
         /\ reload' = [reload EXCEPT ![r] = [pc |-> "ended", seen |-> 0, vm |-> 0]]
<1>1. reload[r].vm \in 1..made /\ reload[r].vm # current
  BY ReloadFields DEF Throws
<1>2. [NewReload EXCEPT !.pc = "ended"] = [pc |-> "ended", seen |-> 0, vm |-> 0]
  BY DEF NewReload
<1>3. vm' = [v \in Vms |-> IF v \in {reload[r].vm} THEN [vm[v] EXCEPT !.left = TRUE] ELSE vm[v]]
  <2>1. vm' = [vm EXCEPT ![reload[r].vm].left = TRUE]
    BY DEF Throws
  <2>2. vm = [v \in Vms |-> vm[v]]
    BY DEF VmTypes
  <2> QED BY <2>1, <2>2
<1> QED BY <1>1, <1>2, <1>3 DEF Throws

(* It concerns no attempt either. *)
LEMMA ThrowsSafe ==
  ASSUME VmTypes, AloneInv, NEW r \in Reloads, Throws(r) PROVE VmTypes' /\ AloneInv'
<1>1. UNCHANGED <<row, current, made, attempt, call>> /\ crossings' = crossings + 1 /\ vmFaults' = vmFaults + 1
  BY DEF Throws, VmFault
<1>2. /\ {reload[r].vm} \subseteq 1..made
      /\ vm' = [v \in Vms |-> IF v \in {reload[r].vm} THEN [vm[v] EXCEPT !.left = TRUE] ELSE vm[v]]
      /\ reload' = [reload EXCEPT ![r] = [pc |-> "ended", seen |-> 0, vm |-> 0]]
  BY ThrowsDoes
<1>3. PICK x : x = [pc |-> "ended", seen |-> 0, vm |-> 0]
  OBVIOUS
<1>4. x \in ReloadRecords /\ x.vm = 0
  BY <1>3, Bounds DEF ReloadRecords
<1>5. /\ reload' \in [Reloads -> ReloadRecords] /\ reload'[r] = x
      /\ \A q \in Reloads : q # r => reload'[q] = reload[q]
  BY <1>2, <1>3, <1>4, OneReload
<1>6. \A q \in Reloads : reload'[q].vm <= made
  BY <1>4, <1>5, ReloadFields DEF VmTypes
<1>7. /\ vm' \in [Vms -> VmRecords]
      /\ \A v \in Vms : v > made' => vm'[v] = NewVm /\ \A w \in Starters : attempt'[v][w] = "none"
  BY <1>1, <1>2, LeftTypes
<1>8. crossings' \in Nat /\ vmFaults' \in Nat
  BY <1>1 DEF VmTypes
<1>9. VmTypes'
  BY <1>1, <1>5, <1>6, <1>7, <1>8 DEF VmTypes
<1>10. \A v \in Vms : Replaced(vm[v], vm'[v], {"left"})
  BY <1>2, LeftDoes
<1>11. AloneInv'
  BY <1>1, <1>10, AloneKept
<1> QED BY <1>9, <1>11

-----------------------------------------------------------------------------
(* A new VM *)

(* The VM that loadPlugin goes on with, as LazyPluginVM makes it. *)
Made(n, seen) ==
  /\ n \in VmRecords /\ n.version = seen
  /\ n.kind \in {"lazy", "eager", "missing"} /\ n.stage \in {"null", "loading"}
  /\ ~n.ready /\ ~n.inErroredState /\ n.count = 0 /\ ~n.up /\ ~n.torn /\ ~n.raced /\ ~n.left

(* The old VM, as teardownPlugins leaves it. *)
TornDown(m, n, raced) ==
  /\ Replaced(m, n, {"torn", "raced"}) /\ n.torn /\ n.raced = (m.raced \/ raced)

(* A reload makes the next VM and tears the one in use down. *)
LEMMA ReplaceDoes ==
  ASSUME VmTypes, NEW r \in Reloads, Replace(r)
  PROVE  /\ reload[r].pc = "rows" /\ reload[r].seen # 0 /\ ~InUse(reload[r].seen)
         /\ made + 1 \in Vms /\ made' = made + 1 /\ current # made + 1
         /\ vm' \in [Vms -> VmRecords] /\ attempt' \in [Vms -> Attempts]
         /\ Made(vm'[made + 1], reload[r].seen)
         /\ \A u \in Vms : u \notin {made + 1, current} => vm'[u] = vm[u]
         /\ \A u \in Vms : u # current => attempt'[u] = attempt[u]
         /\ current # 0 =>
              /\ TornDown(vm[current], vm'[current], UnderWay(current) # {})
              /\ \A x \in Starters : attempt'[current][x] =
                   IF x = vm[current].timer /\ attempt[current][x] = "waiting"
                     THEN "over" ELSE attempt[current][x]
         /\ reload' = [reload EXCEPT ![r] = [pc |-> "loading", seen |-> 0, vm |-> made + 1]]
<1>1. /\ made \in Nat /\ made < MaxVms /\ MaxVms \in Nat /\ made' = made + 1 /\ current \in 0..made
      /\ reload[r].seen \in Nat /\ reload[r] \in ReloadRecords
  BY Bounds, ReloadFields DEF Replace
<1>2. made + 1 \in Vms /\ current # made + 1
  BY <1>1 DEF Vms
<1>3. PICK kind \in {"lazy", "eager", "missing"} :
        TearDown(current, [vm EXCEPT ![made + 1] =
          [NewVm EXCEPT !.kind = kind, !.version = reload[r].seen,
                        !.stage = IF kind = "missing" THEN "null" ELSE "loading"]])
  BY DEF Replace
<1>4. PICK n : n = [NewVm EXCEPT !.kind = kind, !.version = reload[r].seen,
                        !.stage = IF kind = "missing" THEN "null" ELSE "loading"]
  OBVIOUS
<1>5. Made(n, reload[r].seen)
  BY <1>1, <1>4 DEF Made, VmRecords, Kinds, VmStages, NewVm
<1>6. PICK f : f = [vm EXCEPT ![made + 1] = n]
  OBVIOUS
<1>7. /\ f \in [Vms -> VmRecords] /\ f[made + 1] = n
      /\ \A u \in Vms : u # made + 1 => f[u] = vm[u]
  BY <1>2, <1>5, <1>6 DEF Made, VmTypes
<1>8. TearDown(current, f)
  BY <1>3, <1>4, <1>6
<1>9. reload' = [reload EXCEPT ![r] = [pc |-> "loading", seen |-> 0, vm |-> made + 1]]
  <2>1. PICK k \in 0..MaxVms : k = made + 1
    BY <1>1
  <2>2. PICK x : x = [reload[r] EXCEPT !.pc = "loading", !.seen = 0, !.vm = k]
    OBVIOUS
  <2>3. x \in ReloadRecords /\ x.pc = "loading" /\ x.seen = 0 /\ x.vm = k
    BY <1>1, <2>1, <2>2 DEF ReloadRecords
  <2>4. x = [pc |-> "loading", seen |-> 0, vm |-> k]
    BY <2>3 DEF ReloadRecords
  <2>5. reload' = [reload EXCEPT ![r] = [reload[r] EXCEPT !.pc = "loading", !.seen = 0, !.vm = made + 1]]
    BY DEF Replace, VmTypes
  <2> QED BY <2>1, <2>2, <2>4, <2>5
<1>10. CASE current = 0
  <2>1. vm' = f /\ UNCHANGED attempt
    BY <1>8, <1>10 DEF TearDown
  <2> QED BY <1>1, <1>2, <1>5, <1>7, <1>9, <1>10, <2>1 DEF Replace, VmTypes
<1>11. CASE current # 0
  <2>1. current \in Vms
    BY <1>1, <1>11 DEF Vms
  <2>2. /\ vm' = [f EXCEPT ![current].torn = TRUE, ![current].raced = @ \/ UnderWay(current) # {}]
        /\ attempt' = Cleared(attempt, current)
    BY <1>8, <1>11 DEF TearDown
  <2>3. /\ attempt' \in [Vms -> Attempts]
        /\ \A x \in Starters : attempt'[current][x] =
             IF x = vm[current].timer /\ attempt[current][x] = "waiting" THEN "over" ELSE attempt[current][x]
        /\ \A u \in Vms : u # current => attempt'[u] = attempt[u]
    BY <2>1, <2>2, ClearedAttempts
  <2>4. vm[current] \in VmRecords /\ f[current] = vm[current]
    BY <1>2, <1>7, <2>1
  <2>5. PICK b \in BOOLEAN : b = (vm[current].raced \/ UnderWay(current) # {})
    OBVIOUS
  <2>6. PICK m : m = [vm[current] EXCEPT !.torn = TRUE, !.raced = b]
    OBVIOUS
  <2>7. TornDown(vm[current], m, UnderWay(current) # {}) /\ m \in VmRecords
    BY <2>4, <2>5, <2>6 DEF TornDown, Replaced, VmRecords
  <2>8. vm' = [f EXCEPT ![current] = m]
    BY <1>7, <2>1, <2>2, <2>4, <2>5, <2>6
  <2>9. /\ vm' \in [Vms -> VmRecords] /\ vm'[current] = m
        /\ \A u \in Vms : u # current => vm'[u] = f[u]
    BY <1>7, <2>1, <2>7, <2>8
  <2> QED BY <1>1, <1>2, <1>5, <1>7, <1>9, <1>11, <2>3, <2>7, <2>9 DEF Replace
<1> QED BY <1>10, <1>11

(* It keeps the types. *)
LEMMA ReplaceTypes == ASSUME VmTypes, NEW r \in Reloads, Replace(r) PROVE VmTypes'
<1>1. /\ made + 1 \in Vms /\ made' = made + 1
      /\ vm' \in [Vms -> VmRecords] /\ attempt' \in [Vms -> Attempts]
      /\ \A u \in Vms : u \notin {made + 1, current} => vm'[u] = vm[u]
      /\ \A u \in Vms : u # current => attempt'[u] = attempt[u]
      /\ reload' = [reload EXCEPT ![r] = [pc |-> "loading", seen |-> 0, vm |-> made + 1]]
  BY ReplaceDoes
<1>2. UNCHANGED <<row, current, call, crossings, vmFaults>>
  BY DEF Replace
<1>3. made \in Nat /\ made + 1 \in 0..MaxVms /\ current \in 0..made /\ made' \in 0..MaxVms /\ current' \in 0..made'
  BY <1>1, <1>2, Bounds, ReloadFields DEF Vms
<1>4. PICK x : x = [pc |-> "loading", seen |-> 0, vm |-> made + 1]
  OBVIOUS
<1>5. x \in ReloadRecords /\ x.vm = made + 1
  BY <1>3, <1>4 DEF ReloadRecords
<1>6. /\ reload' \in [Reloads -> ReloadRecords] /\ reload'[r] = x
      /\ \A q \in Reloads : q # r => reload'[q] = reload[q]
  BY <1>1, <1>4, <1>5, OneReload
<1>7. \A q \in Reloads : reload'[q].vm <= made'
  <2> TAKE q \in Reloads
  <2>1. reload[q].vm \in 0..made
    BY ReloadFields
  <2> QED BY <1>1, <1>3, <1>5, <1>6, <2>1
<1>8. \A c \in Calls : /\ call'[c].vm <= made'
                       /\ call'[c].pc \in {"waiting", "decided", "settingUp"} => call'[c].vm # 0
  <2> TAKE c \in Calls
  <2>1. call[c] \in CallRecords /\ call[c].vm <= made
        /\ (call[c].pc \in {"waiting", "decided", "settingUp"} => call[c].vm # 0)
    BY DEF VmTypes
  <2>2. call[c].vm \in Nat
    BY <2>1, Bounds DEF CallRecords
  <2> QED BY <1>1, <1>2, <1>3, <2>1, <2>2
<1>9. \A v \in Vms : v > made' => vm'[v] = NewVm /\ \A w \in Starters : attempt'[v][w] = "none"
  <2> SUFFICES ASSUME NEW v \in Vms, v > made' PROVE vm'[v] = NewVm /\ \A w \in Starters : attempt'[v][w] = "none"
    OBVIOUS
  <2>1. v \in Nat /\ v > made /\ v # made + 1 /\ v # current
    BY <1>1, <1>3, Bounds DEF Vms
  <2> QED BY <1>1, <2>1 DEF VmTypes
<1> QED BY <1>2, <1>3, <1>6, <1>1, <1>7, <1>8, <1>9 DEF VmTypes

(* The new VM: nothing has happened to it. *)
LEMMA MadeAlone ==
  ASSUME VmTypes, AloneInv, NEW v \in Vms, v > made, NEW n, Made(vm'[v], n), attempt'[v] = attempt[v], UNCHANGED call
  PROVE  Counted(v)' /\ Linked(v)' /\ Sole(v)'
<1>1. vm[v] = NewVm /\ (\A w \in Starters : attempt'[v][w] = "none") /\ v \in Nat /\ made \in Nat
  BY Bounds DEF VmTypes, Vms
<1>2. Counted(v) /\ vm[v].count = 0
  BY <1>1 DEF AloneInv, NewVm
<1>3. \A c \in Calls : call'[c].vm # v
  <2> SUFFICES ASSUME NEW c \in Calls, call[c].vm = v PROVE FALSE
    OBVIOUS
  <2>1. call[c].vm <= made
    BY DEF VmTypes
  <2> QED BY <1>1, <2>1
<1>4. UnderWay(v)' = {} /\ Pending(v)' = {} /\ Decided(v)' = {} /\ Busy(v)' = {}
  BY <1>1, <1>3 DEF UnderWay, Pending, Decided, Busy, Starters
<1>5. At(v, "setup")' = At(v, "setup") /\ At(v, "logging")' = At(v, "logging") /\ Spent(v)' = Spent(v)
  BY DEF At, Spent
<1>6. Counted(v)'
  BY <1>2, <1>5, CountedSame DEF Made
<1>7. Linked(v)'
  BY <1>1, <1>3, <1>4 DEF Linked, Made
<1>8. Sole(v)'
  BY <1>4, <1>7, SoleNone, Bounds DEF Made
<1> QED BY <1>6, <1>7, <1>8

(* The VM in use: a retry that waits is called off, an attempt is raced. *)
LEMMA TornAlone ==
  ASSUME VmTypes, AloneInv, NEW v \in Vms, TornDown(vm[v], vm'[v], UnderWay(v) # {}), UNCHANGED call,
         \A x \in Starters : attempt'[v][x] =
           IF x = vm[v].timer /\ attempt[v][x] = "waiting" THEN "over" ELSE attempt[v][x]
  PROVE  Counted(v)' /\ Linked(v)' /\ Sole(v)'
<1>1. Counted(v) /\ Linked(v) /\ Sole(v) /\ vm[v] \in VmRecords
  BY DEF AloneInv, VmTypes
<1>2. /\ vm'[v].kind = vm[v].kind /\ vm'[v].stage = vm[v].stage /\ vm'[v].up = vm[v].up
      /\ vm'[v].ready = vm[v].ready /\ vm'[v].inErroredState = vm[v].inErroredState
      /\ vm'[v].count = vm[v].count /\ vm'[v].timer = vm[v].timer
      /\ vm'[v].torn /\ vm'[v].raced = (vm[v].raced \/ UnderWay(v) # {})
  BY DEF TornDown, Replaced
<1>3. UnderWay(v)' = UnderWay(v) /\ Decided(v)' = Decided(v)
  BY DEF UnderWay, Decided
<1>4. Pending(v)' \subseteq Pending(v)
  BY DEF Pending, Starters
<1>5. Busy(v)' \subseteq Busy(v)
  BY <1>3, <1>4 DEF Busy
<1>6. Counted(v)'
  <2>1. At(v, "setup")' = At(v, "setup") /\ At(v, "logging")' = At(v, "logging")
    BY DEF At
  <2>2. Spent(v)' = Spent(v)
    <3> SUFFICES ASSUME NEW x \in Timers PROVE attempt'[v][x] # "none" <=> attempt[v][x] # "none"
      BY DEF Spent
    <3>1. x \in Starters
      BY DEF Starters
    <3> QED BY <3>1
  <2> QED BY <1>1, <1>2, <2>1, <2>2, CountedSame
<1>7. Linked(v)'
  <2>1. \A x \in Starters : attempt'[v][x] \in {"waiting", "over"} => x \in Timers
    BY <1>1 DEF Linked
  <2>2. \A x \in Starters : attempt'[v][x] = "failing" => vm'[v].inErroredState
    BY <1>1, <1>2 DEF Linked
  <2> QED BY <1>1, <1>2, <1>3, <1>4, <2>1, <2>2 DEF Linked
<1>8. Sole(v)'
  <2> SUFFICES ASSUME vm'[v].kind = "eager" \/ ~vm'[v].raced PROVE Sole(v)'
    BY DEF Sole
  <2>1. vm[v].kind = "eager" \/ ~vm[v].raced
    BY <1>1, <1>2, VmFields
  <2>2. \A x \in Starters : attempt'[v][x] \in {"setup", "logging", "waiting"} => attempt'[v][x] = attempt[v][x]
    OBVIOUS
  <2>3. /\ \A a, b \in Busy(v)' : a = b
        /\ vm'[v].count <= VM_INIT_MAX_RETRIES
        /\ vm'[v].up => Busy(v)' = {} /\ ~vm'[v].inErroredState
    BY <1>1, <1>2, <1>5, <2>1 DEF Sole
  <2>4. \A x \in Starters : attempt'[v][x] \in {"logging", "waiting"} => vm'[v].count < VM_INIT_MAX_RETRIES
    BY <1>1, <1>2, <2>1, <2>2 DEF Sole
  <2>5. vm'[v].inErroredState =>
          Decided(v)' = {} /\ \A x \in Starters : attempt'[v][x] \notin {"setup", "logging", "waiting"}
    BY <1>1, <1>2, <1>3, <2>1, <2>2 DEF Sole
  <2>6. \A t \in Timers : t \in Starters
    BY DEF Starters
  <2>7. \A t \in Timers : attempt'[v][t] # "waiting"
    <3> SUFFICES ASSUME NEW t \in Timers, attempt'[v][t] = "waiting" PROVE FALSE
      OBVIOUS
    <3>1. attempt[v][t] = "waiting"
      BY <2>2, <2>6
    <3>2. vm[v].timer = t
      BY <1>1, <2>1, <3>1 DEF Sole
    <3> QED BY <2>6, <3>1, <3>2
  <2>8. ~vm'[v].raced => UnderWay(v)' = {} /\ Pending(v)' = {}
    BY <1>2, <1>3, <2>7 DEF Pending
  <2> QED BY <1>2, <2>3, <2>4, <2>5, <2>7, <2>8 DEF Sole
<1> QED BY <1>6, <1>7, <1>8

(* The new VM has no attempts, and teardown clears the timer that waited. *)
LEMMA ReplaceSafe ==
  ASSUME VmTypes, AloneInv, NEW r \in Reloads, Replace(r) PROVE VmTypes' /\ AloneInv'
<1>1. /\ made + 1 \in Vms /\ current # made + 1
      /\ Made(vm'[made + 1], reload[r].seen)
      /\ \A u \in Vms : u \notin {made + 1, current} => vm'[u] = vm[u]
      /\ \A u \in Vms : u # current => attempt'[u] = attempt[u]
      /\ current # 0 =>
           /\ TornDown(vm[current], vm'[current], UnderWay(current) # {})
           /\ \A x \in Starters : attempt'[current][x] =
                IF x = vm[current].timer /\ attempt[current][x] = "waiting"
                  THEN "over" ELSE attempt[current][x]
  BY ReplaceDoes
<1>2. UNCHANGED call
  BY DEF Replace
<1>3. made \in Nat /\ made + 1 > made
  BY Bounds DEF VmTypes
<1>4. ASSUME NEW v \in Vms PROVE Counted(v)' /\ Linked(v)' /\ Sole(v)'
  <2>1. CASE v = made + 1
    BY <1>1, <1>2, <1>3, <2>1, MadeAlone
  <2>2. CASE v = current
    <3>1. current # 0
      BY <2>2, Bounds DEF Vms
    <3> QED BY <1>1, <1>2, <2>2, <3>1, TornAlone
  <2>3. CASE v \notin {made + 1, current}
    <3>1. vm'[v] = vm[v] /\ attempt'[v] = attempt[v] /\ Counted(v) /\ Linked(v) /\ Sole(v)
      BY <1>1, <2>3 DEF AloneInv
    <3>2. /\ At(v, "setup")' = At(v, "setup") /\ At(v, "logging")' = At(v, "logging")
          /\ Spent(v)' = Spent(v) /\ UnderWay(v)' = UnderWay(v) /\ Pending(v)' = Pending(v)
          /\ Decided(v)' = Decided(v)
      BY <1>2, <3>1 DEF At, Spent, UnderWay, Pending, Decided
    <3>3. Busy(v)' = Busy(v)
      BY <3>2 DEF Busy
    <3>4. Counted(v)'
      BY <3>1, <3>2, CountedSame
    <3>5. Linked(v)'
      BY <1>2, <3>1, <3>2 DEF Linked
    <3>6. Sole(v)'
      BY <3>1, <3>2, <3>3 DEF Sole
    <3> QED BY <3>4, <3>5, <3>6
  <2> QED BY <2>1, <2>2, <2>3
<1>5. AloneInv'
  BY <1>4 DEF AloneInv, Vms
<1> QED BY <1>5, ReplaceTypes

-----------------------------------------------------------------------------
(* Reloads in turn *)

(* What InTurn and InOrder say together, and the parts of it. *)
Bounded ==
  /\ \A v \in 1..made : vm[v].version <= row.version
  /\ \A r \in Reloads : reload[r].pc = "rows" => reload[r].seen <= row.version

OneAtATime ==
  /\ \A q, r \in Reloads : Reloading(q) /\ Reloading(r) => q = r
  /\ \A r \in Reloads : reload[r].pc = "rows" /\ reload[r].seen # 0 =>
       \A v \in 1..made : vm[v].version <= reload[r].seen
  /\ \A r \in Reloads : reload[r].pc = "loading" /\ reload[r].vm \notin {0, current} =>
       /\ reload[r].vm = made /\ made > current /\ ~vm[made].torn /\ Newest(made)
       /\ current # 0 => vm[current].torn

Converging ==
  /\ \A v \in 1..made : v \in {current} \cup Loading \/ vm[v].torn \/ vm[v].left
  /\ current # 0 =>
       /\ \A v \in 1..made : vm[v].version > vm[current].version => v \in Loading
       /\ vm[current].torn => \E v \in Loading : v > current

InOrder == crossings = 0 => Converging

(* The invariant of reloads, split into what holds always and what in turn. *)
LEMMA Parts == InTurn /\ InOrder <=> Bounded /\ (crossings = 0 => OneAtATime /\ Converging)
BY Zenon DEF InTurn, InOrder, Bounded, OneAtATime

(* Versions and numbers. *)
LEMMA Versions ==
  ASSUME VmTypes
  PROVE  /\ row.version \in Nat /\ made \in Nat /\ current \in 0..made
         /\ \A v \in 1..made : vm[v] \in VmRecords /\ vm[v].version \in Nat /\ v \in Vms
         /\ \A r \in Reloads : reload[r].seen \in Nat
<1>1. \A v \in 1..made : v \in Vms
  BY MadeVms
<1>2. \A v \in 1..made : vm[v] \in VmRecords /\ vm[v].version \in Nat
  BY <1>1, VmFields DEF VmTypes
<1> QED BY <1>1, <1>2, ReloadFields DEF VmTypes

(* A step that reloads nothing. *)
LEMMA QuietConverges ==
  ASSUME VmTypes, InTurn, InOrder, UNCHANGED <<current, made, reload, crossings>>,
         row'.version \in Nat, row.version <= row'.version,
         \A v \in 1..made : /\ vm'[v].version = vm[v].version /\ vm'[v].torn = vm[v].torn
                            /\ vm'[v].left = vm[v].left
  PROVE  InTurn' /\ InOrder'
<1>1. Bounded /\ (crossings = 0 => OneAtATime /\ Converging)
  BY Parts
<1>2. Bounded'
  <2>1. \A v \in 1..made : vm'[v].version <= row'.version
    BY <1>1, Versions DEF Bounded
  <2>2. \A r \in Reloads : reload[r].pc = "rows" => reload[r].seen <= row'.version
    BY <1>1, Versions DEF Bounded
  <2> QED BY <2>1, <2>2 DEF Bounded
<1>3. Loading' = Loading
  BY DEF Loading
<1>4. current # 0 => current \in 1..made
  BY Versions
<1>5. Converging => Converging'
  BY <1>3, <1>4 DEF Converging
<1>6. ASSUME OneAtATime PROVE OneAtATime'
  <2>1. \A q, r \in Reloads : Reloading(q)' /\ Reloading(r)' => q = r
    BY <1>6 DEF OneAtATime, Reloading
  <2>2. \A r \in Reloads : reload[r].pc = "rows" /\ reload[r].seen # 0 =>
          \A v \in 1..made : vm'[v].version <= reload[r].seen
    BY <1>6 DEF OneAtATime
  <2>3. ASSUME NEW r \in Reloads, reload[r].pc = "loading", reload[r].vm \notin {0, current}
        PROVE  /\ reload[r].vm = made /\ made > current /\ ~vm'[made].torn /\ Newest(made)'
               /\ current # 0 => vm'[current].torn
    <3>1. /\ reload[r].vm = made /\ made > current /\ ~vm[made].torn /\ Newest(made)
          /\ current # 0 => vm[current].torn
      BY <1>6, <2>3 DEF OneAtATime
    <3>2. made \in 1..made
      BY <3>1, Versions
    <3> QED BY <1>4, <3>1, <3>2 DEF Newest
  <2> QED BY <2>1, <2>2, <2>3 DEF OneAtATime
<1>7. (crossings = 0)' => OneAtATime' /\ Converging'
  BY <1>1, <1>5, <1>6
<1> QED BY <1>2, <1>7, Parts, PTL

(* Any step of a VM. *)
LEMMA OneVmConverges ==
  ASSUME VmTypes, InTurn, InOrder, NEW v \in 1..made, OneVmStep(v) PROVE InTurn' /\ InOrder'
<1>1. row'.version \in Nat /\ row.version <= row'.version
  BY Versions DEF OneVmStep
<1>2. \A u \in 1..made : /\ vm'[u].version = vm[u].version /\ vm'[u].torn = vm[u].torn
                         /\ vm'[u].left = vm[u].left
  BY Versions DEF OneVmStep
<1> QED BY <1>1, <1>2, QuietConverges DEF OneVmStep

(* A save only makes the row newer. *)
LEMMA SaveConverges ==
  ASSUME VmTypes, InTurn, InOrder, Save PROVE InTurn' /\ InOrder'
<1>1. row'.version \in Nat /\ row.version <= row'.version
  BY Versions DEF Save
<1> QED BY <1>1, QuietConverges DEF Save

(* Calls do not reload. *)
LEMMA CallConverges ==
  ASSUME VmTypes, InTurn, InOrder, NEW c \in Calls, Call(c) PROVE InTurn' /\ InOrder'
<1>1. row'.version \in Nat /\ row.version <= row'.version
  BY Versions DEF Call
<1> QED BY <1>1, QuietConverges DEF Call

(* While r alone has its VM still to find or to put in use. *)
LEMMA OnlyReload ==
  ASSUME OneAtATime, NEW r \in Reloads, Reloading(r)
  PROVE  /\ \A q \in Reloads : q # r => reload[q].pc \notin {"rows", "loading"}
         /\ reload[r].pc = "rows" => Loading = {}
         /\ reload[r].pc = "loading" => Loading = {reload[r].vm}
<1>1. \A q \in Reloads : q # r => reload[q].pc \notin {"rows", "loading"}
  BY DEF OneAtATime, Reloading
<1> QED BY <1>1 DEF Loading

(* A reload that reads while another is under way crosses it. *)
LEMMA ReadConverges ==
  ASSUME VmTypes, InTurn, InOrder, NEW r \in Reloads, Read(r) PROVE InTurn' /\ InOrder'
<1>1. Bounded /\ (crossings = 0 => OneAtATime /\ Converging)
  BY Parts
<1>2. /\ reload[r].pc = "new" /\ UNCHANGED <<row, current, made, vm, attempt, call, vmFaults>>
      /\ crossings' = crossings + IF Open = {} THEN 0 ELSE 1
  BY DEF Read
<1>3. PICK n \in Nat : n = IF row.enabled THEN row.version ELSE 0
  BY Versions
<1>4. PICK x : x = [pc |-> "rows", seen |-> n, vm |-> 0]
  OBVIOUS
<1>5. x \in ReloadRecords /\ x.pc = "rows" /\ x.seen = n /\ reload' = [reload EXCEPT ![r] = x]
  BY <1>3, <1>4, Bounds DEF ReloadRecords, Read
<1>6. reload'[r] = x /\ \A q \in Reloads : q # r => reload'[q] = reload[q]
  BY <1>5, OneReload
<1>7. n <= row.version /\ (n # 0 => n = row.version)
  BY <1>3, Versions
<1>8. Bounded'
  BY <1>1, <1>2, <1>5, <1>6, <1>7 DEF Bounded
<1>9. ASSUME (crossings = 0)' PROVE OneAtATime' /\ Converging'
  <2>0. crossings = 0 /\ Open = {}
    BY <1>2, <1>9 DEF VmTypes
  <2>1. OneAtATime /\ Converging /\ \A q \in Reloads : q # r => reload[q].pc \notin {"rows", "loading"}
    BY <1>1, <2>0 DEF Open
  <2>2. Loading = {} /\ Loading' = {}
    BY <1>2, <1>5, <1>6, <2>1 DEF Loading
  <2>3. Converging'
    BY <1>2, <2>1, <2>2 DEF Converging
  <2>4. OneAtATime'
    BY <1>1, <1>2, <1>5, <1>6, <1>7, <2>1 DEF OneAtATime, Reloading, Bounded
  <2> QED BY <2>3, <2>4
<1> QED BY <1>8, <1>9, Parts, PTL

(* The VM kept is the newest. *)
LEMMA KeepConverges ==
  ASSUME VmTypes, InTurn, InOrder, NEW r \in Reloads, Keep(r) PROVE InTurn' /\ InOrder'
<1>1. Bounded /\ (crossings = 0 => OneAtATime /\ Converging)
  BY Parts
<1>2. /\ reload[r].pc = "rows" /\ UNCHANGED <<row, current, made, vm, attempt, call, crossings, vmFaults>>
  BY DEF Keep
<1>3. PICK k \in {0, current} : reload' = [reload EXCEPT ![r] = [pc |-> "loading", seen |-> 0, vm |-> k]]
  BY KeepDoes
<1>4. PICK x : x = [pc |-> "loading", seen |-> 0, vm |-> k]
  OBVIOUS
<1>5. /\ x \in ReloadRecords /\ x.pc = "loading" /\ x.vm = k /\ reload' = [reload EXCEPT ![r] = x]
  <2>1. k \in 0..MaxVms
    BY ReloadFields, Bounds
  <2> QED BY <1>3, <1>4, <2>1 DEF ReloadRecords
<1>6. reload'[r] = x /\ \A q \in Reloads : q # r => reload'[q] = reload[q]
  BY <1>5, OneReload
<1>7. Bounded'
  BY <1>1, <1>2, <1>5, <1>6 DEF Bounded
<1>8. ASSUME (crossings = 0)' PROVE OneAtATime' /\ Converging'
  <2>1. OneAtATime /\ Converging /\ \A q \in Reloads : q # r => reload[q].pc \notin {"rows", "loading"}
    BY <1>1, <1>2, <1>8, OnlyReload DEF Reloading
  <2>2. Loading = {}
    BY <1>2, <2>1, OnlyReload DEF Reloading
  <2>3. Converging'
    BY <1>2, <2>1, <2>2 DEF Converging
  <2>4. OneAtATime'
    BY <1>2, <1>5, <1>6, <2>1 DEF OneAtATime, Reloading
  <2> QED BY <2>3, <2>4
<1> QED BY <1>7, <1>8, Parts, PTL

(* A reload that ends had its VM in use. *)
LEMMA ScheduledConverges ==
  ASSUME VmTypes, InTurn, InOrder, NEW r \in Reloads, Scheduled(r) PROVE InTurn' /\ InOrder'
<1>1. Bounded /\ (crossings = 0 => OneAtATime /\ Converging)
  BY Parts
<1>2. /\ reload[r].pc = "schedule" /\ UNCHANGED <<row, current, made, vm, attempt, call, crossings, vmFaults>>
  BY DEF Scheduled
<1>3. reload'[r].pc = "ended" /\ \A q \in Reloads : q # r => reload'[q] = reload[q]
  BY DEF Scheduled, NewReload, VmTypes
<1>4. Bounded'
  BY <1>1, <1>2, <1>3 DEF Bounded
<1>5. Loading' = Loading
  BY <1>2, <1>3 DEF Loading
<1>6. Converging => Converging'
  BY <1>2, <1>5 DEF Converging
<1>7. ASSUME OneAtATime PROVE OneAtATime'
  <2>1. \A q \in Reloads : reload'[q].pc \in {"rows", "loading"} => reload'[q] = reload[q]
    BY <1>3
  <2>2. Newest(made)' <=> Newest(made)
    BY <1>2 DEF Newest
  <2> QED BY <1>2, <1>7, <2>1, <2>2 DEF OneAtATime, Reloading
<1>8. (crossings = 0)' => OneAtATime' /\ Converging'
  BY <1>1, <1>2, <1>6, <1>7
<1> QED BY <1>4, <1>8, Parts, PTL

(* A load that throws leaves the VM before it in use. *)
LEMMA ThrowsConverges ==
  ASSUME VmTypes, InTurn, InOrder, NEW r \in Reloads, Throws(r) PROVE InTurn' /\ InOrder'
<1>1. Bounded
  BY Parts
<1>2. UNCHANGED <<row, current, made, attempt, call>> /\ crossings' = crossings + 1
  BY DEF Throws
<1>3. reload'[r].pc = "ended" /\ \A q \in Reloads : q # r => reload'[q] = reload[q]
  BY DEF Throws, NewReload, VmTypes
<1>4. \A v \in 1..made : vm'[v].version = vm[v].version
  <2>1. /\ {reload[r].vm} \subseteq 1..made
        /\ vm' = [v \in Vms |-> IF v \in {reload[r].vm} THEN [vm[v] EXCEPT !.left = TRUE] ELSE vm[v]]
    BY ThrowsDoes
  <2>2. \A v \in Vms : Replaced(vm[v], vm'[v], {"left"})
    BY <2>1, LeftDoes
  <2> QED BY <2>2, Versions DEF Replaced
<1>5. Bounded'
  BY <1>1, <1>2, <1>3, <1>4 DEF Bounded
<1>6. (crossings = 0)' => OneAtATime' /\ Converging'
  BY <1>2 DEF VmTypes
<1> QED BY <1>5, <1>6, Parts, PTL

(* The VM put in use is the newest, and its predecessor was torn down. *)
LEMMA AssignConverges ==
  ASSUME VmTypes, InTurn, InOrder, NEW r \in Reloads, Assign(r) PROVE InTurn' /\ InOrder'
<1>1. Bounded /\ (crossings = 0 => OneAtATime /\ Converging)
  BY Parts
<1>2. /\ reload[r].pc = "loading" /\ UNCHANGED <<row, made, attempt, call, crossings, vmFaults>>
      /\ current' = reload[r].vm
  BY DEF Assign
<1>3. /\ vm' = [v \in Vms |-> IF v \in Dropped(r) THEN [vm[v] EXCEPT !.left = TRUE] ELSE vm[v]]
      /\ Dropped(r) \subseteq 1..made
  BY AssignDoes
<1>4. reload'[r].pc = "schedule" /\ \A q \in Reloads : q # r => reload'[q] = reload[q]
  BY DEF Assign, VmTypes
<1>5. \A v \in Vms : Replaced(vm[v], vm'[v], {"left"}) /\ (v \notin Dropped(r) => vm'[v] = vm[v])
  BY <1>3, LeftDoes
<1>6. \A v \in Dropped(r) : vm'[v].left
  BY <1>3, LeftDoes
<1>7. \A v \in 1..made : /\ vm'[v].version = vm[v].version /\ vm'[v].torn = vm[v].torn
                         /\ vm[v].left => vm'[v].left
  <2> SUFFICES ASSUME NEW v \in 1..made
               PROVE  /\ vm'[v].version = vm[v].version /\ vm'[v].torn = vm[v].torn
                      /\ vm[v].left => vm'[v].left
    OBVIOUS
  <2>1. v \in Vms
    BY Versions
  <2> QED BY <1>5, <1>6, <2>1 DEF Replaced
<1>8. Bounded'
  BY <1>1, <1>2, <1>4, <1>7 DEF Bounded
<1>9. ASSUME (crossings = 0)' PROVE OneAtATime' /\ Converging'
  <2>1. OneAtATime /\ Converging
    BY <1>1, <1>2, <1>9
  <2>2. /\ \A q \in Reloads : q # r => reload[q].pc \notin {"rows", "loading"}
        /\ Loading = {reload[r].vm}
    BY <1>2, <2>1, OnlyReload DEF Reloading
  <2>3. \A q \in Reloads : reload'[q].pc \notin {"rows", "loading"}
    BY <1>4, <2>2
  <2>4. OneAtATime' /\ Loading' = {}
    BY <2>3 DEF OneAtATime, Reloading, Loading
  <2>5. PICK k \in 0..made : k = reload[r].vm
    BY ReloadFields
  <2>6. CASE k = 0
    <3>1. current' = 0
      BY <1>2, <2>5, <2>6
    <3>2. ASSUME NEW v \in 1..made PROVE vm'[v].torn \/ vm'[v].left
      <4>1. CASE v = current
        <5>1. v \in Dropped(r)
          BY <2>5, <2>6, <4>1, Versions DEF Dropped
        <5> QED BY <1>6, <5>1
      <4>2. CASE v # current
        <5>1. v \notin {current} \cup Loading
          BY <2>2, <2>5, <2>6, <4>2, Versions
        <5>2. vm[v].torn \/ vm[v].left
          BY <2>1, <5>1 DEF Converging
        <5> QED BY <1>7, <5>2
      <4> QED BY <4>1, <4>2
    <3> QED BY <1>2, <2>4, <3>1, <3>2 DEF Converging
  <2>7. CASE k # 0 /\ k = current
    <3>1. current' = current /\ current # 0 /\ current \in 1..made /\ Loading = {current}
      BY <1>2, <2>2, <2>5, <2>7, Versions
    <3>2. \A v \in 1..made : v \in {current} \/ vm'[v].torn \/ vm'[v].left
      BY <1>7, <2>1, <3>1 DEF Converging
    <3>3. ~(current > current)
      BY <3>1, Versions
    <3>4. ~vm[current].torn
      BY <2>1, <3>1, <3>3 DEF Converging
    <3>5. \A v \in 1..made : ~(vm[v].version > vm[current].version)
      <4> SUFFICES ASSUME NEW v \in 1..made, vm[v].version > vm[current].version PROVE FALSE
        OBVIOUS
      <4>1. v = current
        BY <2>1, <3>1 DEF Converging
      <4> QED BY <3>1, <4>1, Versions
    <3> QED BY <1>2, <1>7, <2>4, <3>1, <3>2, <3>4, <3>5 DEF Converging
  <2>8. CASE k \notin {0, current}
    <3>1. /\ k = made /\ made > current /\ ~vm[made].torn /\ Newest(made)
          /\ current # 0 => vm[current].torn
      BY <1>2, <2>1, <2>5, <2>8 DEF OneAtATime
    <3>2. current' = made /\ made \in 1..made /\ made # 0
      BY <1>2, <2>5, <2>8, <3>1, Versions
    <3>3. ASSUME NEW v \in 1..made, v # made PROVE vm'[v].torn \/ vm'[v].left
      <4>1. CASE v = current
        BY <1>7, <3>1, <4>1, Versions
      <4>2. CASE v # current
        <5>1. v \notin {current} \cup Loading
          BY <2>2, <2>5, <3>1, <3>3, <4>2
        <5>2. vm[v].torn \/ vm[v].left
          BY <2>1, <5>1 DEF Converging
        <5> QED BY <1>7, <5>2
      <4> QED BY <4>1, <4>2
    <3>4. \A v \in 1..made : ~(vm[v].version > vm[made].version)
      BY <3>1, <3>2, Versions DEF Newest
    <3> QED BY <1>2, <1>7, <2>4, <3>1, <3>2, <3>3, <3>4 DEF Converging
  <2> QED BY <2>4, <2>6, <2>7, <2>8
<1> QED BY <1>8, <1>9, Parts, PTL

(* The VM made is of a version no older than any. *)
LEMMA ReplaceConverges ==
  ASSUME VmTypes, InTurn, InOrder, NEW r \in Reloads, Replace(r) PROVE InTurn' /\ InOrder'
<1>1. Bounded /\ (crossings = 0 => OneAtATime /\ Converging)
  BY Parts
<1>2. /\ reload[r].pc = "rows" /\ reload[r].seen # 0
      /\ made + 1 \in Vms /\ made' = made + 1 /\ current # made + 1
      /\ Made(vm'[made + 1], reload[r].seen)
      /\ \A u \in Vms : u \notin {made + 1, current} => vm'[u] = vm[u]
      /\ current # 0 => TornDown(vm[current], vm'[current], UnderWay(current) # {})
      /\ reload' = [reload EXCEPT ![r] = [pc |-> "loading", seen |-> 0, vm |-> made + 1]]
  BY ReplaceDoes
<1>3. UNCHANGED <<row, current, call, crossings, vmFaults>>
  BY DEF Replace
<1>4. PICK x : x = [pc |-> "loading", seen |-> 0, vm |-> made + 1]
  OBVIOUS
<1>5. x.pc = "loading" /\ x.vm = made + 1 /\ x \in ReloadRecords
  BY <1>2, <1>4, Bounds DEF ReloadRecords, Vms
<1>6. reload'[r] = x /\ \A q \in Reloads : q # r => reload'[q] = reload[q]
  BY <1>2, <1>4, <1>5, OneReload
<1>7. \A v \in 1..made' : v \in 1..made \/ v = made + 1
  BY <1>2, Versions
<1>8. ASSUME NEW v \in 1..made
      PROVE  /\ vm'[v].version = vm[v].version /\ vm'[v].left = vm[v].left
             /\ vm[v].torn => vm'[v].torn
             /\ v = current => vm'[v].torn
             /\ v # current => vm'[v] = vm[v]
  <2>1. v \in Vms /\ v # made + 1 /\ v # 0
    BY Versions
  <2> QED BY <1>2, <2>1 DEF TornDown, Replaced
<1>9. /\ vm'[made + 1].version = reload[r].seen /\ ~vm'[made + 1].torn
  BY <1>2 DEF Made
<1>10. Bounded'
  <2>1. \A v \in 1..made' : vm'[v].version <= row.version
    BY <1>1, <1>2, <1>7, <1>8, <1>9 DEF Bounded
  <2>2. \A q \in Reloads : reload'[q].pc = "rows" => reload'[q].seen <= row.version
    BY <1>1, <1>5, <1>6 DEF Bounded
  <2> QED BY <1>3, <2>1, <2>2 DEF Bounded
<1>11. ASSUME (crossings = 0)' PROVE OneAtATime' /\ Converging'
  <2>1. OneAtATime /\ Converging
    BY <1>1, <1>3, <1>11
  <2>2. /\ \A q \in Reloads : q # r => reload[q].pc \notin {"rows", "loading"}
        /\ Loading = {}
    BY <1>2, <2>1, OnlyReload DEF Reloading
  <2>3. \A q \in Reloads : q # r => reload'[q].pc \notin {"rows", "loading"}
    BY <1>6, <2>2
  <2>4. Loading' = {made + 1}
    BY <1>5, <1>6, <2>3 DEF Loading
  <2>5. \A v \in 1..made' : vm'[v].version <= vm'[made + 1].version
    <3>1. \A v \in 1..made : vm[v].version <= reload[r].seen
      BY <1>2, <2>1 DEF OneAtATime
    <3> QED BY <1>7, <1>8, <1>9, <3>1, Versions
  <2>6. made + 1 > current /\ (current # 0 => current \in 1..made)
    BY Versions
  <2>7. OneAtATime'
    <3>1. \A p, q \in Reloads : Reloading(p)' /\ Reloading(q)' => p = q
      BY <2>3 DEF Reloading
    <3>2. \A q \in Reloads : reload'[q].pc # "rows"
      BY <1>5, <1>6, <2>3
    <3>4. current # 0 => vm'[current].torn
      BY <1>8, <2>6
    <3>5. \A q \in Reloads : reload'[q].pc = "loading" => reload'[q].vm = made + 1
      BY <1>5, <1>6, <2>3
    <3>6. Newest(made)'
      BY <1>2, <2>5 DEF Newest
    <3> QED BY <1>2, <1>3, <1>9, <2>6, <3>1, <3>2, <3>4, <3>5, <3>6 DEF OneAtATime
  <2>8. Converging'
    <3>1. \A v \in 1..made' : v \in {current} \cup Loading' \/ vm'[v].torn \/ vm'[v].left
      BY <1>7, <1>8, <2>1, <2>2, <2>4 DEF Converging
    <3>2. current # 0 => \A v \in 1..made' : vm'[v].version > vm'[current].version => v \in Loading'
      BY <1>7, <1>8, <2>1, <2>2, <2>4, <2>6 DEF Converging
    <3>3. \E v \in Loading' : v > current
      BY <2>4, <2>6
    <3> QED BY <1>3, <3>1, <3>2, <3>3 DEF Converging
  <2> QED BY <2>7, <2>8
<1> QED BY <1>10, <1>11, Parts, PTL

-----------------------------------------------------------------------------
(* The account of VMs left without a teardown *)

(* A VM in use that was not torn down is left when another takes its place.      *)
Risk == current # 0 /\ ~vm[current].torn /\ Loading \ {0, current} # {}

(* What reloads under way may still leave: each that has not put its VM in use   *)
(* can find in use the VM of another, all but the last; and the VM in use now,   *)
(* if it was not torn down.                                                      *)
Owed == IF Open = {} THEN 0 ELSE Cardinality(Open) - 1 + (IF Risk THEN 1 ELSE 0)

Account == Cardinality(Forgotten) + Owed <= crossings

(* There are finitely many of either. *)
LEMMA AccountFinite ==
  ASSUME VmTypes
  PROVE  /\ IsFiniteSet(Forgotten) /\ Cardinality(Forgotten) \in Nat
         /\ IsFiniteSet(Open) /\ Cardinality(Open) \in Nat
         /\ Open # {} => Cardinality(Open) >= 1
         /\ Owed \in Nat /\ crossings \in Nat
<1>1. IsFiniteSet(1..made) /\ IsFiniteSet(Reloads)
  BY FS_Interval, Bounds DEF VmTypes, Reloads
<1>2. Forgotten \subseteq 1..made /\ Open \subseteq Reloads
  BY DEF Forgotten, Open
<1>3. IsFiniteSet(Forgotten) /\ IsFiniteSet(Open)
  BY <1>1, <1>2, FS_Subset
<1>4. Cardinality(Forgotten) \in Nat /\ Cardinality(Open) \in Nat
  BY <1>3, FS_CardinalityType
<1>5. Open # {} => Cardinality(Open) >= 1
  BY <1>3, <1>4, FS_EmptySet
<1> QED BY <1>3, <1>4, <1>5 DEF Owed, VmTypes

(* A step that leaves no VM and begins no reload. *)
LEMMA NoneForgotten ==
  ASSUME VmTypes, VmTypes', Account, Forgotten' \subseteq Forgotten, Open' \subseteq Open,
         Risk' => Risk, crossings' >= crossings
  PROVE  Account'
<1>1. /\ IsFiniteSet(Forgotten) /\ IsFiniteSet(Open) /\ Cardinality(Forgotten) \in Nat
      /\ Cardinality(Open) \in Nat /\ (Open # {} => Cardinality(Open) >= 1) /\ crossings \in Nat
  BY AccountFinite
<1>2. crossings' \in Nat
  BY DEF VmTypes
<1>3. Cardinality(Forgotten') \in Nat /\ Cardinality(Forgotten') <= Cardinality(Forgotten)
  BY <1>1, FS_Subset, FS_CardinalityType
<1>4. Cardinality(Open') \in Nat /\ Cardinality(Open') <= Cardinality(Open)
  BY <1>1, FS_Subset, FS_CardinalityType
<1>5. Owed' <= Owed
  BY <1>1, <1>4 DEF Owed
<1>6. Owed \in Int /\ Owed' \in Int
  BY <1>1, <1>4 DEF Owed
<1> QED BY <1>1, <1>2, <1>3, <1>5, <1>6 DEF Account

(* A step that reloads nothing. *)
LEMMA QuietAccount ==
  ASSUME VmTypes, VmTypes', Account, UNCHANGED <<current, made, reload, crossings>>,
         \A v \in 1..made : vm'[v].torn = vm[v].torn /\ vm'[v].left = vm[v].left
  PROVE  Account'
<1>1. Loading' = Loading /\ Open' = Open
  BY DEF Loading, Open
<1>2. Forgotten' = Forgotten
  BY <1>1 DEF Forgotten
<1>3. current # 0 => current \in 1..made
  BY Versions
<1>4. Risk' => Risk
  BY <1>1, <1>3 DEF Risk
<1>5. crossings' >= crossings
  BY DEF VmTypes
<1> QED BY <1>1, <1>2, <1>4, <1>5, NoneForgotten

(* A reload that begins while another is under way crosses it. *)
LEMMA ReadAccount ==
  ASSUME VmTypes, VmTypes', Account, NEW r \in Reloads, Read(r) PROVE Account'
<1>1. /\ UNCHANGED <<current, made, vm>> /\ reload[r].pc = "new"
      /\ crossings' = crossings + IF Open = {} THEN 0 ELSE 1
  BY DEF Read
<1>2. reload'[r].pc = "rows" /\ \A q \in Reloads : q # r => reload'[q] = reload[q]
  BY DEF Read, VmTypes
<1>3. Loading' = Loading
  BY <1>1, <1>2 DEF Loading
<1>4. Open' = Open \cup {r} /\ r \notin Open
  BY <1>1, <1>2 DEF Open
<1>5. Forgotten' = Forgotten /\ Risk' = Risk
  BY <1>1, <1>3 DEF Forgotten, Risk
<1>6. /\ IsFiniteSet(Open) /\ Cardinality(Open) \in Nat /\ Cardinality(Forgotten) \in Nat
      /\ crossings \in Nat /\ (Open # {} => Cardinality(Open) >= 1)
  BY AccountFinite
<1>7. Cardinality(Open') = Cardinality(Open) + 1
  BY <1>4, <1>6, FS_AddElement
<1>8. CASE Open = {}
  <2>1. Loading = {}
    BY <1>8 DEF Loading, Open
  <2>2. ~Risk'
    BY <1>3, <2>1 DEF Risk
  <2>3. Cardinality(Open) = 0
    BY <1>8, FS_EmptySet
  <2>4. Owed' = 0 /\ Owed = 0
    BY <1>4, <1>7, <1>8, <2>2, <2>3 DEF Owed
  <2> QED BY <1>1, <1>5, <1>6, <1>8, <2>4 DEF Account
<1>9. CASE Open # {}
  <2>1. Owed' = Owed + 1 /\ Owed \in Int
    BY <1>4, <1>5, <1>6, <1>7, <1>9 DEF Owed
  <2> QED BY <1>1, <1>5, <1>6, <1>9, <2>1 DEF Account
<1> QED BY <1>8, <1>9

(* A reload that keeps the VM in use, or finds no config in force. *)
LEMMA KeepAccount ==
  ASSUME VmTypes, VmTypes', Account, NEW r \in Reloads, Keep(r) PROVE Account'
<1>1. UNCHANGED <<current, made, vm, crossings>> /\ reload[r].pc = "rows"
  BY DEF Keep
<1>2. PICK k \in {0, current} : reload' = [reload EXCEPT ![r] = [pc |-> "loading", seen |-> 0, vm |-> k]]
  BY KeepDoes
<1>3. /\ reload'[r].pc = "loading" /\ reload'[r].vm = k
      /\ \A q \in Reloads : q # r => reload'[q] = reload[q]
  BY <1>2 DEF VmTypes
<1>4. Loading' = Loading \cup {k}
  BY <1>1, <1>3 DEF Loading
<1>5. Open' = Open
  BY <1>1, <1>3 DEF Open
<1>6. Forgotten' \subseteq Forgotten
  BY <1>1, <1>4 DEF Forgotten
<1>7. Risk' => Risk
  BY <1>1, <1>4 DEF Risk
<1>8. crossings' >= crossings
  BY <1>1 DEF VmTypes
<1> QED BY <1>5, <1>6, <1>7, <1>8, NoneForgotten

(* A reload that makes a VM tears the one in use down. *)
LEMMA ReplaceAccount ==
  ASSUME VmTypes, VmTypes', Account, NEW r \in Reloads, Replace(r) PROVE Account'
<1>1. /\ reload[r].pc = "rows" /\ made + 1 \in Vms /\ made' = made + 1
      /\ \A u \in Vms : u \notin {made + 1, current} => vm'[u] = vm[u]
      /\ current # 0 => TornDown(vm[current], vm'[current], UnderWay(current) # {})
      /\ reload' = [reload EXCEPT ![r] = [pc |-> "loading", seen |-> 0, vm |-> made + 1]]
  BY ReplaceDoes
<1>2. UNCHANGED <<current, crossings>>
  BY DEF Replace
<1>3. /\ reload'[r].pc = "loading" /\ reload'[r].vm = made + 1
      /\ \A q \in Reloads : q # r => reload'[q] = reload[q]
  BY <1>1 DEF VmTypes
<1>4. Loading' = Loading \cup {made + 1}
  BY <1>1, <1>3 DEF Loading
<1>5. Open' = Open
  BY <1>1, <1>3 DEF Open
<1>6. Forgotten' \subseteq Forgotten
  <2> SUFFICES ASSUME NEW v \in Forgotten' PROVE v \in Forgotten
    OBVIOUS
  <2>1. v \in 1..made' /\ v \notin {current} \cup Loading' /\ ~vm'[v].torn /\ ~vm'[v].left
    BY <1>2 DEF Forgotten
  <2>2. v \in 1..made /\ v # current /\ v \notin Loading /\ v # made + 1
    BY <1>1, <1>4, <2>1, Versions
  <2>3. vm'[v] = vm[v]
    BY <1>1, <2>2, Versions
  <2> QED BY <2>1, <2>2, <2>3 DEF Forgotten
<1>7. ~Risk'
  BY <1>1, <1>2 DEF Risk, TornDown
<1>8. crossings' >= crossings
  BY <1>2 DEF VmTypes
<1> QED BY <1>5, <1>6, <1>7, <1>8, NoneForgotten

(* A reload that ends has put its VM in use. *)
LEMMA ScheduledAccount ==
  ASSUME VmTypes, VmTypes', Account, NEW r \in Reloads, Scheduled(r) PROVE Account'
<1>1. reload[r].pc = "schedule" /\ UNCHANGED <<current, made, vm, crossings>>
  BY DEF Scheduled
<1>2. reload'[r].pc = "ended" /\ \A q \in Reloads : q # r => reload'[q] = reload[q]
  BY DEF Scheduled, NewReload, VmTypes
<1>3. Loading' = Loading /\ Open' = Open
  BY <1>1, <1>2 DEF Loading, Open
<1>4. Forgotten' = Forgotten /\ Risk' = Risk
  BY <1>1, <1>3 DEF Forgotten, Risk
<1>5. crossings' >= crossings
  BY <1>1 DEF VmTypes
<1> QED BY <1>3, <1>4, <1>5, NoneForgotten

(* The VM of a reload that throws was never in use. *)
LEMMA ThrowsAccount ==
  ASSUME VmTypes, VmTypes', Account, NEW r \in Reloads, Throws(r) PROVE Account'
<1>1. /\ reload[r].pc = "loading" /\ UNCHANGED <<current, made>> /\ crossings' = crossings + 1
  BY DEF Throws
<1>2. reload'[r].pc = "ended" /\ \A q \in Reloads : q # r => reload'[q] = reload[q]
  BY DEF Throws, NewReload, VmTypes
<1>3. /\ reload[r].vm \in 1..made /\ reload[r].vm # current
      /\ vm' = [v \in Vms |-> IF v \in {reload[r].vm} THEN [vm[v] EXCEPT !.left = TRUE] ELSE vm[v]]
  BY ThrowsDoes
<1>4. /\ \A v \in Vms : v # reload[r].vm => vm'[v] = vm[v]
      /\ vm'[reload[r].vm].left
  <2>1. {reload[r].vm} \subseteq 1..made
    BY <1>3
  <2>2. /\ \A v \in Vms : v \notin {reload[r].vm} => vm'[v] = vm[v]
        /\ \A v \in {reload[r].vm} : vm'[v].left
    BY <1>3, <2>1, LeftDoes
  <2> QED BY <2>2
<1>5. Loading \subseteq Loading' \cup {reload[r].vm} /\ Loading' \subseteq Loading
  BY <1>2 DEF Loading
<1>6. Open' \subseteq Open
  BY <1>2 DEF Open
<1>7. Forgotten' \subseteq Forgotten
  <2> SUFFICES ASSUME NEW v \in Forgotten' PROVE v \in Forgotten
    OBVIOUS
  <2>1. v \in 1..made /\ v \notin {current} \cup Loading' /\ ~vm'[v].torn /\ ~vm'[v].left
    BY <1>1 DEF Forgotten
  <2>2. v # reload[r].vm
    BY <1>4, <2>1
  <2>3. vm'[v] = vm[v] /\ v \notin Loading
    BY <1>4, <1>5, <2>1, <2>2, Versions
  <2> QED BY <2>1, <2>3 DEF Forgotten
<1>8. Risk' => Risk
  <2>1. current # 0 => vm'[current] = vm[current]
    BY <1>3, <1>4, Versions
  <2> QED BY <1>1, <1>5, <2>1 DEF Risk
<1>9. crossings' >= crossings
  BY <1>1 DEF VmTypes
<1> QED BY <1>6, <1>7, <1>8, <1>9, NoneForgotten

(* Putting a VM in use leaves the one before it, if it was not torn down: that   *)
(* was the risk.  And one reload fewer may do so.                                *)
LEMMA AssignAccount ==
  ASSUME VmTypes, VmTypes', Account, NEW r \in Reloads, Assign(r) PROVE Account'
<1>1. /\ reload[r].pc = "loading" /\ UNCHANGED <<made, crossings>> /\ current' = reload[r].vm
  BY DEF Assign
<1>2. reload'[r].pc = "schedule" /\ \A q \in Reloads : q # r => reload'[q] = reload[q]
  BY DEF Assign, VmTypes
<1>3. /\ vm' = [v \in Vms |-> IF v \in Dropped(r) THEN [vm[v] EXCEPT !.left = TRUE] ELSE vm[v]]
      /\ Dropped(r) \subseteq 1..made
  BY AssignDoes
<1>4. /\ \A v \in Vms : Replaced(vm[v], vm'[v], {"left"}) /\ (v \notin Dropped(r) => vm'[v] = vm[v])
      /\ \A v \in Dropped(r) : vm'[v].left
  BY <1>3, LeftDoes
<1>5. Loading \subseteq Loading' \cup {reload[r].vm} /\ reload[r].vm \in Loading
  BY <1>1, <1>2 DEF Loading
<1>6. r \in Open /\ Open' = Open \ {r}
  BY <1>1, <1>2 DEF Open
<1> DEFINE L == IF Risk THEN {current} ELSE {}
<1>7. Forgotten' \subseteq Forgotten \cup L
  <2> SUFFICES ASSUME NEW v \in Forgotten' PROVE v \in Forgotten \cup L
    OBVIOUS
  <2>1. v \in 1..made /\ v \notin {reload[r].vm} \cup Loading' /\ ~vm'[v].torn /\ ~vm'[v].left
    BY <1>1 DEF Forgotten
  <2>2. v \in Vms /\ v \notin Loading /\ v # 0
    BY <1>5, <2>1, Versions
  <2>3. v \notin Dropped(r) /\ vm'[v] = vm[v]
    BY <1>4, <2>1, <2>2
  <2>4. CASE v = current
    <3>1. reload[r].vm \notin {0, current}
      BY <2>1, <2>2, <2>3, <2>4 DEF Dropped
    <3>2. Risk
      BY <1>5, <2>1, <2>2, <2>3, <2>4, <3>1 DEF Risk
    <3> QED BY <2>4, <3>2
  <2>5. CASE v # current
    BY <2>1, <2>2, <2>3, <2>5 DEF Forgotten
  <2> QED BY <2>4, <2>5
<1>8. /\ IsFiniteSet(Forgotten) /\ Cardinality(Forgotten) \in Nat
      /\ IsFiniteSet(Open) /\ Cardinality(Open) \in Nat /\ Cardinality(Open) >= 1 /\ crossings \in Nat
  BY <1>6, AccountFinite
<1>9. Cardinality(Open') = Cardinality(Open) - 1
  BY <1>6, <1>8, FS_RemoveElement
<1>10. /\ Cardinality(Forgotten') \in Nat
       /\ Cardinality(Forgotten') <= Cardinality(Forgotten) + (IF Risk THEN 1 ELSE 0)
  <2>1. CASE Risk
    <3>1. Forgotten' \subseteq Forgotten \cup {current}
      BY <1>7, <2>1
    <3>2. /\ IsFiniteSet(Forgotten \cup {current})
          /\ Cardinality(Forgotten \cup {current}) \in Nat
          /\ Cardinality(Forgotten \cup {current}) <= Cardinality(Forgotten) + 1
      <4>1. IsFiniteSet(Forgotten \cup {current})
        BY <1>8, FS_AddElement
      <4>2. \/ Cardinality(Forgotten \cup {current}) = Cardinality(Forgotten)
            \/ Cardinality(Forgotten \cup {current}) = Cardinality(Forgotten) + 1
        BY <1>8, FS_AddElement
      <4> QED BY <1>8, <4>1, <4>2
    <3>3. /\ Cardinality(Forgotten') \in Nat
          /\ Cardinality(Forgotten') <= Cardinality(Forgotten \cup {current})
      BY <3>1, <3>2, FS_Subset, FS_CardinalityType
    <3> QED BY <1>8, <2>1, <3>2, <3>3
  <2>2. CASE ~Risk
    <3>1. Forgotten' \subseteq Forgotten
      BY <1>7, <2>2
    <3>2. Cardinality(Forgotten') \in Nat /\ Cardinality(Forgotten') <= Cardinality(Forgotten)
      BY <1>8, <3>1, FS_Subset, FS_CardinalityType
    <3> QED BY <1>8, <2>2, <3>2
  <2> QED BY <2>1, <2>2
<1>11. Owed = Cardinality(Open) - 1 + (IF Risk THEN 1 ELSE 0)
  BY <1>6 DEF Owed
<1>12. Owed' <= Cardinality(Open) - 1 /\ Owed' \in Int
  BY <1>8, <1>9 DEF Owed
<1> HIDE DEF L
<1> QED BY <1>1, <1>8, <1>10, <1>11, <1>12 DEF Account

-----------------------------------------------------------------------------
(* The invariant *)

VmInv == VmTypes /\ AloneInv /\ InTurn /\ InOrder /\ Account

(* Before the start of the thread there is no VM. *)
LEMMA VmInitHolds == ASSUME VmInit PROVE VmInv
<1>0. \A v \in Vms : vm[v] = NewVm /\ \A w \in Starters : attempt[v][w] = "none"
  BY DEF VmInit
<1>1. VmTypes
  <2>1. /\ made = 0 /\ current = 0 /\ row \in [version : {1}, enabled : BOOLEAN] /\ crossings = 0 /\ vmFaults = 0
        /\ vm = [v \in Vms |-> NewVm] /\ attempt = [v \in Vms |-> [w \in Starters |-> "none"]]
        /\ call = [c \in Calls |-> [pc |-> "new", vm |-> 0]] /\ reload = [r \in Reloads |-> NewReload]
    BY DEF VmInit
  <2>2. NewVm \in VmRecords
    BY DEF NewVm, VmRecords, Kinds, VmStages
  <2>3. [pc |-> "new", vm |-> 0] \in CallRecords /\ NewReload \in ReloadRecords /\ NewReload.vm = 0
    BY Bounds DEF CallRecords, ReloadRecords, NewReload
  <2>4. [w \in Starters |-> "none"] \in Attempts
    BY DEF Attempts, Doings
  <2>5. row \in [version : Nat, enabled : BOOLEAN] /\ made \in 0..MaxVms /\ current \in 0..made
    BY <2>1, Bounds
  <2>6. vm \in [Vms -> VmRecords] /\ attempt \in [Vms -> Attempts]
    BY <2>1, <2>2, <2>4
  <2>7. call \in [Calls -> CallRecords] /\ reload \in [Reloads -> ReloadRecords]
    BY <2>1, <2>3
  <2>8. \A c \in Calls : /\ call[c].vm <= made
                         /\ call[c].pc \in {"waiting", "decided", "settingUp"} => call[c].vm # 0
    BY <2>1
  <2>9. \A r \in Reloads : reload[r].vm <= made
    BY <2>1, <2>3
  <2>10. crossings \in Nat /\ vmFaults \in Nat
    BY <2>1
  <2> QED BY <1>0, <2>5, <2>6, <2>7, <2>8, <2>9, <2>10 DEF VmTypes
<1>2. AloneInv
  <2> SUFFICES ASSUME NEW v \in Vms PROVE Counted(v) /\ Linked(v) /\ Sole(v)
    BY DEF AloneInv
  <2>1. At(v, "setup") = {} /\ At(v, "logging") = {} /\ UnderWay(v) = {}
    BY <1>0 DEF At, UnderWay
  <2>2. Spent(v) = {} /\ Pending(v) = {}
    BY <1>0 DEF Spent, Pending, Starters
  <2>3. \A c \in Calls : call[c].pc = "new"
    BY DEF VmInit
  <2>4. Decided(v) = {} /\ Busy(v) = {}
    BY <2>1, <2>2, <2>3 DEF Decided, Busy
  <2>5. Counted(v)
    <3>1. IsFiniteSet({}) /\ Cardinality({}) = 0
      BY FS_EmptySet
    <3>2. vm[v].count = 0
      BY <1>0 DEF NewVm
    <3>3. 0 + 0 + 0 <= 0 /\ 0 + 0 <= VM_INIT_MAX_RETRIES - 1
      BY Bounds
    <3> QED BY <2>1, <2>2, <3>1, <3>2, <3>3 DEF Counted
  <2>6. Linked(v)
    BY <1>0, <2>1, <2>2, <2>3 DEF Linked, NewVm
  <2>7. Sole(v)
    <3>1. /\ vm[v].count = 0 /\ ~vm[v].up /\ ~vm[v].inErroredState /\ ~vm[v].torn
      BY <1>0 DEF NewVm
    <3>2. \A w \in Starters : attempt[v][w] = "none"
      BY <1>0
    <3>3. \A t \in Timers : t \in Starters
      BY DEF Starters
    <3> QED BY <2>1, <2>2, <2>4, <3>1, <3>2, <3>3, Bounds DEF Sole
  <2> QED BY <2>5, <2>6, <2>7
<1>3. made = 0 /\ current = 0 /\ \A r \in Reloads : reload[r].pc = "new"
  BY DEF VmInit, NewReload
<1>4. InTurn /\ InOrder
  BY <1>3 DEF InTurn, InOrder, Converging, Reloading
<1>5. Account
  <2>1. Open = {} /\ Forgotten = {} /\ crossings = 0
    BY <1>3 DEF Open, Forgotten, VmInit
  <2> QED BY <2>1, FS_EmptySet DEF Account, Owed
<1> QED BY <1>1, <1>2, <1>4, <1>5 DEF VmInv

(* The invariant is kept by reloads, ... *)
LEMMA ReloadStepSafe ==
  ASSUME VmInv, NEW r \in Reloads, Read(r) \/ ReloadStep(r) PROVE VmInv'
<1> USE DEF VmInv
<1>1. CASE Read(r) BY <1>1, ReadSafe, ReadConverges, ReadAccount
<1>2. CASE Keep(r) BY <1>2, KeepSafe, KeepConverges, KeepAccount
<1>3. CASE Replace(r) BY <1>3, ReplaceSafe, ReplaceConverges, ReplaceAccount
<1>4. CASE Assign(r) BY <1>4, AssignSafe, AssignConverges, AssignAccount
<1>5. CASE Throws(r) BY <1>5, ThrowsSafe, ThrowsConverges, ThrowsAccount
<1>6. CASE Scheduled(r) BY <1>6, ScheduledSafe, ScheduledConverges, ScheduledAccount
<1> QED BY <1>1, <1>2, <1>3, <1>4, <1>5, <1>6 DEF ReloadStep

(* ... and by every step. *)
LEMMA VmNextHolds == ASSUME VmInv, [VmNext]_vmVars PROVE VmInv'
<1>1. ASSUME NEW v \in 1..made, OneVmStep(v), AloneInv' PROVE VmInv'
  <2>1. \A u \in 1..made : vm'[u].torn = vm[u].torn /\ vm'[u].left = vm[u].left
    BY <1>1, Versions DEF VmInv, OneVmStep
  <2>2. VmTypes' /\ InTurn' /\ InOrder'
    BY <1>1, OneVmTypes, OneVmConverges DEF VmInv
  <2>3. Account'
    BY <1>1, <2>1, <2>2, QuietAccount DEF VmInv, OneVmStep
  <2> QED BY <1>1, <2>2, <2>3 DEF VmInv
<1>2. CASE Save
  BY <1>2, SaveSafe, SaveConverges, QuietAccount DEF VmInv, Save
<1>3. ASSUME NEW v \in 1..made, InitStep(v) PROVE VmInv'
  BY <1>1, <1>3, InitStepAlone DEF VmInv
<1>4. ASSUME NEW v \in 1..made, NEW w \in UnderWay(v), AttemptStep(v, w) PROVE VmInv'
  BY <1>1, <1>4, AttemptStepAlone DEF VmInv
<1>5. ASSUME NEW v \in 1..made, NEW t \in Timers, TimerFires(v, t) PROVE VmInv'
  BY <1>1, <1>5, TimerFiresAlone DEF VmInv
<1>6. ASSUME NEW c \in Calls, Call(c) PROVE VmInv'
  BY <1>6, CallSafe, CallConverges, QuietAccount DEF VmInv, Call
<1>7. ASSUME NEW c \in Calls, Proceed(c) PROVE VmInv'
  BY <1>1, <1>7, ProceedAlone DEF VmInv
<1>8. ASSUME NEW c \in Calls, SetsUp(c) PROVE VmInv'
  BY <1>1, <1>8, SetsUpAlone DEF VmInv
<1>9. ASSUME NEW r \in Reloads, Read(r) \/ ReloadStep(r) PROVE VmInv'
  BY <1>9, ReloadStepSafe
<1>10. CASE UNCHANGED vmVars
  <2>1. VmTypes'
    BY <1>10 DEF VmInv, vmVars, VmTypes
  <2>2. AloneInv'
    BY <1>10, SameVms, AloneKept DEF VmInv, vmVars
  <2>3. row'.version \in Nat /\ row.version <= row'.version
    BY <1>10, Versions DEF VmInv, vmVars
  <2>4. InTurn' /\ InOrder'
    BY <1>10, <2>3, QuietConverges DEF VmInv, vmVars
  <2>5. Account'
    BY <1>10, <2>1, QuietAccount DEF VmInv, vmVars
  <2> QED BY <2>1, <2>2, <2>4, <2>5 DEF VmInv
<1> QED BY <1>2, <1>3, <1>4, <1>5, <1>6, <1>7, <1>8, <1>9, <1>10 DEF VmNext

(* The inductive invariant holds of every reachable state. *)
LEMMA VmInvariance == VmSpec => []VmInv
<1>1. VmInit => VmInv
  BY VmInitHolds
<1>2. VmInv /\ [VmNext]_vmVars => VmInv'
  BY VmNextHolds
<1> QED BY <1>1, <1>2, PTL DEF VmSpec

(* Every variable keeps its type, and a call or a reload refers only to VMs that *)
(* were made.                                                                    *)
THEOREM VmTypeCorrect == VmSpec => []VmTypes
<1>1. VmInv => VmTypes
  BY DEF VmInv
<1> QED BY <1>1, VmInvariance, PTL

(* However many calls set a VM up at once, its retries stay below                *)
(* VM_INIT_MAX_RETRIES and each finds a timer; a VM whose attempts do not meet,  *)
(* as those of an eager one never do, is set up by one at a time, not after it   *)
(* succeeded, and not after its teardown: for any number of calls, reloads, VMs, *)
(* retries and failures.                                                         *)
THEOREM VmSetupsAlone == VmSpec => []SetupsAlone
<1>1. ASSUME VmInv PROVE SetupsAlone
  <2> SUFFICES ASSUME NEW v \in 1..made
               PROVE  /\ \A w \in Starters : attempt[v][w] = "logging" => Unset(v) # {}
                      /\ vm[v].kind = "eager" \/ ~vm[v].raced =>
                           /\ Cardinality(UnderWay(v) \cup Pending(v)) <= 1
                           /\ vm[v].count <= VM_INIT_MAX_RETRIES
                           /\ vm[v].up => UnderWay(v) \cup Pending(v) = {} /\ ~vm[v].inErroredState
                      /\ vm[v].torn /\ ~vm[v].raced => UnderWay(v) \cup Pending(v) = {}
    BY DEF SetupsAlone
  <2>1. VmTypes /\ v \in Vms /\ Counted(v) /\ Sole(v)
    BY <1>1, MadeVms DEF VmInv, AloneInv
  <2>2. \A w \in Starters : attempt[v][w] = "logging" => Unset(v) # {}
    BY <2>1, TimerLeft DEF At
  <2>3. ASSUME vm[v].kind = "eager" \/ ~vm[v].raced
        PROVE  Cardinality(UnderWay(v) \cup Pending(v)) <= 1
    <3>1. CASE UnderWay(v) \cup Pending(v) = {}
      BY <3>1, FS_EmptySet
    <3>2. CASE UnderWay(v) \cup Pending(v) # {}
      <4>1. PICK w : w \in UnderWay(v) \cup Pending(v)
        BY <3>2
      <4>2. UnderWay(v) \cup Pending(v) = {w}
        BY <2>1, <2>3, <4>1 DEF Sole, Busy
      <4>3. Cardinality({w}) = 1
        BY FS_Singleton
      <4> QED BY <4>2, <4>3
    <3> QED BY <3>1, <3>2
  <2>4. vm[v].kind = "eager" \/ ~vm[v].raced =>
          /\ vm[v].count <= VM_INIT_MAX_RETRIES
          /\ vm[v].up => UnderWay(v) \cup Pending(v) = {} /\ ~vm[v].inErroredState
    BY <2>1 DEF Sole, Busy
  <2>5. vm[v].torn /\ ~vm[v].raced => UnderWay(v) \cup Pending(v) = {}
    BY <2>1 DEF Sole
  <2> QED BY <2>2, <2>3, <2>4, <2>5
<1> QED BY <1>1, VmInvariance, PTL

(* However reloads overlap, no more VMs are left without a teardown than reloads *)
(* began while another was under way, or threw; and reloads that follow one      *)
(* another leave one VM in use, the newest, and none without its teardown: for   *)
(* any number of reloads and saves and whatever the attempts to set the VMs up   *)
(* do in between.                                                                *)
THEOREM VmReloadsConverge == VmSpec => []ReloadsConverge
<1>1. ASSUME VmInv PROVE ReloadsConverge
  <2>1. Cardinality(Forgotten) \in Nat /\ Owed \in Nat /\ crossings \in Nat
    BY <1>1, AccountFinite DEF VmInv
  <2>2. Cardinality(Forgotten) <= crossings
    BY <1>1, <2>1 DEF VmInv, Account
  <2>3. crossings = 0 => Converging
    BY <1>1 DEF VmInv, InOrder
  <2> QED BY <2>2, <2>3 DEF ReloadsConverge, Converging
<1> QED BY <1>1, VmInvariance, PTL

=============================================================================
