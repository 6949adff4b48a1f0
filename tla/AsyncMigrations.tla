-------------------------- MODULE AsyncMigrations --------------------------
(***************************************************************************)
(* Async migrations: long-running schema changes, each a list of           *)
(* operations that a Celery task executes one by one. The row of a         *)
(* migration in Postgres is written by the tasks, by requests of the API   *)
(* (trigger, resume, stop, roll back) and by the periodic health check,    *)
(* which looks for tasks that died with their worker.                      *)
(*                                                                         *)
(* An agent is a task, a request or the health check. They share code:     *)
(* process_error, attempt_migration_rollback, complete_migration and       *)
(* trigger_migration are tail calls, so that pc says all there is to do.   *)
(* Every update of a row is a transaction that locks it and writes some    *)
(* fields: one step each. So is each operation on the databases.           *)
(***************************************************************************)
EXTENDS Integers, FiniteSets

CONSTANTS
  Last,                 \* migrations 1..Last; each depends on the one before
  K,                    \* operations of a migration: 0..K-1
  Sign,                 \* the operations whose effect a migration's is_required looks for
  Tasks, Requests,      \* ids of Celery tasks (each is used once), API requests
  Checker, NoTask,
  AutoStart, AutoContinue, DisableAutoRollback,   \* instance settings
  MaxFaults,            \* bounds crashes, failed operations and failed checks
  MaxRequests           \* bounds requests

ASSUME MigrationsAssumption ==
  /\ Last \in Nat /\ K \in Nat \ {0} /\ MaxFaults \in Nat /\ MaxRequests \in Nat
  /\ Checker \notin Tasks \cup Requests /\ Tasks \cap Requests = {} /\ NoTask \notin Tasks
  /\ {AutoStart, AutoContinue, DisableAutoRollback} \subseteq BOOLEAN
  /\ Sign \in [1..Last -> SUBSET (0..(K - 1))]

Migrations == 1..Last
Ops        == 0..(K - 1)
Agents     == Tasks \cup Requests \cup {Checker}

VARIABLES
  status, index, celeryTask,     \* the row: status, current_operation_index, celery_task_id
  pc, mig, at, fresh, child,     \* an agent: its next step, its migration, an operation, ...
  celery, revoked,               \* states of tasks; tasks that a worker is to kill
  inForce, ever,                 \* operations in force; operations that ever were
  waived,                        \* migrations completed as not required, not by their end
  torn,                          \* migrations whose rollback was disturbed: see Disturbed
  faults, requests

row    == <<status, index, celeryTask>>
agents == <<pc, mig, at, fresh, child>>
broker == <<celery, revoked>>
schema == <<inForce, ever, waived>>
bounds == <<faults, requests>>
vars   == <<row, agents, broker, schema, torn, bounds>>

Statuses == {"NotStarted", "Starting", "Running", "CompletedSuccessfully", "Errored",
             "RolledBack", "FailedAtStartup"}
TaskPcs  == {"queued", "start", "mark", "read", "op", "write", "complete", "waive", "next",
             "unfit"}
UndoPcs  == {"undo", "undone", "undoFailed"}
OtherPcs == {"idle", "error", "errorOnly", "back", "call", "record", "inspect"}
States   == {"unused", "PENDING", "STARTED", "ready"}   \* ready: SUCCESS, FAILURE or REVOKED

(* A fresh installation has the schema that its first migrations lead to, *)
(* and the first of these may have been found not required before.         *)
Init ==
  /\ \E n \in 0..Last :
       /\ inForce = [m \in Migrations |-> IF m <= n THEN Ops ELSE {}]
       /\ \E d \in 0..n : waived = [m \in Migrations |-> m <= d]
  /\ ever = inForce
  /\ status = [m \in Migrations |-> IF waived[m] THEN "CompletedSuccessfully" ELSE "NotStarted"]
  /\ index = [m \in Migrations |-> 0]
  /\ celeryTask = [m \in Migrations |-> NoTask]
  /\ pc = [a \in Agents |-> "idle"] /\ mig = [a \in Agents |-> 0] /\ at = [a \in Agents |-> 0]
  /\ fresh = [a \in Agents |-> FALSE] /\ child = [a \in Agents |-> NoTask]
  /\ celery = [t \in Tasks |-> "unused"] /\ revoked = {}
  /\ torn = [m \in Migrations |-> FALSE]
  /\ faults = 0 /\ requests = 0

Fault   == faults < MaxFaults /\ faults' = faults + 1 /\ UNCHANGED requests
NoFault == UNCHANGED bounds

Running == {m \in Migrations : status[m] = "Running"}

DependencyOk(m) == m > 1 => status[m - 1] = "CompletedSuccessfully"

SetStatus(m, s) == status' = [status EXCEPT ![m] = s]

(* A rollback is disturbed by another agent that executes, completes or rolls *)
(* back the same migration meanwhile, and by its own end.                     *)
Undoing(m) == {a \in Agents : pc[a] \in UndoPcs /\ mig[a] = m}
Working(m) == {a \in Agents : pc[a] \in {"op", "write", "complete", "waive"} /\ mig[a] = m}

Disturbed(m) == \E a \in Undoing(m) : \E b \in Undoing(m) \cup Working(m) : b # a

Watch == torn' = [m \in Migrations |-> torn[m] \/ Disturbed(m)']

Goto(a, next) == pc' = [pc EXCEPT ![a] = next] /\ UNCHANGED <<mig, at, fresh, child>> /\ Watch

GotoOp(a, next, i) ==
  /\ pc' = [pc EXCEPT ![a] = next] /\ at' = [at EXCEPT ![a] = i]
  /\ UNCHANGED <<mig, fresh, child>> /\ Watch

(* An idle agent takes up migration m; f: the run it starts is a fresh start. *)
Takes(a, m, next, f) ==
  /\ pc[a] = "idle"
  /\ pc' = [pc EXCEPT ![a] = next] /\ mig' = [mig EXCEPT ![a] = m]
  /\ fresh' = [fresh EXCEPT ![a] = f]
  /\ UNCHANGED <<at, child>> /\ Watch

Leave(a) ==
  /\ pc' = [pc EXCEPT ![a] = "idle"] /\ mig' = [mig EXCEPT ![a] = 0]
  /\ at' = [at EXCEPT ![a] = 0] /\ fresh' = [fresh EXCEPT ![a] = FALSE]
  /\ child' = [child EXCEPT ![a] = NoTask]

(* The agent returns; a task has succeeded then, whatever it did. *)
Return(a) ==
  /\ Leave(a) /\ Watch
  /\ celery' = IF a \in Tasks THEN [celery EXCEPT ![a] = "ready"] ELSE celery
  /\ revoked' = revoked \ {a}

----------------------------------------------------------------------------
(* trigger_migration: the task is queued, and then its id is saved. *)

Call(a) ==
  /\ pc[a] = "call"
  /\ \E t \in Tasks :
       /\ celery[t] = "unused"
       /\ celery' = [celery EXCEPT ![t] = "PENDING"]
       /\ pc' = [pc EXCEPT ![t] = "queued", ![a] = "record"]
       /\ mig' = [mig EXCEPT ![t] = mig[a]]
       /\ fresh' = [fresh EXCEPT ![t] = fresh[a]]
       /\ child' = [child EXCEPT ![a] = t]
  /\ UNCHANGED <<at, row, revoked, schema>> /\ NoFault /\ Watch

Record(a) ==
  /\ pc[a] = "record"
  /\ celeryTask' = [celeryTask EXCEPT ![mig[a]] = child[a]]
  /\ Return(a)
  /\ UNCHANGED <<status, index, schema>> /\ NoFault

----------------------------------------------------------------------------
(* run_async_migration, as Celery runs it *)

Begin(t) ==
  /\ pc[t] = "queued" /\ t \notin revoked
  /\ celery' = [celery EXCEPT ![t] = "STARTED"]
  /\ Goto(t, IF fresh[t] THEN "start" ELSE "read")
  /\ UNCHANGED <<row, revoked, schema>> /\ NoFault

Start_anyOrder(t) ==
  /\ pc[t] = "start"
  /\ Goto(t, "mark")
  /\ UNCHANGED <<row, broker, schema>> /\ NoFault

(* The checks of start_async_migration. is_required looks for the traces of  *)
(* some operations, whatever became of the others: the codec that the first  *)
(* one sets, a table that a later one renames; or for nothing, when the      *)
(* instance is exempt. It may also look at what is not modelled (a comment,  *)
(* a key of Redis), so that a migration with all its traces may be required. *)
Start(t) ==
  /\ pc[t] = "start"
  /\ \/ Running # {} /\ Return(t) /\ NoFault
     \/ /\ Running = {} /\ UNCHANGED broker
        /\ \/ Sign[mig[t]] \subseteq inForce[mig[t]] /\ Goto(t, "waive") /\ NoFault
           \/ ~DependencyOk(mig[t]) /\ Goto(t, "unfit") /\ NoFault
           \/ DependencyOk(mig[t]) /\ Goto(t, "mark") /\ NoFault
           \/ Goto(t, "unfit") /\ Fault
  /\ UNCHANGED <<row, schema>>

(* process_error of a migration that fails at startup *)
Unfit(t) ==
  /\ pc[t] = "unfit"
  /\ SetStatus(mig[t], "FailedAtStartup")
  /\ Return(t)
  /\ UNCHANGED <<index, celeryTask, schema>> /\ NoFault

MarkAsRunning(t) ==
  /\ pc[t] = "mark"
  /\ SetStatus(mig[t], "Running")
  /\ index' = [index EXCEPT ![mig[t]] = 0]
  /\ Goto(t, "read")
  /\ UNCHANGED <<celeryTask, broker, schema>> /\ NoFault

(* run_async_migration_next_op reads the row: after a fresh start whatever its *)
(* status, in a resumed run only while it is Running.                          *)
ReadRow(t) ==
  /\ pc[t] = "read"
  /\ \/ /\ ~fresh[t] /\ status[mig[t]] # "Running"
        /\ Return(t)
     \/ /\ fresh[t] \/ status[mig[t]] = "Running"
        /\ IF index[mig[t]] > K - 1
           THEN Goto(t, "complete")
           ELSE GotoOp(t, "op", index[mig[t]])
        /\ UNCHANGED broker
  /\ UNCHANGED <<row, schema>> /\ NoFault

AddOp(m, i) ==
  /\ inForce' = [inForce EXCEPT ![m] = @ \cup {i}]
  /\ ever' = [ever EXCEPT ![m] = @ \cup {i}]
  /\ UNCHANGED waived

ExecuteOp(t) ==
  /\ pc[t] = "op"
  /\ AddOp(mig[t], at[t])
  /\ Goto(t, "write")
  /\ UNCHANGED <<row, broker>> /\ NoFault

OpFails_goesOn(t) ==
  /\ pc[t] = "op" /\ Fault
  /\ UNCHANGED schema
  /\ Goto(t, "write")
  /\ UNCHANGED <<row, broker>>

(* An operation that throws may have had its effect. *)
OpFails(t) ==
  /\ pc[t] = "op" /\ Fault
  /\ AddOp(mig[t], at[t]) \/ UNCHANGED schema
  /\ Goto(t, "error")
  /\ UNCHANGED <<row, broker>>

WriteIndex(t) ==
  /\ pc[t] = "write"
  /\ index' = [index EXCEPT ![mig[t]] = at[t] + 1]
  /\ GotoOp(t, "read", 0)
  /\ UNCHANGED <<status, celeryTask, broker, schema>> /\ NoFault

(* complete_migration, after the last operation or without it *)
CompleteMigration(t) ==
  /\ pc[t] \in {"complete", "waive"}
  /\ SetStatus(mig[t], "CompletedSuccessfully")
  /\ waived' = [waived EXCEPT ![mig[t]] =
                  pc[t] = "waive" /\ (status[mig[t]] = "CompletedSuccessfully" => @)]
  /\ IF AutoStart /\ mig[t] + 1 \in Migrations THEN Goto(t, "next") /\ UNCHANGED broker ELSE Return(t)
  /\ UNCHANGED <<index, celeryTask, inForce, ever>> /\ NoFault

(* run_next_migration of the migration that depends on this one *)
RunNextMigration(t) ==
  /\ pc[t] = "next"
  /\ LET n == mig[t] + 1
     IN IF DependencyOk(n) /\ status[n] = "NotStarted"
        THEN /\ pc' = [pc EXCEPT ![t] = "call"] /\ mig' = [mig EXCEPT ![t] = n]
             /\ fresh' = [fresh EXCEPT ![t] = TRUE]
             /\ UNCHANGED <<at, child, broker>> /\ Watch
        ELSE Return(t)
  /\ UNCHANGED <<row, schema>> /\ NoFault

----------------------------------------------------------------------------
(* process_error and attempt_migration_rollback *)

ProcessError(a) ==
  /\ pc[a] \in {"error", "errorOnly"}
  /\ SetStatus(mig[a], "Errored")
  /\ IF pc[a] = "error" /\ ~DisableAutoRollback THEN Goto(a, "back") /\ UNCHANGED broker ELSE Return(a)
  /\ UNCHANGED <<index, celeryTask, schema>> /\ NoFault

Rollback_pastTheEnd(a) ==
  /\ pc[a] = "back"
  /\ GotoOp(a, "undo", index[mig[a]])
  /\ UNCHANGED <<row, broker, schema>> /\ NoFault

(* From the current operation down to the first *)
Rollback(a) ==
  /\ pc[a] = "back"
  /\ GotoOp(a, "undo", IF index[mig[a]] > K - 1 THEN K - 1 ELSE index[mig[a]])
  /\ UNCHANGED <<row, broker, schema>> /\ NoFault

Undo(a) ==
  /\ pc[a] = "undo"
  /\ inForce' = [inForce EXCEPT ![mig[a]] = @ \ {at[a]}]
  /\ IF at[a] = 0 THEN Goto(a, "undone") ELSE GotoOp(a, "undo", at[a] - 1)
  /\ UNCHANGED <<row, broker, ever, waived>> /\ NoFault

UndoFails(a) ==
  /\ pc[a] = "undo" /\ Fault
  /\ UNCHANGED inForce \/ inForce' = [inForce EXCEPT ![mig[a]] = @ \ {at[a]}]
  /\ Goto(a, "undoFailed")
  /\ UNCHANGED <<row, broker, ever, waived>>

Stranded_keepsIndex(a) ==
  /\ pc[a] = "undoFailed"
  /\ SetStatus(mig[a], "Errored")
  /\ Return(a)
  /\ UNCHANGED <<index, celeryTask, schema>> /\ NoFault

(* process_error(rollback=False, current_operation_index=op_index) *)
Stranded(a) ==
  /\ pc[a] = "undoFailed"
  /\ SetStatus(mig[a], "Errored")
  /\ index' = [index EXCEPT ![mig[a]] = at[a]]
  /\ Return(a)
  /\ UNCHANGED <<celeryTask, schema>> /\ NoFault

RolledBack(a) ==
  /\ pc[a] = "undone"
  /\ SetStatus(mig[a], "RolledBack")
  /\ index' = [index EXCEPT ![mig[a]] = 0]
  /\ Return(a)
  /\ UNCHANGED <<celeryTask, schema>> /\ NoFault

----------------------------------------------------------------------------
(* Requests of the API: an endpoint reads the row, checks it and saves it in *)
(* one step (its save() writes back every column that it has just read).     *)

Request ==
  /\ requests < MaxRequests /\ requests' = requests + 1
  /\ UNCHANGED <<index, celeryTask, schema, faults>>

Trigger(r, m) ==
  /\ Running = {}
  /\ SetStatus(m, "Starting")
  /\ Takes(r, m, "call", TRUE)
  /\ UNCHANGED broker /\ Request

Resume(r, m) ==
  /\ status[m] = "Errored"
  /\ SetStatus(m, "Running")
  /\ Takes(r, m, "call", FALSE)
  /\ UNCHANGED broker /\ Request

(* A task that is over is not killed any more. *)
Revoke(t) == revoked' = revoked \cup {u \in Tasks : u = t /\ pc[u] # "idle"} /\ UNCHANGED celery

(* force_stop, and force_stop_without_rollback *)
ForceStop(r, m) ==
  /\ status[m] = "Running"
  /\ Revoke(celeryTask[m])
  /\ Takes(r, m, "error", FALSE) \/ Takes(r, m, "errorOnly", FALSE)
  /\ UNCHANGED status /\ Request

(* rollback, and force_rollback of a completed migration *)
RequestRollback(r, m) ==
  /\ status[m] \in {"Errored", "CompletedSuccessfully"}
  /\ Takes(r, m, "back", FALSE)
  /\ UNCHANGED <<status, broker>> /\ Request

(* A Django process starts: kickstart_migration_if_possible. *)
Kickstart(r, m) ==
  /\ AutoStart /\ status[m] = "NotStarted"
  /\ \A n \in 1..(m - 1) : status[n] = "CompletedSuccessfully"
  /\ Takes(r, m, "call", TRUE)
  /\ UNCHANGED <<status, broker>> /\ Request

----------------------------------------------------------------------------
(* check_async_migration_health, every quarter of an hour *)

(* An id that no task has is PENDING, as Celery knows nothing of it. *)
StateOf(t) == IF t \in Tasks THEN celery[t] ELSE "PENDING"

(* With several Running, objects.get throws. *)
CheckHealth(m) ==
  /\ Running = {m} /\ StateOf(celeryTask[m]) \in {"STARTED", "PENDING"}
  /\ pc[Checker] = "idle"
  /\ pc' = [pc EXCEPT ![Checker] = "inspect"] /\ mig' = [mig EXCEPT ![Checker] = m]
  /\ child' = [child EXCEPT ![Checker] = celeryTask[m]]
  /\ UNCHANGED <<at, fresh, row, broker, schema>> /\ NoFault /\ Watch

IsActive(t) == t \in Tasks /\ pc[t] \notin {"idle", "queued"}

(* The worker crashed: continue the migration, or give it up. *)
InspectLost ==
  /\ pc[Checker] = "inspect" /\ ~IsActive(child[Checker])
  /\ Goto(Checker, IF AutoContinue THEN "call" ELSE "error")
  /\ UNCHANGED <<row, broker, schema>> /\ NoFault

InspectActive ==
  /\ pc[Checker] = "inspect" /\ IsActive(child[Checker])
  /\ \/ Return(Checker) /\ NoFault
     \/ Revoke(child[Checker]) /\ Goto(Checker, "error") /\ Fault
  /\ UNCHANGED <<row, schema>>

----------------------------------------------------------------------------
(* Ends *)

(* An agent that ends in the middle of a rollback disturbs it. *)
EndsRollback(a) == torn' = [m \in Migrations |-> torn[m] \/ a \in Undoing(m)]

(* A worker kills a task that was revoked, or drops it from the queue. *)
Kill(t) ==
  /\ t \in revoked /\ pc[t] # "idle"
  /\ EndsRollback(t) /\ Leave(t)
  /\ celery' = [celery EXCEPT ![t] = "ready"]
  /\ revoked' = revoked \ {t}
  /\ UNCHANGED <<row, schema>> /\ NoFault

(* A node goes down, and its task stays STARTED; or only the process of the *)
(* task does, and Celery marks it FAILURE; or a web process goes down.      *)
Crash(a) ==
  /\ pc[a] \notin {"idle", "queued"} /\ Fault
  /\ EndsRollback(a) /\ Leave(a)
  /\ \/ celery' = celery
     \/ a \in Tasks /\ celery' = [celery EXCEPT ![a] = "ready"]
  /\ revoked' = revoked \ {a}
  /\ UNCHANGED <<row, schema>>

TaskStep(t) ==
  \/ Begin(t) \/ Start(t) \/ Unfit(t) \/ MarkAsRunning(t) \/ ReadRow(t) \/ ExecuteOp(t)
  \/ OpFails(t) \/ WriteIndex(t) \/ CompleteMigration(t) \/ RunNextMigration(t) \/ Kill(t)

AgentStep(a) ==
  \/ Call(a) \/ Record(a) \/ ProcessError(a)
  \/ Rollback(a) \/ Undo(a) \/ UndoFails(a) \/ Stranded(a) \/ RolledBack(a) \/ Crash(a)

RequestStep(r, m) ==
  Trigger(r, m) \/ Resume(r, m) \/ ForceStop(r, m) \/ RequestRollback(r, m) \/ Kickstart(r, m)

Next ==
  \/ \E t \in Tasks : TaskStep(t)
  \/ \E a \in Agents : AgentStep(a)
  \/ \E r \in Requests, m \in Migrations : RequestStep(r, m)
  \/ \E m \in Migrations : CheckHealth(m)
  \/ InspectLost \/ InspectActive

Spec == Init /\ [][Next]_vars

----------------------------------------------------------------------------
(* Properties *)

TypeOK ==
  /\ status \in [Migrations -> Statuses] /\ index \in [Migrations -> 0..K]
  /\ celeryTask \in [Migrations -> Tasks \cup {NoTask}]
  /\ pc \in [Agents -> TaskPcs \cup UndoPcs \cup OtherPcs]
  /\ mig \in [Agents -> 0..Last] /\ at \in [Agents -> Ops]
  /\ fresh \in [Agents -> BOOLEAN] /\ child \in [Agents -> Tasks \cup {NoTask}]
  /\ celery \in [Tasks -> States] /\ revoked \subseteq Tasks
  /\ inForce \in [Migrations -> SUBSET Ops] /\ ever \in [Migrations -> SUBSET Ops]
  /\ waived \in [Migrations -> BOOLEAN]
  /\ torn \in [Migrations -> BOOLEAN] /\ faults \in 0..MaxFaults /\ requests \in 0..MaxRequests
  /\ \A a \in Agents : /\ pc[a] # "idle" => mig[a] \in Migrations
                       /\ pc[a] = "next" => mig[a] + 1 \in Migrations

(* However many tasks run a migration, whatever crashes, is stopped, resumed or *)
(* started twice: the index never passes an operation that was not executed,    *)
(* and none is left out of a migration that completes, unless is_required let   *)
(* it off.                                                                      *)
NothingSkipped ==
  \A m \in Migrations :
    /\ 0..(index[m] - 1) \subseteq ever[m]
    /\ status[m] = "CompletedSuccessfully" => ever[m] = Ops \/ waived[m]

(* A completed migration has all its operations in force (until someone rolls  *)
(* it back), although operations are rolled back in between, rollbacks stop    *)
(* half-way, and runs are resumed there: unless a rollback was disturbed. One  *)
(* that was half run, triggered again and found not required has only what     *)
(* is_required looks for.                                                      *)
CompletedIsInForce ==
  \A m \in Migrations :
    status[m] = "CompletedSuccessfully" /\ Undoing(m) = {} /\ ~torn[m] =>
      /\ Sign[m] \subseteq inForce[m]
      /\ ~waived[m] => inForce[m] = Ops

(* No operation of a migration is executed before all those of the one it     *)
(* depends on, or before that was found not required, although only           *)
(* start_async_migration checks the dependency, and resumed runs do not pass  *)
(* there. A migration of which is_required looks for nothing is completed     *)
(* without the check; rolled back and resumed, it is executed without it too. *)
DependenciesFirst ==
  \A m \in Migrations :
    m > 1 /\ Sign[m] # {} /\ ever[m] # {} => ever[m - 1] = Ops \/ waived[m - 1]

=============================================================================
