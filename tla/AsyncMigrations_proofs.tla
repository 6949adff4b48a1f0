----------------------- MODULE AsyncMigrations_proofs -----------------------
(* The type invariant of async migrations and their safety properties, for  *)
(* any number of migrations, operations, tasks and requests, any settings,  *)
(* and any number of faults.                                                *)
EXTENDS AsyncMigrations, TLAPS

Pcs == TaskPcs \cup UndoPcs \cup OtherPcs

AgentTypes ==
  /\ pc \in [Agents -> Pcs] /\ mig \in [Agents -> 0..Last] /\ at \in [Agents -> Ops]
  /\ fresh \in [Agents -> BOOLEAN] /\ child \in [Agents -> Tasks \cup {NoTask}]
  /\ \A a \in Agents : /\ pc[a] # "idle" => mig[a] \in Migrations
                       /\ pc[a] = "next" => mig[a] + 1 \in Migrations

RowTypes ==
  /\ status \in [Migrations -> Statuses] /\ index \in [Migrations -> 0..K]
  /\ celeryTask \in [Migrations -> Tasks \cup {NoTask}]

BrokerTypes == celery \in [Tasks -> States] /\ revoked \subseteq Tasks

SchemaTypes ==
  /\ inForce \in [Migrations -> SUBSET Ops] /\ ever \in [Migrations -> SUBSET Ops]
  /\ waived \in [Migrations -> BOOLEAN]

BoundTypes ==
  torn \in [Migrations -> BOOLEAN] /\ faults \in 0..MaxFaults /\ requests \in 0..MaxRequests

LEMMA TypeParts ==
  TypeOK <=> AgentTypes /\ RowTypes /\ BrokerTypes /\ SchemaTypes /\ BoundTypes
BY DEF TypeOK, AgentTypes, Pcs, RowTypes, BrokerTypes, SchemaTypes, BoundTypes

LEMMA Basics ==
  /\ 0 \in Ops /\ Tasks \subseteq Agents /\ Requests \subseteq Agents /\ Checker \in Agents
  /\ \A m \in Migrations : m \in 0..Last
BY MigrationsAssumption DEF Ops, Agents, Migrations

----------------------------------------------------------------------------
(* What a step does to the agents *)

Same(b) ==
  /\ pc'[b] = pc[b] /\ mig'[b] = mig[b] /\ at'[b] = at[b]
  /\ fresh'[b] = fresh[b] /\ child'[b] = child[b]

OthersSame(a) == \A b \in Agents \ {a} : Same(b)

LEMMA WatchType == ASSUME TypeOK, Watch PROVE torn' \in [Migrations -> BOOLEAN]
BY ZenonT(20) DEF Watch, TypeOK

LEMMA EndType == ASSUME TypeOK, NEW a, EndsRollback(a) PROVE torn' \in [Migrations -> BOOLEAN]
BY ZenonT(20) DEF EndsRollback, TypeOK

LEMMA GotoAgents ==
  ASSUME TypeOK, NEW a \in Agents, NEW p \in Pcs, Goto(a, p), pc[a] # "idle",
         p = "next" => mig[a] + 1 \in Migrations
  PROVE  /\ AgentTypes' /\ OthersSame(a)
         /\ pc'[a] = p /\ mig'[a] = mig[a] /\ at'[a] = at[a] /\ fresh'[a] = fresh[a]
         /\ child'[a] = child[a]
BY DEF Goto, TypeOK, AgentTypes, OthersSame, Same, Pcs

LEMMA GotoOpAgents ==
  ASSUME TypeOK, NEW a \in Agents, NEW p \in Pcs \ {"next"}, NEW i \in Ops, GotoOp(a, p, i), pc[a] # "idle"
  PROVE  /\ AgentTypes' /\ OthersSame(a)
         /\ pc'[a] = p /\ mig'[a] = mig[a] /\ at'[a] = i /\ fresh'[a] = fresh[a]
         /\ child'[a] = child[a]
BY DEF GotoOp, TypeOK, AgentTypes, OthersSame, Same, Pcs

LEMMA TakesAgents ==
  ASSUME TypeOK, NEW a \in Agents, NEW m \in Migrations, NEW p \in Pcs \ {"next"}, NEW f \in BOOLEAN,
         Takes(a, m, p, f)
  PROVE  /\ AgentTypes' /\ OthersSame(a) /\ pc[a] = "idle"
         /\ pc'[a] = p /\ mig'[a] = m /\ at'[a] = at[a] /\ fresh'[a] = f
BY Basics DEF Takes, TypeOK, AgentTypes, OthersSame, Same, Pcs

LEMMA LeaveAgents ==
  ASSUME TypeOK, NEW a \in Agents, Leave(a)
  PROVE  AgentTypes' /\ OthersSame(a) /\ pc'[a] = "idle"
<1>1. 0 \in 0..Last /\ "idle" \in Pcs
  BY MigrationsAssumption DEF Pcs, OtherPcs
<1> QED BY <1>1, Basics DEF Leave, TypeOK, AgentTypes, OthersSame, Same, Pcs

LEMMA ReturnTypes ==
  ASSUME TypeOK, NEW a \in Agents, Return(a)
  PROVE  AgentTypes' /\ OthersSame(a) /\ pc'[a] = "idle" /\ BrokerTypes'
BY LeaveAgents DEF Return, BrokerTypes, TypeOK, States

LEMMA FaultType ==
  ASSUME TypeOK, Fault \/ NoFault PROVE faults' \in 0..MaxFaults /\ requests' \in 0..MaxRequests
BY MigrationsAssumption DEF Fault, NoFault, bounds, TypeOK

LEMMA RequestType ==
  ASSUME TypeOK, Request PROVE faults' \in 0..MaxFaults /\ requests' \in 0..MaxRequests
BY MigrationsAssumption DEF Request, TypeOK

LEMMA StatusType ==
  ASSUME TypeOK, NEW m \in Migrations, NEW s \in Statuses, SetStatus(m, s)
  PROVE  /\ status' \in [Migrations -> Statuses] /\ status'[m] = s
         /\ \A n \in Migrations \ {m} : status'[n] = status[n]
BY DEF SetStatus, TypeOK

(* A step that goes to another program point, or returns. *)
LEMMA WatchIn ==
  ASSUME NEW a, NEW p, NEW i, NEW m, NEW f
  PROVE  /\ Goto(a, p) => Watch
         /\ GotoOp(a, p, i) => Watch
         /\ Takes(a, m, p, f) => Watch
         /\ Return(a) => Watch
BY DEF Goto, GotoOp, Takes, Return

LEMMA Kept ==
  ASSUME TypeOK
  PROVE  /\ UNCHANGED row => RowTypes'
         /\ UNCHANGED broker => BrokerTypes'
         /\ UNCHANGED schema => SchemaTypes'
         /\ Watch /\ (Fault \/ NoFault) => BoundTypes'
         /\ Watch /\ Request => BoundTypes'
BY WatchType, FaultType, RequestType DEF TypeOK, row, RowTypes, broker, BrokerTypes, schema, SchemaTypes, BoundTypes

LEMMA RowSet ==
  ASSUME TypeOK, NEW m \in Migrations, NEW s \in Statuses, SetStatus(m, s),
         index' \in [Migrations -> 0..K], celeryTask' = celeryTask
  PROVE  RowTypes'
BY StatusType DEF RowTypes, TypeOK

LEMMA Assemble ==
  ASSUME AgentTypes', RowTypes', BrokerTypes', SchemaTypes', BoundTypes' PROVE TypeOK'
BY DEF TypeOK, AgentTypes, Pcs, RowTypes, BrokerTypes, SchemaTypes, BoundTypes

LEMMA ToPcs == TaskPcs \subseteq Pcs /\ UndoPcs \subseteq Pcs /\ OtherPcs \subseteq Pcs
BY DEF Pcs

LEMMA Busy == ASSUME TypeOK, NEW a \in Agents, pc[a] # "idle" PROVE mig[a] \in Migrations
BY DEF TypeOK

----------------------------------------------------------------------------
(* Types *)

LEMMA InitType == Init => TypeOK
<1> SUFFICES ASSUME Init PROVE TypeOK
  OBVIOUS
<1>1. AgentTypes
  BY Basics, MigrationsAssumption DEF Init, AgentTypes, Pcs, OtherPcs
<1>2. RowTypes /\ BrokerTypes
  <2>1. status \in [Migrations -> Statuses]
    BY DEF Init, Statuses
  <2> QED BY <2>1, MigrationsAssumption DEF Init, RowTypes, BrokerTypes, States
<1>3. SchemaTypes
  BY DEF Init, SchemaTypes
<1>4. BoundTypes
  BY MigrationsAssumption DEF Init, BoundTypes
<1> QED BY <1>1, <1>2, <1>3, <1>4, TypeParts

(* Steps of tasks that leave the row and the schema alone *)
LEMMA QuietTaskTypes ==
  ASSUME TypeOK, NEW t \in Tasks, Begin(t) \/ Start(t) \/ ReadRow(t) PROVE TypeOK'
<1>0. t \in Agents /\ UNCHANGED row /\ UNCHANGED schema
  BY Basics DEF Begin, Start, ReadRow, row
<1>1. CASE Begin(t)
  <2>1. AgentTypes' /\ Watch
    BY <1>0, <1>1, GotoAgents, WatchIn, ToPcs DEF Begin, TaskPcs
  <2>2. BrokerTypes' /\ NoFault
    BY <1>1 DEF Begin, BrokerTypes, TypeOK, States
  <2> QED BY <1>0, <2>1, <2>2, Kept, Assemble
<1>2. CASE Start(t)
  <2>1. CASE Return(t)
    BY <1>0, <1>2, <2>1, ReturnTypes, WatchIn, Kept, Assemble DEF Start
  <2>2. CASE ~Return(t)
    <3>1. UNCHANGED broker /\ (Fault \/ NoFault)
      BY <1>2, <2>2 DEF Start
    <3>2. PICK p \in {"waive", "unfit", "mark"} : Goto(t, p)
      BY <1>2, <2>2 DEF Start
    <3>3. AgentTypes' /\ Watch
      BY <1>0, <1>2, <3>2, GotoAgents, WatchIn, ToPcs DEF Start, TaskPcs
    <3> QED BY <1>0, <3>1, <3>3, Kept, Assemble
  <2> QED BY <2>1, <2>2
<1>3. CASE ReadRow(t)
  <2>1. CASE Return(t)
    BY <1>0, <1>3, <2>1, ReturnTypes, WatchIn, Kept, Assemble DEF ReadRow
  <2>2. CASE ~Return(t)
    <3>1. UNCHANGED broker /\ NoFault /\ pc[t] = "read"
      BY <1>3, <2>2 DEF ReadRow
    <3>2. CASE Goto(t, "complete")
      <4>1. AgentTypes' /\ Watch
        BY <1>0, <3>1, <3>2, GotoAgents, WatchIn, ToPcs DEF TaskPcs
      <4> QED BY <1>0, <3>1, <4>1, Kept, Assemble
    <3>3. CASE ~(index[mig[t]] > K - 1) /\ GotoOp(t, "op", index[mig[t]])
      <4>1. index[mig[t]] \in Ops
        BY <1>0, <3>1, <3>3, Busy, MigrationsAssumption DEF TypeOK, Ops
      <4>2. AgentTypes' /\ Watch
        BY <1>0, <3>1, <3>3, <4>1, GotoOpAgents, WatchIn, ToPcs DEF TaskPcs
      <4> QED BY <1>0, <3>1, <4>2, Kept, Assemble
    <3> QED BY <1>3, <2>2, <3>2, <3>3 DEF ReadRow
  <2> QED BY <2>1, <2>2
<1> QED BY <1>1, <1>2, <1>3

(* Steps of tasks that write the row or the schema *)
LEMMA WorkTypes ==
  ASSUME TypeOK, NEW t \in Tasks,
         Unfit(t) \/ MarkAsRunning(t) \/ ExecuteOp(t) \/ OpFails(t) \/ WriteIndex(t) \/ CompleteMigration(t)
         \/ RunNextMigration(t) \/ Kill(t)
  PROVE  TypeOK'
<1>0. t \in Agents /\ pc[t] # "idle" /\ mig[t] \in Migrations
  BY Basics, Busy DEF Unfit, MarkAsRunning, ExecuteOp, OpFails, WriteIndex, CompleteMigration, RunNextMigration, Kill
<1>1. CASE Unfit(t)
  <2>1. RowTypes' /\ UNCHANGED schema
    BY <1>0, <1>1, RowSet DEF Unfit, Statuses, TypeOK, schema
  <2> QED BY <1>0, <1>1, <2>1, ReturnTypes, WatchIn, Kept, Assemble DEF Unfit
<1>2. CASE MarkAsRunning(t)
  <2>1. RowTypes'
    <3>1. index' \in [Migrations -> 0..K]
      BY <1>0, <1>2, MigrationsAssumption DEF MarkAsRunning, TypeOK
    <3> QED BY <1>0, <1>2, <3>1, RowSet DEF MarkAsRunning, Statuses
  <2>2. AgentTypes' /\ Watch
    BY <1>0, <1>2, GotoAgents, WatchIn, ToPcs DEF MarkAsRunning, TaskPcs
  <2> QED BY <1>2, <2>1, <2>2, Kept, Assemble DEF MarkAsRunning, schema, broker
<1>3. CASE ExecuteOp(t) \/ OpFails(t)
  <2>1. SchemaTypes'
    <3>1. at[t] \in Ops
      BY <1>0 DEF TypeOK
    <3> QED BY <1>0, <1>3, <3>1, Kept DEF ExecuteOp, OpFails, AddOp, SchemaTypes, TypeOK
  <2>2. PICK p \in {"write", "error"} : Goto(t, p)
    BY <1>3 DEF ExecuteOp, OpFails
  <2>3. AgentTypes' /\ Watch
    BY <1>0, <2>2, GotoAgents, WatchIn, ToPcs DEF TaskPcs, OtherPcs
  <2> QED BY <1>3, <2>1, <2>3, Kept, Assemble DEF ExecuteOp, OpFails, row, broker
<1>4. CASE WriteIndex(t)
  <2>1. RowTypes'
    BY <1>0, <1>4, MigrationsAssumption DEF WriteIndex, RowTypes, TypeOK, Ops
  <2>2. AgentTypes' /\ Watch
    BY <1>0, <1>4, GotoOpAgents, WatchIn, ToPcs, Basics DEF WriteIndex, TaskPcs
  <2> QED BY <1>4, <2>1, <2>2, Kept, Assemble DEF WriteIndex, schema, broker
<1>5. CASE CompleteMigration(t)
  <2>1. RowTypes' /\ NoFault
    BY <1>0, <1>5, RowSet DEF CompleteMigration, Statuses, TypeOK
  <2>4. SchemaTypes'
    <3>1. (pc[t] = "waive" /\ (status[mig[t]] = "CompletedSuccessfully" => waived[mig[t]])) \in BOOLEAN
      OBVIOUS
    <3> QED BY <1>0, <1>5, <3>1, Zenon DEF CompleteMigration, SchemaTypes, TypeOK
  <2>2. CASE Return(t)
    BY <1>0, <2>1, <2>2, <2>4, ReturnTypes, WatchIn, Kept, Assemble
  <2>3. CASE mig[t] + 1 \in Migrations /\ Goto(t, "next") /\ UNCHANGED broker
    <3>1. AgentTypes' /\ Watch
      BY <1>0, <2>3, GotoAgents, WatchIn, ToPcs DEF TaskPcs
    <3> QED BY <2>1, <2>3, <2>4, <3>1, Kept, Assemble
  <2> QED BY <1>5, <2>2, <2>3 DEF CompleteMigration
<1>6. CASE RunNextMigration(t)
  <2>1. RowTypes' /\ SchemaTypes' /\ NoFault
    BY <1>6, Kept DEF RunNextMigration, row, schema
  <2>2. CASE Return(t)
    BY <1>0, <2>1, <2>2, ReturnTypes, WatchIn, Kept, Assemble
  <2>3. CASE ~Return(t)
    <3>1. /\ DependencyOk(mig[t] + 1) /\ status[mig[t] + 1] = "NotStarted"
          /\ pc' = [pc EXCEPT ![t] = "call"] /\ mig' = [mig EXCEPT ![t] = mig[t] + 1]
          /\ fresh' = [fresh EXCEPT ![t] = TRUE] /\ UNCHANGED <<at, child, broker>> /\ Watch
      BY <1>6, <2>3 DEF RunNextMigration
    <3>2. mig[t] + 1 \in Migrations
      BY <1>0, <1>6 DEF RunNextMigration, TypeOK
    <3>3. AgentTypes'
      BY <1>0, <3>1, <3>2, Basics DEF AgentTypes, TypeOK, Pcs, OtherPcs
    <3> QED BY <2>1, <3>1, <3>3, Kept, Assemble DEF broker
  <2> QED BY <2>2, <2>3
<1>7. CASE Kill(t)
  <2>1. AgentTypes' /\ torn' \in [Migrations -> BOOLEAN]
    BY <1>0, <1>7, LeaveAgents, EndType DEF Kill
  <2>2. BrokerTypes' /\ NoFault
    BY <1>7 DEF Kill, BrokerTypes, TypeOK, States
  <2> QED BY <1>7, <2>1, <2>2, Kept, FaultType, Assemble DEF Kill, BoundTypes, row, schema
<1> QED BY <1>1, <1>2, <1>3, <1>4, <1>5, <1>6, <1>7

(* Rollbacks and ends *)
LEMMA AgentTypesKept ==
  ASSUME TypeOK, NEW a \in Agents,
         Record(a) \/ ProcessError(a) \/ Rollback(a) \/ Undo(a) \/ UndoFails(a) \/ Stranded(a)
         \/ RolledBack(a) \/ Crash(a)
  PROVE  TypeOK'
<1>0. pc[a] # "idle" /\ mig[a] \in Migrations /\ at[a] \in Ops
  BY Busy DEF Record, ProcessError, Rollback, Undo, UndoFails, Stranded, RolledBack, Crash, TypeOK
<1>1. CASE Record(a)
  <2>1. RowTypes'
    BY <1>0, <1>1 DEF Record, RowTypes, TypeOK
  <2> QED BY <1>1, <2>1, ReturnTypes, WatchIn, Kept, Assemble DEF Record, schema
<1>2. CASE ProcessError(a)
  <2>1. RowTypes' /\ UNCHANGED schema /\ NoFault
    BY <1>0, <1>2, RowSet DEF ProcessError, Statuses, TypeOK, schema
  <2>2. CASE Return(a)
    BY <2>1, <2>2, ReturnTypes, WatchIn, Kept, Assemble
  <2>3. CASE Goto(a, "back") /\ UNCHANGED broker
    <3>1. AgentTypes' /\ Watch
      BY <1>0, <2>3, GotoAgents, WatchIn, ToPcs DEF OtherPcs
    <3> QED BY <2>1, <2>3, <3>1, Kept, Assemble
  <2> QED BY <1>2, <2>2, <2>3 DEF ProcessError
<1>3. CASE Rollback(a)
  <2>1. (IF index[mig[a]] > K - 1 THEN K - 1 ELSE index[mig[a]]) \in Ops
    BY <1>0, MigrationsAssumption DEF TypeOK, Ops
  <2>2. AgentTypes' /\ Watch
    BY <1>0, <1>3, <2>1, GotoOpAgents, WatchIn, ToPcs DEF Rollback, UndoPcs
  <2> QED BY <1>3, <2>2, Kept, Assemble DEF Rollback, row, broker, schema
<1>4. CASE Undo(a)
  <2>1. SchemaTypes'
    BY <1>0, <1>4 DEF Undo, SchemaTypes, TypeOK
  <2>2. AgentTypes' /\ Watch
    <3>1. CASE Goto(a, "undone")
      BY <1>0, <3>1, GotoAgents, WatchIn, ToPcs DEF UndoPcs
    <3>2. CASE at[a] # 0 /\ GotoOp(a, "undo", at[a] - 1)
      <4>1. at[a] - 1 \in Ops
        BY <1>0, <3>2, MigrationsAssumption DEF Ops
      <4> QED BY <1>0, <3>2, <4>1, GotoOpAgents, WatchIn, ToPcs DEF UndoPcs
    <3> QED BY <1>4, <3>1, <3>2 DEF Undo
  <2> QED BY <1>4, <2>1, <2>2, Kept, Assemble DEF Undo, row, broker
<1>5. CASE UndoFails(a)
  <2>1. SchemaTypes'
    BY <1>0, <1>5 DEF UndoFails, SchemaTypes, TypeOK
  <2>2. AgentTypes' /\ Watch
    BY <1>0, <1>5, GotoAgents, WatchIn, ToPcs DEF UndoFails, UndoPcs
  <2> QED BY <1>5, <2>1, <2>2, Kept, Assemble DEF UndoFails, row, broker
<1>6. CASE Stranded(a) \/ RolledBack(a)
  <2>1. RowTypes'
    <3>1. index' \in [Migrations -> 0..K]
      <4>1. at[a] \in 0..K /\ 0 \in 0..K
        BY <1>0, MigrationsAssumption DEF Ops
      <4> QED BY <1>0, <1>6, <4>1 DEF Stranded, RolledBack, TypeOK
    <3>2. PICK s \in Statuses : SetStatus(mig[a], s)
      BY <1>6 DEF Stranded, RolledBack, Statuses
    <3> QED BY <1>0, <1>6, <3>1, <3>2, RowSet DEF Stranded, RolledBack
  <2> QED BY <1>6, <2>1, ReturnTypes, WatchIn, Kept, Assemble DEF Stranded, RolledBack, schema
<1>7. CASE Crash(a)
  <2>1. AgentTypes' /\ torn' \in [Migrations -> BOOLEAN]
    BY <1>7, LeaveAgents, EndType DEF Crash
  <2>2. BrokerTypes' /\ Fault
    BY <1>7 DEF Crash, BrokerTypes, TypeOK, States
  <2> QED BY <1>7, <2>1, <2>2, Kept, FaultType, Assemble DEF Crash, BoundTypes, row, schema
<1> QED BY <1>1, <1>2, <1>3, <1>4, <1>5, <1>6, <1>7

LEMMA CallTypes == ASSUME TypeOK, NEW a \in Agents, Call(a) PROVE TypeOK'
<1>1. PICK t \in Tasks :
         /\ celery' = [celery EXCEPT ![t] = "PENDING"]
         /\ pc' = [pc EXCEPT ![t] = "queued", ![a] = "record"]
         /\ mig' = [mig EXCEPT ![t] = mig[a]] /\ fresh' = [fresh EXCEPT ![t] = fresh[a]]
         /\ child' = [child EXCEPT ![a] = t]
  BY DEF Call
<1>2. mig[a] \in Migrations /\ mig[a] \in 0..Last /\ t \in Agents
  BY Busy, Basics DEF Call
<1>3. pc' \in [Agents -> Pcs]
  BY <1>1, <1>2 DEF TypeOK, Pcs, TaskPcs, OtherPcs
<1>4. mig' \in [Agents -> 0..Last] /\ fresh' \in [Agents -> BOOLEAN] /\ at' \in [Agents -> Ops]
      /\ child' \in [Agents -> Tasks \cup {NoTask}]
  BY <1>1, <1>2 DEF Call, TypeOK
<1>5. \A b \in Agents : /\ pc'[b] # "idle" => mig'[b] \in Migrations
                        /\ pc'[b] = "next" => mig'[b] + 1 \in Migrations
  BY <1>1, <1>2 DEF Call, TypeOK
<1>6. BrokerTypes' /\ UNCHANGED row /\ UNCHANGED schema /\ NoFault /\ Watch
  BY <1>1 DEF Call, BrokerTypes, TypeOK, States
<1> QED BY <1>3, <1>4, <1>5, <1>6, Kept, Assemble DEF AgentTypes

LEMMA RequestTypes ==
  ASSUME TypeOK, NEW r \in Requests, NEW m \in Migrations, RequestStep(r, m) PROVE TypeOK'
<1>0. r \in Agents /\ Request
  BY Basics DEF RequestStep, Trigger, Resume, ForceStop, RequestRollback, Kickstart
<1>1. PICK p \in {"call", "error", "errorOnly", "back"}, f \in BOOLEAN : Takes(r, m, p, f)
  BY DEF RequestStep, Trigger, Resume, ForceStop, RequestRollback, Kickstart
<1>2. AgentTypes' /\ Watch
  BY <1>0, <1>1, TakesAgents, WatchIn, ToPcs DEF OtherPcs
<1>3. BrokerTypes'
  BY DEF RequestStep, Trigger, Resume, ForceStop, Revoke, RequestRollback, Kickstart, BrokerTypes, TypeOK, broker
<1>4. RowTypes'
  <2>1. CASE UNCHANGED status
    BY <1>0, <2>1, Kept DEF Request, row
  <2>2. CASE ~UNCHANGED status
    <3>1. PICK s \in Statuses : SetStatus(m, s)
      BY <2>2 DEF RequestStep, Trigger, Resume, ForceStop, RequestRollback, Kickstart, Statuses
    <3> QED BY <1>0, <3>1, RowSet DEF Request, TypeOK
  <2> QED BY <2>1, <2>2
<1> QED BY <1>0, <1>2, <1>3, <1>4, Kept, Assemble DEF Request

LEMMA CheckTypes ==
  ASSUME TypeOK, (\E m \in Migrations : CheckHealth(m)) \/ InspectLost \/ InspectActive PROVE TypeOK'
<1>1. CASE \E m \in Migrations : CheckHealth(m)
  <2>1. PICK m \in Migrations : CheckHealth(m)
    BY <1>1
  <2>2. AgentTypes'
    BY <2>1, Basics DEF CheckHealth, AgentTypes, TypeOK, Pcs, OtherPcs
  <2> QED BY <2>1, <2>2, Kept, Assemble DEF CheckHealth
<1>2. CASE InspectLost
  <2>1. AgentTypes' /\ Watch
    BY <1>2, Basics, GotoAgents, WatchIn, ToPcs DEF InspectLost, OtherPcs
  <2> QED BY <1>2, <2>1, Kept, Assemble DEF InspectLost
<1>3. CASE InspectActive
  <2>1. UNCHANGED row /\ UNCHANGED schema /\ pc[Checker] = "inspect"
    BY <1>3 DEF InspectActive
  <2>2. CASE Return(Checker) /\ NoFault
    BY <2>1, <2>2, Basics, ReturnTypes, WatchIn, Kept, Assemble
  <2>3. CASE Revoke(child[Checker]) /\ Goto(Checker, "error") /\ Fault
    <3>1. BrokerTypes'
      BY <2>3 DEF Revoke, BrokerTypes, TypeOK
    <3>2. AgentTypes' /\ Watch
      BY <2>1, <2>3, Basics, GotoAgents, WatchIn, ToPcs DEF OtherPcs
    <3> QED BY <2>1, <2>3, <3>1, <3>2, Kept, Assemble
  <2> QED BY <1>3, <2>2, <2>3 DEF InspectActive
<1> QED BY <1>1, <1>2, <1>3

LEMMA StepType == TypeOK /\ [Next]_vars => TypeOK'
<1> SUFFICES ASSUME TypeOK, [Next]_vars PROVE TypeOK'
  OBVIOUS
<1>1. CASE UNCHANGED vars
  BY <1>1 DEF vars, row, agents, broker, schema, bounds, TypeOK
<1>2. ASSUME NEW t \in Tasks, TaskStep(t) PROVE TypeOK'
  BY <1>2, QuietTaskTypes, WorkTypes DEF TaskStep
<1>3. ASSUME NEW a \in Agents, AgentStep(a) PROVE TypeOK'
  BY <1>3, CallTypes, AgentTypesKept DEF AgentStep
<1> QED BY <1>1, <1>2, <1>3, RequestTypes, CheckTypes DEF Next

(* Every row, agent and task keeps its type, and an index never points past *)
(* the end of its migration's operations: no agent reads one that is not    *)
(* there.                                                                   *)
THEOREM MigrationsTypeCorrect == Spec => []TypeOK
BY InitType, StepType, PTL DEF Spec

----------------------------------------------------------------------------
(* The steps that matter to the operations, in terms of the agent that acts *)

Moves(a, p) ==
  /\ a \in Agents /\ OthersSame(a) /\ Watch
  /\ pc'[a] = p /\ (p # "idle" => mig'[a] = mig[a])

(* Agents at these points claim something of the operations of their migration. *)
Claims == {"op", "write", "complete", "waive"} \cup UndoPcs

(* All other steps: no agent comes to claim anything, and one that leaves a *)
(* rollback disturbs it.                                                    *)
Quiet ==
  /\ UNCHANGED index /\ UNCHANGED schema
  /\ \A m \in Migrations : status'[m] = "CompletedSuccessfully" => status[m] = "CompletedSuccessfully"
  /\ \A b \in Agents : \/ Same(b)
                       \/ pc'[b] \notin Claims /\ (pc[b] \in UndoPcs => torn'[mig[b]])
  /\ \A m \in Migrations : torn[m] => torn'[m]

LEMMA WatchKeeps ==
  ASSUME TypeOK, Watch
  PROVE  \A m \in Migrations : torn[m] => torn'[m]
BY DEF Watch, TypeOK

LEMMA QuietMove ==
  ASSUME TypeOK, NEW a \in Agents, OthersSame(a), pc'[a] \notin Claims, pc[a] \notin UndoPcs, Watch,
         UNCHANGED index, UNCHANGED schema,
         \A m \in Migrations : status'[m] = "CompletedSuccessfully" => status[m] = "CompletedSuccessfully"
  PROVE  Quiet
BY WatchKeeps DEF Quiet, OthersSame

LEMMA StartSteps ==
  ASSUME TypeOK, NEW t \in Tasks, Start(t)
  PROVE  \/ Quiet
         \/ /\ Moves(t, "waive") /\ pc[t] = "start" /\ Sign[mig[t]] \subseteq inForce[mig[t]]
            /\ UNCHANGED row /\ UNCHANGED schema
<1>0. t \in Agents /\ pc[t] = "start" /\ UNCHANGED row /\ UNCHANGED schema
  BY Basics DEF Start
<1>1. CASE Return(t)
  <2>1. OthersSame(t) /\ pc'[t] = "idle" /\ Watch
    BY <1>0, <1>1, ReturnTypes, WatchIn
  <2> QED BY <1>0, <2>1, QuietMove DEF row, Claims, UndoPcs
<1>2. CASE Sign[mig[t]] \subseteq inForce[mig[t]] /\ Goto(t, "waive")
  BY <1>0, <1>2, GotoAgents, WatchIn, ToPcs DEF Moves, TaskPcs
<1>3. ASSUME NEW p \in {"unfit", "mark"}, Goto(t, p) PROVE Quiet
  <2>1. OthersSame(t) /\ pc'[t] = p /\ Watch
    BY <1>0, <1>3, GotoAgents, WatchIn, ToPcs DEF TaskPcs
  <2> QED BY <1>0, <2>1, QuietMove DEF row, Claims, UndoPcs
<1> QED BY <1>1, <1>2, <1>3 DEF Start

LEMMA ReadSteps ==
  ASSUME TypeOK, NEW t \in Tasks, ReadRow(t)
  PROVE  \/ Quiet
         \/ /\ Moves(t, "complete") /\ pc[t] = "read" /\ index[mig[t]] > K - 1
            /\ UNCHANGED row /\ UNCHANGED schema
         \/ /\ Moves(t, "op") /\ pc[t] = "read" /\ at'[t] = index[mig[t]]
            /\ UNCHANGED row /\ UNCHANGED schema
<1>0. t \in Agents /\ pc[t] = "read" /\ UNCHANGED row /\ UNCHANGED schema
  BY Basics DEF ReadRow
<1>1. CASE Return(t)
  <2>1. OthersSame(t) /\ pc'[t] = "idle" /\ Watch
    BY <1>0, <1>1, ReturnTypes, WatchIn
  <2> QED BY <1>0, <2>1, QuietMove DEF row, Claims, UndoPcs
<1>2. CASE index[mig[t]] > K - 1 /\ Goto(t, "complete")
  BY <1>0, <1>2, GotoAgents, WatchIn, ToPcs DEF Moves, TaskPcs
<1>3. CASE ~(index[mig[t]] > K - 1) /\ GotoOp(t, "op", index[mig[t]])
  <2>1. index[mig[t]] \in Ops
    BY <1>0, <1>3, Busy, MigrationsAssumption DEF TypeOK, Ops
  <2>2. /\ OthersSame(t) /\ Watch
        /\ pc'[t] = "op" /\ mig'[t] = mig[t] /\ at'[t] = index[mig[t]]
    <3> DEFINE i == index[mig[t]]
    <3>1. GotoOp(t, "op", i) /\ i \in Ops
      BY <1>3, <2>1
    <3>2. "op" \in Pcs \ {"next"}
      BY DEF Pcs, TaskPcs
    <3> HIDE DEF i
    <3>3. OthersSame(t) /\ Watch /\ pc'[t] = "op" /\ mig'[t] = mig[t] /\ at'[t] = i
      BY <1>0, <3>1, <3>2, GotoOpAgents, WatchIn
    <3> QED BY <3>3 DEF i
  <2> QED BY <1>0, <2>2 DEF Moves
<1> QED BY <1>1, <1>2, <1>3 DEF ReadRow

LEMMA WorkSteps ==
  ASSUME TypeOK, NEW t \in Tasks
  PROVE  /\ MarkAsRunning(t) => Moves(t, "read") /\ pc[t] = "mark"
         /\ ExecuteOp(t) => Moves(t, "write") /\ pc[t] = "op" /\ at'[t] = at[t]
         /\ OpFails(t) => Moves(t, "error") /\ pc[t] = "op"
         /\ WriteIndex(t) => Moves(t, "read") /\ pc[t] = "write"
         /\ CompleteMigration(t) => /\ Moves(t, "next") \/ Moves(t, "idle")
                                    /\ pc[t] \in {"complete", "waive"}
<1>0. t \in Agents
  BY Basics
<1>1. MarkAsRunning(t) => Moves(t, "read") /\ pc[t] = "mark"
  BY <1>0, GotoAgents, WatchIn, ToPcs DEF MarkAsRunning, Moves, TaskPcs
<1>2. ExecuteOp(t) => Moves(t, "write") /\ pc[t] = "op" /\ at'[t] = at[t]
  BY <1>0, GotoAgents, WatchIn, ToPcs DEF ExecuteOp, Moves, TaskPcs
<1>3. OpFails(t) => Moves(t, "error") /\ pc[t] = "op"
  BY <1>0, GotoAgents, WatchIn, ToPcs DEF OpFails, Moves, OtherPcs
<1>4. WriteIndex(t) => Moves(t, "read") /\ pc[t] = "write"
  BY <1>0, Basics, GotoOpAgents, WatchIn, ToPcs DEF WriteIndex, Moves, TaskPcs
<1>5. ASSUME CompleteMigration(t) PROVE Moves(t, "next") \/ Moves(t, "idle")
  <2>1. CASE Return(t)
    BY <1>0, <2>1, ReturnTypes, WatchIn DEF Moves
  <2>2. CASE mig[t] + 1 \in Migrations /\ Goto(t, "next") /\ pc[t] # "idle"
    BY <1>0, <2>2, GotoAgents, WatchIn, ToPcs DEF Moves, TaskPcs
  <2> QED BY <1>5, <2>1, <2>2 DEF CompleteMigration
<1> QED BY <1>1, <1>2, <1>3, <1>4, <1>5 DEF CompleteMigration

LEMMA UndoSteps ==
  ASSUME TypeOK, NEW a \in Agents
  PROVE  /\ Rollback(a) => /\ Moves(a, "undo") /\ pc[a] = "back" /\ at'[a] <= index[mig[a]]
                           /\ UNCHANGED row /\ UNCHANGED schema
         /\ Undo(a) => /\ pc[a] = "undo"
                       /\ \/ Moves(a, "undone")
                          \/ Moves(a, "undo") /\ at'[a] = at[a] - 1
         /\ UndoFails(a) => Moves(a, "undoFailed") /\ pc[a] = "undo" /\ at'[a] = at[a]
         /\ Stranded(a) => Moves(a, "idle") /\ pc[a] = "undoFailed"
         /\ RolledBack(a) => Moves(a, "idle") /\ pc[a] = "undone"
<1>1. ASSUME Rollback(a)
      PROVE  /\ Moves(a, "undo") /\ pc[a] = "back" /\ at'[a] <= index[mig[a]]
             /\ UNCHANGED row /\ UNCHANGED schema
  <2> DEFINE i == IF index[mig[a]] > K - 1 THEN K - 1 ELSE index[mig[a]]
  <2>1. mig[a] \in Migrations
    BY <1>1, Busy DEF Rollback
  <2>2. i \in Ops /\ i <= index[mig[a]]
    BY <2>1, MigrationsAssumption DEF TypeOK, Ops
  <2>3. GotoOp(a, "undo", i) /\ pc[a] = "back" /\ UNCHANGED row /\ UNCHANGED schema
    BY <1>1 DEF Rollback
  <2> HIDE DEF i
  <2> QED BY <2>2, <2>3, GotoOpAgents, WatchIn, ToPcs DEF Moves, UndoPcs
<1>2. ASSUME Undo(a) PROVE Moves(a, "undone") \/ (Moves(a, "undo") /\ at'[a] = at[a] - 1)
  <2>1. CASE Goto(a, "undone")
    BY <1>2, <2>1, GotoAgents, WatchIn, ToPcs DEF Moves, UndoPcs, Undo
  <2>2. CASE at[a] # 0 /\ GotoOp(a, "undo", at[a] - 1)
    <3>1. at[a] - 1 \in Ops
      BY <2>2, MigrationsAssumption DEF Ops, TypeOK
    <3> QED BY <1>2, <2>2, <3>1, GotoOpAgents, WatchIn, ToPcs DEF Moves, UndoPcs, Undo
  <2> QED BY <1>2, <2>1, <2>2 DEF Undo
<1>3. UndoFails(a) => Moves(a, "undoFailed") /\ pc[a] = "undo" /\ at'[a] = at[a]
  BY GotoAgents, WatchIn, ToPcs DEF UndoFails, Moves, UndoPcs
<1>4. (Stranded(a) => Moves(a, "idle")) /\ (RolledBack(a) => Moves(a, "idle"))
  BY ReturnTypes, WatchIn DEF Stranded, RolledBack, Moves
<1> QED BY <1>1, <1>2, <1>3, <1>4 DEF Undo, Stranded, RolledBack

(* A task that was not queued yet does nothing. *)
Unborn == \A t \in Tasks : celery[t] = "unused" => pc[t] = "idle"

LEMMA UnbornReturn ==
  ASSUME TypeOK, Unborn, NEW a \in Agents, Return(a) PROVE Unborn'
BY Basics DEF Return, Leave, Unborn, TypeOK

LEMMA UnbornGoto ==
  ASSUME TypeOK, Unborn, NEW a \in Agents, pc[a] # "idle", NEW p, NEW i,
         Goto(a, p) \/ GotoOp(a, p, i), celery' = celery
  PROVE  Unborn'
BY Basics DEF Goto, GotoOp, Unborn, TypeOK

LEMMA UnbornTakes ==
  ASSUME TypeOK, Unborn, NEW r \in Requests, NEW m, NEW p, NEW f, Takes(r, m, p, f), celery' = celery
  PROVE  Unborn'
BY Basics, MigrationsAssumption DEF Takes, Unborn, TypeOK

LEMMA StepUnborn == TypeOK /\ Unborn /\ [Next]_vars => Unborn'
<1> SUFFICES ASSUME TypeOK, Unborn, [Next]_vars PROVE Unborn'
  OBVIOUS
<1>1. CASE UNCHANGED vars
  BY <1>1 DEF vars, agents, broker, Unborn
<1>2. ASSUME NEW t \in Tasks, TaskStep(t) PROVE Unborn'
  <2>0. t \in Agents
    BY Basics
  <2>1. CASE Begin(t) \/ Kill(t)
    <3>1. pc[t] # "idle" /\ celery'[t] # "unused"
      BY <2>1 DEF Begin, Kill, TypeOK
    <3>2. \A u \in Tasks \ {t} : celery'[u] = celery[u]
      BY <2>1 DEF Begin, Kill, TypeOK
    <3>3. \A u \in Tasks \ {t} : pc'[u] = pc[u]
      BY <2>1, Basics DEF Begin, Kill, Goto, Leave, TypeOK
    <3> QED BY <3>1, <3>2, <3>3 DEF Unborn
  <2>2. CASE Start(t) \/ ReadRow(t)
    BY <2>0, <2>2, UnbornReturn, UnbornGoto DEF Start, ReadRow, broker
  <2>3. CASE Unfit(t) \/ MarkAsRunning(t) \/ ExecuteOp(t) \/ OpFails(t) \/ WriteIndex(t) \/ CompleteMigration(t)
    BY <2>0, <2>3, UnbornReturn, UnbornGoto
       DEF Unfit, MarkAsRunning, ExecuteOp, OpFails, WriteIndex, CompleteMigration, broker
  <2>4. CASE RunNextMigration(t)
    <3>1. CASE Return(t)
      BY <2>0, <3>1, UnbornReturn
    <3>2. CASE pc' = [pc EXCEPT ![t] = "call"] /\ UNCHANGED broker
      BY <2>0, <2>4, <3>2 DEF RunNextMigration, Unborn, TypeOK, broker
    <3> QED BY <2>4, <3>1, <3>2 DEF RunNextMigration
  <2> QED BY <1>2, <2>1, <2>2, <2>3, <2>4 DEF TaskStep
<1>3. ASSUME NEW a \in Agents, AgentStep(a) PROVE Unborn'
  <2>1. CASE Call(a)
    BY <2>1, Basics DEF Call, Unborn, TypeOK
  <2>2. CASE Record(a) \/ ProcessError(a) \/ Stranded(a) \/ RolledBack(a)
    BY <2>2, UnbornReturn, UnbornGoto DEF Record, ProcessError, Stranded, RolledBack, broker
  <2>3. CASE Rollback(a) \/ Undo(a) \/ UndoFails(a)
    BY <2>3, UnbornGoto DEF Rollback, Undo, UndoFails, broker
  <2>4. CASE Crash(a)
    BY <2>4 DEF Crash, Leave, Unborn, TypeOK
  <2> QED BY <1>3, <2>1, <2>2, <2>3, <2>4 DEF AgentStep
<1>4. ASSUME NEW r \in Requests, NEW m \in Migrations, RequestStep(r, m) PROVE Unborn'
  BY <1>4, UnbornTakes DEF RequestStep, Trigger, Resume, ForceStop, Revoke, RequestRollback, Kickstart, broker
<1>5. ASSUME NEW m \in Migrations, CheckHealth(m) PROVE Unborn'
  BY <1>5, Basics, MigrationsAssumption DEF CheckHealth, Unborn, TypeOK, broker
<1>6. ASSUME InspectLost \/ InspectActive PROVE Unborn'
  BY <1>6, Basics, UnbornReturn, UnbornGoto DEF InspectLost, InspectActive, Revoke, broker
<1> QED BY <1>1, <1>2, <1>3, <1>4, <1>5, <1>6 DEF Next

LEMMA EndsQuietly ==
  ASSUME TypeOK, NEW a \in Agents, pc[a] # "idle", EndsRollback(a), Leave(a), UNCHANGED <<row, schema>>
  PROVE  Quiet
<1>1. OthersSame(a) /\ pc'[a] = "idle" /\ mig[a] \in Migrations
  BY LeaveAgents, Busy
<1>2. \A m \in Migrations : torn[m] => torn'[m]
  BY DEF EndsRollback, TypeOK
<1>3. pc[a] \in UndoPcs => torn'[mig[a]]
  BY <1>1 DEF EndsRollback, Undoing, TypeOK
<1> QED BY <1>1, <1>2, <1>3 DEF Quiet, OthersSame, Claims, UndoPcs, row

LEMMA QuietTasks ==
  ASSUME TypeOK, NEW t \in Tasks, Begin(t) \/ Unfit(t) \/ RunNextMigration(t) \/ Kill(t)
  PROVE  Quiet
<1>0. t \in Agents /\ pc[t] # "idle" /\ mig[t] \in Migrations
  BY Basics, Busy DEF Begin, Unfit, RunNextMigration, Kill
<1>1. CASE Begin(t)
  <2>1. OthersSame(t) /\ pc'[t] \in {"start", "read"} /\ Watch
    BY <1>0, <1>1, GotoAgents, WatchIn, ToPcs DEF Begin, TaskPcs
  <2> QED BY <1>0, <1>1, <2>1, QuietMove DEF Begin, row, Claims, UndoPcs
<1>2. CASE Unfit(t)
  <2>1. OthersSame(t) /\ pc'[t] = "idle" /\ Watch
    BY <1>0, <1>2, ReturnTypes, WatchIn DEF Unfit
  <2>2. \A m \in Migrations : status'[m] = "CompletedSuccessfully" => status[m] = "CompletedSuccessfully"
    BY <1>0, <1>2, StatusType DEF Unfit, Statuses
  <2> QED BY <1>0, <1>2, <2>1, <2>2, QuietMove DEF Unfit, Claims, UndoPcs, schema
<1>3. CASE RunNextMigration(t)
  <2>1. UNCHANGED row /\ UNCHANGED schema /\ pc[t] = "next"
    BY <1>3 DEF RunNextMigration
  <2>2. CASE Return(t)
    <3>1. OthersSame(t) /\ pc'[t] = "idle" /\ Watch
      BY <1>0, <2>2, ReturnTypes, WatchIn
    <3> QED BY <1>0, <2>1, <3>1, QuietMove DEF row, Claims, UndoPcs
  <2>3. CASE ~Return(t)
    <3>1. OthersSame(t) /\ pc'[t] = "call" /\ Watch
      BY <1>0, <1>3, <2>3 DEF RunNextMigration, OthersSame, Same, TypeOK
    <3> QED BY <1>0, <2>1, <3>1, QuietMove DEF row, Claims, UndoPcs
  <2> QED BY <2>2, <2>3
<1>4. CASE Kill(t)
  BY <1>0, <1>4, EndsQuietly DEF Kill
<1> QED BY <1>1, <1>2, <1>3, <1>4

LEMMA QuietAgents ==
  ASSUME TypeOK, Unborn, NEW a \in Agents, Call(a) \/ Record(a) \/ ProcessError(a) \/ Crash(a)
  PROVE  Quiet
<1>0. pc[a] # "idle" /\ mig[a] \in Migrations
  BY Busy DEF Call, Record, ProcessError, Crash
<1>1. CASE Call(a)
  <2>1. PICK t \in Tasks : /\ pc' = [pc EXCEPT ![t] = "queued", ![a] = "record"]
                           /\ mig' = [mig EXCEPT ![t] = mig[a]] /\ fresh' = [fresh EXCEPT ![t] = fresh[a]]
                           /\ child' = [child EXCEPT ![a] = t] /\ celery[t] = "unused"
    BY <1>1 DEF Call
  <2>2. \A b \in Agents \ {a, t} : Same(b)
    BY <1>1, <2>1 DEF Call, Same, TypeOK
  <2>3. pc'[a] \notin Claims /\ pc'[t] \notin Claims /\ pc[a] \notin UndoPcs
    BY <1>1, <2>1, Basics DEF Call, TypeOK, Claims, UndoPcs
  <2>4. pc[t] \notin UndoPcs
    BY <2>1 DEF Unborn, UndoPcs
  <2> QED BY <1>1, <2>2, <2>3, <2>4, WatchKeeps DEF Call, Quiet, row
<1>2. CASE Record(a)
  <2>1. OthersSame(a) /\ pc'[a] = "idle" /\ Watch
    BY <1>2, ReturnTypes, WatchIn DEF Record
  <2> QED BY <1>0, <1>2, <2>1, QuietMove DEF Record, Claims, UndoPcs, schema
<1>3. CASE ProcessError(a)
  <2>1. \A m \in Migrations : status'[m] = "CompletedSuccessfully" => status[m] = "CompletedSuccessfully"
    BY <1>0, <1>3, StatusType DEF ProcessError, Statuses
  <2>2. CASE Return(a)
    <3>1. OthersSame(a) /\ pc'[a] = "idle" /\ Watch
      BY <2>2, ReturnTypes, WatchIn
    <3> QED BY <1>0, <1>3, <2>1, <3>1, QuietMove DEF ProcessError, Claims, UndoPcs, schema
  <2>3. CASE Goto(a, "back")
    <3>1. OthersSame(a) /\ pc'[a] = "back" /\ Watch
      BY <1>0, <2>3, GotoAgents, WatchIn, ToPcs DEF OtherPcs
    <3> QED BY <1>0, <1>3, <2>1, <3>1, QuietMove DEF ProcessError, Claims, UndoPcs, schema
  <2> QED BY <1>3, <2>2, <2>3 DEF ProcessError
<1>4. CASE Crash(a)
  BY <1>0, <1>4, EndsQuietly DEF Crash
<1> QED BY <1>1, <1>2, <1>3, <1>4

LEMMA QuietRequests ==
  ASSUME TypeOK, NEW r \in Requests, NEW m \in Migrations, RequestStep(r, m) PROVE Quiet
<1>1. r \in Agents /\ UNCHANGED index /\ UNCHANGED schema
  BY Basics DEF RequestStep, Trigger, Resume, ForceStop, RequestRollback, Kickstart, Request
<1>2. PICK p \in {"call", "error", "errorOnly", "back"}, f \in BOOLEAN : Takes(r, m, p, f)
  BY DEF RequestStep, Trigger, Resume, ForceStop, RequestRollback, Kickstart
<1>3. OthersSame(r) /\ pc'[r] = p /\ pc[r] = "idle" /\ Watch
  BY <1>1, <1>2, TakesAgents, WatchIn, ToPcs DEF OtherPcs
<1>4. \A n \in Migrations : status'[n] = "CompletedSuccessfully" => status[n] = "CompletedSuccessfully"
  BY StatusType DEF RequestStep, Trigger, Resume, ForceStop, RequestRollback, Kickstart, Statuses
<1> QED BY <1>1, <1>3, <1>4, QuietMove DEF Claims, UndoPcs

LEMMA QuietChecks ==
  ASSUME TypeOK, (\E m \in Migrations : CheckHealth(m)) \/ InspectLost \/ InspectActive PROVE Quiet
<1>1. UNCHANGED row /\ UNCHANGED schema /\ Watch
  BY WatchIn DEF CheckHealth, InspectLost, InspectActive
<1>2. pc[Checker] \in {"idle", "inspect"} /\ Checker \in Agents
  BY Basics DEF CheckHealth, InspectLost, InspectActive
<1>3. OthersSame(Checker) /\ pc'[Checker] \in {"idle", "inspect", "call", "error"}
  <2>1. CASE \E m \in Migrations : CheckHealth(m)
    BY <1>2, <2>1 DEF CheckHealth, OthersSame, Same, TypeOK
  <2>2. ASSUME NEW p \in {"call", "error"}, Goto(Checker, p), pc[Checker] = "inspect"
        PROVE  OthersSame(Checker) /\ pc'[Checker] = p
    BY <1>2, <2>2, GotoAgents, ToPcs DEF OtherPcs
  <2>3. CASE InspectLost
    BY <2>2, <2>3 DEF InspectLost
  <2>4. CASE InspectActive
    BY <1>2, <2>2, <2>4, ReturnTypes DEF InspectActive
  <2> QED BY <2>1, <2>3, <2>4
<1> QED BY <1>1, <1>2, <1>3, QuietMove DEF row, Claims, UndoPcs

----------------------------------------------------------------------------
(* Nothing is skipped: the index is not ahead of what was executed, and no *)
(* agent holds a claim that is.                                            *)

Recorded(m) ==
  /\ 0..(index[m] - 1) \subseteq ever[m] /\ inForce[m] \subseteq ever[m]
  /\ status[m] = "CompletedSuccessfully" => ever[m] = Ops \/ waived[m]

Earned(b) ==
  /\ pc[b] \in {"op", "undo", "undoFailed"} => 0..(at[b] - 1) \subseteq ever[mig[b]]
  /\ pc[b] = "write" => 0..at[b] \subseteq ever[mig[b]]
  /\ pc[b] = "complete" => ever[mig[b]] = Ops

Skips == (\A m \in Migrations : Recorded(m)) /\ (\A b \in Agents : Earned(b))

EverGrows == \A m \in Migrations : ever[m] \subseteq ever'[m]

LEMMA EarnedKept ==
  ASSUME TypeOK, TypeOK', EverGrows, NEW b \in Agents, Earned(b), Same(b) PROVE Earned(b)'
<1>1. CASE pc[b] = "idle"
  BY <1>1 DEF Earned, Same
<1>2. CASE pc[b] # "idle"
  <2>1. mig[b] \in Migrations
    BY <1>2, Busy
  <2>2. ever[mig[b]] \subseteq ever'[mig[b]] /\ ever'[mig[b]] \subseteq Ops
    BY <2>1 DEF EverGrows, TypeOK
  <2>3. pc'[b] = pc[b] /\ mig'[b] = mig[b] /\ at'[b] = at[b]
    BY DEF Same
  <2>4. ever[mig[b]] = Ops => ever'[mig[b]] = Ops
    BY <2>2
  <2>5. \A S : S \subseteq ever[mig[b]] => S \subseteq ever'[mig[b]]
    BY <2>2
  <2> QED BY <2>3, <2>4, <2>5 DEF Earned
<1> QED BY <1>1, <1>2

LEMMA QuietSkips == ASSUME TypeOK, TypeOK', Skips, Quiet PROVE Skips'
<1>1. EverGrows
  BY DEF EverGrows, Quiet, schema
<1>2. ASSUME NEW m \in Migrations PROVE Recorded(m)'
  BY DEF Skips, Recorded, Quiet, schema
<1>3. ASSUME NEW b \in Agents PROVE Earned(b)'
  <2>1. CASE Same(b)
    BY <1>1, <2>1, EarnedKept DEF Skips
  <2>2. CASE pc'[b] \notin Claims
    BY <2>2 DEF Earned, Claims, UndoPcs
  <2> QED BY <2>1, <2>2 DEF Quiet
<1> QED BY <1>2, <1>3 DEF Skips

(* A step of one agent *)
LEMMA SkipsBy ==
  ASSUME TypeOK, TypeOK', Skips, EverGrows, NEW a \in Agents, OthersSame(a), Earned(a)',
         \A m \in Migrations : Recorded(m)'
  PROVE  Skips'
BY EarnedKept DEF Skips, OthersSame

LEMMA RecordedKept ==
  ASSUME TypeOK, TypeOK', Skips, UNCHANGED row, UNCHANGED schema
  PROVE  EverGrows /\ \A m \in Migrations : Recorded(m)'
BY DEF EverGrows, Skips, Recorded, row, schema

LEMMA AddKeeps ==
  ASSUME TypeOK, TypeOK', Skips, NEW m \in Migrations, NEW i \in Ops, UNCHANGED row, AddOp(m, i)
  PROVE  EverGrows /\ \A n \in Migrations : Recorded(n)'
BY DEF EverGrows, Skips, Recorded, row, AddOp, TypeOK

(* What the completion of a migration leaves: waived only as is_required let *)
(* it off, and not for a migration that was completed before.                *)
LEMMA CompletedOrWaived ==
  ASSUME TypeOK, NEW t \in Tasks, CompleteMigration(t)
  PROVE  /\ pc[t] = "complete" \/ waived'[mig[t]] \/ (status[mig[t]] = "CompletedSuccessfully" /\ ~waived[mig[t]])
         /\ pc[t] = "complete" \/ pc[t] = "waive"
         /\ pc[t] = "complete" => ~waived'[mig[t]]
         /\ \A m \in Migrations \ {mig[t]} : status'[m] = status[m] /\ waived'[m] = waived[m]
<1>1. mig[t] \in Migrations
  BY Basics, Busy DEF CompleteMigration
<1>2. waived'[mig[t]] <=> pc[t] = "waive" /\ (status[mig[t]] = "CompletedSuccessfully" => waived[mig[t]])
  BY <1>1, Zenon DEF CompleteMigration, TypeOK
<1>3. \A m \in Migrations \ {mig[t]} : status'[m] = status[m] /\ waived'[m] = waived[m]
  BY <1>1 DEF CompleteMigration, SetStatus, TypeOK
<1> QED BY <1>2, <1>3 DEF CompleteMigration

LEMMA WorkSkips ==
  ASSUME TypeOK, TypeOK', Skips, NEW t \in Tasks,
         Start(t) \/ ReadRow(t) \/ MarkAsRunning(t) \/ ExecuteOp(t) \/ OpFails(t) \/ WriteIndex(t)
         \/ CompleteMigration(t)
  PROVE  Skips'
<1>0. t \in Agents /\ pc[t] # "idle" /\ mig[t] \in Migrations /\ Earned(t) /\ Recorded(mig[t]) /\ at[t] \in Ops
  BY Basics, Busy DEF Start, ReadRow, MarkAsRunning, ExecuteOp, OpFails, WriteIndex, CompleteMigration, Skips, TypeOK
<1>1. CASE Start(t)
  <2>1. CASE Quiet
    BY <2>1, QuietSkips
  <2>2. CASE Moves(t, "waive") /\ UNCHANGED row /\ UNCHANGED schema
    <3>1. Earned(t)'
      BY <2>2 DEF Moves, Earned
    <3> QED BY <2>2, <3>1, RecordedKept, SkipsBy DEF Moves
  <2> QED BY <1>1, <2>1, <2>2, StartSteps
<1>2. CASE ReadRow(t)
  <2>1. CASE Quiet
    BY <2>1, QuietSkips
  <2>2. CASE /\ Moves(t, "complete") /\ index[mig[t]] > K - 1
             /\ UNCHANGED row /\ UNCHANGED schema
    <3>1. Ops \subseteq 0..(index[mig[t]] - 1)
      BY <1>0, <2>2, MigrationsAssumption DEF Ops, TypeOK
    <3>2. ever[mig[t]] = Ops
      BY <1>0, <3>1 DEF Recorded, TypeOK
    <3>3. Earned(t)'
      BY <2>2, <3>2 DEF Moves, Earned, schema
    <3> QED BY <2>2, <3>3, RecordedKept, SkipsBy DEF Moves
  <2>3. CASE /\ Moves(t, "op") /\ at'[t] = index[mig[t]]
             /\ UNCHANGED row /\ UNCHANGED schema
    <3>1. Earned(t)'
      BY <1>0, <2>3 DEF Moves, Earned, Recorded, schema
    <3> QED BY <2>3, <3>1, RecordedKept, SkipsBy DEF Moves
  <2> QED BY <1>2, <2>1, <2>2, <2>3, ReadSteps
<1>3. CASE MarkAsRunning(t)
  <2>1. Moves(t, "read")
    BY <1>3, WorkSteps
  <2>2. Earned(t)'
    BY <2>1 DEF Moves, Earned
  <2>3. \A m \in Migrations : Recorded(m)'
    BY <1>0, <1>3 DEF MarkAsRunning, SetStatus, Skips, Recorded, schema, TypeOK
  <2> QED BY <1>3, <2>1, <2>2, <2>3, SkipsBy DEF Moves, MarkAsRunning, schema, EverGrows
<1>4. CASE ExecuteOp(t)
  <2>1. Moves(t, "write") /\ pc[t] = "op" /\ at'[t] = at[t]
    BY <1>4, WorkSteps
  <2>2. EverGrows /\ \A m \in Migrations : Recorded(m)'
    BY <1>0, <1>4, AddKeeps DEF ExecuteOp
  <2>3. Earned(t)'
    <3>1. ever'[mig[t]] = ever[mig[t]] \cup {at[t]}
      BY <1>0, <1>4 DEF ExecuteOp, AddOp, TypeOK
    <3>2. 0..at[t] \subseteq 0..(at[t] - 1) \cup {at[t]}
      BY <1>0 DEF Ops
    <3> QED BY <1>0, <2>1, <3>1, <3>2 DEF Earned, Moves
  <2> QED BY <2>1, <2>2, <2>3, SkipsBy DEF Moves
<1>5. CASE OpFails(t)
  <2>1. Moves(t, "error")
    BY <1>5, WorkSteps
  <2>2. EverGrows /\ \A m \in Migrations : Recorded(m)'
    BY <1>0, <1>5, AddKeeps, RecordedKept DEF OpFails
  <2>3. Earned(t)'
    BY <2>1 DEF Moves, Earned
  <2> QED BY <2>1, <2>2, <2>3, SkipsBy DEF Moves
<1>6. CASE WriteIndex(t)
  <2>1. Moves(t, "read") /\ pc[t] = "write"
    BY <1>6, WorkSteps
  <2>2. Earned(t)'
    BY <2>1 DEF Moves, Earned
  <2>3. \A m \in Migrations : Recorded(m)'
    BY <1>0, <1>6, <2>1 DEF WriteIndex, Skips, Recorded, Earned, schema, TypeOK, Ops
  <2> QED BY <1>6, <2>1, <2>2, <2>3, SkipsBy DEF Moves, WriteIndex, schema, EverGrows
<1>7. CASE CompleteMigration(t)
  <2>1. Moves(t, "next") \/ Moves(t, "idle")
    BY <1>7, WorkSteps
  <2>2. Earned(t)'
    BY <2>1 DEF Moves, Earned
  <2>3. ever[mig[t]] = Ops \/ waived'[mig[t]]
    BY <1>0, <1>7, CompletedOrWaived DEF Earned, Recorded
  <2>4. UNCHANGED <<index, inForce, ever>> /\ SetStatus(mig[t], "CompletedSuccessfully")
    BY <1>7 DEF CompleteMigration
  <2>5. \A m \in Migrations \ {mig[t]} : status'[m] = status[m] /\ waived'[m] = waived[m]
    BY <1>0, <1>7, CompletedOrWaived
  <2>6. \A m \in Migrations : Recorded(m)'
    BY <1>0, <2>3, <2>4, <2>5 DEF Skips, Recorded
  <2> QED BY <2>1, <2>2, <2>4, <2>6, SkipsBy DEF Moves, EverGrows
<1> QED BY <1>1, <1>2, <1>3, <1>4, <1>5, <1>6, <1>7

LEMMA UndoSkips ==
  ASSUME TypeOK, TypeOK', Skips, NEW a \in Agents,
         Rollback(a) \/ Undo(a) \/ UndoFails(a) \/ Stranded(a) \/ RolledBack(a)
  PROVE  Skips'
<1>0. pc[a] # "idle" /\ mig[a] \in Migrations /\ Earned(a) /\ Recorded(mig[a]) /\ at[a] \in Ops
  BY Busy DEF Rollback, Undo, UndoFails, Stranded, RolledBack, Skips, TypeOK
<1>1. CASE Rollback(a)
  <2>1. Moves(a, "undo") /\ at'[a] <= index[mig[a]] /\ UNCHANGED row /\ UNCHANGED schema
    BY <1>1, UndoSteps
  <2>2. 0..(at'[a] - 1) \subseteq 0..(index[mig[a]] - 1)
    BY <1>0, <2>1 DEF TypeOK, Ops
  <2>3. Earned(a)'
    BY <1>0, <2>1, <2>2 DEF Moves, Earned, Recorded, schema
  <2> QED BY <2>1, <2>3, RecordedKept, SkipsBy DEF Moves
<1>2. CASE Undo(a) \/ UndoFails(a)
  <2>1. EverGrows /\ \A m \in Migrations : Recorded(m)'
    <3>1. UNCHANGED row /\ ever' = ever /\ waived' = waived
      BY <1>2 DEF Undo, UndoFails
    <3>2. \A m \in Migrations : inForce'[m] \subseteq inForce[m]
      BY <1>0, <1>2 DEF Undo, UndoFails, TypeOK
    <3> QED BY <3>1, <3>2 DEF EverGrows, Skips, Recorded, row
  <2>2. ever' = ever /\ pc[a] = "undo"
    BY <1>2 DEF Undo, UndoFails
  <2>3. CASE Moves(a, "undone")
    <3>1. Earned(a)'
      BY <2>3 DEF Moves, Earned
    <3> QED BY <2>1, <2>3, <3>1, SkipsBy DEF Moves
  <2>4. CASE (Moves(a, "undo") /\ at'[a] = at[a] - 1) \/ (Moves(a, "undoFailed") /\ at'[a] = at[a])
    <3>1. 0..(at'[a] - 1) \subseteq 0..(at[a] - 1)
      BY <1>0, <2>4 DEF Ops
    <3>2. mig'[a] = mig[a] /\ pc'[a] \in {"undo", "undoFailed"} /\ OthersSame(a)
      BY <2>4 DEF Moves
    <3>3. Earned(a)'
      BY <1>0, <2>2, <3>1, <3>2 DEF Earned
    <3> QED BY <2>1, <3>2, <3>3, SkipsBy
  <2> QED BY <1>2, <2>3, <2>4, UndoSteps
<1>3. CASE Stranded(a) \/ RolledBack(a)
  <2>1. Moves(a, "idle") /\ pc[a] \in {"undone", "undoFailed"}
    BY <1>3, UndoSteps
  <2>2. Earned(a)'
    BY <2>1 DEF Moves, Earned
  <2>3. \A m \in Migrations : Recorded(m)'
    <3>1. /\ UNCHANGED schema /\ status'[mig[a]] # "CompletedSuccessfully"
          /\ 0..(index'[mig[a]] - 1) \subseteq ever[mig[a]]
      BY <1>0, <1>3, <2>1 DEF Stranded, RolledBack, SetStatus, Earned, TypeOK
    <3>2. \A m \in Migrations \ {mig[a]} : status'[m] = status[m] /\ index'[m] = index[m]
      BY <1>0, <1>3 DEF Stranded, RolledBack, SetStatus, TypeOK
    <3> QED BY <3>1, <3>2 DEF Skips, Recorded, schema
  <2> QED BY <1>3, <2>1, <2>2, <2>3, SkipsBy DEF Moves, Stranded, RolledBack, schema, EverGrows
<1> QED BY <1>1, <1>2, <1>3

(* At first only migrations that are there already are completed. *)
LEMMA InitDone ==
  ASSUME Init, NEW m \in Migrations, status[m] = "CompletedSuccessfully"
  PROVE  waived[m] /\ inForce[m] = Ops /\ ever[m] = Ops
<1>1. PICK n \in 0..Last : /\ inForce = [i \in Migrations |-> IF i <= n THEN Ops ELSE {}]
                           /\ \E d \in 0..n : waived = [i \in Migrations |-> i <= d]
  BY DEF Init
<1>2. PICK d \in 0..n : waived = [i \in Migrations |-> i <= d]
  BY <1>1
<1>3. waived[m] /\ waived[m] = (m <= d)
  BY <1>2, Zenon DEF Init
<1>4. m <= d
  BY <1>3, Zenon
<1>5. m <= n
  BY <1>4, MigrationsAssumption DEF Migrations
<1> QED BY <1>1, <1>3, <1>5 DEF Init

LEMMA InitSkips == Init => Skips /\ Unborn
<1> SUFFICES ASSUME Init PROVE Skips /\ Unborn
  OBVIOUS
<1>1. ASSUME NEW m \in Migrations PROVE Recorded(m)
  BY SMT DEF Init, Recorded
<1> QED BY <1>1, Basics DEF Init, Skips, Earned, Unborn

(* The next step is quiet, or one of the steps above. *)
LEMMA Steps ==
  ASSUME TypeOK, Unborn, [Next]_vars
  PROVE  \/ Quiet
         \/ \E t \in Tasks : \/ Start(t) \/ ReadRow(t) \/ MarkAsRunning(t) \/ ExecuteOp(t) \/ OpFails(t)
                             \/ WriteIndex(t) \/ CompleteMigration(t)
         \/ \E a \in Agents : Rollback(a) \/ Undo(a) \/ UndoFails(a) \/ Stranded(a) \/ RolledBack(a)
<1>1. CASE UNCHANGED vars
  BY <1>1 DEF vars, row, agents, Quiet, Same
<1>2. CASE Next
  BY <1>2, QuietTasks, QuietAgents, QuietRequests, QuietChecks DEF Next, TaskStep, AgentStep
<1> QED BY <1>1, <1>2

LEMMA StepSkips == TypeOK /\ TypeOK' /\ Unborn /\ Skips /\ [Next]_vars => Skips'
BY Steps, QuietSkips, WorkSkips, UndoSkips

(* However many tasks run a migration, and whatever crashes, is stopped,     *)
(* resumed or started twice: the index never passes an operation that was    *)
(* not executed, and a migration that completes had all of them executed, or *)
(* was found not required by a check that finds its signs in force.          *)
THEOREM MigrationsSkipNothing == Spec => []NothingSkipped
<1>1. Skips => NothingSkipped
  BY DEF Skips, Recorded, NothingSkipped
<1> QED BY <1>1, InitType, StepType, InitSkips, StepUnborn, StepSkips, PTL DEF Spec

----------------------------------------------------------------------------
(* Dependencies first: a migration that may have operations, and an agent   *)
(* that may go on to execute one, have passed the check of the dependency,  *)
(* in this run or in the one that they resume or roll back.                 *)

Cleared(m) == m > 1 /\ Sign[m] # {} => ever[m - 1] = Ops \/ waived[m - 1]

Bound == {"Running", "Errored", "CompletedSuccessfully"}

Committed == {"mark", "read", "op", "write", "complete", "waive", "error", "errorOnly", "back", "inspect"} \cup UndoPcs

NeedsClearing(b) == pc[b] \in Committed \/ (pc[b] \in {"call", "queued"} /\ ~fresh[b])

Deps ==
  /\ \A m \in Migrations : ever[m] # {} \/ status[m] \in Bound => Cleared(m)
  /\ \A b \in Agents : NeedsClearing(b) => Cleared(mig[b])

(* What counts as done stays so: only a completion by the end of the run *)
(* takes a waiver back.                                                   *)
Clears ==
  EverGrows /\ \A m \in Migrations : waived[m] => waived'[m] \/ ever'[m] = Ops

LEMMA ClearedKept ==
  ASSUME TypeOK, TypeOK', Clears, NEW m \in Migrations, Cleared(m) PROVE Cleared(m)'
<1>1. CASE m > 1
  <2>1. m - 1 \in Migrations
    BY <1>1, MigrationsAssumption DEF Migrations
  <2>2. ever[m - 1] \subseteq ever'[m - 1] /\ ever'[m - 1] \subseteq Ops
    BY <2>1 DEF Clears, EverGrows, TypeOK
  <2>3. waived[m - 1] => waived'[m - 1] \/ ever'[m - 1] = Ops
    BY <2>1 DEF Clears
  <2> QED BY <1>1, <2>2, <2>3 DEF Cleared
<1>2. CASE ~(m > 1)
  BY <1>2 DEF Cleared
<1> QED BY <1>1, <1>2

LEMMA StepGrows == TypeOK /\ Unborn /\ [Next]_vars => EverGrows
<1> SUFFICES ASSUME TypeOK, Unborn, [Next]_vars PROVE EverGrows
  OBVIOUS
<1>1. CASE Quiet
  BY <1>1 DEF Quiet, schema, EverGrows
<1>2. ASSUME NEW t \in Tasks, \/ Start(t) \/ ReadRow(t) \/ MarkAsRunning(t) \/ WriteIndex(t)
                              \/ CompleteMigration(t)
      PROVE  EverGrows
  BY <1>2 DEF Start, ReadRow, MarkAsRunning, WriteIndex, CompleteMigration, schema, EverGrows
<1>3. ASSUME NEW t \in Tasks, ExecuteOp(t) \/ OpFails(t) PROVE EverGrows
  BY <1>3 DEF ExecuteOp, OpFails, AddOp, schema, EverGrows, TypeOK
<1>4. ASSUME NEW a \in Agents, Rollback(a) \/ Undo(a) \/ UndoFails(a) \/ Stranded(a) \/ RolledBack(a)
      PROVE  EverGrows
  BY <1>4 DEF Rollback, Undo, UndoFails, Stranded, RolledBack, schema, EverGrows
<1> QED BY <1>1, <1>2, <1>3, <1>4, Steps

LEMMA StepClears == TypeOK /\ Unborn /\ Skips /\ [Next]_vars => Clears
<1> SUFFICES ASSUME TypeOK, Unborn, Skips, [Next]_vars PROVE Clears
  OBVIOUS
<1>1. EverGrows
  BY StepGrows
<1>2. CASE waived' = waived
  BY <1>1, <1>2 DEF Clears
<1>3. CASE \E t \in Tasks : CompleteMigration(t)
  <2>1. PICK t \in Tasks : CompleteMigration(t)
    BY <1>3
  <2>2. t \in Agents /\ mig[t] \in Migrations /\ Earned(t) /\ ever' = ever
    BY <2>1, Basics, Busy DEF CompleteMigration, Skips
  <2>3. waived[mig[t]] => waived'[mig[t]] \/ ever'[mig[t]] = Ops
    BY <2>1, <2>2, CompletedOrWaived DEF Earned
  <2> QED BY <1>1, <2>1, <2>3, CompletedOrWaived DEF Clears
<1>4. ASSUME NEW t \in Tasks, \/ Start(t) \/ ReadRow(t) \/ MarkAsRunning(t) \/ ExecuteOp(t) \/ OpFails(t)
                              \/ WriteIndex(t)
      PROVE  waived' = waived
  BY <1>4 DEF Start, ReadRow, MarkAsRunning, ExecuteOp, OpFails, AddOp, WriteIndex, schema
<1>5. ASSUME NEW a \in Agents, Rollback(a) \/ Undo(a) \/ UndoFails(a) \/ Stranded(a) \/ RolledBack(a)
      PROVE  waived' = waived
  BY <1>5 DEF Rollback, Undo, UndoFails, Stranded, RolledBack, schema
<1> QED BY <1>2, <1>3, <1>4, <1>5, Steps DEF Quiet, schema

LEMMA DepsBy ==
  ASSUME TypeOK, TypeOK', Deps, Clears,
         \A b \in Agents : Same(b) \/ ~NeedsClearing(b)' \/ (mig'[b] \in Migrations /\ Cleared(mig'[b])),
         \A m \in Migrations : \/ Cleared(m)
                               \/ ever'[m] = ever[m] /\ (status'[m] = status[m] \/ status'[m] \notin Bound)
  PROVE  Deps'
<1>1. ASSUME NEW m \in Migrations, ever'[m] # {} \/ status'[m] \in Bound PROVE Cleared(m)'
  <2>1. Cleared(m)
    BY <1>1 DEF Deps
  <2> QED BY <2>1, ClearedKept
<1>2. ASSUME NEW b \in Agents, NeedsClearing(b)' PROVE Cleared(mig[b])'
  <2>1. mig'[b] \in Migrations
    BY <1>2 DEF NeedsClearing, Committed, UndoPcs, TypeOK
  <2>2. Cleared(mig'[b])
    BY <1>2 DEF Same, NeedsClearing, Deps
  <2>3. PICK n \in Migrations : n = mig'[b]
    BY <2>1
  <2>4. Cleared(n)'
    BY <2>2, <2>3, ClearedKept
  <2> QED BY <2>3, <2>4 DEF Cleared
<1> QED BY <1>1, <1>2 DEF Deps

(* An agent goes on with its migration. *)
LEMMA DepsOn ==
  ASSUME TypeOK, TypeOK', Deps, Clears, NEW a \in Agents, OthersSame(a),
         pc[a] # "idle", Cleared(mig[a]), pc'[a] = "idle" \/ mig'[a] = mig[a],
         \A m \in Migrations \ {mig[a]} : ever'[m] = ever[m] /\ status'[m] = status[m]
  PROVE  Deps'
<1>1. mig[a] \in Migrations
  BY Busy
<1>2. Same(a) \/ ~NeedsClearing(a)' \/ (mig'[a] \in Migrations /\ Cleared(mig'[a]))
  <2>1. CASE pc'[a] = "idle"
    BY <2>1 DEF NeedsClearing, Committed, UndoPcs
  <2>2. CASE mig'[a] = mig[a]
    BY <1>1, <2>2
  <2> QED BY <2>1, <2>2
<1>3. \A b \in Agents : Same(b) \/ ~NeedsClearing(b)' \/ (mig'[b] \in Migrations /\ Cleared(mig'[b]))
  BY <1>2 DEF OthersSame
<1>4. \A m \in Migrations : \/ Cleared(m)
                            \/ ever'[m] = ever[m] /\ (status'[m] = status[m] \/ status'[m] \notin Bound)
  OBVIOUS
<1> QED BY <1>3, <1>4, DepsBy

(* An agent comes to a point that needs nothing. *)
LEMMA DepsOff ==
  ASSUME TypeOK, TypeOK', Deps, Clears, NEW a \in Agents, OthersSame(a), ~NeedsClearing(a)',
         \A m \in Migrations : ever'[m] = ever[m] /\ (status'[m] = status[m] \/ status'[m] \notin Bound)
  PROVE  Deps'
BY DepsBy DEF OthersSame

LEMMA IdleNeedsNothing == ASSUME NEW a, pc'[a] = "idle" PROVE ~NeedsClearing(a)'
BY DEF NeedsClearing, Committed, UndoPcs

LEMMA StatusElse ==
  ASSUME TypeOK, NEW n \in Migrations, NEW s, SetStatus(n, s)
  PROVE  \A m \in Migrations \ {n} : status'[m] = status[m]
BY DEF SetStatus, TypeOK

LEMMA EndDeps ==
  ASSUME TypeOK, TypeOK', Deps, Clears, NEW a \in Agents, Leave(a), UNCHANGED row, UNCHANGED schema
  PROVE  Deps'
BY LeaveAgents, IdleNeedsNothing, DepsOff DEF row, schema

LEMMA BeginDeps ==
  ASSUME TypeOK, TypeOK', Deps, Clears, NEW t \in Tasks, Begin(t) PROVE Deps'
<1>1. t \in Agents /\ pc[t] = "queued" /\ UNCHANGED row /\ UNCHANGED schema
  BY Basics DEF Begin
<1>2. CASE fresh[t]
  <2>1. OthersSame(t) /\ pc'[t] = "start"
    BY <1>1, <1>2, GotoAgents, ToPcs DEF Begin, TaskPcs
  <2> QED BY <1>1, <2>1, DepsOff DEF NeedsClearing, Committed, UndoPcs, row, schema
<1>3. CASE ~fresh[t]
  <2>1. OthersSame(t) /\ mig'[t] = mig[t]
    BY <1>1, <1>3, GotoAgents, ToPcs DEF Begin, TaskPcs
  <2>2. Cleared(mig[t])
    BY <1>1, <1>3 DEF Deps, NeedsClearing
  <2> QED BY <1>1, <2>1, <2>2, DepsOn DEF row, schema
<1> QED BY <1>2, <1>3

LEMMA StartDeps ==
  ASSUME TypeOK, TypeOK', Skips, Deps, Clears, NEW t \in Tasks, Start(t) PROVE Deps'
<1>1. t \in Agents /\ pc[t] = "start" /\ UNCHANGED row /\ UNCHANGED schema /\ mig[t] \in Migrations
  BY Basics, Busy DEF Start
<1>2. CASE Return(t)
  BY <1>1, <1>2, EndDeps DEF Return
<1>3. CASE Sign[mig[t]] \subseteq inForce[mig[t]] /\ Goto(t, "waive")
  <2>1. Sign[mig[t]] = {} \/ ever[mig[t]] # {}
    BY <1>1, <1>3 DEF Skips, Recorded
  <2>2. Cleared(mig[t])
    BY <1>1, <2>1 DEF Deps, Cleared
  <2>3. OthersSame(t) /\ mig'[t] = mig[t]
    BY <1>1, <1>3, GotoAgents, ToPcs DEF TaskPcs
  <2> QED BY <1>1, <2>2, <2>3, DepsOn DEF row, schema
<1>4. CASE Goto(t, "unfit")
  <2>1. OthersSame(t) /\ pc'[t] = "unfit"
    BY <1>1, <1>4, GotoAgents, ToPcs DEF TaskPcs
  <2> QED BY <1>1, <2>1, DepsOff DEF NeedsClearing, Committed, UndoPcs, row, schema
<1>5. CASE DependencyOk(mig[t]) /\ Goto(t, "mark")
  <2>1. Cleared(mig[t])
    <3>1. CASE mig[t] > 1
      <4>1. mig[t] - 1 \in Migrations
        BY <1>1, <3>1, MigrationsAssumption DEF Migrations
      <4> QED BY <1>5, <3>1, <4>1 DEF DependencyOk, Skips, Recorded, Cleared
    <3> QED BY <3>1 DEF Cleared
  <2>2. OthersSame(t) /\ mig'[t] = mig[t]
    BY <1>1, <1>5, GotoAgents, ToPcs DEF TaskPcs
  <2> QED BY <1>1, <2>1, <2>2, DepsOn DEF row, schema
<1> QED BY <1>2, <1>3, <1>4, <1>5 DEF Start

LEMMA WorkDeps ==
  ASSUME TypeOK, TypeOK', Deps, Clears, NEW t \in Tasks,
         ReadRow(t) \/ MarkAsRunning(t) \/ ExecuteOp(t) \/ OpFails(t) \/ WriteIndex(t) \/ CompleteMigration(t)
  PROVE  Deps'
<1>0. t \in Agents /\ NeedsClearing(t) /\ pc[t] # "idle"
  BY Basics DEF ReadRow, MarkAsRunning, ExecuteOp, OpFails, WriteIndex, CompleteMigration, NeedsClearing, Committed
<1>1. mig[t] \in Migrations /\ Cleared(mig[t])
  BY <1>0, Busy DEF Deps
<1>2. CASE ReadRow(t)
  <2>1. UNCHANGED row /\ UNCHANGED schema
    BY <1>2 DEF ReadRow
  <2>2. CASE Return(t)
    BY <1>0, <2>1, <2>2, EndDeps DEF Return
  <2>3. CASE ~Return(t)
    <3>1. PICK p, i : Goto(t, p) \/ GotoOp(t, p, i)
      BY <1>2, <2>3 DEF ReadRow
    <3>2. OthersSame(t) /\ mig'[t] = mig[t]
      BY <3>1 DEF Goto, GotoOp, OthersSame, Same, TypeOK
    <3> QED BY <1>0, <1>1, <2>1, <3>2, DepsOn DEF row, schema
  <2> QED BY <2>2, <2>3
<1>3. CASE MarkAsRunning(t)
  <2>1. OthersSame(t) /\ mig'[t] = mig[t]
    BY <1>3, WorkSteps DEF Moves
  <2>2. \A m \in Migrations \ {mig[t]} : ever'[m] = ever[m] /\ status'[m] = status[m]
    BY <1>1, <1>3, StatusElse DEF MarkAsRunning, schema
  <2> QED BY <1>0, <1>1, <2>1, <2>2, DepsOn
<1>4. CASE ExecuteOp(t) \/ OpFails(t)
  <2>1. OthersSame(t) /\ mig'[t] = mig[t]
    BY <1>4, WorkSteps DEF Moves
  <2>2. \A m \in Migrations \ {mig[t]} : ever'[m] = ever[m] /\ status'[m] = status[m]
    BY <1>1, <1>4 DEF ExecuteOp, OpFails, AddOp, row, schema, TypeOK
  <2> QED BY <1>0, <1>1, <2>1, <2>2, DepsOn
<1>5. CASE WriteIndex(t)
  <2>1. OthersSame(t) /\ mig'[t] = mig[t]
    BY <1>5, WorkSteps DEF Moves
  <2> QED BY <1>0, <1>1, <1>5, <2>1, DepsOn DEF WriteIndex, schema
<1>6. CASE CompleteMigration(t)
  <2>1. OthersSame(t) /\ (pc'[t] = "idle" \/ mig'[t] = mig[t])
    BY <1>6, WorkSteps DEF Moves
  <2>2. \A m \in Migrations \ {mig[t]} : ever'[m] = ever[m] /\ status'[m] = status[m]
    BY <1>1, <1>6, StatusElse DEF CompleteMigration, schema
  <2> QED BY <1>0, <1>1, <2>1, <2>2, DepsOn
<1> QED BY <1>2, <1>3, <1>4, <1>5, <1>6

LEMMA TaskDeps ==
  ASSUME TypeOK, TypeOK', Deps, Clears, NEW t \in Tasks, Unfit(t) \/ RunNextMigration(t) \/ Kill(t)
  PROVE  Deps'
<1>0. t \in Agents /\ pc[t] # "idle" /\ mig[t] \in Migrations
  BY Basics, Busy DEF Unfit, RunNextMigration, Kill
<1>1. CASE Unfit(t)
  <2>1. OthersSame(t) /\ ~NeedsClearing(t)'
    BY <1>0, <1>1, ReturnTypes, IdleNeedsNothing DEF Unfit
  <2>2. \A m \in Migrations : ever'[m] = ever[m] /\ (status'[m] = status[m] \/ status'[m] \notin Bound)
    BY <1>0, <1>1, StatusType DEF Unfit, schema, Statuses, Bound
  <2> QED BY <1>0, <2>1, <2>2, DepsOff
<1>2. CASE RunNextMigration(t)
  <2>1. UNCHANGED row /\ UNCHANGED schema
    BY <1>2 DEF RunNextMigration
  <2>2. CASE Return(t)
    BY <1>0, <2>1, <2>2, EndDeps DEF Return
  <2>3. CASE ~Return(t)
    <3>1. OthersSame(t) /\ pc'[t] = "call" /\ fresh'[t]
      BY <1>0, <1>2, <2>3 DEF RunNextMigration, OthersSame, Same, TypeOK
    <3> QED BY <1>0, <2>1, <3>1, DepsOff DEF NeedsClearing, Committed, UndoPcs, row, schema
  <2> QED BY <2>2, <2>3
<1>3. CASE Kill(t)
  BY <1>0, <1>3, EndDeps DEF Kill, row, schema
<1> QED BY <1>1, <1>2, <1>3

LEMMA AgentDeps ==
  ASSUME TypeOK, TypeOK', Deps, Clears, NEW a \in Agents,
         Call(a) \/ Record(a) \/ ProcessError(a) \/ Crash(a)
  PROVE  Deps'
<1>0. pc[a] # "idle" /\ mig[a] \in Migrations
  BY Busy DEF Call, Record, ProcessError, Crash
<1>1. CASE Call(a)
  <2>1. PICK t \in Tasks : /\ pc' = [pc EXCEPT ![t] = "queued", ![a] = "record"]
                           /\ mig' = [mig EXCEPT ![t] = mig[a]] /\ fresh' = [fresh EXCEPT ![t] = fresh[a]]
                           /\ child' = [child EXCEPT ![a] = t]
    BY <1>1 DEF Call
  <2>2. \A b \in Agents \ {a, t} : Same(b)
    BY <1>1, <2>1 DEF Call, Same, TypeOK
  <2>3. ~NeedsClearing(a)'
    BY <2>1, Basics DEF NeedsClearing, Committed, UndoPcs, TypeOK
  <2>4. t # a => (~NeedsClearing(t)' \/ (mig'[t] \in Migrations /\ Cleared(mig'[t])))
    <3>1. ASSUME t # a PROVE pc'[t] = "queued" /\ mig'[t] = mig[a] /\ fresh'[t] = fresh[a]
      BY <2>1, <3>1, Basics DEF TypeOK
    <3>2. CASE fresh[a]
      BY <3>1, <3>2 DEF NeedsClearing, Committed, UndoPcs
    <3>3. CASE ~fresh[a]
      <4>1. Cleared(mig[a])
        BY <1>1, <3>3 DEF Call, Deps, NeedsClearing
      <4> QED BY <1>0, <3>1, <4>1
    <3> QED BY <3>2, <3>3
  <2>5. \A m \in Migrations : ever'[m] = ever[m] /\ status'[m] = status[m]
    BY <1>1 DEF Call, row, schema
  <2> QED BY <2>2, <2>3, <2>4, <2>5, DepsBy
<1>2. CASE Record(a)
  <2>1. OthersSame(a) /\ ~NeedsClearing(a)'
    BY <1>2, ReturnTypes, IdleNeedsNothing DEF Record
  <2> QED BY <1>2, <2>1, DepsOff DEF Record, schema
<1>3. CASE ProcessError(a)
  <2>1. Cleared(mig[a])
    BY <1>3 DEF ProcessError, Deps, NeedsClearing, Committed
  <2>2. \A m \in Migrations \ {mig[a]} : ever'[m] = ever[m] /\ status'[m] = status[m]
    BY <1>0, <1>3, StatusElse DEF ProcessError, schema
  <2>3. OthersSame(a) /\ (pc'[a] = "idle" \/ mig'[a] = mig[a])
    <3>1. CASE Return(a)
      BY <3>1, ReturnTypes
    <3>2. CASE Goto(a, "back")
      BY <1>0, <3>2, GotoAgents, ToPcs DEF OtherPcs
    <3> QED BY <1>3, <3>1, <3>2 DEF ProcessError
  <2> QED BY <1>0, <2>1, <2>2, <2>3, DepsOn
<1>4. CASE Crash(a)
  BY <1>4, EndDeps DEF Crash, row, schema
<1> QED BY <1>1, <1>2, <1>3, <1>4

LEMMA UndoDeps ==
  ASSUME TypeOK, TypeOK', Deps, Clears, NEW a \in Agents,
         Rollback(a) \/ Undo(a) \/ UndoFails(a) \/ Stranded(a) \/ RolledBack(a)
  PROVE  Deps'
<1>1. NeedsClearing(a) /\ pc[a] # "idle"
  BY DEF Rollback, Undo, UndoFails, Stranded, RolledBack, NeedsClearing, Committed, UndoPcs
<1>2. mig[a] \in Migrations /\ Cleared(mig[a])
  BY <1>1, Busy DEF Deps
<1>3. OthersSame(a) /\ (pc'[a] = "idle" \/ mig'[a] = mig[a])
  BY UndoSteps DEF Moves
<1>4. ever' = ever
  BY DEF Rollback, Undo, UndoFails, Stranded, RolledBack, schema
<1>5. \A m \in Migrations \ {mig[a]} : status'[m] = status[m]
  <2>1. CASE Rollback(a) \/ Undo(a) \/ UndoFails(a)
    BY <2>1 DEF Rollback, Undo, UndoFails, row
  <2>2. CASE Stranded(a) \/ RolledBack(a)
    BY <1>2, <2>2, StatusElse DEF Stranded, RolledBack
  <2> QED BY <2>1, <2>2
<1> QED BY <1>1, <1>2, <1>3, <1>4, <1>5, DepsOn

LEMMA RequestDeps ==
  ASSUME TypeOK, TypeOK', Deps, Clears, NEW r \in Requests, NEW m \in Migrations, RequestStep(r, m)
  PROVE  Deps'
<1>0. r \in Agents /\ ever' = ever
  BY Basics DEF RequestStep, Trigger, Resume, ForceStop, RequestRollback, Kickstart, Request, schema
<1>1. CASE Trigger(r, m) \/ Kickstart(r, m)
  <2>1. OthersSame(r) /\ pc'[r] = "call" /\ fresh'[r] = TRUE
    BY <1>0, <1>1, TakesAgents, ToPcs DEF Trigger, Kickstart, OtherPcs
  <2>2. ~NeedsClearing(r)'
    BY <2>1 DEF NeedsClearing, Committed, UndoPcs
  <2>3. \A n \in Migrations : status'[n] = status[n] \/ status'[n] \notin Bound
    BY <1>1, StatusType DEF Trigger, Kickstart, Statuses, Bound
  <2> QED BY <1>0, <2>1, <2>2, <2>3, DepsOff
<1>2. CASE Resume(r, m) \/ ForceStop(r, m) \/ RequestRollback(r, m)
  <2>1. Cleared(m)
    BY <1>2 DEF Resume, ForceStop, RequestRollback, Deps, Bound
  <2>2. PICK p \in {"call", "error", "errorOnly", "back"} : Takes(r, m, p, FALSE)
    BY <1>2 DEF Resume, ForceStop, RequestRollback
  <2>3. OthersSame(r) /\ mig'[r] = m
    BY <1>0, <2>2, TakesAgents, ToPcs DEF OtherPcs
  <2>4. \A n \in Migrations : n = m \/ status'[n] = status[n]
    BY <1>2, StatusElse DEF Resume, ForceStop, RequestRollback
  <2> QED BY <1>0, <2>1, <2>3, <2>4, DepsBy DEF OthersSame
<1> QED BY <1>1, <1>2 DEF RequestStep

LEMMA CheckDeps ==
  ASSUME TypeOK, TypeOK', Deps, Clears, (\E m \in Migrations : CheckHealth(m)) \/ InspectLost \/ InspectActive
  PROVE  Deps'
<1>0. UNCHANGED row /\ UNCHANGED schema /\ Checker \in Agents
  BY Basics DEF CheckHealth, InspectLost, InspectActive
<1>1. CASE \E m \in Migrations : CheckHealth(m)
  <2>1. PICK m \in Migrations : CheckHealth(m)
    BY <1>1
  <2>2. Cleared(m)
    BY <2>1 DEF CheckHealth, Running, Deps, Bound
  <2>3. OthersSame(Checker) /\ mig'[Checker] = m
    BY <1>0, <2>1 DEF CheckHealth, OthersSame, Same, TypeOK
  <2> QED BY <1>0, <2>2, <2>3, DepsBy DEF OthersSame, row, schema
<1>2. CASE InspectLost \/ InspectActive
  <2>1. pc[Checker] = "inspect"
    BY <1>2 DEF InspectLost, InspectActive
  <2>2. Cleared(mig[Checker])
    BY <1>0, <2>1 DEF Deps, NeedsClearing, Committed
  <2>3. CASE Return(Checker)
    BY <1>0, <2>3, EndDeps DEF Return
  <2>4. CASE ~Return(Checker)
    <3>1. PICK p : Goto(Checker, p)
      BY <1>2, <2>4 DEF InspectLost, InspectActive
    <3>2. OthersSame(Checker) /\ mig'[Checker] = mig[Checker]
      BY <3>1 DEF Goto, OthersSame, Same, TypeOK
    <3> QED BY <1>0, <2>1, <2>2, <3>2, DepsOn DEF row, schema
  <2> QED BY <2>3, <2>4
<1> QED BY <1>1, <1>2

LEMMA InitDeps == Init => Deps
<1> SUFFICES ASSUME Init PROVE Deps
  OBVIOUS
<1>1. PICK n \in 0..Last : inForce = [m \in Migrations |-> IF m <= n THEN Ops ELSE {}]
  BY DEF Init
<1>2. ASSUME NEW m \in Migrations, ever[m] # {} PROVE Cleared(m)
  <2>1. ever[m] = IF m <= n THEN Ops ELSE {}
    BY <1>1 DEF Init
  <2>2. m <= n
    BY <1>2, <2>1
  <2>3. m > 1 => m - 1 \in Migrations /\ m - 1 <= n
    BY <2>2, MigrationsAssumption DEF Migrations
  <2> QED BY <1>1, <2>3 DEF Init, Cleared
<1>3. ASSUME NEW m \in Migrations, status[m] \in Bound PROVE ever[m] # {}
  <2>1. status[m] = "CompletedSuccessfully"
    BY <1>3 DEF Init, Bound
  <2> QED BY <2>1, InitDone, Basics
<1>4. \A b \in Agents : ~NeedsClearing(b)
  BY DEF Init, NeedsClearing, Committed, UndoPcs
<1> QED BY <1>2, <1>3, <1>4 DEF Deps

LEMMA StepDeps == TypeOK /\ TypeOK' /\ Unborn /\ Skips /\ Deps /\ [Next]_vars => Deps'
<1> SUFFICES ASSUME TypeOK, TypeOK', Unborn, Skips, Deps, [Next]_vars PROVE Deps'
  OBVIOUS
<1>1. Clears
  BY StepClears
<1>2. CASE UNCHANGED vars
  BY <1>2 DEF vars, row, agents, schema, Deps, Cleared, NeedsClearing
<1>3. ASSUME NEW t \in Tasks, TaskStep(t) PROVE Deps'
  BY <1>1, <1>3, BeginDeps, StartDeps, WorkDeps, TaskDeps DEF TaskStep
<1>4. ASSUME NEW a \in Agents, AgentStep(a) PROVE Deps'
  BY <1>1, <1>4, AgentDeps, UndoDeps DEF AgentStep
<1> QED BY <1>1, <1>2, <1>3, <1>4, RequestDeps, CheckDeps DEF Next

(* No operation of a migration is executed before all those of the one that  *)
(* it depends on, or before that one was found not required, although only a *)
(* fresh start checks the dependency: for the migrations of which is_required *)
(* looks for something. One that is waived without its dependency was         *)
(* executed before, and so had its dependency done then.                      *)
THEOREM MigrationsInOrder == Spec => []DependenciesFirst
<1>1. Deps => DependenciesFirst
  BY DEF Deps, Cleared, DependenciesFirst
<1> QED
  BY <1>1, InitType, StepType, InitSkips, StepUnborn, StepSkips, InitDeps, StepDeps, PTL DEF Spec

----------------------------------------------------------------------------
(* In force: unless a rollback was disturbed, what the index and the agents *)
(* of a migration claim is in force, and a rollback is alone with it.       *)

InEffect(m) ==
  Undoing(m) = {} => /\ 0..(index[m] - 1) \subseteq inForce[m]
                     /\ status[m] = "CompletedSuccessfully" => /\ Sign[m] \subseteq inForce[m]
                                                               /\ ~waived[m] => inForce[m] = Ops

Holds(b) ==
  /\ pc[b] \in {"op", "undo", "undoFailed"} => 0..(at[b] - 1) \subseteq inForce[mig[b]]
  /\ pc[b] = "write" => 0..at[b] \subseteq inForce[mig[b]]
  /\ pc[b] = "complete" => inForce[mig[b]] = Ops
  /\ pc[b] = "waive" => Sign[mig[b]] \subseteq inForce[mig[b]]

Sound(m) == ~Disturbed(m) /\ InEffect(m) /\ \A b \in Agents : mig[b] = m => Holds(b)

Standing == \A m \in Migrations : torn[m] \/ Sound(m)

LEMMA Untorn ==
  ASSUME TypeOK, Watch, NEW m \in Migrations, ~torn'[m] PROVE ~torn[m] /\ ~Disturbed(m)'
BY Zenon DEF Watch

(* A rollback that is not disturbed is alone, now and after a step. *)
LEMMA Alone ==
  ASSUME NEW m, ~Disturbed(m), NEW a \in Agents, pc[a] \in UndoPcs, mig[a] = m
  PROVE  \A b \in Agents \ {a} : mig[b] = m => pc[b] \notin Claims
BY DEF Disturbed, Undoing, Working, Claims

LEMMA AloneNext ==
  ASSUME NEW m, ~Disturbed(m)', NEW a \in Agents, pc'[a] \in Claims, mig'[a] = m
  PROVE  \A b \in Agents \ {a} : mig'[b] = m => pc'[b] \notin UndoPcs
BY DEF Disturbed, Undoing, Working, Claims

LEMMA QuietForce == ASSUME TypeOK, TypeOK', Standing, Quiet PROVE Standing'
<1> SUFFICES ASSUME NEW m \in Migrations, ~torn'[m] PROVE Sound(m)'
  BY DEF Standing
<1>1. Sound(m) /\ ~torn[m]
  BY DEF Standing, Quiet
<1>2. \A b \in Agents : pc'[b] \in Claims => Same(b)
  BY DEF Quiet
<1>3. \A b \in Agents : pc[b] \in UndoPcs /\ mig[b] = m => Same(b)
  BY DEF Quiet
<1>4. Undoing(m)' = Undoing(m)
  BY <1>2, <1>3 DEF Undoing, Same, Claims
<1>5. Working(m)' \subseteq Working(m)
  BY <1>2 DEF Working, Same, Claims
<1>6. ~Disturbed(m)'
  BY <1>1, <1>4, <1>5 DEF Sound, Disturbed
<1>7. InEffect(m)'
  BY <1>1, <1>4 DEF Sound, InEffect, Quiet, schema
<1>8. ASSUME NEW b \in Agents, mig'[b] = m PROVE Holds(b)'
  <2>1. CASE pc'[b] \in Claims
    BY <1>1, <1>2, <1>8, <2>1 DEF Sound, Holds, Same, Quiet, schema
  <2>2. CASE pc'[b] \notin Claims
    BY <2>2 DEF Holds, Claims, UndoPcs
  <2> QED BY <2>1, <2>2
<1> QED BY <1>6, <1>7, <1>8 DEF Sound

(* A step of one agent, in its migration only *)
LEMMA ForceBy ==
  ASSUME TypeOK, TypeOK', Standing, NEW a, NEW p, Moves(a, p), pc[a] # "idle", NEW m \in Migrations, mig[a] = m,
         \A n \in Migrations \ {m} : /\ status'[n] = status[n] /\ index'[n] = index[n]
                                    /\ inForce'[n] = inForce[n] /\ waived'[n] = waived[n],
         ~torn'[m] => InEffect(m)' /\ \A b \in Agents : mig'[b] = m => Holds(b)'
  PROVE  Standing'
<1>0. a \in Agents /\ OthersSame(a) /\ Watch
  BY DEF Moves
<1>1. ASSUME NEW n \in Migrations \ {m}, ~torn'[n] PROVE Sound(n)'
  <2>1. Sound(n) /\ ~Disturbed(n)'
    BY <1>0, <1>1, Untorn DEF Standing
  <2>2. pc'[a] # "idle" => mig'[a] = m
    BY DEF Moves
  <2>3. Undoing(n)' = Undoing(n)
    <3>1. ASSUME NEW b \in Agents \ {a} PROVE b \in Undoing(n)' <=> b \in Undoing(n)
      BY <1>0 DEF Undoing, OthersSame, Same
    <3>2. a \notin Undoing(n) /\ a \notin Undoing(n)'
      BY <1>1, <2>2 DEF Undoing, UndoPcs
    <3> QED BY <3>1, <3>2 DEF Undoing
  <2>4. InEffect(n)'
    BY <1>1, <2>1, <2>3 DEF Sound, InEffect
  <2>5. ASSUME NEW b \in Agents, mig'[b] = n PROVE Holds(b)'
    <3>1. CASE b = a
      BY <1>1, <2>2, <2>5, <3>1 DEF Holds
    <3>2. CASE b # a
      <4>1. pc'[b] = pc[b] /\ mig[b] = n /\ at'[b] = at[b]
        BY <1>0, <2>5, <3>2 DEF OthersSame, Same
      <4>2. Holds(b)
        BY <2>1, <4>1 DEF Sound
      <4> QED BY <1>1, <2>5, <4>1, <4>2 DEF Holds
    <3> QED BY <3>1, <3>2
  <2> QED BY <2>1, <2>4, <2>5 DEF Sound
<1>2. ASSUME ~torn'[m] PROVE Sound(m)'
  BY <1>0, <1>2, Untorn DEF Sound
<1> QED BY <1>1, <1>2 DEF Standing

(* The other agents of the migration, when its operations only become more *)
LEMMA OthersHold ==
  ASSUME TypeOK, TypeOK', NEW m \in Migrations, Sound(m), NEW a \in Agents, OthersSame(a),
         inForce[m] \subseteq inForce'[m]
  PROVE  \A b \in Agents \ {a} : mig'[b] = m => Holds(b)'
<1> SUFFICES ASSUME NEW b \in Agents \ {a}, mig'[b] = m PROVE Holds(b)'
  OBVIOUS
<1>1. pc'[b] = pc[b] /\ mig[b] = m /\ at'[b] = at[b]
  BY DEF OthersSame, Same
<1>2. Holds(b)
  BY <1>1 DEF Sound
<1>3. inForce'[m] \subseteq Ops
  BY DEF TypeOK
<1>4. inForce[m] = Ops => inForce'[m] = Ops
  BY <1>3
<1>5. \A S : S \subseteq inForce[m] => S \subseteq inForce'[m]
  OBVIOUS
<1> QED BY <1>1, <1>2, <1>4, <1>5 DEF Holds

(* An agent that starts to claim something finds no rollback. *)
LEMMA NoneUndoing ==
  ASSUME NEW m \in Migrations, NEW a \in Agents, OthersSame(a), pc[a] \notin UndoPcs, pc'[a] \in Claims,
         mig'[a] = m, ~Disturbed(m)'
  PROVE  Undoing(m) = {}
<1>1. \A b \in Agents \ {a} : mig'[b] = m => pc'[b] \notin UndoPcs
  BY AloneNext
<1> QED BY <1>1 DEF Undoing, OthersSame, Same

(* Rollbacks of m neither start nor end. *)
LEMMA SameUndoing ==
  ASSUME NEW m, NEW a \in Agents, OthersSame(a), pc[a] \notin UndoPcs, pc'[a] \notin UndoPcs
  PROVE  Undoing(m)' = Undoing(m)
<1>1. \A b \in Agents : b \in Undoing(m)' <=> b \in Undoing(m)
  BY DEF Undoing, OthersSame, Same
<1> QED BY <1>1 DEF Undoing

LEMMA BeginsForce ==
  ASSUME TypeOK, TypeOK', Standing, NEW t \in Tasks, Start(t) \/ ReadRow(t), ~Quiet PROVE Standing'
<1>1. /\ t \in Agents /\ pc[t] # "idle" /\ pc[t] \notin UndoPcs /\ UNCHANGED row /\ UNCHANGED schema
  BY Basics DEF Start, ReadRow, UndoPcs
<1>2. PICK m \in Migrations : mig[t] = m
  BY <1>1, Busy
<1>3. PICK p \in {"complete", "waive", "op"} :
         /\ Moves(t, p)
         /\ \/ p = "complete" /\ index[m] > K - 1
            \/ p = "waive" /\ Sign[m] \subseteq inForce[m]
            \/ p = "op" /\ at'[t] = index[m]
  BY <1>2, StartSteps, ReadSteps
<1>4. OthersSame(t) /\ Watch /\ pc'[t] = p /\ mig'[t] = m
  BY <1>2, <1>3 DEF Moves
<1>5. ASSUME ~torn'[m] PROVE InEffect(m)' /\ \A b \in Agents : mig'[b] = m => Holds(b)'
  <2>1. Sound(m) /\ ~Disturbed(m)'
    BY <1>4, <1>5, Untorn DEF Standing
  <2>2. Undoing(m) = {} /\ Undoing(m)' = Undoing(m)
    BY <1>1, <1>3, <1>4, <2>1, NoneUndoing, SameUndoing DEF Claims, UndoPcs
  <2>3. 0..(index[m] - 1) \subseteq inForce[m]
    BY <2>1, <2>2 DEF Sound, InEffect
  <2>4. InEffect(m)'
    BY <1>1, <2>1, <2>2 DEF Sound, InEffect, row, schema
  <2>5. Holds(t)'
    <3>1. CASE p = "complete"
      <4>1. Ops \subseteq 0..(index[m] - 1)
        BY <1>3, <3>1, MigrationsAssumption DEF Ops, TypeOK
      <4>2. inForce[m] = Ops
        BY <2>3, <4>1 DEF TypeOK
      <4> QED BY <1>1, <1>4, <3>1, <4>2 DEF Holds, schema
    <3>2. CASE p = "op"
      BY <1>1, <1>3, <1>4, <2>3, <3>2 DEF Holds, schema
    <3>3. CASE p = "waive"
      BY <1>1, <1>3, <1>4, <3>3 DEF Holds, schema
    <3> QED BY <3>1, <3>2, <3>3
  <2>6. \A b \in Agents \ {t} : mig'[b] = m => Holds(b)'
    BY <1>1, <1>4, <2>1, OthersHold DEF schema
  <2> QED BY <2>4, <2>5, <2>6
<1> QED BY <1>1, <1>2, <1>3, <1>5, ForceBy DEF row, schema

LEMMA WorkForce ==
  ASSUME TypeOK, TypeOK', Standing, NEW t \in Tasks,
         MarkAsRunning(t) \/ ExecuteOp(t) \/ OpFails(t) \/ WriteIndex(t) \/ CompleteMigration(t)
  PROVE  Standing'
<1>1. /\ t \in Agents /\ pc[t] \in {"mark", "op", "write", "complete", "waive"} /\ at[t] \in Ops
  BY Basics DEF MarkAsRunning, ExecuteOp, OpFails, WriteIndex, CompleteMigration, TypeOK
<1>2. PICK m \in Migrations : mig[t] = m
  BY <1>1, Busy
<1>3. PICK p \in {"read", "write", "error", "next", "idle"} : Moves(t, p)
  BY WorkSteps
<1>4. OthersSame(t) /\ Watch /\ pc'[t] = p /\ (p # "idle" => mig'[t] = m)
  BY <1>2, <1>3 DEF Moves
<1>5. \A n \in Migrations \ {m} : /\ status'[n] = status[n] /\ index'[n] = index[n]
                                   /\ inForce'[n] = inForce[n] /\ waived'[n] = waived[n]
  <2>1. CASE MarkAsRunning(t) \/ CompleteMigration(t)
    BY <1>2, <2>1, StatusElse, CompletedOrWaived DEF MarkAsRunning, CompleteMigration, schema, TypeOK
  <2>2. CASE ExecuteOp(t) \/ OpFails(t)
    BY <1>2, <2>2 DEF ExecuteOp, OpFails, AddOp, row, schema, TypeOK
  <2>3. CASE WriteIndex(t)
    BY <1>2, <2>3 DEF WriteIndex, schema, TypeOK
  <2> QED BY <2>1, <2>2, <2>3
<1>6. ASSUME ~torn'[m] PROVE InEffect(m)' /\ \A b \in Agents : mig'[b] = m => Holds(b)'
  <2>1. Sound(m) /\ Holds(t)
    <3>1. Sound(m)
      BY <1>4, <1>6, Untorn DEF Standing
    <3> QED BY <1>1, <1>2, <3>1 DEF Sound
  <2>2. Undoing(m)' = Undoing(m)
    BY <1>1, <1>4, SameUndoing DEF UndoPcs
  <2>3. inForce[m] \subseteq inForce'[m] /\ inForce'[m] \subseteq Ops
    BY <1>2 DEF MarkAsRunning, ExecuteOp, OpFails, WriteIndex, CompleteMigration, AddOp, schema, TypeOK
  <2>4. InEffect(m)'
    <3>1. CASE MarkAsRunning(t)
      BY <1>2, <2>1, <2>2, <3>1 DEF MarkAsRunning, SetStatus, InEffect, TypeOK
    <3>2. CASE ExecuteOp(t) \/ OpFails(t)
      <4>1. UNCHANGED row
        BY <3>2 DEF ExecuteOp, OpFails
      <4>2. inForce[m] = Ops => inForce'[m] = Ops
        BY <2>3
      <4>3. waived' = waived
        BY <3>2 DEF ExecuteOp, OpFails, AddOp, schema
      <4> QED BY <2>1, <2>2, <2>3, <4>1, <4>2, <4>3 DEF Sound, InEffect, row
    <3>3. CASE WriteIndex(t)
      BY <1>1, <1>2, <2>1, <2>2, <3>3 DEF WriteIndex, Sound, InEffect, Holds, schema, TypeOK, Ops
    <3>4. CASE CompleteMigration(t)
      <4>1. UNCHANGED <<index, inForce>>
        BY <3>4 DEF CompleteMigration
      <4>2. Undoing(m) = {}
        BY <1>1, <1>2, <2>1, <3>4 DEF Sound, Disturbed, Undoing, Working, UndoPcs, CompleteMigration
      <4>3. Sign[m] \subseteq inForce[m] /\ (~waived'[m] => inForce[m] = Ops)
        <5>1. Sign[m] \subseteq Ops
          BY MigrationsAssumption DEF Migrations, Ops
        <5> QED BY <1>2, <2>1, <3>4, <4>2, <5>1, CompletedOrWaived DEF Holds, Sound, InEffect
      <4> QED BY <2>1, <2>2, <4>1, <4>2, <4>3 DEF Sound, InEffect
    <3> QED BY <3>1, <3>2, <3>3, <3>4
  <2>5. Holds(t)'
    <3>1. CASE p = "write"
      <4>1. ExecuteOp(t) /\ pc[t] = "op" /\ at'[t] = at[t]
        <5>1. ~MarkAsRunning(t) /\ ~OpFails(t) /\ ~WriteIndex(t) /\ ~CompleteMigration(t)
          BY <1>4, <3>1, WorkSteps DEF Moves
        <5> QED BY <5>1, WorkSteps
      <4>2. inForce'[m] = inForce[m] \cup {at[t]}
        BY <1>2, <4>1 DEF ExecuteOp, AddOp, TypeOK
      <4>3. 0..at[t] \subseteq 0..(at[t] - 1) \cup {at[t]}
        BY <1>1 DEF Ops
      <4> QED BY <1>2, <1>4, <2>1, <3>1, <4>1, <4>2, <4>3 DEF Holds
    <3>2. CASE p # "write"
      BY <1>4, <3>2 DEF Holds
    <3> QED BY <3>1, <3>2
  <2>6. \A b \in Agents \ {t} : mig'[b] = m => Holds(b)'
    BY <1>1, <1>4, <2>1, <2>3, OthersHold
  <2> QED BY <2>4, <2>5, <2>6
<1> QED BY <1>1, <1>2, <1>3, <1>5, <1>6, ForceBy

LEMMA UndoForce ==
  ASSUME TypeOK, TypeOK', Standing, NEW a \in Agents,
         Rollback(a) \/ Undo(a) \/ UndoFails(a) \/ Stranded(a) \/ RolledBack(a)
  PROVE  Standing'
<1>1. pc[a] # "idle" /\ at[a] \in Ops
  BY DEF Rollback, Undo, UndoFails, Stranded, RolledBack, TypeOK
<1>2. PICK m \in Migrations : mig[a] = m
  BY <1>1, Busy
<1>3. PICK p \in UndoPcs \cup {"idle"} : Moves(a, p)
  BY UndoSteps DEF UndoPcs
<1>4. OthersSame(a) /\ Watch /\ pc'[a] = p /\ (p # "idle" => mig'[a] = m)
  BY <1>2, <1>3 DEF Moves
<1>5. \A n \in Migrations \ {m} : /\ status'[n] = status[n] /\ index'[n] = index[n]
                                   /\ inForce'[n] = inForce[n] /\ waived'[n] = waived[n]
  <2>1. CASE Rollback(a)
    BY <2>1 DEF Rollback, row, schema
  <2>2. CASE Undo(a) \/ UndoFails(a)
    BY <1>2, <2>2 DEF Undo, UndoFails, row, TypeOK
  <2>3. CASE Stranded(a) \/ RolledBack(a)
    BY <1>2, <2>3, StatusElse DEF Stranded, RolledBack, schema, TypeOK
  <2> QED BY <2>1, <2>2, <2>3
<1>6. ASSUME ~torn'[m] PROVE InEffect(m)' /\ \A b \in Agents : mig'[b] = m => Holds(b)'
  <2>1. Sound(m) /\ ~Disturbed(m)' /\ ~Disturbed(m) /\ Holds(a)
    <3>1. Sound(m) /\ ~Disturbed(m)'
      BY <1>4, <1>6, Untorn DEF Standing
    <3> QED BY <1>2, <3>1 DEF Sound
  <2>2. CASE Rollback(a)
    <3>1. /\ pc'[a] = "undo" /\ pc[a] = "back" /\ at'[a] <= index[m]
          /\ UNCHANGED row /\ UNCHANGED schema
      BY <1>2, <2>2, UndoSteps DEF Moves
    <3>2. mig'[a] = m
      BY <1>4, <3>1
    <3>3. Undoing(m) = {}
      BY <1>4, <2>1, <3>1, <3>2, NoneUndoing DEF Claims, UndoPcs
    <3>4. 0..(at'[a] - 1) \subseteq inForce[m]
      <4>1. 0..(at'[a] - 1) \subseteq 0..(index[m] - 1)
        BY <3>1 DEF TypeOK, Ops
      <4> QED BY <2>1, <3>3, <4>1 DEF Sound, InEffect
    <3>5. Holds(a)'
      BY <3>1, <3>2, <3>4 DEF Holds, schema
    <3>6. InEffect(m)'
      BY <3>1, <3>2 DEF InEffect, Undoing, UndoPcs
    <3>7. \A b \in Agents \ {a} : mig'[b] = m => Holds(b)'
      BY <1>4, <2>1, <3>1, OthersHold DEF schema
    <3> QED BY <3>5, <3>6, <3>7
  <2>3. CASE ~Rollback(a)
    <3>1. pc[a] \in UndoPcs
      BY <2>3 DEF Undo, UndoFails, Stranded, RolledBack, UndoPcs
    <3>2. \A b \in Agents \ {a} : mig[b] = m => pc[b] \notin Claims
      BY <1>2, <2>1, <3>1, Alone
    <3>3. \A b \in Agents \ {a} : mig'[b] = m => Holds(b)'
      BY <1>4, <3>2 DEF Holds, OthersSame, Same, Claims, UndoPcs
    <3>4. CASE Undo(a) \/ UndoFails(a)
      <4>1. pc[a] = "undo" /\ pc'[a] \in UndoPcs /\ mig'[a] = m
        BY <1>4, <3>4, UndoSteps DEF Moves, UndoPcs
      <4>2. InEffect(m)'
        BY <4>1 DEF InEffect, Undoing
      <4>3. pc'[a] # "undone" => at'[a] <= at[a]
        BY <1>1, <3>4, UndoSteps DEF Moves, Ops
      <4>4. inForce[m] \ {at[a]} \subseteq inForce'[m]
        BY <1>2, <3>4 DEF Undo, UndoFails, TypeOK
      <4>5. pc'[a] # "undone" => 0..(at'[a] - 1) \subseteq 0..(at[a] - 1) \ {at[a]}
        BY <1>1, <4>3 DEF Ops, TypeOK
      <4>6. 0..(at[a] - 1) \subseteq inForce[m]
        BY <1>2, <2>1, <4>1 DEF Holds
      <4>7. Holds(a)'
        BY <4>1, <4>4, <4>5, <4>6 DEF Holds, UndoPcs
      <4> QED BY <3>3, <4>2, <4>7
    <3>5. CASE Stranded(a) \/ RolledBack(a)
      <4>1. pc'[a] = "idle"
        BY <3>5, UndoSteps DEF Moves
      <4>2. /\ inForce' = inForce /\ status'[m] # "CompletedSuccessfully"
            /\ 0..(index'[m] - 1) \subseteq inForce[m]
        BY <1>2, <2>1, <3>5 DEF Stranded, RolledBack, SetStatus, Holds, schema, TypeOK
      <4>3. InEffect(m)'
        BY <4>2 DEF InEffect
      <4>4. Holds(a)'
        BY <4>1 DEF Holds
      <4> QED BY <3>3, <4>3, <4>4
    <3> QED BY <2>3, <3>4, <3>5
  <2> QED BY <2>2, <2>3
<1> QED BY <1>1, <1>2, <1>3, <1>5, <1>6, ForceBy

LEMMA InitForce == Init => Standing
<1> SUFFICES ASSUME Init PROVE Standing
  OBVIOUS
<1>1. ASSUME NEW m \in Migrations PROVE Sound(m)
  <2>1. Undoing(m) = {}
    BY DEF Init, Undoing, UndoPcs
  <2>2. InEffect(m)
    <3>1. status[m] = "CompletedSuccessfully" => inForce[m] = Ops
      BY InitDone
    <3>2. Sign[m] \subseteq Ops
      BY MigrationsAssumption DEF Migrations, Ops
    <3> QED BY <3>1, <3>2 DEF Init, InEffect
  <2>3. \A b \in Agents : Holds(b)
    BY DEF Init, Holds
  <2> QED BY <2>1, <2>2, <2>3 DEF Sound, Disturbed
<1> QED BY <1>1 DEF Standing

LEMMA StepForce == TypeOK /\ TypeOK' /\ Unborn /\ Standing /\ [Next]_vars => Standing'
BY Steps, QuietForce, BeginsForce, WorkForce, UndoForce

(* A completed migration has all its operations in force until it is rolled   *)
(* back, although rollbacks stop half-way and runs are resumed there, unless  *)
(* another agent executed, completed or rolled back the migration during a    *)
(* rollback, or the rollback was cut off; and one that was completed as not   *)
(* required has what is_required looks for in force. InEffect is an invariant *)
(* only together with what each agent claims, and with rollbacks being alone. *)
THEOREM MigrationsInForce == Spec => []CompletedIsInForce
<1>1. TypeOK /\ Standing => CompletedIsInForce
  BY Zenon DEF Standing, Sound, InEffect, CompletedIsInForce
<1> QED BY <1>1, InitType, StepType, InitSkips, StepUnborn, InitForce, StepForce, PTL DEF Spec
=============================================================================
