-------------------------- MODULE JobQueues_proofs --------------------------
(* The types of the job consumer, and that successive calls of syncState keep *)
(* its flags, fields and runners in agreement, for any jobs and any number of *)
(* pauses.                                                                    *)
EXTENDS JobQueues, FiniteSetTheorems, TLAPS

-----------------------------------------------------------------------------
(* What a state looks like as long as no two calls have overlapped.           *)

Quiet    == \A c \in Calls : pc[c] = "idle"
Alone(c) == \A d \in Calls \ {c} : pc[d] = "idle"

Nothing == runner = 0 /\ live = {} /\ stopping = {}

(* Before stopConsumer is called.                                             *)
Open == {"up", "told"}

(* Nobody has called yet; the process is gone.                                *)
Fresh == phase = "new" /\ Nothing /\ open = {} /\ ~broken /\ ~paused
Over  == phase = "gone" /\ Nothing

(* Between calls: a runner works over the one pool, or there is none.         *)
Resting ==
  /\ stopping = {}
  /\ phase \in Open \cup {"closed"} /\ (started <=> phase \in Open)
  /\ \/ /\ runner # 0 /\ live \subseteq {runner} /\ open = {runner} /\ consumerPool = runner
        /\ started /\ ~paused /\ ~broken
     \/ /\ runner = 0 /\ live = {}
        /\ broken => ~paused
        /\ ~broken => open = {} /\ ~(started /\ ~paused)

(* During a call: where it is, it alone decides about pools and runners.      *)
Called(c) == IF c = "stop" THEN phase = "closing" /\ ~started ELSE phase \in Open /\ started

Creating(c) == pc[c] = "creating" /\ Nothing /\ open = {} /\ ~paused

Starting(c) ==
  /\ pc[c] = "starting" /\ Nothing /\ ~paused
  /\ own[c] # 0 /\ open = {own[c]} /\ consumerPool = own[c]

Stopping(c) ==
  /\ pc[c] = "stopping" /\ ~(started /\ ~paused)
  /\ own[c] # 0 /\ open = {own[c]} /\ consumerPool = own[c]
  /\ runner = 0 /\ live \subseteq {own[c]} /\ stopping = {own[c]}

Ending(c) == pc[c] = "ending" /\ Nothing /\ open = {} /\ ~(started /\ ~paused)

Working(c) ==
  /\ Alone(c) /\ Called(c) /\ ~broken
  /\ \/ c # "stop" /\ (Creating(c) \/ Starting(c))
     \/ Stopping(c) \/ Ending(c)

Sequential ==
  \/ Quiet /\ (Fresh \/ Over \/ Resting)
  \/ \E c \in Calls : Working(c)

Inv == TypeOK /\ (~overlapped => Sequential)

-----------------------------------------------------------------------------
(* The property follows.                                                      *)

LEMMA AtMostOne == ASSUME NEW x, NEW S \in SUBSET {x} PROVE Cardinality(S) <= 1
<1>1. S = {} \/ S = {x}
  OBVIOUS
<1>2. Cardinality({}) = 0
  BY FS_EmptySet
<1>3. Cardinality({x}) = 1
  BY FS_Singleton
<1> QED BY <1>1, <1>2, <1>3

LEMMA SequentialIsSafe == Inv => SequentialSyncIsSafe
<1> SUFFICES ASSUME Inv, ~overlapped
             PROVE  /\ Cardinality(live) <= 1
                    /\ runner # 0 => consumerPool = runner /\ runner \in open \ stopping
                    /\ phase # "stuck"
                    /\ phase \notin {"new", "gone"} /\ (\A c \in Calls : pc[c] = "idle") =>
                         /\ live \subseteq {runner}
                         /\ runner # 0 => started /\ ~paused /\ open = {runner}
                         /\ runner = 0 /\ started /\ ~paused => broken
                         /\ ~broken => open \subseteq {runner}
                    /\ phase = "closed" => runner = 0 /\ live = {}
  BY Zenon DEF SequentialSyncIsSafe
<1>1. CASE Quiet /\ Fresh
  BY <1>1, FS_EmptySet DEF Quiet, Fresh, Nothing
<1>2. CASE Quiet /\ Over
  BY <1>2, FS_EmptySet DEF Quiet, Over, Nothing
<1>3. CASE Quiet /\ Resting
  <2>1. Cardinality(live) <= 1
    BY <1>3, AtMostOne, FS_EmptySet DEF Open, Resting
  <2> QED BY <1>3, <2>1 DEF Quiet, Open, Resting
<1>4. ASSUME NEW c \in Calls, Working(c)
      PROVE  /\ Cardinality(live) <= 1 /\ runner = 0 /\ phase \in {"up", "told", "closing"} /\ pc[c] # "idle"
  <2>1. Cardinality(live) <= 1
    BY <1>4, AtMostOne, FS_EmptySet DEF Working, Creating, Starting, Stopping, Ending, Nothing
  <2> QED BY <1>4, <2>1 DEF Working, Open, Called, Creating, Starting, Stopping, Ending, Nothing
<1> QED BY <1>1, <1>2, <1>3, <1>4 DEF Inv, Sequential

-----------------------------------------------------------------------------
(* Types                                                                      *)


Where == {"idle", "creating", "starting", "stopping", "ending"}

(* TypeOK in three parts, the last about the jobs. *)
FieldTypes ==
  /\ started \in BOOLEAN /\ paused \in BOOLEAN /\ overlapped \in BOOLEAN /\ broken \in BOOLEAN
  /\ phase \in {"new", "up", "told", "closing", "closed", "stuck", "gone"} /\ faults \in 0..MaxFaults
  /\ runner \in 0..made /\ consumerPool \in 0..made /\ own \in [Calls -> 0..made]
  /\ pc \in [Calls -> Where]

RunnerTypes ==
  /\ made \in 0..MaxRunners
  /\ live \subseteq 1..made /\ stopping \subseteq 1..made /\ open \subseteq 1..made

JobTypes ==
  /\ jobs \in [Jobs -> {"new", "queued", "running", "done", "refused", "cut"}]
  /\ on \in [Jobs -> 0..made]
  /\ \A j \in Jobs : jobs[j] = "running" =>
       /\ on[j] \in live
       /\ \A i \in Jobs \ {j} : jobs[i] = "running" => on[i] # on[j]

LEMMA TypeParts == TypeOK <=> FieldTypes /\ RunnerTypes /\ JobTypes
BY DEF TypeOK, FieldTypes, RunnerTypes, JobTypes, Where

LEMMA TypePartsNext == FieldTypes' /\ RunnerTypes' /\ JobTypes' => TypeOK'
BY DEF TypeOK, FieldTypes, RunnerTypes, JobTypes, Where

LEMMA FaultType == ASSUME faults \in 0..MaxFaults, Fault PROVE faults' \in 0..MaxFaults
BY QueueAssumption DEF Fault, QueueAssumption

LEMMA ReturnTypes ==
  ASSUME FieldTypes, NEW c \in Calls, NEW outcome \in {"closed", "stuck"}, Return(c, outcome)
  PROVE  /\ pc' \in [Calls -> Where] /\ own' = own
         /\ phase' \in {"new", "up", "told", "closing", "closed", "stuck", "gone"}
BY DEF Return, FieldTypes, Where

LEMMA SyncTypes ==
  ASSUME FieldTypes, RunnerTypes, NEW c \in Calls, NEW during, during \in {"up", "closing", phase},
         started' \in BOOLEAN, paused' \in BOOLEAN, Sync(c, during), faults' \in 0..MaxFaults
  PROVE  FieldTypes' /\ RunnerTypes' /\ UNCHANGED <<made, live>>
<1>1. UNCHANGED <<consumerPool, made, live, open, broken>> /\ overlapped' \in BOOLEAN
  BY DEF Sync
<1>2. 0 \in 0..made
  BY DEF RunnerTypes
<1>3. CASE started' /\ ~paused'
  <2>1. /\ pc' = [pc EXCEPT ![c] = IF runner = 0 THEN "creating" ELSE "idle"]
        /\ phase' = during /\ UNCHANGED <<runner, own, stopping>>
    BY <1>3 DEF Sync
  <2> QED BY <1>1, <2>1 DEF FieldTypes, RunnerTypes, Where
<1>4. CASE ~(started' /\ ~paused') /\ runner # 0
  <2>1. /\ pc' = [pc EXCEPT ![c] = "stopping"] /\ own' = [own EXCEPT ![c] = runner]
        /\ stopping' = stopping \cup {runner} /\ runner' = 0 /\ phase' = during
    BY <1>4 DEF Sync
  <2>2. RunnerTypes'
    BY <1>1, <1>4, <2>1 DEF FieldTypes, RunnerTypes
  <2>3. pc' \in [Calls -> Where] /\ own' \in [Calls -> 0..made]
    BY <2>1 DEF FieldTypes, Where
  <2> QED BY <1>1, <1>2, <2>1, <2>2, <2>3 DEF FieldTypes
<1>5. CASE ~(started' /\ ~paused') /\ runner = 0
  <2>1. phase' = (IF c = "stop" THEN "closed" ELSE during) /\ UNCHANGED <<runner, pc, own, stopping>>
    BY <1>5 DEF Sync
  <2> QED BY <1>1, <2>1 DEF FieldTypes, RunnerTypes
<1> QED BY <1>1, <1>3, <1>4, <1>5

LEMMA CallTypes ==
  ASSUME TypeOK, Start \/ Stop \/ \E c \in Slots : Resume(c) PROVE TypeOK'
<1>1. FieldTypes /\ RunnerTypes /\ JobTypes
  BY TypeParts
<1>2. PICK c \in Calls, during \in {"up", "closing", phase} :
        started' \in BOOLEAN /\ paused' \in BOOLEAN /\ Sync(c, during) /\ UNCHANGED <<work, faults>>
  BY <1>1 DEF Start, Stop, Resume, Calls, FieldTypes
<1>3. FieldTypes' /\ RunnerTypes' /\ UNCHANGED <<made, live>>
  BY <1>1, <1>2, SyncTypes DEF FieldTypes
<1>4. JobTypes'
  BY <1>1, <1>2, <1>3 DEF JobTypes, work
<1> QED BY <1>3, <1>4, TypePartsNext

LEMMA RunnerStepTypes ==
  ASSUME TypeOK, NEW c \in Calls, GoesOn(c) \/ CreateFails(c) \/ RunFails(c) PROVE TypeOK'
<1>1. FieldTypes /\ RunnerTypes /\ JobTypes
  BY TypeParts
<1>2. CASE Created(c)
  <2>1. made' = made + 1 /\ made \in Nat /\ made' \in 0..MaxRunners
    BY <1>1, <1>2, QueueAssumption DEF Created, RunnerTypes, QueueAssumption
  <2>2. 0..made \subseteq 0..made' /\ 1..made \subseteq 1..made' /\ made' \in 1..made' /\ made' \in 0..made'
    BY <2>1
  <2>3. /\ open' = open \cup {made'} /\ consumerPool' = made' /\ own' = [own EXCEPT ![c] = made']
        /\ pc' = [pc EXCEPT ![c] = "starting"]
        /\ UNCHANGED <<flags, runner, live, stopping, work, phase, history, faults>>
    BY <1>2, <2>1 DEF Created
  <2>4. RunnerTypes'
    BY <1>1, <2>1, <2>2, <2>3 DEF RunnerTypes
  <2>5. pc' \in [Calls -> Where] /\ own' \in [Calls -> 0..made']
    BY <1>1, <2>2, <2>3 DEF FieldTypes, Where
  <2>6. FieldTypes'
    BY <1>1, <2>2, <2>3, <2>5 DEF FieldTypes, flags, history
  <2>7. JobTypes'
    BY <1>1, <2>2, <2>3 DEF JobTypes, work
  <2> QED BY <2>4, <2>6, <2>7, TypePartsNext
<1>3. CASE CreateFails(c) \/ RunFails(c)
  <2>1. /\ Return(c, "stuck") /\ broken' = TRUE /\ (Fault \/ UNCHANGED faults)
        /\ UNCHANGED <<flags, runner, consumerPool, runners, work, overlapped>>
    BY <1>3 DEF CreateFails, RunFails
  <2>2. faults' \in 0..MaxFaults
    BY <1>1, <2>1, FaultType DEF FieldTypes
  <2>3. /\ pc' \in [Calls -> Where] /\ own' = own
        /\ phase' \in {"new", "up", "told", "closing", "closed", "stuck", "gone"}
    BY <1>1, <2>1, ReturnTypes
  <2>4. RunnerTypes' /\ JobTypes'
    BY <1>1, <2>1 DEF RunnerTypes, JobTypes, runners, work
  <2>5. FieldTypes'
    BY <1>1, <2>1, <2>2, <2>3 DEF FieldTypes, flags, runners
  <2> QED BY <2>4, <2>5, TypePartsNext
<1>4. CASE RunnerUp(c)
  <2>1. /\ Return(c, "closed") /\ own[c] \in open /\ runner' = own[c] /\ live' = live \cup {own[c]}
        /\ UNCHANGED <<flags, consumerPool, made, stopping, open, work, history, faults>>
    BY <1>4 DEF RunnerUp
  <2>2. /\ pc' \in [Calls -> Where] /\ own' = own
        /\ phase' \in {"new", "up", "told", "closing", "closed", "stuck", "gone"}
    BY <1>1, <2>1, ReturnTypes
  <2>3. RunnerTypes' /\ JobTypes'
    BY <1>1, <2>1 DEF RunnerTypes, JobTypes, work
  <2>4. FieldTypes'
    BY <1>1, <2>1, <2>2 DEF FieldTypes, flags, history
  <2> QED BY <2>3, <2>4, TypePartsNext
<1>5. CASE Stopped(c)
  <2>1. /\ ~Busy(own[c]) /\ live' = live \ {own[c]} /\ stopping' = stopping \ {own[c]}
        /\ UNCHANGED <<flags, runner, consumerPool, made, work, history, faults>>
    BY <1>5 DEF Stopped
  <2>2. open' \subseteq open /\ pc' \in [Calls -> Where] /\ own' \in [Calls -> 0..made]
        /\ phase' \in {"new", "up", "told", "closing", "closed", "stuck", "gone"}
    <3>1. CASE consumerPool \in open
      BY <1>1, <1>5, <3>1 DEF Stopped, FieldTypes, Where
    <3>2. CASE consumerPool \notin open
      BY <1>1, <1>5, <3>2, ReturnTypes DEF Stopped, FieldTypes
    <3> QED BY <3>1, <3>2
  <2>3. RunnerTypes'
    BY <1>1, <2>1, <2>2 DEF RunnerTypes
  <2>4. JobTypes'
    BY <1>1, <2>1 DEF JobTypes, Busy, work
  <2>5. FieldTypes'
    BY <1>1, <2>1, <2>2 DEF FieldTypes, flags, history
  <2> QED BY <2>3, <2>4, <2>5, TypePartsNext
<1>6. CASE Ended(c)
  <2>1. /\ Return(c, "closed")
        /\ UNCHANGED <<flags, runner, consumerPool, runners, work, history, faults>>
    BY <1>6 DEF Ended
  <2>2. /\ pc' \in [Calls -> Where] /\ own' = own
        /\ phase' \in {"new", "up", "told", "closing", "closed", "stuck", "gone"}
    BY <1>1, <2>1, ReturnTypes
  <2>3. RunnerTypes' /\ JobTypes'
    BY <1>1, <2>1 DEF RunnerTypes, JobTypes, runners, work
  <2>4. FieldTypes'
    BY <1>1, <2>1, <2>2 DEF FieldTypes, flags, history, runners
  <2> QED BY <2>3, <2>4, TypePartsNext
<1> QED BY <1>2, <1>3, <1>4, <1>5, <1>6 DEF GoesOn

LEMMA JobStepTypes ==
  ASSUME TypeOK,
         \/ \E r \in Runners : SignalEnds(r) \/ \E j \in Jobs : TakeJob(r, j)
         \/ \E j \in Jobs : JobEnds(j) \/ Enqueue(j) \/ EnqueueFails(j) \/ AnswerLost(j)
  PROVE  TypeOK'
<1>1. FieldTypes /\ RunnerTypes /\ JobTypes
  BY TypeParts
<1>2. ASSUME NEW r \in Runners, NEW j \in Jobs, TakeJob(r, j) PROVE TypeOK'
  <2>1. /\ r \in live /\ ~Busy(r) /\ UNCHANGED faults
        /\ jobs' = [jobs EXCEPT ![j] = "running"] /\ on' = [on EXCEPT ![j] = r]
    BY <1>2 DEF TakeJob
  <2>2. FieldTypes' /\ RunnerTypes' /\ UNCHANGED <<made, live>>
    <3>1. CASE \E c \in Slots : Pause(c)
      <4>1. PICK c \in Calls : started' \in BOOLEAN /\ paused' \in BOOLEAN /\ Sync(c, phase)
        BY <1>1, <3>1 DEF Pause, Calls, FieldTypes
      <4> QED BY <1>1, <2>1, <4>1, SyncTypes DEF FieldTypes
    <3>2. CASE UNCHANGED <<flags, runner, consumerPool, calls, runners, phase, history>>
      BY <1>1, <2>1, <3>2 DEF FieldTypes, RunnerTypes, flags, calls, runners, history
    <3> QED BY <1>2, <3>1, <3>2 DEF TakeJob
  <2>3. r \in 0..made
    BY <1>1, <2>1 DEF RunnerTypes
  <2>4. JobTypes'
    BY <1>1, <2>1, <2>2, <2>3 DEF JobTypes, Busy
  <2> QED BY <2>2, <2>4, TypePartsNext
<1>3. ASSUME NEW j \in Jobs, JobEnds(j) \/ Enqueue(j) \/ EnqueueFails(j) \/ AnswerLost(j) PROVE TypeOK'
  <2>1. /\ \E v \in {"done", "queued", "refused"} : jobs' = [jobs EXCEPT ![j] = v]
        /\ UNCHANGED <<flags, runner, consumerPool, calls, runners, on, phase, history>>
        /\ Fault \/ UNCHANGED faults
    BY <1>3 DEF JobEnds, Enqueue, EnqueueFails, AnswerLost, Settle
  <2>2. faults' \in 0..MaxFaults
    BY <1>1, <2>1, FaultType DEF FieldTypes
  <2>3. FieldTypes' /\ RunnerTypes'
    BY <1>1, <2>1, <2>2 DEF FieldTypes, RunnerTypes, flags, calls, runners, history
  <2>4. JobTypes'
    BY <1>1, <2>1 DEF JobTypes, runners
  <2> QED BY <2>3, <2>4, TypePartsNext
<1>4. ASSUME NEW r \in Runners, SignalEnds(r) PROVE TypeOK'
  <2>1. /\ live' = live \ {r}
        /\ jobs' = [j \in Jobs |-> IF jobs[j] = "running" /\ on[j] = r THEN "cut" ELSE jobs[j]]
        /\ UNCHANGED <<flags, runner, consumerPool, calls, made, stopping, open, on, phase, history, faults>>
    BY <1>4 DEF SignalEnds
  <2>2. FieldTypes' /\ RunnerTypes'
    BY <1>1, <2>1 DEF FieldTypes, RunnerTypes, flags, calls, history
  <2>3. JobTypes'
    BY <1>1, <2>1 DEF JobTypes
  <2> QED BY <2>2, <2>3, TypePartsNext
<1> QED BY <1>2, <1>3, <1>4

LEMMA SignalTypes == ASSUME TypeOK, Signal PROVE TypeOK'
<1>1. FieldTypes /\ RunnerTypes /\ JobTypes
  BY TypeParts
<1>2. /\ phase' = "told"
      /\ UNCHANGED <<flags, runner, consumerPool, calls, runners, work, history, faults>>
  BY DEF Signal
<1>3. FieldTypes' /\ RunnerTypes' /\ JobTypes'
  BY <1>1, <1>2 DEF FieldTypes, RunnerTypes, JobTypes, flags, calls, runners, work, history
<1> QED BY <1>3, TypePartsNext

LEMMA GoneTypes == ASSUME TypeOK, Exit \/ Crash PROVE TypeOK'
<1>1. FieldTypes /\ RunnerTypes /\ JobTypes
  BY TypeParts
<1>2. Gone /\ (Fault \/ UNCHANGED faults)
  BY DEF Exit, Crash
<1>3. faults' \in 0..MaxFaults
  BY <1>1, <1>2, FaultType DEF FieldTypes
<1>4. RunnerTypes' /\ made' = made
  BY <1>1, <1>2 DEF Gone, RunnerTypes
<1>5. pc' \in [Calls -> Where] /\ own' \in [Calls -> 0..made] /\ 0 \in 0..made
  BY <1>1, <1>2 DEF Gone, FieldTypes, RunnerTypes, Where
<1>6. FieldTypes'
  BY <1>1, <1>2, <1>3, <1>4, <1>5 DEF FieldTypes, Gone, flags, history
<1>7. JobTypes'
  BY <1>1, <1>2 DEF JobTypes, Gone
<1> QED BY <1>4, <1>6, <1>7, TypePartsNext

LEMMA StepTypes == ASSUME TypeOK, [Next]_vars PROVE TypeOK'
<1>1. CASE UNCHANGED vars
  BY <1>1 DEF TypeOK, vars, flags, calls, runners, work, history
<1> QED BY <1>1, CallTypes, RunnerStepTypes, JobStepTypes, SignalTypes, GoneTypes DEF Next

-----------------------------------------------------------------------------
(* The steps, as long as no calls have overlapped                             *)

(* A call that begins while another is under way is an overlap.               *)
LEMMA SyncIsAlone ==
  ASSUME Inv, NEW c \in Calls, NEW during, Sync(c, during), pc[c] = "idle", ~overlapped'
  PROVE  ~overlapped /\ Quiet /\ (Fresh \/ Over \/ Resting)
<1>1. ~overlapped /\ \A d \in Calls \ {c} : pc[d] = "idle"
  BY DEF Sync
<1>2. \A d \in Calls : Working(d) => pc[d] # "idle"
  BY DEF Working, Creating, Starting, Stopping, Ending
<1>3. Quiet
  BY <1>1 DEF Quiet
<1> QED BY <1>1, <1>2, <1>3 DEF Inv, Sequential, Quiet

LEMMA StartSequential == ASSUME Inv, Start, ~overlapped' PROVE Sequential'
<1>1. phase = "new" /\ started' = TRUE /\ paused' = paused /\ Sync("start", "up")
  BY DEF Start
<1>2. CASE pc["start"] # "idle"
  <2>1. ~overlapped
    BY <1>1 DEF Sync
  <2>2. \A d \in Calls : Working(d) => phase # "new"
    BY DEF Working, Open, Called
  <2> QED BY <1>1, <1>2, <2>1, <2>2 DEF Inv, Sequential, Quiet, Calls
<1>3. CASE pc["start"] = "idle"
  <2>1. ~overlapped /\ Quiet /\ Fresh
    BY <1>1, <1>3, SyncIsAlone DEF Calls, Over, Open, Resting
  <2>2. /\ pc' = [pc EXCEPT !["start"] = "creating"] /\ phase' = "up"
        /\ UNCHANGED <<runner, own, stopping, consumerPool, made, live, open, broken>>
    BY <1>1, <2>1 DEF Sync, Fresh, Nothing
  <2>3. "start" \in Calls /\ Alone("start")' /\ pc'["start"] = "creating"
    BY <2>1, <2>2 DEF Inv, TypeOK, Quiet, Alone, Calls
  <2>4. Working("start")'
    BY <1>1, <2>1, <2>2, <2>3 DEF Working, Open, Called, Creating, Nothing, Fresh
  <2> QED BY <2>3, <2>4 DEF Sequential
<1> QED BY <1>2, <1>3

(* The runner of a queue at rest is told to stop.                             *)
LEMMA SyncStops ==
  ASSUME TypeOK, NEW c \in Calls, NEW during, Sync(c, during), Quiet, Resting, runner # 0,
         ~(started' /\ ~paused'),
         IF c = "stop" THEN during = "closing" /\ ~started' ELSE during \in Open /\ started'
  PROVE  Sequential'
<1>1. /\ pc' = [pc EXCEPT ![c] = "stopping"] /\ own' = [own EXCEPT ![c] = runner]
      /\ stopping' = stopping \cup {runner} /\ runner' = 0 /\ phase' = during
      /\ UNCHANGED <<consumerPool, made, live, open, broken>>
  BY DEF Sync
<1>2. Alone(c)' /\ pc'[c] = "stopping" /\ own'[c] = runner
  BY <1>1 DEF TypeOK, Quiet, Alone
<1>3. Working(c)'
  BY <1>1, <1>2 DEF Working, Open, Called, Stopping, Resting
<1> QED BY <1>3 DEF Sequential

LEMMA StopSequential == ASSUME Inv, Stop, ~overlapped' PROVE Sequential'
<1>1. phase = "told" /\ started' = FALSE /\ paused' = paused /\ Sync("stop", "closing")
  BY DEF Stop
<1>2. CASE pc["stop"] # "idle"
  <2>1. ~overlapped /\ "stop" \in Calls
    BY <1>1 DEF Sync, Calls
  <2>2. ASSUME NEW d \in Calls, Working(d) PROVE d # "stop"
    BY <1>1, <2>2 DEF Working, Open, Called
  <2>3. ASSUME NEW d \in Calls, Working(d) PROVE pc["stop"] = "idle"
    BY <2>1, <2>2, <2>3 DEF Working, Alone
  <2> QED BY <1>2, <2>1, <2>3 DEF Inv, Sequential, Quiet
<1>3. CASE pc["stop"] = "idle"
  <2>1. ~overlapped /\ Quiet /\ Resting /\ "stop" \in Calls
    BY <1>1, <1>3, SyncIsAlone DEF Calls, Fresh, Over
  <2>2. CASE runner # 0
    BY <1>1, <2>1, <2>2, SyncStops DEF Inv
  <2>3. CASE runner = 0
    <3>1. /\ phase' = "closed"
          /\ UNCHANGED <<runner, pc, own, stopping, consumerPool, made, live, open, broken>>
      BY <1>1, <2>3 DEF Sync
    <3>2. Quiet' /\ Resting'
      BY <1>1, <2>1, <2>3, <3>1 DEF Quiet, Open, Resting
    <3> QED BY <3>2 DEF Sequential
  <2> QED BY <2>2, <2>3
<1> QED BY <1>2, <1>3

LEMMA ResumeSequential == ASSUME Inv, NEW c \in Slots, Resume(c), ~overlapped' PROVE Sequential'
<1>1. /\ phase # "new" /\ phase # "gone" /\ paused /\ pc[c] = "idle"
      /\ paused' = FALSE /\ started' = started /\ Sync(c, phase)
  BY DEF Resume, Serving
<1>2. c \in Calls /\ c # "stop"
  BY QueueAssumption DEF Calls, QueueAssumption
<1>3. ~overlapped /\ Quiet /\ Resting
  BY <1>1, <1>2, SyncIsAlone DEF Fresh, Over
<1>4. runner = 0 /\ live = {} /\ open = {} /\ ~broken /\ stopping = {}
  BY <1>1, <1>3 DEF Open, Resting
<1>5. CASE started
  <2>1. /\ pc' = [pc EXCEPT ![c] = "creating"] /\ phase' = phase
        /\ UNCHANGED <<runner, own, stopping, consumerPool, made, live, open, broken>>
    BY <1>1, <1>4, <1>5 DEF Sync
  <2>2. Alone(c)' /\ pc'[c] = "creating"
    BY <1>2, <1>3, <2>1 DEF Inv, TypeOK, Quiet, Alone
  <2>3. Working(c)'
    BY <1>1, <1>2, <1>3, <1>4, <1>5, <2>1, <2>2 DEF Working, Open, Called, Creating, Nothing, Resting
  <2> QED BY <1>2, <2>3 DEF Sequential
<1>6. CASE ~started
  <2>1. /\ phase' = phase
        /\ UNCHANGED <<runner, pc, own, stopping, consumerPool, made, live, open, broken>>
    BY <1>1, <1>2, <1>4, <1>6 DEF Sync
  <2>2. Quiet' /\ Resting'
    BY <1>1, <1>3, <1>4, <1>6, <2>1 DEF Quiet, Open, Resting
  <2> QED BY <2>2 DEF Sequential
<1> QED BY <1>5, <1>6

(* Only a runner that no call is about takes a job, and so may be paused.     *)
LEMMA TakeJobSequential ==
  ASSUME Inv, NEW r \in Runners, NEW j \in Jobs, TakeJob(r, j), ~overlapped' PROVE Sequential'
<1>1. CASE UNCHANGED <<flags, runner, consumerPool, calls, runners, phase, history>>
  BY <1>1 DEF Inv, Sequential, Quiet, Fresh, Over, Open, Resting, Working, Alone, Called, Creating, Starting,
              Stopping, Ending, Nothing, flags, calls, runners, history
<1>2. CASE \E c \in Slots : Pause(c)
  <2>1. PICK c \in Slots : pc[c] = "idle" /\ paused' = TRUE /\ started' = started /\ Sync(c, phase)
    BY <1>2 DEF Pause
  <2>2. c \in Calls /\ c # "stop" /\ r \in live
    BY QueueAssumption DEF Calls, QueueAssumption, TakeJob
  <2>3. ~overlapped /\ Quiet /\ Resting
    BY <2>1, <2>2, SyncIsAlone DEF Fresh, Over, Nothing
  <2>4. runner # 0 /\ started /\ phase \in Open
    BY <2>2, <2>3 DEF Open, Resting
  <2> QED BY <2>1, <2>2, <2>3, <2>4, SyncStops DEF Inv
<1> QED BY <1>1, <1>2 DEF TakeJob

(* A call under way is the only one.                                          *)
LEMMA CallIsWorking ==
  ASSUME Inv, ~overlapped, NEW c \in Calls, pc[c] # "idle" PROVE Working(c)
<1>1. PICK d \in Calls : Working(d)
  BY DEF Inv, Sequential, Quiet
<1> QED BY <1>1 DEF Working, Alone

(* A call that returns leaves the queue at rest.                              *)
LEMMA ReturnRests ==
  ASSUME TypeOK, NEW c \in Calls, NEW outcome, Return(c, outcome), Alone(c), Called(c),
         outcome = "closed" \/ c # "stop", started' = started,
         Resting' \/ ~(phase' \in Open \cup {"closed"} /\ (started' <=> phase' \in Open))
  PROVE  Sequential'
<1>1. phase' \in Open \cup {"closed"} /\ (started' <=> phase' \in Open)
  BY DEF Return, Open, Called
<1>2. Quiet'
  BY DEF Return, Alone, Quiet, TypeOK
<1> QED BY <1>1, <1>2 DEF Sequential

LEMMA CallSequential ==
  ASSUME Inv, NEW c \in Calls, GoesOn(c) \/ CreateFails(c) \/ RunFails(c), ~overlapped'
  PROVE  Sequential'
<1>1. ~overlapped /\ pc[c] # "idle"
  BY DEF GoesOn, Created, RunnerUp, Stopped, Ended, CreateFails, RunFails, history
<1>2. Working(c)
  BY <1>1, CallIsWorking
<1>3. /\ pc[c] = "creating" => Creating(c) /\ c # "stop" /\ started
      /\ pc[c] = "starting" => Starting(c) /\ c # "stop" /\ started
      /\ pc[c] = "stopping" => Stopping(c)
      /\ pc[c] = "ending" => Ending(c)
      /\ Alone(c) /\ Called(c) /\ ~broken
  BY <1>2 DEF Working, Open, Called, Creating, Starting, Stopping, Ending
<1>4. CASE Created(c)
  <2>1. /\ open' = open \cup {made + 1} /\ consumerPool' = made + 1
        /\ own' = [own EXCEPT ![c] = made + 1] /\ pc' = [pc EXCEPT ![c] = "starting"]
        /\ UNCHANGED <<flags, runner, live, stopping, phase, history>>
        /\ pc[c] = "creating" /\ made \in Nat
    BY <1>4 DEF Created, Inv, TypeOK
  <2>2. pc'[c] = "starting" /\ own'[c] = made + 1 /\ Alone(c)' /\ made + 1 # 0
    BY <1>3, <2>1 DEF Inv, TypeOK, Alone
  <2>3. Working(c)'
    BY <1>3, <2>1, <2>2 DEF Working, Creating, Starting, Nothing, Open, Called, flags, history
  <2> QED BY <2>3 DEF Sequential
<1>5. CASE CreateFails(c) \/ RunFails(c)
  <2>1. /\ pc[c] \in {"creating", "starting"} /\ Return(c, "stuck") /\ broken' = TRUE
        /\ UNCHANGED <<flags, runner, consumerPool, runners, overlapped>>
    BY <1>5 DEF CreateFails, RunFails
  <2>2. Resting' \/ ~(phase' \in Open \cup {"closed"} /\ (started' <=> phase' \in Open))
    BY <1>3, <2>1 DEF Open, Resting, Creating, Starting, Nothing, flags, runners
  <2> QED BY <1>3, <2>1, <2>2, ReturnRests DEF Inv, flags
<1>6. CASE RunnerUp(c)
  <2>1. /\ pc[c] = "starting" /\ Return(c, "closed") /\ runner' = own[c] /\ live' = live \cup {own[c]}
        /\ UNCHANGED <<flags, consumerPool, made, stopping, open, history>>
    BY <1>6 DEF RunnerUp
  <2>2. Resting' \/ ~(phase' \in Open \cup {"closed"} /\ (started' <=> phase' \in Open))
    BY <1>3, <2>1 DEF Open, Resting, Starting, Nothing, flags, history
  <2> QED BY <1>3, <2>1, <2>2, ReturnRests DEF Inv, flags
<1>7. CASE Stopped(c)
  <2>1. Stopping(c)
    BY <1>3, <1>7 DEF Stopped
  <2>2. /\ live' = live \ {own[c]} /\ stopping' = stopping \ {own[c]}
        /\ open' = open \ {own[c]} /\ pc' = [pc EXCEPT ![c] = "ending"]
        /\ UNCHANGED <<phase, flags, runner, history>>
    BY <1>7, <2>1 DEF Stopped, Stopping
  <2>3. pc'[c] = "ending" /\ Alone(c)'
    BY <1>3, <2>2 DEF Inv, TypeOK, Alone
  <2>4. Working(c)'
    BY <1>3, <2>1, <2>2, <2>3 DEF Working, Stopping, Ending, Nothing, Open, Called, flags, history
  <2> QED BY <2>4 DEF Sequential
<1>8. CASE Ended(c)
  <2>1. /\ pc[c] = "ending" /\ Return(c, "closed")
        /\ UNCHANGED <<flags, runner, consumerPool, runners, history>>
    BY <1>8 DEF Ended
  <2>2. Resting' \/ ~(phase' \in Open \cup {"closed"} /\ (started' <=> phase' \in Open))
    BY <1>3, <2>1 DEF Open, Resting, Ending, Nothing, flags, runners, history
  <2> QED BY <1>3, <2>1, <2>2, ReturnRests DEF Inv, flags
<1> QED BY <1>4, <1>5, <1>6, <1>7, <1>8 DEF GoesOn

(* A signal ends runners while the server closes.                             *)
LEMMA SignalSequential ==
  ASSUME Inv, NEW r \in Runners, SignalEnds(r), ~overlapped' PROVE Sequential'
<1>1. /\ r \in live /\ live' = live \ {r} /\ ~overlapped
      /\ UNCHANGED <<flags, runner, consumerPool, calls, stopping, open, phase, history>>
  BY DEF SignalEnds, history
<1>2. CASE Quiet /\ (Fresh \/ Over \/ Resting)
  <2>1. Quiet' /\ Resting'
    BY <1>1, <1>2 DEF Quiet, Fresh, Over, Nothing, Resting, flags, calls, history
  <2> QED BY <2>1 DEF Sequential
<1>3. ASSUME NEW c \in Calls, Working(c) PROVE Sequential'
  <2>1. Working(c)'
    BY <1>1, <1>3 DEF Working, Alone, Called, Creating, Starting, Stopping, Ending, Nothing, flags,
                      calls, history
  <2> QED BY <2>1 DEF Sequential
<1> QED BY <1>1, <1>2, <1>3 DEF Inv, Sequential

LEMMA ToldSequential == ASSUME Inv, Signal, ~overlapped' PROVE Sequential'
<1>1. /\ phase = "up" /\ phase' = "told" /\ ~overlapped
      /\ UNCHANGED <<flags, runner, consumerPool, calls, runners, history>>
  BY DEF Signal, history
<1>2. CASE Quiet /\ (Fresh \/ Over \/ Resting)
  <2>1. Quiet' /\ Resting'
    BY <1>1, <1>2 DEF Quiet, Fresh, Over, Resting, Open, flags, calls, runners, history
  <2> QED BY <2>1 DEF Sequential
<1>3. ASSUME NEW c \in Calls, Working(c) PROVE Sequential'
  <2>1. Working(c)'
    BY <1>1, <1>3 DEF Working, Alone, Called, Open, Creating, Starting, Stopping, Ending, Nothing,
                      flags, calls, runners, history
  <2> QED BY <2>1 DEF Sequential
<1> QED BY <1>1, <1>2, <1>3 DEF Inv, Sequential

LEMMA GoneSequential == ASSUME Inv, Exit \/ Crash PROVE Sequential'
BY DEF Exit, Crash, Gone, Sequential, Quiet, Over, Nothing

LEMMA StepSequential == ASSUME Inv, [Next]_vars, ~overlapped' PROVE Sequential'
<1>1. ASSUME UNCHANGED <<flags, runner, consumerPool, calls, runners, phase, history>>
      PROVE  Sequential'
  BY <1>1 DEF Inv, Sequential, Quiet, Fresh, Over, Open, Resting, Working, Alone, Called, Creating, Starting,
              Stopping, Ending, Nothing, flags, calls, runners, history
<1>2. CASE UNCHANGED vars
  BY <1>1, <1>2 DEF vars
<1>3. ASSUME NEW j \in Jobs, JobEnds(j) \/ Enqueue(j) \/ EnqueueFails(j) \/ AnswerLost(j)
      PROVE  Sequential'
  BY <1>1, <1>3 DEF JobEnds, Enqueue, EnqueueFails, AnswerLost, Settle
<1> QED BY <1>2, <1>3, StartSequential, StopSequential, ResumeSequential, TakeJobSequential,
           CallSequential, SignalSequential, ToldSequential, GoneSequential DEF Next

(* The inductive invariant holds of every reachable state. *)
THEOREM QueueInvariant == Spec => []Inv
<1>1. Init => Inv
  <2> SUFFICES ASSUME Init PROVE Inv
    OBVIOUS
  <2>1. TypeOK
    <3>1. made = 0 /\ 0 \in 0..MaxRunners /\ 0 \in 0..MaxFaults /\ 0 \in 0..0
      BY QueueAssumption DEF Init, QueueAssumption
    <3>2. own \in [Calls -> 0..made] /\ on \in [Jobs -> 0..made]
      BY <3>1 DEF Init
    <3>3. /\ pc \in [Calls -> {"idle", "creating", "starting", "stopping", "ending"}]
          /\ jobs \in [Jobs -> {"new", "queued", "running", "done", "refused", "cut"}]
          /\ \A j \in Jobs : jobs[j] # "running"
      BY DEF Init
    <3> QED BY <3>1, <3>2, <3>3 DEF Init, TypeOK
  <2>2. Sequential
    BY DEF Init, Sequential, Quiet, Fresh, Nothing
  <2> QED BY <2>1, <2>2 DEF Inv
<1>2. Inv /\ [Next]_vars => Inv'
  BY StepTypes, StepSequential DEF Inv
<1> QED BY <1>1, <1>2, PTL DEF Spec

(* TypeOK: a job that runs keeps its runner, and has it to itself, however    *)
(* pauses, resumes and stops overlap.                                         *)
THEOREM QueueTypeCorrect == Spec => []TypeOK
<1>1. Inv => TypeOK
  BY DEF Inv
<1> QED BY <1>1, QueueInvariant, PTL

(* SequentialSyncIsSafe, for any number of jobs, calls and pauses.            *)
THEOREM QueueSequentialSyncIsSafe == Spec => []SequentialSyncIsSafe
<1> QED BY SequentialIsSafe, QueueInvariant, PTL

-----------------------------------------------------------------------------
(* Runners are held, however calls overlap                                    *)

(* A call that is about to fill the field, and is the only one to be.         *)
Maker(c) == pc[c] \in {"creating", "starting"}

(* While one call fills the field it is empty and nothing is paused, so that  *)
(* no resume begins to fill it too, and no job is taken that could pause.     *)
Held ==
  /\ RunnersAreHeld
  /\ \A c, d \in Calls : Maker(c) /\ Maker(d) => c = d
  /\ \A c \in Calls : Maker(c) => runner = 0 /\ ~paused
  /\ phase = "new" => Quiet /\ Nothing /\ ~paused
  /\ phase \in {"new", "up", "told"} => pc["stop"] = "idle"

(* A call begins, and does not fill the field beside another.                 *)
LEMMA SyncHeld ==
  ASSUME TypeOK, Held, NEW c \in Calls, NEW during, pc[c] = "idle", Sync(c, during),
         started' /\ ~paused' /\ runner = 0 => \A d \in Calls : ~Maker(d),
         \A d \in Calls : Maker(d) => ~paused',
         during # "new", c = "stop" => during = "closing",
         during \in {"up", "told"} => pc["stop"] = "idle"
  PROVE  Held'
<1>1. UNCHANGED live /\ 0 \notin live /\ "stop" \in Calls
  BY DEF Sync, TypeOK, Calls
<1>2. CASE started' /\ ~paused'
  <2>1. /\ pc' = [pc EXCEPT ![c] = IF runner = 0 THEN "creating" ELSE "idle"]
        /\ phase' = during /\ UNCHANGED <<runner, own, stopping>>
    BY <1>2 DEF Sync
  <2>2. \A d \in Calls : pc'[d] = IF d = c THEN IF runner = 0 THEN "creating" ELSE "idle" ELSE pc[d]
    BY <2>1 DEF TypeOK
  <2>3. RunnersAreHeld'
    BY <1>1, <2>1, <2>2 DEF Held, RunnersAreHeld
  <2>4. \A d, e \in Calls : Maker(d)' /\ Maker(e)' => d = e
    BY <1>2, <2>2 DEF Held, Maker
  <2>5. \A d \in Calls : Maker(d)' => runner' = 0 /\ ~paused'
    BY <1>2, <2>1, <2>2 DEF Held, Maker
  <2> QED BY <1>1, <2>1, <2>2, <2>3, <2>4, <2>5 DEF Held
<1>3. CASE ~(started' /\ ~paused') /\ runner # 0
  <2>1. /\ pc' = [pc EXCEPT ![c] = "stopping"] /\ own' = [own EXCEPT ![c] = runner]
        /\ stopping' = stopping \cup {runner} /\ runner' = 0 /\ phase' = during
    BY <1>3 DEF Sync
  <2>2. /\ \A d \in Calls : pc'[d] = IF d = c THEN "stopping" ELSE pc[d]
        /\ \A d \in Calls : own'[d] = IF d = c THEN runner ELSE own[d]
    BY <2>1 DEF TypeOK
  <2>3. RunnersAreHeld'
    BY <1>1, <2>1, <2>2 DEF Held, RunnersAreHeld
  <2>4. \A d \in Calls : ~Maker(d)'
    BY <1>3, <2>2 DEF Held, Maker
  <2> QED BY <1>1, <2>1, <2>2, <2>3, <2>4 DEF Held
<1>4. CASE ~(started' /\ ~paused') /\ runner = 0
  <2>1. phase' = (IF c = "stop" THEN "closed" ELSE during) /\ UNCHANGED <<runner, pc, own, stopping>>
    BY <1>4 DEF Sync
  <2> QED BY <1>1, <1>4, <2>1 DEF Held, RunnersAreHeld, Maker
<1> QED BY <1>2, <1>3, <1>4

LEMMA CallHeld ==
  ASSUME TypeOK, Held, Start \/ Stop \/ \E c \in Slots : Resume(c) PROVE Held'
<1>1. CASE Start
  <2>1. /\ phase = "new" /\ started' = TRUE /\ paused' = paused /\ Sync("start", "up")
        /\ Quiet /\ ~paused /\ pc["stop"] = "idle" /\ "start" \in Calls
    BY <1>1 DEF Start, Held, Calls
  <2> QED BY <2>1, SyncHeld DEF Quiet, Maker
<1>2. CASE Stop
  <2>1. /\ phase = "told" /\ started' = FALSE /\ paused' = paused /\ Sync("stop", "closing")
        /\ pc["stop"] = "idle" /\ "stop" \in Calls
    BY <1>2 DEF Stop, Held, Calls
  <2>2. \A d \in Calls : Maker(d) => ~paused'
    BY <2>1 DEF Held
  <2> QED BY <2>1, <2>2, SyncHeld
<1>3. ASSUME NEW c \in Slots, Resume(c) PROVE Held'
  <2>1. /\ phase # "new" /\ paused /\ pc[c] = "idle" /\ paused' = FALSE /\ Sync(c, phase)
        /\ c \in Calls /\ c # "stop"
    BY <1>3, QueueAssumption DEF Resume, Serving, Calls, QueueAssumption
  <2>2. \A d \in Calls : ~Maker(d)
    BY <2>1 DEF Held
  <2>3. phase \in {"up", "told"} => pc["stop"] = "idle"
    BY DEF Held
  <2> QED BY <2>1, <2>2, <2>3, SyncHeld
<1> QED BY <1>1, <1>2, <1>3

(* Only the runner in the field takes a job, and so nobody is filling it.     *)
LEMMA TakeJobHeld ==
  ASSUME TypeOK, Held, NEW r \in Runners, NEW j \in Jobs, TakeJob(r, j) PROVE Held'
<1>1. r \in live /\ r \notin stopping /\ r # 0
  BY DEF TakeJob, TypeOK
<1>2. runner # 0 /\ \A d \in Calls : ~Maker(d)
  BY <1>1 DEF Held, RunnersAreHeld
<1>3. CASE \E c \in Slots : Pause(c)
  <2>1. PICK c \in Slots : pc[c] = "idle" /\ paused' = TRUE /\ Sync(c, phase)
    BY <1>3 DEF Pause
  <2>2. c \in Calls /\ c # "stop"
    BY QueueAssumption DEF Calls, QueueAssumption
  <2>3. phase # "new" /\ (phase \in {"up", "told"} => pc["stop"] = "idle")
    BY <1>2 DEF Held, Nothing
  <2> QED BY <1>2, <2>1, <2>2, <2>3, SyncHeld
<1>4. CASE UNCHANGED <<flags, runner, consumerPool, calls, runners, phase, history>>
  BY <1>4 DEF Held, RunnersAreHeld, Maker, Quiet, Nothing, flags, calls, runners
<1> QED BY <1>3, <1>4 DEF TakeJob

LEMMA ReturnHeld ==
  ASSUME TypeOK, Held, NEW c \in Calls, NEW outcome \in {"closed", "stuck"}, Return(c, outcome), pc[c] # "idle"
  PROVE  /\ \A d \in Calls : pc'[d] = IF d = c THEN "idle" ELSE pc[d]
         /\ own' = own /\ phase' # "new"
         /\ phase' \in {"up", "told"} => pc'["stop"] = "idle"
<1>1. "stop" \in Calls /\ pc' = [pc EXCEPT ![c] = "idle"] /\ own' = own
      /\ phase' = IF c = "stop" THEN outcome ELSE phase
  BY DEF Return, Calls
<1>2. \A d \in Calls : pc'[d] = IF d = c THEN "idle" ELSE pc[d]
  BY <1>1 DEF TypeOK
<1>3. phase # "new"
  BY DEF Held, Quiet
<1> QED BY <1>1, <1>2, <1>3 DEF Held

LEMMA RunnerStepHeld ==
  ASSUME TypeOK, Held, NEW c \in Calls, GoesOn(c) \/ CreateFails(c) \/ RunFails(c) PROVE Held'
<1>1. CASE Created(c)
  <2>1. /\ pc[c] = "creating" /\ own' = [own EXCEPT ![c] = made + 1]
        /\ pc' = [pc EXCEPT ![c] = "starting"]
        /\ UNCHANGED <<flags, runner, live, stopping, phase>>
    BY <1>1 DEF Created
  <2>2. /\ \A d \in Calls : pc'[d] = IF d = c THEN "starting" ELSE pc[d]
        /\ \A d \in Calls \ {c} : own'[d] = own[d]
    BY <2>1 DEF TypeOK
  <2>3. phase # "new" /\ "stop" \in Calls
    BY <2>1 DEF Held, Quiet, Calls
  <2>4. RunnersAreHeld'
    BY <2>1, <2>2 DEF Held, RunnersAreHeld
  <2>5. \A d \in Calls : Maker(d)' <=> Maker(d)
    BY <2>1, <2>2 DEF Maker
  <2> QED BY <2>1, <2>2, <2>3, <2>4, <2>5 DEF Held, flags
<1>2. CASE CreateFails(c) \/ RunFails(c)
  <2>1. /\ pc[c] \in {"creating", "starting"} /\ Return(c, "stuck")
        /\ UNCHANGED <<flags, runner, runners>>
    BY <1>2 DEF CreateFails, RunFails
  <2>2. /\ \A d \in Calls : pc'[d] = IF d = c THEN "idle" ELSE pc[d]
        /\ own' = own /\ phase' # "new" /\ (phase' \in {"up", "told"} => pc'["stop"] = "idle")
    BY <2>1, ReturnHeld
  <2>3. RunnersAreHeld'
    BY <2>1, <2>2 DEF Held, RunnersAreHeld, runners
  <2> QED BY <2>1, <2>2, <2>3 DEF Held, Maker, flags
<1>3. CASE RunnerUp(c)
  <2>1. /\ pc[c] = "starting" /\ Return(c, "closed") /\ runner' = own[c] /\ live' = live \cup {own[c]}
        /\ UNCHANGED <<flags, stopping>>
    BY <1>3 DEF RunnerUp
  <2>2. /\ \A d \in Calls : pc'[d] = IF d = c THEN "idle" ELSE pc[d]
        /\ own' = own /\ phase' # "new" /\ (phase' \in {"up", "told"} => pc'["stop"] = "idle")
    BY <2>1, ReturnHeld
  <2>3. Maker(c) /\ runner = 0 /\ 0 \notin live
    BY <2>1 DEF Held, Maker, TypeOK
  <2>4. RunnersAreHeld'
    BY <2>1, <2>2, <2>3 DEF Held, RunnersAreHeld
  <2>5. \A d \in Calls : ~Maker(d)'
    BY <2>2, <2>3 DEF Held, Maker
  <2> QED BY <2>2, <2>4, <2>5 DEF Held
<1>4. CASE Stopped(c)
  <2>1. /\ pc[c] = "stopping" /\ live' = live \ {own[c]} /\ stopping' = stopping \ {own[c]}
        /\ UNCHANGED <<flags, runner>>
    BY <1>4 DEF Stopped
  <2>2. /\ \A d \in Calls \ {c} : pc'[d] = pc[d] /\ own'[d] = own[d]
        /\ pc'[c] \in {"idle", "ending"}
        /\ phase' # "new" /\ (phase' \in {"up", "told"} => pc'["stop"] = "idle")
    <3>1. CASE consumerPool \in open
      <4>1. pc' = [pc EXCEPT ![c] = "ending"] /\ own' = [own EXCEPT ![c] = consumerPool] /\ phase' = phase
        BY <1>4, <3>1 DEF Stopped
      <4>2. phase # "new" /\ (phase \in {"up", "told"} => c # "stop")
        BY <2>1 DEF Held, Quiet
      <4> QED BY <4>1, <4>2 DEF TypeOK, Held, Calls
    <3>2. CASE consumerPool \notin open
      <4>1. Return(c, "stuck")
        BY <1>4, <3>2 DEF Stopped
      <4> QED BY <2>1, <4>1, ReturnHeld
    <3> QED BY <3>1, <3>2
  <2>3. RunnersAreHeld'
    BY <2>1, <2>2 DEF Held, RunnersAreHeld
  <2> QED BY <2>1, <2>2, <2>3 DEF Held, Maker, flags
<1>5. CASE Ended(c)
  <2>1. pc[c] = "ending" /\ Return(c, "closed") /\ UNCHANGED <<flags, runner, runners>>
    BY <1>5 DEF Ended
  <2>2. /\ \A d \in Calls : pc'[d] = IF d = c THEN "idle" ELSE pc[d]
        /\ own' = own /\ phase' # "new" /\ (phase' \in {"up", "told"} => pc'["stop"] = "idle")
    BY <2>1, ReturnHeld
  <2>3. RunnersAreHeld'
    BY <2>1, <2>2 DEF Held, RunnersAreHeld, runners
  <2> QED BY <2>1, <2>2, <2>3 DEF Held, Maker, flags
<1> QED BY <1>1, <1>2, <1>3, <1>4, <1>5 DEF GoesOn

LEMMA StepHeld == ASSUME TypeOK, Held, [Next]_vars PROVE Held'
<1>1. ASSUME UNCHANGED <<flags, runner, calls, runners, phase>> PROVE Held'
  BY <1>1 DEF Held, RunnersAreHeld, Maker, Quiet, Nothing, flags, calls, runners
<1>2. CASE UNCHANGED vars
  BY <1>1, <1>2 DEF vars
<1>3. ASSUME NEW j \in Jobs, JobEnds(j) \/ Enqueue(j) \/ EnqueueFails(j) \/ AnswerLost(j) PROVE Held'
  BY <1>1, <1>3 DEF JobEnds, Enqueue, EnqueueFails, AnswerLost, Settle
<1>4. CASE Signal
  BY <1>4 DEF Signal, Held, RunnersAreHeld, Maker, Quiet, Nothing, flags, calls, runners
<1>5. CASE Exit \/ Crash
  BY <1>5 DEF Exit, Crash, Gone, Held, RunnersAreHeld, Maker, Quiet, Nothing, Calls
<1>6. ASSUME NEW r \in Runners, SignalEnds(r) PROVE Held'
  BY <1>6 DEF SignalEnds, Held, RunnersAreHeld, Maker, Quiet, Nothing, flags, calls
<1> QED BY <1>2, <1>3, <1>4, <1>5, <1>6, CallHeld, RunnerStepHeld, TakeJobHeld DEF Next

(* RunnersAreHeld, for any jobs and any number of overlapping calls: a job of *)
(* a runner that is not the field's cannot pause, and so nobody resumes while *)
(* the field is being filled.                                                 *)
THEOREM QueueRunnersAreHeld == Spec => []RunnersAreHeld
<1>1. Init => Held
  BY DEF Init, Held, RunnersAreHeld, Maker, Quiet, Nothing, Calls
<1>2. Inv /\ Held /\ [Next]_vars => Held'
  BY StepHeld DEF Inv
<1>3. Held => RunnersAreHeld
  BY DEF Held
<1> QED BY <1>1, <1>2, <1>3, QueueInvariant, PTL DEF Spec

=============================================================================
