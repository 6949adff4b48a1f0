----------------------------- MODULE PluginVMs -----------------------------
(***************************************************************************)
(* The VMs of one plugin config on one worker thread: LazyPluginVM, which  *)
(* sets a plugin up when it loads or when a method is first asked for, and *)
(* retries; and setupPlugins, which on every reload message compares the   *)
(* config with the one in use, makes a new VM, tears the old one down and  *)
(* waits until the new one can tell its schedule                           *)
(* (plugin-server/src/worker/vm/lazy.ts, plugins/setup.ts, teardown.ts and *)
(* loadPlugin.ts).                                                         *)
(*                                                                         *)
(* Calls, retries and reloads are tasks of one event loop; each step is    *)
(* the code between two awaits.  Nothing keeps them from overlapping.  The *)
(* first reload is the thread's start.  A VM is eager if its plugin has    *)
(* jobs or scheduled tasks: initialize sets it up at once.  VMs and        *)
(* reloads are numbered as they are made and begin.                        *)
(***************************************************************************)
EXTENDS Naturals, FiniteSets

CONSTANTS
  Calls,       \* tasks that ask the plugin in use for a method
  MaxReloads,  \* bounds the reloads; they are numbered as they begin
  Timers,      \* names of a VM's retry timers, in any order
  VM_INIT_MAX_RETRIES,
  MaxVms,      \* bounds the VMs made
  MaxVersion,  \* bounds how often the config is saved
  MaxVmFaults    \* bounds failing queries of Postgres and Redis

ASSUME VmAssumption ==
  /\ "init" \notin Calls \cup Timers /\ Calls \cap Timers = {}
  /\ VM_INIT_MAX_RETRIES \in Nat \ {0}
  /\ IsFiniteSet(Timers) /\ Cardinality(Timers) = VM_INIT_MAX_RETRIES - 1
  /\ MaxReloads \in Nat \ {0} /\ MaxVms \in Nat /\ MaxVersion \in Nat \ {0} /\ MaxVmFaults \in Nat

Vms      == 1..MaxVms
Reloads  == 1..MaxReloads
Starters == {"init"} \cup Calls \cup Timers

VARIABLES
  row,      \* the config in Postgres: updated_at, and whether it is in force
  current,  \* the VM of hub.pluginConfigs, 0 if the config is not there
  made,     \* VMs made so far
  vm,       \* the fields of each LazyPluginVM, and what the properties remember of it
  attempt,  \* per VM, the runs of _setupPlugin by who started them
  call,     \* per call: where it is, and the VM it asked
  reload,   \* per reload: where it is, the version it read, the VM it will put in use
  crossings,  \* history: reloads that began while another had its VM still to put in use, or threw
  vmFaults

vmVars == <<row, current, made, vm, attempt, call, reload, crossings, vmFaults>>

(* timer: initRetryTimeout; up, torn, raced, left are history: setupPlugin      *)
(* succeeded; teardownPlugins was called; an attempt met another, a pending     *)
(* retry or the teardown; the config was removed without a teardown.           *)
NewVm == [kind |-> "none", version |-> 0, stage |-> "none", ready |-> FALSE,
          inErroredState |-> FALSE, count |-> 0, timer |-> "init",
          up |-> FALSE, torn |-> FALSE, raced |-> FALSE, left |-> FALSE]

NewReload == [pc |-> "new", seen |-> 0, vm |-> 0]

VmInit ==
  /\ row \in [version : {1}, enabled : BOOLEAN]
  /\ current = 0 /\ made = 0 /\ vm = [v \in Vms |-> NewVm]
  /\ attempt = [v \in Vms |-> [w \in Starters |-> "none"]]
  /\ call = [c \in Calls |-> [pc |-> "new", vm |-> 0]]
  /\ reload = [r \in Reloads |-> NewReload]
  /\ crossings = 0 /\ vmFaults = 0

VmFault == vmFaults < MaxVmFaults /\ vmFaults' = vmFaults + 1

Disabled == [row EXCEPT !.enabled = FALSE]

(* createWorker takes no task before its own setupPlugins has ended.           *)
Started == reload[1].pc = "ended"

(* Attempts under way, and retries that wait for their time.                   *)
UnderWay(v) == {w \in Starters : attempt[v][w] \in {"setup", "logging", "failing"}}
Pending(v)  == {w \in Timers : attempt[v][w] = "waiting"}

(* Whoever else sets v up, will, or has decided to.                            *)
Others(v, w) ==
  (UnderWay(v) \cup Pending(v) \cup {c \in Calls : call[c] = [pc |-> "decided", vm |-> v]}) \ {w}

-----------------------------------------------------------------------------
(* _setupPlugin                                                                *)

(* vm[v] as the caller has left it is m.                                       *)
Starts(v, w, m) ==
  /\ attempt' = [attempt EXCEPT ![v][w] = "setup"]
  /\ vm' = [vm EXCEPT ![v] =
       [m EXCEPT !.count = @ + 1,
                 !.raced = @ \/ m.torn \/ Others(v, w) # {}]]

(* The caller gets the method, or null.                                        *)
Answer(c) == call' = [call EXCEPT ![c] = [pc |-> "answered", vm |-> 0]]

(* Mutant of Ends: initialize leaves the VM as not ready when a retry is to come. *)
Ends_readyIfUp(v, w, m, outcome) ==
  /\ vm' = [vm EXCEPT ![v] =
       IF w = "init"
         THEN [m EXCEPT !.stage = CASE outcome = "fine" -> "resolved"
                                    [] outcome = "SetupPluginError" -> "null"
                                    [] OTHER -> "failing"]
         ELSE m]
  /\ IF w \in Calls THEN Answer(w) ELSE UNCHANGED call

(* What its caller does then: initialize resolves, or catches the error;       *)
(* setupPluginIfNeeded says yes or no; for a timer nobody listens.             *)
Ends(v, w, m, outcome) ==
  /\ vm' = [vm EXCEPT ![v] =
       IF w = "init"
         THEN [m EXCEPT !.ready = @ \/ outcome = "fine",
                        !.stage = CASE outcome = "fine" -> "resolved"
                                    [] outcome = "SetupPluginError" -> "null"
                                    [] OTHER -> "failing"]
         ELSE m]
  /\ IF w \in Calls THEN Answer(w) ELSE UNCHANGED call

(* A VM has each timer once.                                                    *)
Over(w) == IF w \in Timers THEN "over" ELSE "none"

Succeeds(v, w) ==
  /\ attempt[v][w] = "setup"
  /\ attempt' = [attempt EXCEPT ![v][w] = Over(w)]
  /\ Ends(v, w, [vm[v] EXCEPT !.ready = TRUE, !.up = TRUE], "fine")
  /\ UNCHANGED <<row, current, made, reload, crossings, vmFaults>>

(* clearRetryTimeoutIfExists: the timer set last, if it has not fired.         *)
Cleared(a, v) ==
  [a EXCEPT ![v] = [w \in Starters |->
     IF w = vm[v].timer /\ a[v][w] = "waiting" THEN "over" ELSE a[v][w]]]

(* setupPlugin threw a RetryError; the retry is logged before it is set.       *)
AsksForRetry(v, w) ==
  /\ attempt[v][w] = "setup" /\ vm[v].count < VM_INIT_MAX_RETRIES
  /\ attempt' = [Cleared(attempt, v) EXCEPT ![v][w] = "logging"]
  /\ UNCHANGED <<row, current, made, vm, call, reload, crossings, vmFaults>>

Unset(v) == {t \in Timers : attempt[v][t] = "none"}

SetsTimer(v, w) ==
  /\ attempt[v][w] = "logging" /\ Unset(v) # {}
  /\ LET t == CHOOSE t \in Unset(v) : TRUE IN
       /\ attempt' = [attempt EXCEPT ![v][w] = Over(w), ![v][t] = "waiting"]
       /\ Ends(v, w, [vm[v] EXCEPT !.timer = t], "fine")
  /\ UNCHANGED <<row, current, made, reload, crossings, vmFaults>>

TimerFires(v, t) ==
  /\ attempt[v][t] = "waiting"
  /\ Starts(v, t, vm[v])
  /\ UNCHANGED <<row, current, made, call, reload, crossings, vmFaults>>

(* Any other error, or the last retry.                                         *)
FailsForGood(v, w) ==
  /\ attempt[v][w] = "setup"
  /\ attempt' = [Cleared(attempt, v) EXCEPT ![v][w] = "failing"]
  /\ vm' = [vm EXCEPT ![v].inErroredState = TRUE]
  /\ UNCHANGED <<row, current, made, call, reload, crossings, vmFaults>>

(* processFatalVmSetupError: the plugin is disabled, and whoever waits told.   *)
DisablesPlugin(v, w) ==
  /\ attempt[v][w] = "failing"
  /\ row' = Disabled
  /\ attempt' = [attempt EXCEPT ![v][w] = Over(w)]
  /\ Ends(v, w, vm[v], "SetupPluginError")
  /\ UNCHANGED <<current, made, reload, crossings, vmFaults>>

(* It throws itself, before or after the row was written.                      *)
DisablingFails(v, w) ==
  /\ attempt[v][w] = "failing" /\ VmFault
  /\ row' \in {row, Disabled}
  /\ attempt' = [attempt EXCEPT ![v][w] = Over(w)]
  /\ Ends(v, w, vm[v], "error")
  /\ UNCHANGED <<current, made, reload, crossings>>

-----------------------------------------------------------------------------
(* initialize                                                                  *)

Loads(v) ==
  /\ vm[v].stage = "loading"
  /\ \/ /\ vm[v].kind = "eager" /\ Starts(v, "init", [vm[v] EXCEPT !.stage = "settingUp"])
     \/ /\ vm[v].kind = "lazy" /\ vm' = [vm EXCEPT ![v].stage = "resolved"]
        /\ UNCHANGED attempt
     \/ /\ vm' = [vm EXCEPT ![v].stage = "null"]   \* not a plugin for this server
        /\ UNCHANGED attempt
  /\ UNCHANGED <<row, current, made, call, reload, crossings, vmFaults>>

(* The code throws as it is run, or the capabilities cannot be written.        *)
LoadThrows(v) ==
  /\ vm[v].stage = "loading"
  /\ vm' = [vm EXCEPT ![v].stage = "failing"]
  /\ UNCHANGED <<row, current, made, attempt, call, reload, crossings, vmFaults>>

(* Mutant of GivesUp: the catch does not resolve. *)
GivesUp_unresolved(v) ==
  /\ vm[v].stage = "failing"
  /\ row' = Disabled /\ UNCHANGED vm
  /\ UNCHANGED <<current, made, attempt, call, reload, crossings, vmFaults>>

GivesUp(v) ==
  /\ vm[v].stage = "failing"
  /\ row' = Disabled
  /\ vm' = [vm EXCEPT ![v].stage = "null"]
  /\ UNCHANGED <<current, made, attempt, call, reload, crossings, vmFaults>>

(* processFatalVmSetupError throws inside the catch: resolve is never called.  *)
Hangs(v) ==
  /\ vm[v].stage = "failing" /\ VmFault
  /\ row' \in {row, Disabled}
  /\ vm' = [vm EXCEPT ![v].stage = "hung"]
  /\ UNCHANGED <<current, made, attempt, call, reload, crossings>>

Resolved(v) == vm[v].stage \in {"resolved", "null"}

-----------------------------------------------------------------------------
(* getVmMethod                                                                 *)

(* Calls are named as they come.                                               *)
Call(c) ==
  /\ {d \in Calls : call[d].pc = "new"} # {} /\ c = CHOOSE d \in Calls : call[d].pc = "new"
  /\ Started /\ current # 0
  /\ call' = [call EXCEPT ![c] = [pc |-> "waiting", vm |-> current]]
  /\ UNCHANGED <<row, current, made, vm, attempt, reload, crossings, vmFaults>>

(* resolveInternalVm has resolved: "if (!this.ready && vmMethod)".             *)
Proceed(c) ==
  LET v == call[c].vm IN
  /\ call[c].pc = "waiting" /\ Resolved(v)
  /\ IF vm[v].stage = "resolved" /\ ~vm[v].ready /\ ~vm[v].inErroredState
       THEN /\ call' = [call EXCEPT ![c].pc = "decided"]
            /\ vm' = [vm EXCEPT ![v].raced = @ \/ Others(v, c) # {}]
       ELSE Answer(c) /\ UNCHANGED vm
  /\ UNCHANGED <<row, current, made, attempt, reload, crossings, vmFaults>>

(* setupPluginIfNeeded awaits the VM once more, then asks nothing again.       *)
SetsUp(c) ==
  /\ call[c].pc = "decided"
  /\ Starts(call[c].vm, c, vm[call[c].vm])
  /\ call' = [call EXCEPT ![c].pc = "settingUp"]
  /\ UNCHANGED <<row, current, made, reload, crossings, vmFaults>>

-----------------------------------------------------------------------------
(* setupPlugins                                                                *)

(* Reloads that have still to put in use what they read.                       *)
Open == {r \in Reloads : reload[r].pc \in {"rows", "loading"}}

(* getPluginConfigRows, the last of three queries: only configs in force.      *)
Read(r) ==
  /\ reload[r].pc = "new" /\ (r # 1 => Started)
  /\ \A q \in Reloads : q < r => reload[q].pc # "new"
  /\ reload' = [reload EXCEPT ![r] =
       [pc |-> "rows", seen |-> IF row.enabled THEN row.version ELSE 0, vm |-> 0]]
  /\ crossings' = crossings + IF Open = {} THEN 0 ELSE 1
  /\ UNCHANGED <<row, current, made, vm, attempt, call, vmFaults>>

(* "pluginConfig.updated_at === prevConfig.updated_at"                         *)
InUse(seen) == current # 0 /\ vm[current].version = seen

(* "pluginConfig.vm = prevConfig.vm", or no config in force.                   *)
Keep(r) ==
  LET seen == reload[r].seen IN
  /\ reload[r].pc = "rows"
  /\ seen # 0 => InUse(seen)
  /\ reload' = [reload EXCEPT ![r].pc = "loading", ![r].seen = 0,
                                ![r].vm = IF seen = 0 THEN 0 ELSE current]
  /\ UNCHANGED <<row, current, made, vm, attempt, call, crossings, vmFaults>>

(* Mutant of TearDown: the old VM is forgotten. *)
TearDown_skips(old, others) == vm' = others /\ UNCHANGED attempt

(* teardownPlugins for the old VM, not awaited: a retry that waits is called   *)
(* off at once.  The plugin's own teardown follows if it was set up.           *)
TearDown(old, others) ==
  IF old = 0
    THEN vm' = others /\ UNCHANGED attempt
    ELSE /\ vm' = [others EXCEPT ![old].torn = TRUE,
                                 ![old].raced = @ \/ UnderWay(old) # {}]
         /\ attempt' = Cleared(attempt, old)

(* A new VM, whose code loadPlugin finds (and initialize begins) or not.       *)
Replace(r) ==
  LET seen == reload[r].seen IN
  /\ reload[r].pc = "rows" /\ made < MaxVms
  /\ seen # 0 /\ ~InUse(seen)
  /\ made' = made + 1
  /\ \E kind \in {"lazy", "eager", "missing"} :
       TearDown(current, [vm EXCEPT ![made + 1] =
         [NewVm EXCEPT !.kind = kind, !.version = seen,
                       !.stage = IF kind = "missing" THEN "null" ELSE "loading"]])
  /\ reload' = [reload EXCEPT ![r].pc = "loading", ![r].seen = 0, ![r].vm = made + 1]
  /\ UNCHANGED <<row, current, call, crossings, vmFaults>>

(* The maps of the hub are replaced, whatever they are by now.                 *)
Assign(r) ==
  /\ reload[r].pc = "loading"
  /\ current' = reload[r].vm
  /\ vm' = [v \in Vms |-> IF v = current /\ reload[r].vm = 0
                            THEN [vm[v] EXCEPT !.left = TRUE] ELSE vm[v]]
  /\ reload' = [reload EXCEPT ![r].pc = "schedule"]
  /\ UNCHANGED <<row, made, attempt, call, crossings, vmFaults>>

(* loadPlugin cannot even note that there is no code: the hub stays as it was. *)
(* (If it happens while the thread starts, that is the end of the thread.)     *)
Throws(r) ==
  /\ r # 1 /\ reload[r].pc = "loading" /\ VmFault
  /\ reload[r].vm \notin {0, current} /\ vm[reload[r].vm].kind = "missing"
  /\ vm' = [vm EXCEPT ![reload[r].vm].left = TRUE]
  /\ reload' = [reload EXCEPT ![r] = [NewReload EXCEPT !.pc = "ended"]] /\ crossings' = crossings + 1
  /\ UNCHANGED <<row, current, made, attempt, call>>

(* loadSchedule asks the VM for its tasks; one that has any is ready.          *)
Scheduled(r) ==
  /\ reload[r].pc = "schedule"
  /\ reload[r].vm # 0 => Resolved(reload[r].vm)
  /\ reload' = [reload EXCEPT ![r] = [NewReload EXCEPT !.pc = "ended"]]
  /\ UNCHANGED <<row, current, made, vm, attempt, call, crossings, vmFaults>>

(* A user saves the config: updated_at is set by Django.                       *)
Save ==
  /\ row.version < MaxVersion
  /\ \E enabled \in BOOLEAN : row' = [version |-> row.version + 1, enabled |-> enabled]
  /\ UNCHANGED <<current, made, vm, attempt, call, reload, crossings, vmFaults>>

-----------------------------------------------------------------------------
AttemptStep(v, w) ==
  \/ Succeeds(v, w) \/ AsksForRetry(v, w) \/ SetsTimer(v, w)
  \/ FailsForGood(v, w) \/ DisablesPlugin(v, w) \/ DisablingFails(v, w)

InitStep(v) == Loads(v) \/ LoadThrows(v) \/ GivesUp(v) \/ Hangs(v)

ReloadStep(r) == Keep(r) \/ Replace(r) \/ Assign(r) \/ Throws(r) \/ Scheduled(r)

VmNext ==
  \/ Save
  \/ \E v \in 1..made : \/ InitStep(v)
                        \/ \E w \in UnderWay(v) : AttemptStep(v, w)
                        \/ \E t \in Timers : TimerFires(v, t)
  \/ \E c \in Calls : Call(c) \/ Proceed(c) \/ SetsUp(c)
  \/ \E r \in Reloads : Read(r) \/ ReloadStep(r)

VmSpec == VmInit /\ [][VmNext]_vmVars

(* setupPlugin ends one way or another, Postgres answers, tasks go on; timers  *)
(* need not fire, as nobody waits for them.  No step here can repeat itself    *)
(* for ever, so it is enough to ask that some step is taken.                   *)
VmFairness == WF_vmVars(\/ \E v \in 1..made : InitStep(v) \/ \E w \in UnderWay(v) : AttemptStep(v, w)
                    \/ \E c \in Calls : Proceed(c) \/ SetsUp(c)
                    \/ \E r \in Reloads : ReloadStep(r))

VmFairSpec == VmSpec /\ VmFairness

-----------------------------------------------------------------------------
(* Properties *)

(* However many calls set a VM up at once, the retries they set stay below     *)
(* VM_INIT_MAX_RETRIES.  An eager VM is set up by one at a time and, once it   *)
(* succeeded, neither set up again nor disabled; so is a lazy VM whose         *)
(* attempts happen not to meet.  After teardownPlugins nothing sets a VM up,   *)
(* unless an attempt was under way or a call came late.                        *)
SetupsAlone ==
  \A v \in 1..made :
    /\ \A w \in Starters : attempt[v][w] = "logging" => Unset(v) # {}
    /\ vm[v].kind = "eager" \/ ~vm[v].raced =>
         /\ Cardinality(UnderWay(v) \cup Pending(v)) <= 1
         /\ vm[v].count <= VM_INIT_MAX_RETRIES
         /\ vm[v].up => UnderWay(v) \cup Pending(v) = {} /\ ~vm[v].inErroredState
    /\ vm[v].torn /\ ~vm[v].raced => UnderWay(v) \cup Pending(v) = {}

Loading == {reload[r].vm : r \in {q \in Reloads : reload[q].pc = "loading"}}

(* VMs that nobody uses, will use or has torn down, although their config was  *)
(* in force.                                                                   *)
Forgotten ==
  {v \in 1..made : v \notin {current} \cup Loading /\ ~vm[v].torn /\ ~vm[v].left}

(* However reloads overlap, each that begins while another is under way leaves *)
(* at most one VM without its teardown.  While they follow one another none is *)
(* left, the newest VM is in use, and the one in use is torn down only while   *)
(* its successor is about to be put in place.                                  *)
ReloadsConverge ==
  /\ Cardinality(Forgotten) <= crossings
  /\ crossings = 0 /\ current # 0 =>
       /\ \A v \in 1..made : vm[v].version > vm[current].version => v \in Loading
       /\ vm[current].torn => \E v \in Loading : v > current

Hung == {v \in Vms : vm[v].stage = "hung"}

(* Whoever asks the plugin for a method gets an answer, and every reload comes *)
(* to its end, unless the VM waited for could not even be given up.            *)
NobodyWaitsForEver ==
  []<>(/\ \A c \in Calls : call[c].vm # 0 => call[c].vm \in Hung
       /\ \A r \in Reloads : reload[r].pc = "schedule" => reload[r].vm \in Hung)
=============================================================================
