------------------------ MODULE PluginsServer_proofs ------------------------
(***************************************************************************)
(* Proofs about the batch consumer, and about the servers that run one.    *)
(*                                                                         *)
(* The batch consumer implements the at-least-once log, and starts the     *)
(* messages of an id in order, for any log, servers, batch size and number *)
(* of faults. The inductive invariant ties every consumer's resolved       *)
(* offset, and the settled part of its current group, to what tasks have   *)
(* answered; and a member that would pass a heartbeat to the committed     *)
(* offset, which is what keeps the committed offset from going back.       *)
(*                                                                         *)
(* A server's consumer does what EachBatch says, and no committed message  *)
(* is unaccounted for, whatever the numbers of servers, messages, faults   *)
(* and mishaps. Accounting needs an invariant about more than the          *)
(* committed prefix: everything a consumer has resolved, and the answered  *)
(* part of its current group, is kept somewhere that no shutdown empties.  *)
(***************************************************************************)
EXTENDS PluginsServer, FiniteSetTheorems, TLAPS

----------------------------------------------------------------------------
(* The batch consumer *)

(* One consumer's share of the invariant. *)
Sound(c) ==
  /\ 1..c.at \subseteq settled
  /\ c.pc = "batch" => c.at < c.hi
  /\ c.pc = "group" => /\ c.at < c.to /\ c.to <= c.hi
                       /\ c.left \subseteq c.at + 1..c.to
                       /\ (c.at + 1..c.to) \ c.left \subseteq settled
  /\ c.pc # "group" => c.left = {}

Types ==
  /\ committed \in 0..N /\ owner \in Servers \cup {NoOne}
  /\ con \in [Servers -> Consumers]
  /\ settled \subseteq Offsets /\ faults \in 0..MaxFaults

IInv ==
  /\ Types
  /\ 1..committed \subseteq settled
  /\ \A s \in Servers : Sound(con[s])
  /\ \A s \in Servers : Heartbeat(s) => committed <= con[s].at

USE EachBatchAssumption

(* Initially nothing is committed and every server is down. *)
LEMMA InitInv == Init => IInv
<1> SUFFICES ASSUME Init PROVE IInv
  OBVIOUS
<1>1. Down \in Consumers /\ Sound(Down)
  BY DEF Down, Consumers, Sound
<1>2. Types /\ 1..committed \subseteq settled
  BY <1>1 DEF Init, Types
<1>3. \A s \in Servers : con[s] = Down
  BY DEF Init
<1>4. \A s \in Servers : Sound(con[s]) /\ ~Heartbeat(s)
  BY <1>1, <1>3 DEF Heartbeat, Down
<1> QED BY <1>2, <1>4 DEF IInv

(* A step that replaces s's consumer by c, and keeps or extends what was *)
(* settled, keeps the invariant if c is sound and, should s hold the     *)
(* partition afterwards, has resolved what is committed.                 *)
LEMMA Replace ==
  ASSUME IInv, NEW s \in Servers, NEW c \in Consumers,
         con' = [con EXCEPT ![s] = c], Sound(c)',
         settled \subseteq settled', settled' \subseteq Offsets,
         committed' \in 0..N, 1..committed' \subseteq settled', faults' \in 0..MaxFaults,
         owner' \in Servers \cup {NoOne},
         (c.member /\ owner' = s) => committed' <= c.at,
         \A t \in Servers \ {s} : owner' = t => owner = t /\ committed' = committed
  PROVE IInv'
<1>1. con' \in [Servers -> Consumers] /\ con'[s] = c /\ \A t \in Servers \ {s} : con'[t] = con[t]
  BY DEF IInv, Types
<1>2. Types'
  BY <1>1 DEF Types
<1>3. \A t \in Servers \ {s} : Sound(con[t])'
  BY <1>1 DEF IInv, Sound
<1>4. \A t \in Servers : Sound(con[t])'
  BY <1>1, <1>3 DEF Sound
<1>5. \A t \in Servers : Heartbeat(t)' => committed' <= con'[t].at
  BY <1>1 DEF IInv, Heartbeat
<1> QED BY <1>2, <1>4, <1>5 DEF IInv

(* Cleared fields have their type. *)
LEMMA Zero == 0 \in 0..N /\ {} \subseteq Offsets
OBVIOUS

(* What the invariant says of one server, for citing. *)
LEMMA Server ==
  ASSUME IInv, NEW s \in Servers
  PROVE /\ con[s] \in Consumers /\ Sound(con[s]) /\ (Heartbeat(s) => committed <= con[s].at)
        /\ committed \in 0..N /\ 1..committed \subseteq settled /\ settled \subseteq Offsets
        /\ faults \in 0..MaxFaults /\ owner \in Servers \cup {NoOne}
BY DEF IInv, Types

(* Membership and the process: nothing is settled or committed. *)
LEMMA MemberInv ==
  ASSUME IInv, NEW s \in Servers,
         Join(s) \/ LearnEvicted(s) \/ StartServer(s) \/ Stop(s) \/ Leave(s) \/ Quit(s) \/ Crash(s)
  PROVE IInv'
<1>1. con[s] \in Consumers /\ Sound(con[s])
  BY Server
<1>2. CASE Join(s)
  <2>c. PICK c \in Consumers : c = [con[s] EXCEPT !.member = TRUE, !.at = committed]
    BY <1>1, <1>2, Server DEF Join, Consumers
  <2>1. c.at = committed /\ c.pc = "idle" /\ c.left = con[s].left
    BY <1>1, <1>2, <2>c DEF Join, Consumers
  <2>2. con' = [con EXCEPT ![s] = c]
    BY <2>c, <1>2 DEF Join
  <2>3. Sound(c)'
    BY <1>1, <1>2, <2>1, Server DEF Join, Sound
  <2>4. /\ owner' = s /\ committed' = committed /\ settled' = settled /\ faults' = faults
    BY <1>2 DEF Join
  <2>5. committed' <= c.at
    BY <2>1, <2>4, Server
  <2> QED BY <2>c, <2>2, <2>3, <2>4, <2>5, Replace, Server
<1>3. CASE LearnEvicted(s) \/ Leave(s)
  <2>c. PICK c \in Consumers : c = [con[s] EXCEPT !.member = FALSE]
    BY <1>1, <1>3 DEF LearnEvicted, Leave, Consumers
  <2>1. ~c.member /\ c.at = con[s].at /\ c.pc = "idle" /\ c.left = con[s].left
    BY <1>1, <1>3, <2>c DEF LearnEvicted, Leave, Consumers
  <2>2. con' = [con EXCEPT ![s] = c]
    BY <2>c, <1>3 DEF LearnEvicted, Leave
  <2>3. Sound(c)'
    BY <1>1, <1>3, <2>1 DEF LearnEvicted, Leave, Sound
  <2>4. /\ owner' \in {owner, NoOne} /\ committed' = committed /\ settled' = settled /\ faults' = faults
    BY <1>3 DEF LearnEvicted, Leave
  <2> QED BY <2>c, <2>1, <2>2, <2>3, <2>4, Replace, Server
<1>4. CASE StartServer(s)
  <2>c. PICK c \in Consumers : c = [Down EXCEPT !.pc = "idle", !.running = TRUE]
    <3>1. Down \in Consumers
      BY DEF Down, Consumers
    <3> QED BY <3>1 DEF Consumers
  <2>1. ~c.member /\ c.at = 0 /\ c.pc = "idle" /\ c.left = {}
    BY <1>1, <2>c DEF Down, Consumers
  <2>2. con' = [con EXCEPT ![s] = c]
    BY <2>c, <1>4 DEF StartServer
  <2>3. Sound(c)'
    BY <2>1 DEF Sound
  <2> QED BY <2>c, <1>4, <2>1, <2>2, <2>3, Replace, Server DEF StartServer
<1>5. CASE Stop(s)
  <2>c. PICK c \in Consumers : c = [con[s] EXCEPT !.running = FALSE]
    BY <1>1 DEF Consumers
  <2>1. /\ c.member = con[s].member /\ c.at = con[s].at /\ c.pc = con[s].pc
        /\ c.hi = con[s].hi /\ c.to = con[s].to /\ c.left = con[s].left
    BY <1>1, <2>c DEF Consumers
  <2>2. con' = [con EXCEPT ![s] = c]
    BY <2>c, <1>5 DEF Stop
  <2>3. Sound(c)'
    BY <1>1, <1>5, <2>1 DEF Stop, Sound
  <2> QED BY <2>c, <1>5, <2>1, <2>2, <2>3, Replace, Server DEF Stop, Heartbeat
<1>6. CASE Quit(s) \/ Crash(s)
  <2>1. Down \in Consumers /\ ~Down.member /\ Down.at = 0 /\ Down.pc = "down" /\ Down.left = {}
    BY DEF Down, Consumers
  <2>2. Sound(Down)'
    BY <2>1 DEF Sound
  <2>3. faults' \in 0..MaxFaults
    BY <1>6, Server DEF Quit, Crash, Fault
  <2> QED BY <1>6, <2>1, <2>2, <2>3, Replace, Server DEF Quit, Crash, Exit
<1> QED BY <1>2, <1>3, <1>4, <1>5, <1>6

(* The batch: fetch, bail, start and fail. *)
LEMMA BatchInv ==
  ASSUME IInv, NEW s \in Servers, Fetch(s) \/ Bail(s) \/ StartGroup(s)
  PROVE IInv'
<1>1. con[s] \in Consumers /\ Sound(con[s])
  BY Server
<1>2. CASE Fetch(s)
  <2>1. PICK hi \in con[s].at + 1..N : con' = [con EXCEPT ![s].pc = "batch", ![s].hi = hi]
    BY <1>2 DEF Fetch
  <2>c. PICK c \in Consumers : c = [con[s] EXCEPT !.pc = "batch", !.hi = hi]
    <3>1. con[s].at \in 0..N
      BY <1>1 DEF Consumers
    <3>2. hi \in 0..N
      BY <3>1
    <3> QED BY <1>1, <3>2 DEF Consumers
  <2>2. /\ c.member = con[s].member /\ c.at = con[s].at /\ c.pc = "batch"
        /\ c.hi = hi /\ c.left = con[s].left /\ c.at < c.hi
    BY <1>1, <2>c DEF Consumers
  <2>3. con' = [con EXCEPT ![s] = c]
    BY <2>c, <2>1
  <2>4. Sound(c)'
    BY <1>1, <1>2, <2>2 DEF Fetch, Sound
  <2> QED BY <2>c, <1>2, <2>2, <2>3, <2>4, Replace, Server DEF Fetch, Heartbeat
<1>3. CASE Bail(s)
  <2>1. Heartbeat(s) \in BOOLEAN
    BY DEF Heartbeat
  <2>c. PICK c \in Consumers : c = [con[s] EXCEPT !.pc = "idle", !.hi = 0, !.member = Heartbeat(s)]
    BY <1>1, <2>1, Zero DEF Consumers
  <2>2. /\ c.member = Heartbeat(s) /\ c.at = con[s].at /\ c.pc = "idle"
        /\ c.left = con[s].left
    BY <1>1, <2>c DEF Consumers
  <2>3. con' = [con EXCEPT ![s] = c]
    BY <2>c, <1>3 DEF Bail
  <2>4. Sound(c)' /\ faults' \in 0..MaxFaults
    BY <1>1, <1>3, <2>2, Server DEF Bail, Sound, Fault
  <2> QED BY <2>c, <1>3, <2>2, <2>3, <2>4, Replace, Server DEF Bail
<1>4. CASE StartGroup(s)
  <2>1. PICK b \in Offsets :
          /\ IsGroup(con[s].at + 1, b, con[s].hi)
          /\ con' = [con EXCEPT ![s].pc = "group", ![s].to = b, ![s].left = con[s].at + 1..b]
    BY <1>4 DEF StartGroup
  <2>2. con[s].at + 1..b \subseteq Offsets
    BY <1>1 DEF Consumers, Offsets
  <2>c. PICK c \in Consumers : c = [con[s] EXCEPT !.pc = "group", !.to = b, !.left = con[s].at + 1..b]
    <3>1. b \in 0..N
      BY DEF Offsets
    <3> QED BY <1>1, <2>2, <3>1 DEF Consumers
  <2>3. /\ c.member = con[s].member /\ c.at = con[s].at /\ c.pc = "group"
        /\ c.hi = con[s].hi /\ c.to = b /\ c.left = con[s].at + 1..b
    BY <1>1, <2>c DEF Consumers, Offsets
  <2>4. con' = [con EXCEPT ![s] = c]
    BY <2>c, <2>1
  <2>5. b \in con[s].at + 1..con[s].hi
    BY <2>1 DEF IsGroup
  <2>6. Sound(c)'
    <3>0. con[s].at \in 0..N /\ con[s].hi \in 0..N /\ settled' = settled
      BY <1>1, <1>4 DEF StartGroup, Consumers
    <3>1. con[s].at < b /\ b <= con[s].hi
      BY <2>5, <3>0
    <3>2. (c.at + 1..c.to) \ c.left = {} /\ 1..c.at \subseteq settled
      BY <1>1, <2>3 DEF Sound
    <3> QED BY <2>3, <3>0, <3>1, <3>2 DEF Sound
  <2> QED BY <2>c, <1>4, <2>3, <2>4, <2>6, Replace, Server DEF StartGroup, Heartbeat
<1> QED BY <1>2, <1>3, <1>4

(* Tasks answer, or die with their thread. *)
LEMMA TaskInv ==
  ASSUME IInv, NEW s \in Servers,
         \/ \E o \in Offsets : Settle(s, o)
         \/ \E t \in con[s].strays : SettleStray(s, t)
         \/ \E D \in SUBSET con[s].left : ThreadDies(s, D)
  PROVE IInv'
<1>1. con[s] \in Consumers /\ Sound(con[s])
  BY Server
<1>2. ASSUME NEW o \in Offsets, Settle(s, o) PROVE IInv'
  <2>c. PICK c \in Consumers : c = [con[s] EXCEPT !.left = @ \ {o}]
    BY <1>1 DEF Consumers
  <2>1. /\ c.member = con[s].member /\ c.at = con[s].at /\ c.pc = con[s].pc
        /\ c.hi = con[s].hi /\ c.to = con[s].to /\ c.left = con[s].left \ {o}
    BY <1>1, <2>c DEF Consumers
  <2>2. con' = [con EXCEPT ![s] = c]
    BY <2>c, <1>2 DEF Settle
  <2>3. settled' = settled \cup {o} /\ o \in con[s].left
    BY <1>2 DEF Settle
  <2>4. Sound(c)'
    BY <1>1, <2>1, <2>3 DEF Sound
  <2> QED BY <2>c, <1>2, <2>1, <2>2, <2>3, <2>4, Replace, Server DEF Settle, Heartbeat
<1>3. ASSUME NEW t \in con[s].strays, SettleStray(s, t) PROVE IInv'
  <2>c. PICK c \in Consumers : c = [con[s] EXCEPT !.strays = @ \ {t}]
    BY <1>1 DEF Consumers
  <2>1. /\ c.member = con[s].member /\ c.at = con[s].at /\ c.pc = con[s].pc
        /\ c.hi = con[s].hi /\ c.to = con[s].to /\ c.left = con[s].left
    BY <1>1, <2>c DEF Consumers
  <2>2. con' = [con EXCEPT ![s] = c]
    BY <2>c, <1>3 DEF SettleStray
  <2>3. settled' = settled \cup {t[1]} /\ t[1] \in Offsets
    BY <1>1, <1>3 DEF SettleStray, Consumers
  <2>4. Sound(c)'
    BY <1>1, <2>1, <2>3 DEF Sound
  <2> QED BY <2>c, <1>3, <2>1, <2>2, <2>3, <2>4, Replace, Server DEF SettleStray, Heartbeat
<1>4. ASSUME NEW D \in SUBSET con[s].left, ThreadDies(s, D) PROVE IInv'
  <2>1. faults' \in 0..MaxFaults /\ faults' \in Nat
    BY <1>4, Server DEF ThreadDies, Fault
  <2>2. (con[s].left \ D) \X {faults'} \subseteq Offsets \X Nat
    BY <1>1, <2>1 DEF Consumers
  <2>c. PICK c \in Consumers : c = [con[s] EXCEPT !.pc = "idle", !.hi = 0, !.to = 0, !.left = {},
                                 !.strays = @ \cup ((con[s].left \ D) \X {faults'})]
    BY <1>1, <2>2, Zero DEF Consumers
  <2>3. /\ c.member = con[s].member /\ c.at = con[s].at /\ c.pc = "idle"
        /\ c.left = {}
    BY <1>1, <2>c DEF Consumers
  <2>4. con' = [con EXCEPT ![s] = c]
    BY <2>c, <1>4 DEF ThreadDies
  <2>5. Sound(c)'
    BY <1>1, <1>4, <2>3 DEF ThreadDies, Sound
  <2> QED BY <2>c, <1>4, <2>1, <2>3, <2>4, <2>5, Replace, Server DEF ThreadDies, Heartbeat
<1> QED BY <1>2, <1>3, <1>4

(* A group is finished: all of it is settled, so all of it may be committed. *)
LEMMA FinishInv ==
  ASSUME IInv, NEW s \in Servers, FinishGroup(s) PROVE IInv'
<1>1. con[s] \in Consumers /\ Sound(con[s]) /\ con[s].pc = "group" /\ con[s].left = {}
  BY Server DEF FinishGroup
<1> DEFINE more == Heartbeat(s) /\ con[s].to < con[s].hi
<1>2. Heartbeat(s) \in BOOLEAN /\ more \in BOOLEAN
  BY DEF Heartbeat
<1>3. PICK c \in Consumers :
        c = [con[s] EXCEPT !.pc = IF more THEN "batch" ELSE "idle",
                           !.hi = IF more THEN @ ELSE 0, !.to = 0,
                           !.at = con[s].to, !.member = Heartbeat(s)]
  BY <1>1, <1>2, Zero DEF Consumers
<1>4. con' = [con EXCEPT ![s] = c]
  BY <1>3 DEF FinishGroup
<1>5. 1..con[s].to \subseteq settled
  BY <1>1 DEF Sound, Consumers
<1>6. Sound(c)'
  <2>1. settled' = settled
    BY DEF FinishGroup
  <2>2. /\ c.at = con[s].to /\ c.left = {} /\ c.pc \in {"batch", "idle"}
        /\ c.pc = "batch" => c.hi = con[s].hi /\ con[s].to < con[s].hi
    BY <1>1, <1>2, <1>3 DEF Consumers
  <2> QED BY <1>5, <2>1, <2>2 DEF Sound
<1>7. committed' \in 0..N /\ 1..committed' \subseteq settled /\ (Heartbeat(s) => committed' <= con[s].to)
  BY <1>1, <1>5, Server DEF FinishGroup, Consumers, Sound
<1>8. \A t \in Servers \ {s} : owner' = t => owner = t /\ committed' = committed
  BY DEF FinishGroup, Heartbeat
<1>9. c.at = con[s].to /\ c.member = Heartbeat(s)
  BY <1>2, <1>3 DEF Consumers
<1> QED BY <1>9, <1>3, <1>4, <1>6, <1>7, <1>8, Replace, Server DEF FinishGroup

(* Every step keeps the invariant. *)
LEMMA StepInv == IInv /\ [Next]_vars => IInv'
<1> SUFFICES ASSUME IInv, [Next]_vars PROVE IInv'
  OBVIOUS
<1>1. CASE UNCHANGED vars
  BY <1>1 DEF vars, IInv, Types, Sound, Heartbeat
<1>2. CASE Evict
  <2>1. faults' \in 0..MaxFaults
    BY <1>2 DEF Evict, Fault, IInv, Types
  <2> QED BY <1>2, <2>1 DEF Evict, IInv, Types, Sound, Heartbeat
<1>3. ASSUME NEW s \in Servers, Commit(s) PROVE IInv'
  <2>1. committed' = con[s].at /\ con[s].at \in 0..N /\ Sound(con[s])
    BY <1>3, Server DEF Commit, Consumers
  <2>2. \A t \in Servers : Heartbeat(t)' => t = s
    BY <1>3 DEF Commit, Heartbeat
  <2> QED BY <1>3, <2>1, <2>2 DEF Commit, IInv, Types, Sound
<1>4. ASSUME NEW s \in Servers, Step(s) PROVE IInv'
  BY <1>3, <1>4, MemberInv, BatchInv, TaskInv, FinishInv DEF Step
<1> QED BY <1>1, <1>2, <1>4 DEF Next

(* The inductive invariant holds of every reachable state. *)
THEOREM EachBatchInvariant == Spec => []IInv
BY InitInv, StepInv, PTL DEF Spec

(* Each consumer keeps its type and the shape of its batch. *)
THEOREM EachBatchTypeCorrect == Spec => []TypeOK
<1>1. IInv => TypeOK
  BY DEF IInv, Types, TypeOK, Sound
<1> QED BY <1>1, EachBatchInvariant, PTL

----------------------------------------------------------------------------
(* Refinement and order *)

(* Every step of the consumer group is a step of the log, or a stutter. *)
LEMMA LogStep == IInv /\ [Next]_vars => [Log!Next]_(Log!vars)
<1> SUFFICES ASSUME IInv, [Next]_vars PROVE [Log!Next]_(Log!vars)
  OBVIOUS
<1>1. IInv'
  BY StepInv
<1> USE DEF Log!Next, Log!vars, Log!Handle, Log!Advance
<1>2. CASE UNCHANGED vars \/ Evict
  BY <1>2 DEF vars, Evict
<1>3. ASSUME NEW s \in Servers, NEW o \in Offsets, Settle(s, o) PROVE [Log!Next]_(Log!vars)
  BY <1>3 DEF Settle, Offsets
<1>4. ASSUME NEW s \in Servers, NEW t \in con[s].strays, SettleStray(s, t) PROVE [Log!Next]_(Log!vars)
  <2>1. t[1] \in Offsets
    BY <1>4, Server DEF Consumers
  <2> QED BY <1>4, <2>1 DEF SettleStray, Offsets
<1>5. ASSUME NEW s \in Servers, Commit(s) \/ FinishGroup(s) PROVE [Log!Next]_(Log!vars)
  <2>1. settled' = settled
    BY <1>5 DEF Commit, FinishGroup
  <2>2. committed \in 0..N /\ committed' \in 0..N /\ 1..committed' \subseteq settled
    BY <1>1, <2>1 DEF IInv, Types
  <2>3. committed <= committed'
    <3>1. con[s] \in Consumers /\ Sound(con[s]) /\ (Heartbeat(s) => committed <= con[s].at)
      BY Server
    <3> QED BY <1>5, <2>2, <3>1 DEF Commit, FinishGroup, Sound, Consumers
  <2> QED BY <2>1, <2>2, <2>3
<1>6. ASSUME NEW s \in Servers,
             \/ Join(s) \/ LearnEvicted(s) \/ StartServer(s) \/ Leave(s) \/ Stop(s) \/ Quit(s) \/ Crash(s)
             \/ Fetch(s) \/ Bail(s) \/ StartGroup(s) \/ \E D \in SUBSET con[s].left : ThreadDies(s, D)
      PROVE UNCHANGED Log!vars
  BY <1>6 DEF Join, LearnEvicted, StartServer, Leave, Stop, Quit, Crash, Exit, Fetch, Bail, StartGroup, ThreadDies
<1> QED BY <1>2, <1>3, <1>4, <1>5, <1>6 DEF Next, Step

(* The consumer group implements the at-least-once log: the committed offset *)
(* only grows, and never passes a message that no task has answered for.     *)
THEOREM EachBatchImplementsLog == Spec => ImplementsLog
<1>1. Init => Log!Init
  BY DEF Init, Log!Init
<1> QED BY <1>1, LogStep, EachBatchInvariant, PTL DEF Spec, ImplementsLog, Log!Spec

(* A started group holds no two messages of one id, and everything before it *)
(* is settled.                                                               *)
LEMMA StartOrder ==
  ASSUME IInv, NEW s \in Servers, StartGroup(s), ByKey,
         NEW o \in con'[s].left, NEW i \in 1..o - 1, Key[i] = Key[o]
  PROVE i \in settled
<1>1. con[s] \in Consumers /\ Sound(con[s]) /\ con[s].at \in 0..N /\ con \in [Servers -> Consumers]
  BY Server DEF Consumers, IInv, Types
<1>2. PICK b \in Offsets :
        /\ IsGroup(con[s].at + 1, b, con[s].hi)
        /\ con' = [con EXCEPT ![s].pc = "group", ![s].to = b, ![s].left = con[s].at + 1..b]
  BY DEF StartGroup
<1>3. con'[s].left = con[s].at + 1..b
  BY <1>1, <1>2 DEF Consumers
<1>4. Distinct(con[s].at + 1, b)
  BY <1>2 DEF IsGroup
<1>5. i <= con[s].at
  <2>1. o \in con[s].at + 1..b /\ b \in Nat /\ i \in Nat /\ i < o
    BY <1>1, <1>3 DEF Offsets
  <2>2. CASE i > con[s].at
    <3>1. i \in con[s].at + 1..b /\ i # o
      BY <1>1, <2>1, <2>2
    <3> QED BY <2>1, <3>1, <1>4, Zenon DEF Distinct
  <2> QED BY <1>1, <2>1, <2>2
<1> QED BY <1>1, <1>5 DEF Sound

(* A step of one server leaves the others' consumers alone. *)
LEMMA OthersStay ==
  ASSUME con \in [Servers -> Consumers], NEW r \in Servers, Step(r), NEW s \in Servers, r # s
  PROVE  con'[s] = con[s]
<1>1. CASE Join(r) \/ LearnEvicted(r) \/ Commit(r) \/ StartServer(r) \/ Leave(r) \/ Stop(r)
  BY <1>1 DEF Join, LearnEvicted, Commit, StartServer, Leave, Stop
<1>2. CASE Quit(r) \/ Crash(r) \/ Fetch(r) \/ Bail(r) \/ StartGroup(r) \/ FinishGroup(r)
  BY <1>2 DEF Quit, Crash, Exit, Fetch, Bail, StartGroup, FinishGroup
<1>3. CASE (\E o \in Offsets : Settle(r, o)) \/ (\E t \in con[r].strays : SettleStray(r, t))
           \/ (\E D \in SUBSET con[r].left : ThreadDies(r, D))
  BY <1>3 DEF Settle, SettleStray, ThreadDies
<1> QED BY <1>1, <1>2, <1>3 DEF Step

(* Only the start of a group puts messages into a consumer's hands. *)
LEMMA NoOtherStart ==
  ASSUME IInv, NEW s \in Servers, [Next]_vars, ~StartGroup(s)
  PROVE con'[s].left \subseteq con[s].left
<1>1. con \in [Servers -> Consumers]
  BY DEF IInv, Types
<1>2. CASE UNCHANGED vars \/ Evict
  BY <1>2 DEF vars, Evict
<1>3. ASSUME NEW r \in Servers, r # s, Step(r) PROVE con'[s] = con[s]
  BY <1>1, <1>3, OthersStay
<1>4. CASE Step(s)
  <2>1. con[s] \in Consumers /\ Down.left = {}
    BY <1>1 DEF Down
  <2>2. ASSUME NEW c, con' = [con EXCEPT ![s] = c], c.left \subseteq con[s].left
        PROVE con'[s].left \subseteq con[s].left
    BY <1>1, <2>2
  <2>3. CASE Quit(s) \/ Crash(s)
    BY <2>1, <2>2, <2>3 DEF Quit, Crash, Exit
  <2>4. CASE StartServer(s)
    <3>1. [Down EXCEPT !.pc = "idle", !.running = TRUE].left = {}
      BY DEF Down
    <3> QED BY <2>2, <2>4, <3>1 DEF StartServer
  <2>5. CASE Join(s) \/ LearnEvicted(s) \/ Commit(s) \/ Stop(s) \/ Leave(s) \/ Fetch(s) \/ Bail(s)
    BY <1>1, <2>1, <2>5 DEF Join, LearnEvicted, Commit, Stop, Leave, Fetch, Bail, Consumers
  <2>6. CASE FinishGroup(s) \/ (\E o \in Offsets : Settle(s, o)) \/ (\E t \in con[s].strays : SettleStray(s, t))
    BY <1>1, <2>1, <2>6 DEF FinishGroup, Settle, SettleStray, Consumers
  <2>7. CASE \E D \in SUBSET con[s].left : ThreadDies(s, D)
    BY <1>1, <2>1, <2>7 DEF ThreadDies, Consumers
  <2> QED BY <1>4, <2>3, <2>4, <2>5, <2>6, <2>7 DEF Step
<1> QED BY <1>2, <1>3, <1>4 DEF Next

(* When a message is started, the earlier messages of its id are settled. *)
THEOREM EachBatchStartsInOrder == Spec => StartsInOrder
<1> DEFINE Ordered == \A s \in Servers : \A o \in con'[s].left \ con[s].left :
                        ByKey => \A i \in 1..o - 1 : Key[i] = Key[o] => i \in settled'
<1>1. IInv /\ [Next]_vars => Ordered
  <2> SUFFICES ASSUME IInv, [Next]_vars, NEW s \in Servers, NEW o \in con'[s].left \ con[s].left,
                      ByKey, NEW i \in 1..o - 1, Key[i] = Key[o]
               PROVE i \in settled'
    OBVIOUS
  <2>1. StartGroup(s)
    BY NoOtherStart
  <2> QED BY <2>1, StartOrder DEF StartGroup
<1> QED BY <1>1, EachBatchInvariant, PTL DEF Spec, StartsInOrder

----------------------------------------------------------------------------
(* Overlap: every task of an id but one is accounted for by a fault of its own. *)

(* Members that were evicted and do not know it, and the faults whose strays   *)
(* still run.                                                                  *)
Zombies == {s \in Servers : con[s].member /\ owner # s}

Marks == {n \in 1..faults : \E s \in Servers, o \in Offsets : <<o, n>> \in con[s].strays}

(* Within a group, and among the strays of one fault, an id has one message.   *)
Alone(S) == ByKey => \A o, p \in S : Key[o] = Key[p] => o = p

Marked ==
  \A s, r \in Servers : \A t \in con[s].strays, u \in con[r].strays :
    /\ t[2] \in 1..faults
    /\ t[2] = u[2] => s = r /\ (ByKey /\ Key[t[1]] = Key[u[1]] => t[1] = u[1])

Working(s) == /\ Alone(con[s].left)
              /\ con[s].pc \in {"batch", "group"} => con[s].member

OInv ==
  /\ IInv /\ Marked /\ \A s \in Servers : Working(s)
  /\ IsFiniteSet(Zombies) /\ Cardinality(Zombies) + Cardinality(Marks) <= faults

(* The faults that left strays are finitely many. *)
LEMMA MarksFinite == ASSUME IInv PROVE IsFiniteSet(Marks) /\ Cardinality(Marks) \in Nat
<1>1. faults \in Nat
  BY DEF IInv, Types
<1>2. IsFiniteSet(1..faults)
  BY <1>1, FS_Interval
<1>3. Marks \in SUBSET (1..faults)
  BY DEF Marks
<1>4. IsFiniteSet(Marks)
  BY <1>2, <1>3, FS_Subset
<1> QED BY <1>4, FS_CardinalityType

(* Initially no server is a member. *)
LEMMA InitOverlap == Init => OInv
<1> SUFFICES ASSUME Init PROVE OInv
  OBVIOUS
<1>1. \A s \in Servers : con[s].strays = {} /\ con[s].left = {} /\ ~con[s].member /\ con[s].pc = "down"
  BY DEF Init, Down
<1>2. Zombies = {} /\ Marks = {} /\ faults = 0
  BY <1>1 DEF Zombies, Marks, Init
<1>3. Marked /\ \A s \in Servers : Working(s)
  BY <1>1 DEF Marked, Working, Alone
<1> QED BY <1>2, <1>3, InitInv, FS_EmptySet DEF OInv

(* The count is kept by a step that makes no zombie and leaves no new mark, or  *)
(* makes one of either and is a fault.                                         *)
LEMMA Counted ==
  ASSUME OInv, IInv',
         \/ Zombies' \subseteq Zombies /\ Marks' \subseteq Marks /\ faults' >= faults
         \/ faults' = faults + 1 /\ Marks' \subseteq Marks /\ \E x : Zombies' \subseteq Zombies \cup {x}
         \/ faults' = faults + 1 /\ Zombies' \subseteq Zombies /\ \E x : Marks' \subseteq Marks \cup {x}
  PROVE  IsFiniteSet(Zombies') /\ Cardinality(Zombies') + Cardinality(Marks') <= faults'
<1>1. IsFiniteSet(Zombies) /\ IsFiniteSet(Marks) /\ faults \in Nat /\ faults' \in Nat
  BY MarksFinite DEF OInv, IInv, Types
<1>2. /\ Cardinality(Zombies) \in Nat /\ Cardinality(Marks) \in Nat
      /\ Cardinality(Zombies) + Cardinality(Marks) <= faults
  BY <1>1, FS_CardinalityType DEF OInv
<1>3. ASSUME NEW S, IsFiniteSet(S), NEW T, T \subseteq S
      PROVE  IsFiniteSet(T) /\ Cardinality(T) \in Nat /\ Cardinality(T) <= Cardinality(S)
  <2>1. T \in SUBSET S
    BY <1>3
  <2> QED BY <1>3, <2>1, FS_Subset, FS_CardinalityType
<1>4. ASSUME NEW S, IsFiniteSet(S), NEW x, NEW T, T \subseteq S \cup {x}
      PROVE  IsFiniteSet(T) /\ Cardinality(T) \in Nat /\ Cardinality(T) <= Cardinality(S) + 1
  <2>1. IsFiniteSet(S \cup {x}) /\ Cardinality(S \cup {x}) <= Cardinality(S) + 1
    <3>1. Cardinality(S) \in Nat
      BY <1>4, FS_CardinalityType
    <3>2. IsFiniteSet(S \cup {x})
      BY <1>4, FS_AddElement
    <3>3. Cardinality(S \cup {x}) = IF x \in S THEN Cardinality(S) ELSE Cardinality(S) + 1
      BY <1>4, FS_AddElement
    <3> QED BY <3>1, <3>2, <3>3
  <2>2. IsFiniteSet(T) /\ Cardinality(T) \in Nat /\ Cardinality(T) <= Cardinality(S \cup {x})
    BY <1>3, <1>4, <2>1
  <2>3. Cardinality(S) \in Nat /\ Cardinality(S \cup {x}) \in Nat
    BY <1>4, <2>1, FS_CardinalityType
  <2> QED BY <2>1, <2>2, <2>3
<1>5. CASE Zombies' \subseteq Zombies /\ Marks' \subseteq Marks /\ faults' >= faults
  BY <1>1, <1>2, <1>3, <1>5
<1>6. CASE faults' = faults + 1 /\ Marks' \subseteq Marks /\ \E x : Zombies' \subseteq Zombies \cup {x}
  <2>1. PICK x : Zombies' \subseteq Zombies \cup {x}
    BY <1>6
  <2>2. /\ IsFiniteSet(Zombies') /\ Cardinality(Zombies') \in Nat
        /\ Cardinality(Zombies') <= Cardinality(Zombies) + 1
    BY <1>1, <1>4, <2>1
  <2>3. Cardinality(Marks') \in Nat /\ Cardinality(Marks') <= Cardinality(Marks)
    BY <1>1, <1>3, <1>6
  <2> QED BY <1>1, <1>2, <1>6, <2>2, <2>3
<1>7. CASE faults' = faults + 1 /\ Zombies' \subseteq Zombies /\ \E x : Marks' \subseteq Marks \cup {x}
  <2>1. PICK x : Marks' \subseteq Marks \cup {x}
    BY <1>7
  <2>2. Cardinality(Marks') \in Nat /\ Cardinality(Marks') <= Cardinality(Marks) + 1
    BY <1>1, <1>4, <2>1
  <2>3. /\ IsFiniteSet(Zombies') /\ Cardinality(Zombies') \in Nat
        /\ Cardinality(Zombies') <= Cardinality(Zombies)
    BY <1>1, <1>3, <1>7
  <2> QED BY <1>1, <1>2, <1>7, <2>2, <2>3
<1> QED BY <1>5, <1>6, <1>7

(* A step of one server that starts no task, whatever else it does: its         *)
(* consumer becomes c, which has no more tasks and strays than before.          *)
Lighter(s, c) ==
  /\ con' = [con EXCEPT ![s] = c] /\ faults' >= faults
  /\ c.left \subseteq con[s].left /\ c.strays \subseteq con[s].strays
  /\ c.pc \in {"batch", "group"} => c.member
  /\ c.member /\ owner' # s => con[s].member /\ owner # s
  /\ \A r \in Servers \ {s} : con[r].member /\ owner = r => owner' = r

LEMMA NoNewTask ==
  ASSUME OInv, IInv', NEW s \in Servers, NEW c, Lighter(s, c)
  PROVE  OInv'
<1> USE DEF Lighter
<1>1. con \in [Servers -> Consumers] /\ faults \in Nat /\ faults' \in Nat
  BY DEF OInv, IInv, Types
<1>2. con'[s] = c /\ \A r \in Servers \ {s} : con'[r] = con[r]
  BY <1>1
<1>3. \A r \in Servers : con'[r].left \subseteq con[r].left /\ con'[r].strays \subseteq con[r].strays
  BY <1>2
<1>4. Zombies' \subseteq Zombies
  BY <1>2 DEF Zombies
<1>5. Marks' \subseteq Marks
  <2> SUFFICES ASSUME NEW n \in Marks' PROVE n \in Marks
    OBVIOUS
  <2>1. PICK r \in Servers, o \in Offsets : <<o, n>> \in con'[r].strays
    BY DEF Marks
  <2>2. <<o, n>> \in con[r].strays /\ <<o, n>>[2] = n
    BY <1>3, <2>1
  <2>3. n \in 1..faults
    BY <2>2 DEF OInv, Marked
  <2> QED BY <2>2, <2>3 DEF Marks
<1>6. Marked'
  BY <1>1, <1>3 DEF OInv, Marked
<1>7. \A r \in Servers : Working(r)'
  BY <1>2, <1>3 DEF OInv, Working, Alone
<1> QED BY <1>4, <1>5, <1>6, <1>7, Counted DEF OInv

(* Membership, the batch, answers: steps that start no task.                    *)
LEMMA QuietOverlap ==
  ASSUME OInv, IInv', NEW s \in Servers,
         \/ Join(s) \/ LearnEvicted(s) \/ Commit(s) \/ StartServer(s) \/ Stop(s) \/ Leave(s)
         \/ Quit(s) \/ Crash(s) \/ Fetch(s) \/ Bail(s) \/ FinishGroup(s)
         \/ (\E o \in Offsets : Settle(s, o)) \/ (\E t \in con[s].strays : SettleStray(s, t))
  PROVE  OInv'
<1>1. /\ con \in [Servers -> Consumers] /\ con[s] \in Consumers /\ faults \in Nat
      /\ con[s].pc \in {"batch", "group"} => con[s].member
      /\ con[s].pc # "group" => con[s].left = {}
      /\ NoOne \notin Servers
  BY DEF OInv, IInv, Types, Sound, Working
<1>2. CASE Join(s)
  <2>c. PICK c \in Consumers : c = [con[s] EXCEPT !.member = TRUE, !.at = committed]
    BY <1>1 DEF Consumers, OInv, IInv, Types
  <2>1. c.member /\ c.pc = con[s].pc /\ c.left = con[s].left /\ c.strays = con[s].strays
    BY <1>1, <2>c DEF Consumers
  <2>2. /\ con' = [con EXCEPT ![s] = c] /\ faults' = faults /\ owner = NoOne /\ owner' = s
        /\ con[s].pc = "idle"
    BY <1>2, <2>c DEF Join
  <2>q. Lighter(s, c)
    BY <1>1, <2>1, <2>2 DEF Lighter
  <2> QED BY <2>q, NoNewTask
<1>3. CASE LearnEvicted(s) \/ Leave(s)
  <2>c. PICK c \in Consumers : c = [con[s] EXCEPT !.member = FALSE]
    BY <1>1 DEF Consumers
  <2>1. ~c.member /\ c.left = con[s].left /\ c.strays = con[s].strays /\ c.pc = con[s].pc
    BY <1>1, <2>c DEF Consumers
  <2>q. Lighter(s, c)
    BY <1>1, <1>3, <2>c, <2>1 DEF Lighter, LearnEvicted, Leave
  <2> QED BY <2>q, NoNewTask
<1>4. CASE Commit(s)
  <2>1. con' = [con EXCEPT ![s] = con[s]]
    BY <1>1, <1>4 DEF Commit
  <2>2. faults' = faults /\ owner' = owner /\ owner = s
    BY <1>4 DEF Commit
  <2>q. Lighter(s, con[s])
    BY <1>1, <2>1, <2>2 DEF Lighter
  <2> QED BY <2>q, NoNewTask
<1>5. CASE StartServer(s)
  <2>c. PICK c \in Consumers : c = [Down EXCEPT !.pc = "idle", !.running = TRUE]
    <3>1. Down \in Consumers
      BY DEF Down, Consumers
    <3> QED BY <3>1 DEF Consumers
  <2>1. ~c.member /\ c.left = {} /\ c.strays = {} /\ c.pc = "idle"
    BY <2>c DEF Down
  <2>q. Lighter(s, c)
    BY <1>1, <1>5, <2>c, <2>1 DEF Lighter, StartServer
  <2> QED BY <2>q, NoNewTask
<1>6. CASE Stop(s)
  <2>c. PICK c \in Consumers : c = [con[s] EXCEPT !.running = FALSE]
    BY <1>1 DEF Consumers
  <2>1. /\ c.member = con[s].member /\ c.left = con[s].left /\ c.strays = con[s].strays
        /\ c.pc = con[s].pc
    BY <1>1, <2>c DEF Consumers
  <2>q. Lighter(s, c)
    BY <1>1, <1>6, <2>c, <2>1 DEF Lighter, Stop
  <2> QED BY <2>q, NoNewTask
<1>7. CASE Quit(s) \/ Crash(s)
  <2>1. ~Down.member /\ Down.left = {} /\ Down.strays = {} /\ Down.pc = "down"
    BY DEF Down
  <2>2. faults' >= faults /\ con' = [con EXCEPT ![s] = Down] /\ owner' = IF owner = s THEN NoOne ELSE owner
    BY <1>1, <1>7 DEF Quit, Crash, Exit, Fault
  <2>q. Lighter(s, Down)
    BY <1>1, <2>1, <2>2 DEF Lighter
  <2> QED BY <2>q, NoNewTask
<1>8. CASE Fetch(s)
  <2>1. PICK hi \in con[s].at + 1..N : con' = [con EXCEPT ![s].pc = "batch", ![s].hi = hi]
    BY <1>8 DEF Fetch
  <2> DEFINE c == [con[s] EXCEPT !.pc = "batch", !.hi = hi]
  <2>2. c.member /\ con[s].member /\ c.left = con[s].left /\ c.strays = con[s].strays
    BY <1>1, <1>8 DEF Consumers, Fetch
  <2>3. con' = [con EXCEPT ![s] = c] /\ faults' = faults /\ owner' = owner
    BY <1>8, <2>1 DEF Fetch
  <2> HIDE DEF c
  <2>q. Lighter(s, c)
    BY <1>1, <2>2, <2>3 DEF Lighter
  <2> QED BY <2>q, NoNewTask
<1>9. CASE Bail(s)
  <2> DEFINE c == [con[s] EXCEPT !.pc = "idle", !.hi = 0, !.member = Heartbeat(s)]
  <2>1. c.member = Heartbeat(s) /\ c.left = con[s].left /\ c.strays = con[s].strays /\ c.pc = "idle"
    BY <1>1 DEF Consumers
  <2>2. con' = [con EXCEPT ![s] = c] /\ owner' = owner
    BY <1>9 DEF Bail
  <2>3. faults' >= faults
    BY <1>1, <1>9 DEF Bail, Fault
  <2> HIDE DEF c
  <2>q. Lighter(s, c)
    BY <1>1, <2>1, <2>2, <2>3 DEF Lighter, Heartbeat
  <2> QED BY <2>q, NoNewTask
<1>10. CASE FinishGroup(s)
  <2> DEFINE more == Heartbeat(s) /\ con[s].to < con[s].hi
             c == [con[s] EXCEPT !.pc = IF more THEN "batch" ELSE "idle",
                                 !.hi = IF more THEN @ ELSE 0, !.to = 0,
                                 !.at = con[s].to, !.member = Heartbeat(s)]
  <2>1. /\ c.member = Heartbeat(s) /\ c.left = con[s].left /\ c.strays = con[s].strays
        /\ c.pc = IF more THEN "batch" ELSE "idle"
    BY <1>1 DEF Consumers
  <2>2. con' = [con EXCEPT ![s] = c] /\ faults' = faults /\ owner' = owner
    BY <1>10 DEF FinishGroup
  <2>3. c.pc \in {"batch", "group"} => c.member
    BY <2>1
  <2> HIDE DEF c, more
  <2>q. Lighter(s, c)
    <3>1. c.member => con[s].member /\ owner = s
      BY <2>1 DEF Heartbeat
    <3> QED BY <1>1, <2>1, <2>2, <2>3, <3>1 DEF Lighter
  <2> QED BY <2>q, NoNewTask
<1>11. ASSUME NEW o \in Offsets, Settle(s, o) PROVE OInv'
  <2> DEFINE c == [con[s] EXCEPT !.left = @ \ {o}]
  <2>1. /\ c.member = con[s].member /\ c.left \subseteq con[s].left /\ c.strays = con[s].strays
        /\ c.pc = con[s].pc
    BY <1>1 DEF Consumers
  <2>2. con' = [con EXCEPT ![s] = c] /\ faults' = faults /\ owner' = owner
    BY <1>11 DEF Settle
  <2> HIDE DEF c
  <2>q. Lighter(s, c)
    BY <1>1, <2>1, <2>2 DEF Lighter
  <2> QED BY <2>q, NoNewTask
<1>12. ASSUME NEW t \in con[s].strays, SettleStray(s, t) PROVE OInv'
  <2> DEFINE c == [con[s] EXCEPT !.strays = @ \ {t}]
  <2>1. /\ c.member = con[s].member /\ c.left = con[s].left /\ c.strays \subseteq con[s].strays
        /\ c.pc = con[s].pc
    BY <1>1 DEF Consumers
  <2>2. con' = [con EXCEPT ![s] = c] /\ faults' = faults /\ owner' = owner
    BY <1>12 DEF SettleStray
  <2> HIDE DEF c
  <2>q. Lighter(s, c)
    BY <1>1, <2>1, <2>2 DEF Lighter
  <2> QED BY <2>q, NoNewTask
<1> QED BY <1>2, <1>3, <1>4, <1>5, <1>6, <1>7, <1>8, <1>9, <1>10, <1>11, <1>12

(* The start of a group: its ids are distinct, and its server a member.         *)
LEMMA StartOverlap ==
  ASSUME OInv, IInv', NEW s \in Servers, StartGroup(s) PROVE OInv'
<1>1. /\ con \in [Servers -> Consumers] /\ con[s] \in Consumers /\ con[s].pc = "batch" /\ con[s].member
      /\ faults \in Nat
  BY DEF OInv, IInv, Types, Working, StartGroup
<1>2. PICK b \in Offsets :
        /\ IsGroup(con[s].at + 1, b, con[s].hi)
        /\ con' = [con EXCEPT ![s].pc = "group", ![s].to = b, ![s].left = con[s].at + 1..b]
  BY DEF StartGroup
<1>3. /\ con'[s].left = con[s].at + 1..b /\ con'[s].strays = con[s].strays /\ con'[s].member
      /\ \A r \in Servers \ {s} : con'[r] = con[r]
  BY <1>1, <1>2 DEF Consumers
<1>4. Alone(con'[s].left)
  BY <1>2, <1>3 DEF IsGroup, Distinct, Alone
<1>5. \A r \in Servers : (con'[r].member <=> con[r].member) /\ con'[r].strays = con[r].strays
  BY <1>1, <1>3
<1>6. faults' = faults /\ owner' = owner
  BY DEF StartGroup
<1>7. Zombies' \subseteq Zombies /\ Marks' \subseteq Marks
  BY <1>5, <1>6 DEF Zombies, Marks
<1>8. Marked'
  BY <1>5, <1>6 DEF OInv, Marked
<1>9. \A r \in Servers : Working(r)'
  BY <1>3, <1>4 DEF OInv, Working, Alone
<1> QED BY <1>1, <1>6, <1>7, <1>8, <1>9, Counted DEF OInv

(* A thread dies: what runs on was part of one group, and gets a new number.    *)
LEMMA DeathOverlap ==
  ASSUME OInv, IInv', NEW s \in Servers, NEW D \in SUBSET con[s].left, ThreadDies(s, D) PROVE OInv'
<1>1. /\ con \in [Servers -> Consumers] /\ con[s] \in Consumers /\ faults \in Nat /\ faults' = faults + 1
      /\ Alone(con[s].left)
  BY DEF OInv, IInv, Types, Working, ThreadDies, Fault
<1> DEFINE new == (con[s].left \ D) \X {faults'}
<1>2. /\ con'[s].strays = con[s].strays \cup new /\ con'[s].left = {}
      /\ con'[s].pc = "idle" /\ con'[s].member = con[s].member
      /\ \A r \in Servers \ {s} : con'[r] = con[r]
  BY <1>1 DEF ThreadDies, Consumers
<1>3. owner' = owner
  BY DEF ThreadDies
<1>4. Zombies' \subseteq Zombies
  BY <1>2, <1>3 DEF Zombies
<1>5. \A r \in Servers : \A t \in con'[r].strays :
        t \in con[r].strays \/ (r = s /\ t[1] \in con[s].left /\ t[2] = faults')
  BY <1>2
<1>6. \A r \in Servers : \A t \in con[r].strays : t[2] \in 1..faults /\ t[2] # faults'
  BY <1>1 DEF OInv, Marked
<1>7. Marks' \subseteq Marks \cup {faults'}
  <2> SUFFICES ASSUME NEW n \in Marks', n # faults' PROVE n \in Marks
    OBVIOUS
  <2>1. PICK r \in Servers, o \in Offsets : <<o, n>> \in con'[r].strays
    BY DEF Marks
  <2>2. <<o, n>> \in con[r].strays /\ <<o, n>>[2] = n
    BY <1>5, <2>1
  <2> QED BY <1>6, <2>2 DEF Marks
<1>8. Marked'
  <2> SUFFICES ASSUME NEW p \in Servers, NEW r \in Servers, NEW t \in con'[p].strays, NEW u \in con'[r].strays
               PROVE /\ t[2] \in 1..faults'
                     /\ t[2] = u[2] => p = r /\ (ByKey /\ Key[t[1]] = Key[u[1]] => t[1] = u[1])
    BY DEF Marked
  <2>1. t[2] \in 1..faults'
    BY <1>1, <1>5, <1>6
  <2>2. CASE t \in con[p].strays /\ u \in con[r].strays
    BY <2>1, <2>2 DEF OInv, Marked
  <2>3. CASE p = s /\ r = s /\ t[1] \in con[s].left /\ u[1] \in con[s].left
    BY <1>1, <2>1, <2>3 DEF Alone
  <2>4. CASE t[2] # u[2]
    BY <2>1, <2>4
  <2> QED BY <1>5, <1>6, <2>2, <2>3, <2>4
<1>9. \A r \in Servers : Working(r)'
  BY <1>2 DEF OInv, Working, Alone
<1> QED BY <1>1, <1>4, <1>7, <1>8, <1>9, Counted DEF OInv

(* Every step keeps the account. *)
LEMMA StepOverlap == OInv /\ [Next]_vars => OInv'
<1> SUFFICES ASSUME OInv, [Next]_vars PROVE OInv'
  OBVIOUS
<1>1. IInv'
  BY StepInv DEF OInv
<1>2. CASE UNCHANGED vars
  <2>1. /\ Zombies' = Zombies /\ Marks' = Marks /\ faults' = faults /\ con' = con
    BY <1>2 DEF vars, Zombies, Marks
  <2> QED BY <1>1, <2>1 DEF OInv, Marked, Working, Alone
<1>3. CASE Evict
  <2>1. con' = con /\ owner' = NoOne /\ faults \in Nat /\ faults' = faults + 1
    BY <1>3 DEF Evict, Fault, OInv, IInv, Types
  <2>2. Zombies' \subseteq Zombies \cup {owner}
    BY <2>1 DEF Zombies
  <2>3. Marks' \subseteq Marks
    <3> SUFFICES ASSUME NEW n \in Marks' PROVE n \in Marks
      OBVIOUS
    <3>1. PICK r \in Servers, o \in Offsets : <<o, n>> \in con[r].strays
      BY <2>1 DEF Marks
    <3>2. <<o, n>>[2] \in 1..faults
      BY <3>1 DEF OInv, Marked
    <3> QED BY <3>1, <3>2 DEF Marks
  <2>4. Marked' /\ \A s \in Servers : Working(s)'
    BY <2>1 DEF OInv, Marked, Working, Alone
  <2> QED BY <1>1, <2>1, <2>2, <2>3, <2>4, Counted DEF OInv
<1>4. ASSUME NEW s \in Servers, Step(s) PROVE OInv'
  BY <1>1, <1>4, QuietOverlap, StartOverlap, DeathOverlap DEF Step
<1> QED BY <1>2, <1>3, <1>4 DEF Next

(* What the account says of the tasks of one id: those of groups go to          *)
(* different members, those of failed batches to different marks.               *)
LEMMA RunningBounded ==
  ASSUME OInv, ByKey, NEW k PROVE Cardinality(Running(k)) <= 1 + faults
<1> DEFINE A == {t \in Running(k) : t[3] = 0}
           B == {t \in Running(k) : t[3] # 0}
           f == [t \in A |-> t[1]]
           g == [t \in B |-> t[3]]
<1>1. /\ con \in [Servers -> Consumers] /\ faults \in Nat /\ IsFiniteSet(Zombies)
      /\ Cardinality(Zombies) \in Nat /\ IsFiniteSet(Marks) /\ Cardinality(Marks) \in Nat
      /\ Cardinality(Zombies) + Cardinality(Marks) <= faults
  BY MarksFinite, FS_CardinalityType DEF OInv, IInv, Types
<1>2. IsFiniteSet(A) /\ Cardinality(A) <= Cardinality(Zombies) + 1
  <2>1. \A t \in A : t[1] \in Zombies \cup {owner}
    <3> SUFFICES ASSUME NEW t \in A PROVE t[1] \in Zombies \cup {owner}
      OBVIOUS
    <3>1. t[1] \in Servers /\ t[2] \in con[t[1]].left
      BY DEF OInv, Marked, Running
    <3>2. con[t[1]].pc = "group"
      BY <3>1 DEF OInv, IInv, Sound
    <3> QED BY <3>1, <3>2 DEF OInv, Working, Zombies
  <2>2. \A t, u \in A : t[1] = u[1] => t = u
    <3> SUFFICES ASSUME NEW t \in A, NEW u \in A, t[1] = u[1] PROVE t = u
      OBVIOUS
    <3>1. /\ t \in Servers \X Offsets \X (0..MaxFaults) /\ u \in Servers \X Offsets \X (0..MaxFaults)
          /\ t[2] \in con[t[1]].left /\ u[2] \in con[t[1]].left
          /\ Key[t[2]] = k /\ Key[u[2]] = k /\ t[3] = 0 /\ u[3] = 0
      BY DEF OInv, Marked, Running
    <3>2. t[2] = u[2]
      BY <3>1 DEF OInv, Working, Alone
    <3> QED BY <3>1, <3>2
  <2>3. f \in Injection(A, Zombies \cup {owner})
    BY <2>1, <2>2 DEF Injection, IsInjective
  <2>4. /\ IsFiniteSet(Zombies \cup {owner})
        /\ Cardinality(Zombies \cup {owner}) =
             IF owner \in Zombies THEN Cardinality(Zombies) ELSE Cardinality(Zombies) + 1
    BY <1>1, FS_AddElement
  <2>5. IsFiniteSet(A) /\ Cardinality(A) <= Cardinality(Zombies \cup {owner})
    <3> HIDE DEF A, f
    <3> QED BY <2>3, <2>4, FS_Injection
  <2>6. Cardinality(A) \in Nat
    BY <2>5, FS_CardinalityType
  <2> QED BY <1>1, <2>4, <2>5, <2>6
<1>3. IsFiniteSet(B) /\ Cardinality(B) <= Cardinality(Marks)
  <2>1. \A t \in B : /\ t \in Servers \X Offsets \X (0..MaxFaults) /\ Key[t[2]] = k
                     /\ <<t[2], t[3]>> \in con[t[1]].strays
    BY DEF Running
  <2>2. \A t \in B : t[3] \in Marks
    <3> SUFFICES ASSUME NEW t \in B PROVE t[3] \in Marks
      OBVIOUS
    <3>1. t[1] \in Servers /\ t[2] \in Offsets /\ <<t[2], t[3]>> \in con[t[1]].strays
      BY <2>1
    <3>2. <<t[2], t[3]>>[2] \in 1..faults
      BY <3>1 DEF OInv, Marked
    <3> QED BY <3>1, <3>2 DEF Marks
  <2>3. \A t, u \in B : t[3] = u[3] => t = u
    <3> SUFFICES ASSUME NEW t \in B, NEW u \in B, t[3] = u[3] PROVE t = u
      OBVIOUS
    <3>1. /\ t \in Servers \X Offsets \X (0..MaxFaults) /\ u \in Servers \X Offsets \X (0..MaxFaults)
          /\ Key[t[2]] = Key[u[2]]
      BY <2>1
    <3>2. \A p, r \in Servers : \A x \in con[p].strays, y \in con[r].strays :
            x[2] = y[2] => p = r /\ (Key[x[1]] = Key[y[1]] => x[1] = y[1])
      BY DEF OInv, Marked
    <3>3. <<t[2], t[3]>> \in con[t[1]].strays /\ <<u[2], u[3]>> \in con[u[1]].strays
      BY <2>1
    <3>4. t[1] \in Servers /\ u[1] \in Servers
      BY <3>1
    <3>5. /\ <<t[2], t[3]>>[2] = <<u[2], u[3]>>[2]
          /\ <<t[2], t[3]>>[1] = t[2] /\ <<u[2], u[3]>>[1] = u[2]
      OBVIOUS
    <3>6. t[1] = u[1] /\ t[2] = u[2]
      BY <3>1, <3>2, <3>3, <3>4, <3>5
    <3> QED BY <3>1, <3>6
  <2>4. g \in Injection(B, Marks)
    BY <2>2, <2>3 DEF Injection, IsInjective
  <2> HIDE DEF B, g
  <2> QED BY <1>1, <2>4, FS_Injection
<1>4. Running(k) = A \cup B
  OBVIOUS
<1>5. Cardinality(A \cup B) <= Cardinality(A) + Cardinality(B)
  <2>1. /\ Cardinality(A) \in Nat /\ Cardinality(B) \in Nat /\ Cardinality(A \cap B) \in Nat
    <3>1. A \cap B = {}
      OBVIOUS
    <3> QED BY <1>2, <1>3, <3>1, FS_CardinalityType, FS_EmptySet
  <2>2. Cardinality(A \cup B) = Cardinality(A) + Cardinality(B) - Cardinality(A \cap B)
    <3> HIDE DEF A, B
    <3> QED BY <1>2, <1>3, FS_Union
  <2> QED BY <2>1, <2>2
<1>6. Cardinality(A) \in Nat /\ Cardinality(B) \in Nat /\ Cardinality(A \cup B) \in Nat
  <2>1. IsFiniteSet(A \cup B)
    <3> HIDE DEF A, B
    <3> QED BY <1>2, <1>3, FS_Union
  <2> QED BY <1>2, <1>3, <2>1, FS_CardinalityType
<1> HIDE DEF A, B
<1> QED BY <1>1, <1>2, <1>3, <1>4, <1>5, <1>6

(* Two events of one person are processed at once only after an eviction, a     *)
(* crash or a dead thread, and each of these adds at most one.                  *)
THEOREM EachBatchOverlapNeedsAFault == Spec => []OverlapNeedsAFault
<1>1. OInv => OverlapNeedsAFault
  BY RunningBounded DEF OverlapNeedsAFault
<1> QED BY <1>1, InitOverlap, StepOverlap, PTL DEF Spec

----------------------------------------------------------------------------
(* The servers *)

(* Every step of a server is a step of its consumer, or leaves it alone. *)
LEMMA ConsumerStep == [ServerNext]_svars => [Next]_vars
<1> SUFFICES ASSUME ServerNext PROVE [Next]_vars
  BY DEF svars
<1>1. CASE Evict
  BY <1>1 DEF Next
<1>2. ASSUME NEW s \in Servers, ServerStep(s) PROVE Step(s) \/ UNCHANGED vars
  <2>1. CASE Consume(s) \/ Launch(s) \/ FirstSignal(s) \/ SecondSignal(s) \/ Killed(s) \/ Finish(s)
    BY <2>1 DEF Consume, Launch, FirstSignal, SecondSignal, Killed, SuddenEnd, Finish, Step
  <2>2. CASE QueueStopped(s) \/ ServicesStopped(s) \/ TornDown(s)
    BY <2>2 DEF QueueStopped, ServicesStopped, TornDown
  <2>3. CASE \/ \E o \in Offsets : Answer(s, o)
             \/ \E t \in con[s].strays : AnswerStray(s, t)
             \/ \E D \in SUBSET con[s].left : ThreadEnds(s, D)
    BY <2>3 DEF Answer, AnswerStray, ThreadEnds, Step
  <2>4. CASE \E B \in SUBSET (buf[s] \cup out[s]) : Flush(s, B) \/ Delivered(s, B) \/ SendFails(s, B)
    BY <2>4 DEF Flush, Delivered, SendFails
  <2> QED BY <1>2, <2>1, <2>2, <2>3, <2>4 DEF ServerStep
<1> QED BY <1>1, <1>2 DEF ServerNext, Next

----------------------------------------------------------------------------
(* Accounting *)

(* Where a message is kept: a buffer counts until its threads were flushed for *)
(* the last time.                                                              *)
Held(s) == out[s] \cup (IF stage[s] = "flush" THEN {} ELSE buf[s])
Kept == safe \cup casualties \cup {o \in Offsets : \E s \in Servers : o \in Held(s)}

ServerTypes ==
  /\ stage \in [Servers -> Stages] /\ signals \in [Servers -> 0..2]
  /\ buf \in [Servers -> SUBSET Offsets] /\ out \in [Servers -> SUBSET Offsets]
  /\ safe \subseteq Offsets /\ casualties \subseteq Offsets /\ mishaps \in 0..MaxMishaps

Quiet(s) ==
  /\ con[s].pc = "down" => buf[s] = {} /\ out[s] = {} /\ con[s].strays = {}
  /\ con[s].pc # "down" /\ stage[s] \in {"jobs", "teardown", "flush", "stuck"} =>
       con[s].pc = "idle" /\ ~con[s].member /\ ~con[s].running
  /\ con[s].pc # "down" /\ stage[s] = "queue" => ~con[s].running

Covered(s) ==
  /\ 1..con[s].at \subseteq Kept
  /\ con[s].pc = "group" => (con[s].at + 1..con[s].to) \ con[s].left \subseteq Kept

SInv ==
  /\ IInv /\ ServerTypes
  /\ \A s \in Servers : Quiet(s)
  /\ 1..committed \subseteq Kept
  /\ \A s \in Servers : Covered(s)

USE MishapsAssumption

(* Initially every server is off and nothing is committed. *)
LEMMA ServerInitInv == ServerInit => SInv
<1> SUFFICES ASSUME ServerInit PROVE SInv
  OBVIOUS
<1>1. IInv /\ committed = 0
  BY InitInv DEF ServerInit, Init
<1>2. ServerTypes
  BY DEF ServerInit, ServerTypes, Stages
<1>3. \A s \in Servers : con[s].pc = "down" /\ con[s].at = 0
  BY DEF ServerInit, Init, Down
<1>4. \A s \in Servers : Quiet(s) /\ Covered(s)
  BY <1>3 DEF Quiet, Covered, ServerInit, Init, Down
<1> QED BY <1>1, <1>2, <1>4 DEF SInv

(* What a step may do to a consumer, as far as accounting goes. *)
Moves(c, d) ==
  \/ d.pc # "group" /\ d.at \in {c.at, 0, committed}
  \/ d.pc # "group" /\ c.pc = "group" /\ c.left = {} /\ d.at = c.to
  \/ d.pc = "group" /\ d.left = d.at + 1..d.to /\ d.at = c.at
  \/ d.pc = "group" /\ c.pc = "group" /\ d.at = c.at /\ d.to = c.to /\ d.left \subseteq c.left

LEMMA AllMove ==
  ASSUME IInv, NEW s \in Servers, [Next]_vars PROVE Moves(con[s], con'[s])
<1>1. con \in [Servers -> Consumers] /\ con[s] \in Consumers
  BY DEF IInv, Types
<1>2. CASE con'[s] = con[s]
  BY <1>2 DEF Moves
<1>3. CASE UNCHANGED vars \/ Evict
  BY <1>2, <1>3 DEF vars, Evict
<1>4. ASSUME NEW r \in Servers, r # s, Step(r) PROVE con'[s] = con[s]
  BY <1>1, <1>4, OthersStay
<1>5. CASE Join(s) \/ LearnEvicted(s) \/ Leave(s) \/ Fetch(s) \/ Bail(s)
  BY <1>1, <1>5 DEF Join, LearnEvicted, Leave, Fetch, Bail, Consumers, Moves
<1>6. CASE StartServer(s) \/ Quit(s) \/ Crash(s)
  <2>1. /\ Down.pc # "group" /\ Down.at = 0
        /\ [Down EXCEPT !.pc = "idle", !.running = TRUE].pc # "group"
        /\ [Down EXCEPT !.pc = "idle", !.running = TRUE].at = 0
    BY DEF Down
  <2>2. con'[s] \in {Down, [Down EXCEPT !.pc = "idle", !.running = TRUE]}
    BY <1>1, <1>6 DEF StartServer, Quit, Crash, Exit
  <2> QED BY <2>1, <2>2 DEF Moves
<1>7. CASE Stop(s) \/ Commit(s) \/ (\E t \in con[s].strays : SettleStray(s, t))
  <2>1. /\ con'[s].pc = con[s].pc /\ con'[s].at = con[s].at /\ con'[s].to = con[s].to
        /\ con'[s].left = con[s].left
    BY <1>1, <1>7 DEF Stop, Commit, SettleStray, Consumers
  <2> QED BY <2>1 DEF Moves
<1>8. CASE \E o \in Offsets : Settle(s, o)
  <2>1. con[s].pc = "group"
    BY <1>8, Server DEF Settle, Sound
  <2>2. /\ con'[s].pc = con[s].pc /\ con'[s].at = con[s].at /\ con'[s].to = con[s].to
        /\ con'[s].left \subseteq con[s].left
    BY <1>1, <1>8 DEF Settle, Consumers
  <2> QED BY <2>1, <2>2 DEF Moves
<1>9. CASE StartGroup(s) \/ (\E D \in SUBSET con[s].left : ThreadDies(s, D))
  <2>1. CASE StartGroup(s)
    <3>1. PICK b \in Offsets : con' = [con EXCEPT ![s].pc = "group", ![s].to = b, ![s].left = con[s].at + 1..b]
      BY <2>1 DEF StartGroup
    <3>2. /\ con'[s].pc = "group" /\ con'[s].to = b /\ con'[s].left = con[s].at + 1..b
          /\ con'[s].at = con[s].at
      BY <1>1, <3>1 DEF Consumers
    <3> QED BY <3>2 DEF Moves
  <2>2. CASE \E D \in SUBSET con[s].left : ThreadDies(s, D)
    BY <1>1, <2>2 DEF ThreadDies, Consumers, Moves
  <2> QED BY <1>9, <2>1, <2>2
<1>10. CASE FinishGroup(s)
  <2>1. con'[s].pc # "group" /\ con'[s].at = con[s].to
    BY <1>1, <1>10 DEF FinishGroup, Consumers
  <2> QED BY <1>10, <2>1 DEF FinishGroup, Moves
<1> QED BY <1>2, <1>3, <1>4, <1>5, <1>6, <1>7, <1>8, <1>9, <1>10 DEF Next, Step

(* What a step may do to the committed offset. *)
LEMMA CommitMoves ==
  ASSUME IInv, [Next]_vars
  PROVE \/ committed' = committed
        \/ \E s \in Servers : committed' = con[s].at
        \/ \E s \in Servers : con[s].pc = "group" /\ con[s].left = {} /\ committed' = con[s].to
<1>1. CASE UNCHANGED vars \/ Evict
  BY <1>1 DEF vars, Evict
<1>2. ASSUME NEW s \in Servers, Step(s)
      PROVE  \/ committed' = committed \/ committed' = con[s].at
             \/ con[s].pc = "group" /\ con[s].left = {} /\ committed' = con[s].to
  <2>1. CASE FinishGroup(s)
    BY <2>1 DEF FinishGroup
  <2>2. CASE Join(s) \/ LearnEvicted(s) \/ Commit(s) \/ StartServer(s) \/ Leave(s) \/ Stop(s)
    BY <2>2 DEF Join, LearnEvicted, Commit, StartServer, Leave, Stop
  <2>3. CASE Quit(s) \/ Crash(s) \/ Fetch(s) \/ Bail(s) \/ StartGroup(s)
    BY <2>3 DEF Quit, Crash, Exit, Fetch, Bail, StartGroup
  <2>4. CASE \E o \in Offsets : Settle(s, o)
    BY <2>4 DEF Settle
  <2>5. CASE \E t \in con[s].strays : SettleStray(s, t)
    BY <2>5 DEF SettleStray
  <2>6. CASE \E D \in SUBSET con[s].left : ThreadDies(s, D)
    BY <2>6 DEF ThreadDies
  <2> QED BY <1>2, <2>1, <2>2, <2>3, <2>4, <2>5, <2>6 DEF Step
<1> QED BY <1>1, <1>2 DEF Next

(* If a step loses nothing that was kept, and keeps what it settles, everything *)
(* that must be covered still is.                                               *)
LEMMA StillCovered ==
  ASSUME SInv, [Next]_vars, Kept \subseteq Kept',
         \A s \in Servers : con[s].pc = "group" /\ con'[s].pc = "group" =>
                              con[s].left \ con'[s].left \subseteq Kept'
  PROVE 1..committed' \subseteq Kept' /\ \A s \in Servers : Covered(s)'
<1>1. \A s \in Servers : con[s] \in Consumers /\ con[s].at \in 0..N /\ con[s].to \in 0..N
  BY Server DEF SInv, Consumers
<1>2. \A s \in Servers : con[s].pc = "group" /\ con[s].left = {} => 1..con[s].to \subseteq Kept
  BY <1>1 DEF SInv, Covered
<1>3. 1..committed' \subseteq Kept'
  BY <1>2, CommitMoves DEF SInv, Covered
<1>4. ASSUME NEW s \in Servers PROVE Covered(s)'
  <2>1. Moves(con[s], con'[s])
    BY AllMove DEF SInv
  <2>2. CASE con'[s].pc # "group"
    BY <1>2, <2>1, <2>2 DEF SInv, Covered, Moves
  <2>3. CASE con'[s].pc = "group" /\ con'[s].left = con'[s].at + 1..con'[s].to /\ con'[s].at = con[s].at
    BY <2>3 DEF SInv, Covered
  <2>4. CASE /\ con'[s].pc = "group" /\ con[s].pc = "group" /\ con'[s].at = con[s].at
             /\ con'[s].to = con[s].to /\ con'[s].left \subseteq con[s].left
    <3>1. (con[s].at + 1..con[s].to) \ con[s].left \subseteq Kept /\ 1..con[s].at \subseteq Kept
      BY <2>4 DEF SInv, Covered
    <3>2. con[s].left \ con'[s].left \subseteq Kept'
      BY <2>4
    <3> QED BY <2>4, <3>1, <3>2 DEF Covered
  <2> QED BY <2>1, <2>2, <2>3, <2>4 DEF Moves
<1> QED BY <1>3, <1>4

----------------------------------------------------------------------------
(* The steps of a server *)

(* Only an answer takes a message out of a group that goes on. *)
LEMMA Unanswered ==
  ASSUME IInv, NEW s \in Servers, NEW r \in Servers,
         \/ Join(r) \/ LearnEvicted(r) \/ Commit(r) \/ StartServer(r) \/ Leave(r) \/ Stop(r) \/ Quit(r) \/ Crash(r)
         \/ Fetch(r) \/ Bail(r) \/ StartGroup(r) \/ FinishGroup(r)
         \/ (\E t \in con[r].strays : SettleStray(r, t)) \/ (\E D \in SUBSET con[r].left : ThreadDies(r, D)),
         con[s].pc = "group", con'[s].pc = "group"
  PROVE con'[s].left = con[s].left
<1>1. con \in [Servers -> Consumers] /\ con[s] \in Consumers
  BY DEF IInv, Types
<1>2. CASE r # s
  BY <1>1, <1>2 DEF Join, LearnEvicted, Commit, StartServer, Leave, Stop, Quit, Crash, Exit, Fetch, Bail,
                    StartGroup, FinishGroup, SettleStray, ThreadDies
<1>3. CASE r = s
  <2>1. Down.pc # "group" /\ [Down EXCEPT !.pc = "idle", !.running = TRUE].pc # "group"
    BY DEF Down
  <2>2. ~StartServer(s) /\ ~Quit(s) /\ ~Crash(s)
    BY <1>1, <2>1 DEF StartServer, Quit, Crash, Exit
  <2>3. CASE Join(s) \/ LearnEvicted(s) \/ Leave(s) \/ Fetch(s) \/ Bail(s) \/ StartGroup(s)
    BY <2>3 DEF Join, LearnEvicted, Leave, Fetch, Bail, StartGroup
  <2>4. CASE Commit(s) \/ Stop(s) \/ (\E t \in con[s].strays : SettleStray(s, t))
    BY <1>1, <2>4 DEF Commit, Stop, SettleStray, Consumers
  <2>5. ~FinishGroup(s) /\ \A D \in SUBSET con[s].left : ~ThreadDies(s, D)
    BY <1>1 DEF FinishGroup, ThreadDies, Consumers
  <2> QED BY <1>3, <2>2, <2>3, <2>4, <2>5
<1> QED BY <1>2, <1>3

(* What has to be shown of a step. *)
Safely ==
  /\ ServerTypes' /\ Kept \subseteq Kept'
  /\ \A s \in Servers : Quiet(s)'
  /\ \A s \in Servers : con[s].pc = "group" /\ con'[s].pc = "group" =>
                          con[s].left \ con'[s].left \subseteq Kept'

(* The facts about one server, for citing. *)
LEMMA Threads ==
  ASSUME SInv, NEW s \in Servers
  PROVE /\ con \in [Servers -> Consumers] /\ con[s] \in Consumers /\ Sound(con[s]) /\ Quiet(s)
        /\ buf[s] \subseteq Offsets /\ out[s] \subseteq Offsets /\ ServerTypes
BY DEF SInv, ServerTypes, IInv, Types

(* Producers: messages move on, or become casualties. *)
LEMMA ProducerSafe ==
  ASSUME SInv, NEW s \in Servers, NEW B \in SUBSET (buf[s] \cup out[s]),
         Flush(s, B) \/ Delivered(s, B) \/ SendFails(s, B)
  PROVE Safely
<1>1. con' = con /\ stage' = stage /\ signals' = signals
  BY DEF Flush, Delivered, SendFails, vars
<1>2. \A r \in Servers : con[r].pc = "down" => buf'[r] = {} /\ out'[r] = {}
  BY Threads DEF Flush, Delivered, SendFails, Quiet, ServerTypes
<1>3. \A r \in Servers : Quiet(r)'
  BY <1>1, <1>2, Threads DEF Quiet
<1>4. ServerTypes'
  BY <1>1, Threads DEF Flush, Delivered, SendFails, ServerTypes, Mishap
<1>5. Kept \subseteq Kept'
  <2>1. \A r \in Servers : Held(r) \subseteq Held(r)' \cup safe' \cup casualties'
    BY <1>1, Threads DEF Held, Flush, Delivered, SendFails, ServerTypes
  <2>2. safe \subseteq safe' /\ casualties \subseteq casualties'
    BY DEF Flush, Delivered, SendFails
  <2> QED BY <2>1, <2>2 DEF Kept
<1> QED BY <1>1, <1>3, <1>4, <1>5 DEF Safely

(* The process: shutdown and start. *)
LEMMA StageSafe ==
  ASSUME SInv, NEW s \in Servers,
         Launch(s) \/ FirstSignal(s) \/ QueueStopped(s) \/ ServicesStopped(s) \/ TornDown(s) \/ Finish(s)
  PROVE Safely
<1>1. /\ stage' = [stage EXCEPT ![s] = stage'[s]] /\ stage'[s] \in Stages
      /\ \A r \in Servers \ {s} : stage'[r] = stage[r] /\ con'[r] = con[r]
  BY Threads DEF Launch, FirstSignal, QueueStopped, ServicesStopped, TornDown, Finish, ServerTypes, Stages,
                 StartServer, Stop, Quit, Exit, vars
<1>2. /\ safe' = safe /\ casualties' = casualties
      /\ buf' = [buf EXCEPT ![s] = buf'[s]] /\ out' = [out EXCEPT ![s] = out'[s]]
      /\ buf'[s] \subseteq Offsets /\ out'[s] \subseteq Offsets
      /\ signals' \in [Servers -> 0..2] /\ mishaps' \in 0..MaxMishaps
  BY Threads DEF Launch, FirstSignal, QueueStopped, ServicesStopped, TornDown, Finish, ServerTypes, threads, Mishap
<1>3. ServerTypes'
  BY <1>1, <1>2, Threads DEF ServerTypes
<1>4. Held(s) \subseteq Held(s)'
  BY Threads DEF Held, Launch, FirstSignal, QueueStopped, ServicesStopped, TornDown, Finish, ServerTypes, threads
<1>5. \A r \in Servers \ {s} : Held(r)' = Held(r)
  BY <1>1, <1>2, Threads DEF Held, ServerTypes
<1>6. Kept \subseteq Kept'
  BY <1>2, <1>4, <1>5 DEF Kept
<1>7. \A r \in Servers \ {s} : Quiet(r)'
  BY <1>1, <1>2, Threads DEF Quiet, ServerTypes
<1>8. Quiet(s)'
  <2>1. CASE Launch(s)
    <3>1. con'[s].pc = "idle" /\ stage'[s] = "serving"
      BY <2>1, Threads DEF Launch, StartServer, Down, ServerTypes
    <3> QED BY <3>1 DEF Quiet
  <2>2. CASE FirstSignal(s)
    <3>1. con'[s].pc = con[s].pc /\ con[s].pc # "down" /\ stage'[s] = "queue" /\ ~con'[s].running
      BY <2>2, Threads DEF FirstSignal, Stop, ServerTypes, Consumers
    <3> QED BY <3>1 DEF Quiet
  <2>3. CASE QueueStopped(s)
    BY <2>3, Threads DEF QueueStopped, Quiet, ServerTypes, threads, vars
  <2>4. CASE ServicesStopped(s)
    BY <2>4, Threads DEF ServicesStopped, Quiet, ServerTypes, threads, vars
  <2>5. CASE TornDown(s)
    BY <2>5, Threads DEF TornDown, Quiet, ServerTypes, vars
  <2>6. CASE Finish(s)
    <3>1. con'[s].pc = "down" /\ con'[s].strays = {} /\ buf'[s] = {} /\ out'[s] = {}
      BY <2>6, Threads DEF Finish, Quit, Exit, Down, ServerTypes
    <3> QED BY <3>1 DEF Quiet
  <2> QED BY <2>1, <2>2, <2>3, <2>4, <2>5, <2>6
<1>9. \A r \in Servers : con[r].pc = "group" /\ con'[r].pc = "group" => con'[r].left = con[r].left
  <2>1. UNCHANGED vars \/ StartServer(s) \/ Stop(s) \/ Quit(s)
    BY DEF Launch, FirstSignal, QueueStopped, ServicesStopped, TornDown, Finish
  <2> QED BY <2>1, Unanswered DEF vars, SInv
<1> QED BY <1>3, <1>6, <1>7, <1>8, <1>9 DEF Safely

(* Ends: what the threads held becomes a casualty. *)
LEMMA EndSafe ==
  ASSUME SInv, NEW s \in Servers, SecondSignal(s) \/ Killed(s) PROVE Safely
<1>0. SuddenEnd(s) /\ signals' \in [Servers -> 0..2]
  BY Threads DEF SecondSignal, Killed, ServerTypes
<1>1. /\ stage' = stage /\ con'[s] = Down /\ \A r \in Servers \ {s} : con'[r] = con[r]
      /\ safe' = safe /\ casualties' = casualties \cup buf[s] \cup out[s] /\ mishaps' = mishaps
      /\ buf' = [buf EXCEPT ![s] = {}] /\ out' = [out EXCEPT ![s] = {}]
  BY <1>0, Threads DEF SuddenEnd, Crash, Exit
<1>2. ServerTypes'
  BY <1>0, <1>1, Threads DEF ServerTypes
<1>3. \A r \in Servers : Held(r) \subseteq Held(r)' \cup casualties'
  BY <1>1, Threads DEF Held, ServerTypes
<1>4. Kept \subseteq Kept'
  BY <1>1, <1>3 DEF Kept
<1>5. \A r \in Servers : Quiet(r)'
  <2>1. Quiet(s)'
    BY <1>1, Threads DEF Quiet, ServerTypes, Down
  <2>2. \A r \in Servers \ {s} : Quiet(r)'
    BY <1>1, Threads DEF Quiet, ServerTypes
  <2> QED BY <2>1, <2>2
<1>6. \A r \in Servers : con[r].pc = "group" /\ con'[r].pc = "group" => con'[r].left = con[r].left
  BY <1>0, Unanswered DEF SuddenEnd, SInv
<1> QED BY <1>2, <1>4, <1>5, <1>6 DEF Safely

(* The consumer: threads and stage are left alone. *)
LEMMA ConsumeSafe ==
  ASSUME SInv, NEW s \in Servers, Consume(s) PROVE Safely
<1>1. /\ stage' = stage /\ signals' = signals /\ mishaps' = mishaps /\ safe' = safe /\ casualties' = casualties
      /\ buf' = buf /\ out' = out
  BY DEF Consume, threads
<1>2. ServerTypes' /\ Kept' = Kept
  <2>1. ServerTypes'
    BY <1>1, Threads DEF ServerTypes
  <2>2. Kept' = Kept
    BY <1>1 DEF Kept, Held
  <2> QED BY <2>1, <2>2
<1>3. \A r \in Servers \ {s} : con'[r] = con[r]
  BY Threads DEF Consume, Join, LearnEvicted, Commit, Leave, Fetch, Bail, StartGroup, FinishGroup
<1>4. \A r \in Servers \ {s} : Quiet(r)'
  BY <1>1, <1>3, Threads DEF Quiet
<1>5. Quiet(s)'
  <2>1. \/ con[s].pc # "down" /\ con'[s].pc # "down" /\ con'[s].running = con[s].running
        \/ con'[s] = con[s]
    <3>1. CASE Join(s) \/ LearnEvicted(s) \/ Leave(s) \/ Commit(s)
      BY <3>1, Threads DEF Join, LearnEvicted, Commit, Leave, Consumers
    <3>2. CASE Fetch(s) \/ Bail(s)
      BY <3>2, Threads DEF Fetch, Bail, Consumers
    <3>4. CASE StartGroup(s)
      <4>1. PICK b \in Offsets : con' = [con EXCEPT ![s].pc = "group", ![s].to = b, ![s].left = con[s].at + 1..b]
        BY <3>4 DEF StartGroup
      <4>2. con'[s].pc = "group" /\ con'[s].running = con[s].running
        BY <4>1, Threads DEF Consumers
      <4> QED BY <3>4, <4>2 DEF StartGroup
    <3>3. CASE FinishGroup(s)
      BY <3>3, Threads DEF FinishGroup, Consumers
    <3> QED BY <3>1, <3>2, <3>3, <3>4 DEF Consume
  <2>2. CASE con'[s] = con[s]
    BY <1>1, <2>2, Threads DEF Quiet
  <2>3. CASE con[s].pc = "idle" /\ ~con[s].member /\ ~con[s].running
    BY <1>1, <2>2, <2>3, Threads DEF Consume, Join, LearnEvicted, Commit, Leave, Fetch, Bail, StartGroup, FinishGroup, Quiet
  <2> QED BY <1>1, <2>1, <2>2, <2>3, Threads DEF Quiet
<1>6. \A r \in Servers : con[r].pc = "group" /\ con'[r].pc = "group" => con'[r].left = con[r].left
  BY Unanswered DEF Consume, SInv
<1> QED BY <1>2, <1>4, <1>5, <1>6 DEF Safely

(* Tasks: what is answered is kept, what dies with a thread is a casualty. *)
LEMMA AnswerSafe ==
  ASSUME SInv, NEW s \in Servers,
         \/ \E o \in Offsets : Answer(s, o)
         \/ \E t \in con[s].strays : AnswerStray(s, t)
         \/ \E D \in SUBSET con[s].left : ThreadEnds(s, D)
  PROVE Safely
<1>1. /\ stage' = stage /\ signals' = signals
      /\ \A r \in Servers \ {s} : con'[r] = con[r]
      /\ con'[s].running = con[s].running /\ con'[s].member = con[s].member
      /\ con[s].pc # "down" /\ (con'[s].pc = con[s].pc \/ con'[s].pc = "idle")
  <2>1. CASE \E o \in Offsets : Answer(s, o)
    BY <2>1, Threads DEF Answer, Settle, Consumers, Sound
  <2>2. CASE \E t \in con[s].strays : AnswerStray(s, t)
    BY <2>2, Threads DEF AnswerStray, SettleStray, Consumers, Quiet
  <2>3. CASE \E D \in SUBSET con[s].left : ThreadEnds(s, D)
    <3>1. PICK D \in SUBSET con[s].left : ThreadEnds(s, D)
      BY <2>3
    <3>2. con[s].pc = "group"
      BY <3>1, Threads DEF ThreadEnds, ThreadDies, Sound
    <3>3. con \in [Servers -> Consumers]
      BY Threads
    <3>4. /\ con'[s].pc = "idle" /\ con'[s].running = con[s].running
          /\ con'[s].member = con[s].member /\ \A r \in Servers \ {s} : con'[r] = con[r]
      <4> DEFINE strays == con[s].strays \cup ((con[s].left \ D) \X {faults'})
      <4>1. con' = [con EXCEPT ![s].pc = "idle", ![s].hi = 0, ![s].to = 0, ![s].left = {},
                               ![s].strays = strays]
        BY <3>1 DEF ThreadEnds, ThreadDies
      <4> HIDE DEF strays
      <4> QED BY <3>3, <4>1 DEF Consumers
    <3> QED BY <3>1, <3>2, <3>4 DEF ThreadEnds
  <2> QED BY <2>1, <2>2, <2>3
<1>2. \A o \in Offsets : Leaves(s, o) => ServerTypes'
  BY <1>1, Threads DEF Leaves, ServerTypes, Mishap
<1>3. \A o \in Offsets : Leaves(s, o) =>
        /\ Kept \subseteq Kept' /\ (stage[s] # "flush" => o \in Kept')
        /\ \A r \in Servers \ {s} : buf'[r] = buf[r] /\ out'[r] = out[r]
  <2> SUFFICES ASSUME NEW o \in Offsets, Leaves(s, o)
               PROVE /\ Kept \subseteq Kept' /\ (stage[s] # "flush" => o \in Kept')
                     /\ \A r \in Servers \ {s} : buf'[r] = buf[r] /\ out'[r] = out[r]
    OBVIOUS
  <2>1. \A r \in Servers : Held(r) \subseteq Held(r)'
    BY <1>1, Threads DEF Held, Leaves, ServerTypes
  <2>2. /\ safe \subseteq safe' /\ casualties \subseteq casualties'
        /\ stage[s] # "flush" => o \in Held(s)' \cup safe' \cup casualties'
        /\ \A r \in Servers \ {s} : buf'[r] = buf[r] /\ out'[r] = out[r]
    BY <1>1, Threads DEF Held, Leaves, ServerTypes
  <2> QED BY <2>1, <2>2 DEF Kept
<1>4. ServerTypes' /\ Kept \subseteq Kept' /\ \A r \in Servers \ {s} : buf'[r] = buf[r] /\ out'[r] = out[r]
  <2>1. \A t \in con[s].strays : t[1] \in Offsets
    BY Threads DEF Consumers
  <2>2. CASE (\E o \in Offsets : Answer(s, o)) \/ (\E t \in con[s].strays : AnswerStray(s, t))
    BY <1>2, <1>3, <2>1, <2>2 DEF Answer, AnswerStray
  <2>3. ASSUME NEW D \in SUBSET con[s].left, ThreadEnds(s, D)
        PROVE ServerTypes' /\ Kept \subseteq Kept' /\ \A r \in Servers \ {s} : buf'[r] = buf[r] /\ out'[r] = out[r]
    <3>1. PICK H \in SUBSET (buf[s] \cup out[s]) :
            /\ buf' = [buf EXCEPT ![s] = @ \ H] /\ out' = [out EXCEPT ![s] = @ \ H]
            /\ casualties' = casualties \cup H
      BY <2>3 DEF ThreadEnds
    <3>2. safe' = safe /\ mishaps' = mishaps
      BY <2>3 DEF ThreadEnds
    <3>3. ServerTypes'
      BY <1>1, <3>1, <3>2, Threads DEF ServerTypes
    <3>4. \A r \in Servers : Held(r) \subseteq Held(r)' \cup casualties'
      BY <1>1, <3>1, Threads DEF Held, ServerTypes
    <3>5. Kept \subseteq Kept'
      BY <3>1, <3>2, <3>4 DEF Kept
    <3> QED BY <3>1, <3>3, <3>5, Threads DEF ServerTypes
  <2> QED BY <2>2, <2>3
<1>5. \A r \in Servers : Quiet(r)'
  <2>1. \A r \in Servers \ {s} : Quiet(r)'
    BY <1>1, <1>4, Threads DEF Quiet
  <2>2. con'[s].pc # "down"
    BY <1>1
  <2> QED BY <1>1, <2>1, <2>2, Threads DEF Quiet
<1>6. \A r \in Servers : con[r].pc = "group" /\ con'[r].pc = "group" => con[r].left \ con'[r].left \subseteq Kept'
  <2>1. ASSUME NEW o \in Offsets, Answer(s, o), NEW r \in Servers
        PROVE con[r].left \ con'[r].left \subseteq Kept'
    <3>1. con[r].left \ con'[r].left \subseteq {o}
      BY <1>1, <2>1, Threads DEF Answer, Settle, Consumers
    <3>2. stage[s] # "flush"
      BY <2>1, Threads DEF Answer, Settle, Sound, Quiet
    <3> QED BY <1>3, <2>1, <3>1, <3>2 DEF Answer
  <2>2. CASE (\E t \in con[s].strays : AnswerStray(s, t)) \/ (\E D \in SUBSET con[s].left : ThreadEnds(s, D))
    BY <2>2, Unanswered DEF AnswerStray, ThreadEnds, SInv
  <2> QED BY <2>1, <2>2
<1> QED BY <1>4, <1>5, <1>6 DEF Safely

(* Every step of the composition keeps the invariant. *)
LEMMA ServerStepInv == SInv /\ [ServerNext]_svars => SInv'
<1> SUFFICES ASSUME SInv, [ServerNext]_svars PROVE SInv'
  OBVIOUS
<1>1. [Next]_vars /\ IInv'
  BY ConsumerStep, StepInv DEF SInv
<1>2. Safely
  <2>1. CASE UNCHANGED svars
    BY <2>1 DEF svars, vars, threads, Safely, SInv, ServerTypes, Quiet, Kept, Held
  <2>2. CASE Evict /\ UNCHANGED <<stage, signals, threads, mishaps>>
    BY <2>2 DEF Evict, threads, Safely, SInv, ServerTypes, Quiet, Kept, Held
  <2>3. ASSUME NEW s \in Servers, ServerStep(s) PROVE Safely
    BY <2>3, ProducerSafe, StageSafe, EndSafe, ConsumeSafe, AnswerSafe DEF ServerStep
  <2> QED BY <2>1, <2>2, <2>3 DEF ServerNext
<1>3. 1..committed' \subseteq Kept' /\ \A s \in Servers : Covered(s)'
  BY <1>1, <1>2, StillCovered DEF Safely
<1> QED BY <1>1, <1>2, <1>3 DEF SInv, Safely

(* The inductive invariant of the composition holds of every reachable state. *)
THEOREM ServerInvariant == ServerSpec => []SInv
BY ServerInitInv, ServerStepInv, PTL DEF ServerSpec

(* The composition is correctly typed, a stopped queue has no batch in hand, and *)
(* a process that has gone holds nothing.                                        *)
THEOREM ServerTypeCorrect == ServerSpec => []ServerTypeOK
<1>1. SInv => ServerTypeOK
  <2> SUFFICES ASSUME SInv PROVE ServerTypeOK
    OBVIOUS
  <2>1. TypeOK
    BY DEF SInv, IInv, Types, TypeOK, Sound
  <2> QED BY <2>1 DEF SInv, ServerTypes, Quiet, ServerTypeOK
<1> QED BY <1>1, ServerInvariant, PTL

(* Every message whose offset was committed is safe, or on its way in a live *)
(* process, or was hit by a fault itself.                                    *)
THEOREM ServerAccounts == ServerSpec => []CommittedIsAccountedFor
<1>1. SInv => CommittedIsAccountedFor
  BY DEF SInv, Kept, Held, CommittedIsAccountedFor, InThreads
<1> QED BY <1>1, ServerInvariant, PTL

=============================================================================
