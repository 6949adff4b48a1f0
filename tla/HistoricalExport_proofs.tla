---------------------- MODULE HistoricalExport_proofs ----------------------
(***************************************************************************)
(* No chunk is exported twice, no interval is passed that nobody took, and *)
(* an undisturbed export misses nothing, whatever the intervals, their     *)
(* chunks, the threads, the exports and the faults.                        *)
(*                                                                         *)
(* The first rests on the cursor: of the jobs begun since it was set, two  *)
(* never hold the same interval, and what a job has still to export nobody *)
(* has exported.  The third on the phases an undisturbed export goes       *)
(* through: it is set up by one user, then one chain is at work and has    *)
(* exported all that lies before its place, then it is over.  The second   *)
(* only on batches having one owner each, and on jobs that come to an      *)
(* interval by moving the cursor on to it.                                 *)
(***************************************************************************)
EXTENDS HistoricalExport, TLAPS

JobPcs  == {"none", "queued", "due", "placed", "ended"}
UserPcs == {"new", "starting", "claimed", "cleared", "begun", "initialised", "numbered", "ended"}
DogPcs  == {"idle", "content", "alarmed", "replacing"}
Places  == Threads \cup {"none"}

Jobs == [pc : JobPcs, id : Nat, at : Nat, offset : Nat, inc : BOOLEAN, on : Places,
         ours : BOOLEAN]
Users == [pc : UserPcs, on : Places, batch : 0..MaxBatch]
Dogs  == [pc : DogPcs, seen : Nat, batch : 0..MaxBatch]

Types ==
  /\ running \in BOOLEAN /\ cursor \in Nat /\ old \in Nat /\ last \in Nat
  /\ batchId \in 0..MaxBatch /\ recent \in BOOLEAN
  /\ maxSeen \in [Threads -> Nat]
  /\ job \in [Batches -> Jobs]
  /\ user \in [Exports -> Users]
  /\ dog \in Dogs
  /\ exported \in [Chunks -> Nat]
  /\ disturbed \in BOOLEAN /\ faults \in Nat

(* What a job has still to export of its interval. *)
Ahead(b, c) == c[1] = job[b].at /\ c[2] >= job[b].offset

(* No interval is held twice, and nobody exported what lies ahead of the cursor or *)
(* of a job.  It holds while duplicates are excused only from the next export on. *)
Held ==
  /\ \A b \in Batches : Holds(b) => job[b].at <= cursor
  /\ \A a, b \in Batches : Holds(a) /\ Holds(b) /\ job[a].at = job[b].at => a = b
  /\ \A c \in Chunks : c[1] > cursor => exported[c] = 0
  /\ \A b \in Batches, c \in Chunks : Holds(b) /\ Ahead(b, c) => exported[c] = 0
  /\ NoChunkTwice

(* An interface job between its writes to storage. *)
Settling == {"cleared", "begun", "initialised", "numbered"}

(* The phases of an undisturbed export: not begun, ... *)
Fresh ==
  /\ last = 0 /\ AtWork = {}
  /\ \A x \in Exports : user[x].pc \notin Settling

(* ... set up by one user, ... *)
SettingUp(x) ==
  /\ running /\ AtWork = {}
  /\ \A y \in Exports \ {x} : user[y].pc \in {"new", "ended"}
  /\ \/ user[x].pc = "cleared" /\ cursor = 0 /\ last = 0
     \/ user[x].pc = "begun" /\ cursor = 2 /\ last = 0
     \/ user[x].pc = "initialised" /\ cursor = 2 /\ last = DateTo[x]
     \/ user[x].pc = "numbered" /\ cursor = 2 /\ last = DateTo[x]
          /\ user[x].batch = batchId /\ batchId \in Batches

(* All that lies before the chain's place has been exported. *)
Reached(b) ==
  \A c \in Chunks : c[1] <= last =>
    /\ c[1] < cursor => exported[c] >= 1
    /\ c[1] = cursor /\ (Holds(b) => c[2] < job[b].offset) => exported[c] >= 1

(* ... exported by one chain, the one of the current batch, ... *)
ChainAtWork(b) ==
  /\ running /\ AtWork = {b} /\ b = batchId /\ job[b].id = b /\ job[b].ours
  /\ \A x \in Exports : user[x].pc \in {"new", "ended"}
  /\ cursor >= 1 /\ (Holds(b) => job[b].at = cursor)
  /\ job[b].pc \in {"due", "placed"} => job[b].on \in Threads /\ maxSeen[job[b].on] = last
  /\ Reached(b)

(* ... and over, with every chunk exported. *)
Finished ==
  /\ cursor > last /\ AtWork = {}
  /\ \A x \in Exports : user[x].pc \notin Settling
  /\ \A c \in Chunks : c[1] <= last => exported[c] >= 1

Phases ==
  ~disturbed =>
    /\ dog.pc # "replacing"
    /\ \/ Fresh \/ Finished
       \/ \E x \in Exports : SettingUp(x)
       \/ \E b \in Batches : ChainAtWork(b)

(* A batch without a job, which holds nothing. *)
Idle(b) == job[b].pc \in {"none", "ended"} /\ ~job[b].ours

(* A batch's number is with one agent until its job is enqueued. *)
Numbered ==
  /\ \A b \in Batches : b > batchId => Idle(b)
  /\ \A x \in Exports : user[x].pc = "numbered" =>
       user[x].batch \in Batches /\ user[x].batch <= batchId /\ Idle(user[x].batch)
  /\ dog.pc = "replacing" =>
       /\ dog.batch \in Batches /\ dog.batch <= batchId /\ Idle(dog.batch)
       /\ \A x \in Exports : user[x].pc = "numbered" => user[x].batch # dog.batch
  /\ \A x, y \in Exports :
       /\ user[x].pc = "numbered" /\ user[y].pc = "numbered" /\ user[x].batch = user[y].batch
       => x = y

(* A job that is to take an interval has none; one that waits is on no thread. *)
Placeless ==
  \A b \in Batches :
    /\ job[b].pc = "due" \/ (job[b].pc = "queued" /\ job[b].inc) => job[b].at = 0
    /\ job[b].on # "none" => job[b].pc \in {"due", "placed"}

----------------------------------------------------------------------------
(* A chunk is an interval and a number below that interval's chunks. *)
LEMMA ChunkIsPair ==
  /\ \A c \in Chunks : /\ c = <<c[1], c[2]>> /\ c[1] \in Intervals /\ c[1] >= 3
                       /\ c[2] \in Nat /\ c[2] < ChunksIn[c[1]]
  /\ \A i \in Intervals, k \in Nat : k < ChunksIn[i] => <<i, k>> \in Chunks
  /\ \A i \in Nat, k \in Nat : <<i, k>> \in Chunks => i \in Intervals /\ k < ChunksIn[i]
BY HistoricalAssumption DEF Chunks, Intervals

(* So chunks below one that is none of an interval are all there are. *)
LEMMA NothingAfter ==
  ASSUME NEW i \in Nat, NEW k \in Nat, <<i, k>> \notin Chunks,
         NEW c \in Chunks, c[1] = i
  PROVE  c[2] < k
BY ChunkIsPair, HistoricalAssumption DEF Intervals

(* What single assignments make of a job, a user's job and the watchdog. *)
LEMMA JobFields ==
  /\ \A j \in Jobs, pc \in JobPcs : [j EXCEPT !.pc = pc] \in Jobs
  /\ \A j \in Jobs, pc \in JobPcs, t \in Places : [j EXCEPT !.pc = pc, !.on = t] \in Jobs
  /\ \A j \in Jobs, i \in Nat :
       [j EXCEPT !.pc = "placed", !.at = i, !.offset = 0, !.ours = TRUE] \in Jobs
  /\ \A j \in Jobs, n \in Nat, t \in Places :
       [j EXCEPT !.pc = "queued", !.inc = FALSE, !.offset = n, !.on = t] \in Jobs
  /\ \A j \in Jobs, n \in BOOLEAN : [j EXCEPT !.ours = n] \in Jobs
<1> USE DEF Jobs
<1>1. \A j \in Jobs, pc \in JobPcs : [j EXCEPT !.pc = pc] \in Jobs
  OBVIOUS
<1>2. \A j \in Jobs, pc \in JobPcs, t \in Places : [j EXCEPT !.pc = pc, !.on = t] \in Jobs
  OBVIOUS
<1>3. \A j \in Jobs, i \in Nat :
        [j EXCEPT !.pc = "placed", !.at = i, !.offset = 0, !.ours = TRUE] \in Jobs
  BY DEF JobPcs
<1>4. \A j \in Jobs, n \in Nat, t \in Places :
        [j EXCEPT !.pc = "queued", !.inc = FALSE, !.offset = n, !.on = t] \in Jobs
  BY DEF JobPcs
<1>5. \A j \in Jobs, n \in BOOLEAN : [j EXCEPT !.ours = n] \in Jobs
  OBVIOUS
<1> HIDE DEF Jobs
<1> QED BY <1>1, <1>2, <1>3, <1>4, <1>5

(* The records of interface jobs, field by field. *)
LEMMA UserFields ==
  /\ \A u \in Users, pc \in UserPcs : [u EXCEPT !.pc = pc] \in Users
  /\ \A u \in Users, pc \in UserPcs, t \in Places : [u EXCEPT !.pc = pc, !.on = t] \in Users
  /\ \A u \in Users, pc \in UserPcs, b \in 0..MaxBatch :
       [u EXCEPT !.pc = pc, !.batch = b] \in Users
BY DEF Users

(* What the assumption says of the constants. *)
LEMMA Bounds == MaxBatch \in Nat /\ MaxFaults \in Nat /\ \A x \in Exports : DateTo[x] \in Nat
BY HistoricalAssumption

(* The constant records are of their types. *)
LEMMA Records ==
  /\ NoJob \in Jobs /\ Over \in Jobs
  /\ \A b \in Batches : Queued(b) \in Jobs
  /\ \A b \in Batches, n \in BOOLEAN : [Queued(b) EXCEPT !.ours = n] \in Jobs
  /\ NoUser \in Users /\ Left \in Users
  /\ Asleep \in Dogs
  /\ \A seen \in Nat : /\ [Asleep EXCEPT !.pc = "alarmed", !.seen = seen] \in Dogs
                       /\ [Asleep EXCEPT !.pc = "content", !.seen = seen] \in Dogs
  /\ \A d \in Dogs, b \in 0..MaxBatch : [d EXCEPT !.pc = "replacing", !.batch = b] \in Dogs
<1> USE Bounds
<1>1. NoJob \in Jobs /\ \A b \in Batches : Queued(b) \in Jobs
  BY DEF Queued, NoJob, Jobs, JobPcs, Places, Batches
<1>2. Over \in Jobs
  BY <1>1, JobFields, "ended" \in JobPcs DEF Over, JobPcs
<1>a. \A b \in Batches, n \in BOOLEAN : [Queued(b) EXCEPT !.ours = n] \in Jobs
  BY <1>1, JobFields
<1>3. NoUser \in Users /\ Asleep \in Dogs
  BY DEF NoUser, Users, UserPcs, Places, Asleep, Dogs, DogPcs
<1>4. Left \in Users
  BY <1>3, UserFields, "ended" \in UserPcs DEF Left, UserPcs
<1>5. \A seen \in Nat : /\ [Asleep EXCEPT !.pc = "alarmed", !.seen = seen] \in Dogs
                        /\ [Asleep EXCEPT !.pc = "content", !.seen = seen] \in Dogs
  BY <1>3 DEF Dogs, DogPcs
<1>6. \A d \in Dogs, b \in 0..MaxBatch : [d EXCEPT !.pc = "replacing", !.batch = b] \in Dogs
  BY DEF Dogs, DogPcs
<1> QED BY <1>1, <1>2, <1>3, <1>4, <1>5, <1>6, <1>a

(* What is left of a chain keeps its place if it had one. *)
LEMMA EndedIs ==
  ASSUME Types, NEW b \in Batches
  PROVE  /\ Ended(b) \in Jobs /\ Ended(b).pc = "ended" /\ Ended(b).on = "none"
         /\ Holds(b) => /\ Ended(b).ours /\ Ended(b).at = job[b].at
                        /\ Ended(b).offset = job[b].offset
         /\ ~Holds(b) => ~Ended(b).ours
<1>1. job[b] \in Jobs
  BY DEF Types
<1>2. Over \in Jobs /\ Over.pc = "ended" /\ Over.on = "none" /\ ~Over.ours
  BY Records DEF Over, NoJob
<1>3. ASSUME Holds(b) PROVE Ended(b) = [Over EXCEPT !.at = job[b].at, !.offset = job[b].offset, !.ours = TRUE]
  BY <1>3 DEF Ended
<1>4. ASSUME ~Holds(b) PROVE Ended(b) = Over
  BY <1>4 DEF Ended
<1>5. CASE Holds(b)
  BY <1>1, <1>2, <1>3, <1>5 DEF Jobs
<1>6. CASE ~Holds(b)
  BY <1>2, <1>4, <1>6
<1> QED BY <1>5, <1>6

(* Jobs that lose the cursor go on, and no longer hold an interval of it. *)
LEMMA DisownedIs ==
  ASSUME Types, NEW b \in Batches
  PROVE  /\ Disowned[b] \in Jobs /\ Disowned[b].pc = job[b].pc /\ ~Disowned[b].ours
<1>1. job[b] \in Jobs
  BY DEF Types
<1>2. CASE job[b].pc = "ended"
  BY <1>2, Records DEF Disowned, Over, NoJob
<1>3. CASE job[b].pc # "ended"
  BY <1>1, <1>3, JobFields DEF Disowned, Jobs
<1> QED BY <1>2, <1>3

----------------------------------------------------------------------------
(* Every variable stays in its type. *)
LEMMA TypesInit == Init => Types
<1> SUFFICES ASSUME Init PROVE Types
  OBVIOUS
<1>1. job \in [Batches -> Jobs] /\ user \in [Exports -> Users] /\ dog \in Dogs
  BY Records DEF Init
<1>2. maxSeen \in [Threads -> Nat] /\ exported \in [Chunks -> Nat]
  BY DEF Init
<1>3. 0 \in 0..MaxBatch
  BY Bounds
<1> QED BY <1>1, <1>2, <1>3 DEF Init, Types

(* Counting an export keeps the counts natural numbers. *)
LEMMA CountTyped ==
  ASSUME Types, NEW b \in Batches, Count(b)
  PROVE  exported' \in [Chunks -> Nat]
BY DEF Types, Count

(* A fault is counted. *)
LEMMA Faulty == ASSUME Types, Fault PROVE faults' \in Nat
BY DEF Types, Fault

(* Every step of a job chain keeps the types. *)
LEMMA JobsStep ==
  ASSUME Types, NEW b \in Batches, JobStep(b) \/ FetchFails(b) \/ AsksForRetry(b) \/ ExportFails(b)
  PROVE  Types'
<1>0. job[b] \in Jobs /\ "due" \in JobPcs /\ "placed" \in JobPcs /\ "queued" \in JobPcs
      /\ Threads \subseteq Places
  BY DEF Types, JobPcs, Places
<1>e. ASSUME End(b) PROVE job' \in [Batches -> Jobs]
  BY <1>e, EndedIs DEF End, Types
<1> USE DEF Types
<1>1. ASSUME NEW t \in Threads, Take(b, t) PROVE Types'
  <2>1. job' \in [Batches -> Jobs]
    <3>1. CASE job[b].id = batchId
      <4>1. PICK pc \in JobPcs : job' = [job EXCEPT ![b] = [@ EXCEPT !.pc = pc, !.on = t]]
        BY <1>0, <1>1, <3>1 DEF Take
      <4>2. [job[b] EXCEPT !.pc = pc, !.on = t] \in Jobs
        BY <1>0, JobFields
      <4> QED BY <4>1, <4>2
    <3> QED BY <1>1, <1>e, <3>1 DEF Take
  <2>2. maxSeen' \in [Threads -> Nat] /\ disturbed' \in BOOLEAN
    BY <1>1 DEF Take
  <2> QED BY <1>1, <2>1, <2>2 DEF Take, storage
<1>2. CASE NextInterval(b)
  <2>1. [job[b] EXCEPT !.pc = "placed", !.at = cursor + 1, !.offset = 0, !.ours = TRUE] \in Jobs
    <3>1. cursor + 1 \in Nat
      OBVIOUS
    <3> QED BY <1>0, <3>1, JobFields, Zenon
  <2>2. job' \in [Batches -> Jobs]
    BY <1>2, <2>1 DEF NextInterval
  <2> QED BY <1>2, <2>2 DEF NextInterval
<1>3. CASE Done(b)
  BY <1>3, <1>e DEF Done
<1>4. CASE FetchFails(b)
  BY <1>4, <1>e, Faulty DEF FetchFails
<1>5. CASE Export(b)
  <2>1. exported' \in [Chunks -> Nat]
    BY <1>5, CountTyped DEF Export
  <2>2. job' \in [Batches -> Jobs]
    <3>1. [Queued(b) EXCEPT !.ours = job[b].ours] \in Jobs
      BY <1>0, Records DEF Jobs
    <3>2. job[b].offset + 1 \in Nat /\ "none" \in Places
      BY <1>0 DEF Jobs, Places
    <3>3. [job[b] EXCEPT !.pc = "queued", !.inc = FALSE, !.offset = job[b].offset + 1,
                         !.on = "none"] \in Jobs
      BY <1>0, <3>2, JobFields
    <3> QED BY <1>5, <3>1, <3>3 DEF Export
  <2> QED BY <1>5, <2>1, <2>2 DEF Export, storage
<1>6. CASE AsksForRetry(b)
  <2>1. job' \in [Batches -> Jobs]
    BY <1>0, <1>6 DEF AsksForRetry, Jobs, Places
  <2> QED BY <1>6, <2>1, Faulty DEF AsksForRetry, storage
<1>7. CASE ExportFails(b)
  <2>1. exported' \in [Chunks -> Nat]
    BY <1>7, CountTyped DEF ExportFails
  <2> QED BY <1>7, <1>e, <2>1, Faulty DEF ExportFails, storage
<1> QED BY <1>1, <1>2, <1>3, <1>4, <1>5, <1>6, <1>7 DEF JobStep

(* So does every step of an interface job, ... *)
LEMMA UsersStep ==
  ASSUME Types, NEW x \in Exports,
         UserStep(x) \/ InitThrows(x) \/ \E t \in Threads : StartExport(x, t)
  PROVE  Types'
<1> USE DEF Types
<1>0. user[x] \in Users /\ {"starting", "claimed", "cleared", "begun", "initialised", "numbered"} \subseteq UserPcs
      /\ Threads \subseteq Places
  BY DEF UserPcs, Places
<1>g. ASSUME NEW pc \in UserPcs, UserGoto(x, pc) PROVE user' \in [Exports -> Users]
  BY <1>0, <1>g, UserFields DEF UserGoto
<1>l. ASSUME Leave(x) PROVE user' \in [Exports -> Users]
  BY <1>l, Records DEF Leave
<1>1. CASE Reset(x)
  <2>1. job' \in [Batches -> Jobs]
    BY <1>1, DisownedIs DEF Reset, Disowned
  <2>2. user' \in [Exports -> Users]
    BY <1>0, <1>1, <1>g DEF Reset
  <2>3. maxSeen' \in [Threads -> Nat] /\ exported' \in [Chunks -> Nat] /\ disturbed' \in BOOLEAN
    BY <1>1 DEF Reset, Company
  <2> QED BY <1>1, <2>1, <2>2, <2>3 DEF Reset
<1>2. CASE InitCursor(x) \/ InitLimit(x) \/ Claim(x)
  <2>1. user' \in [Exports -> Users]
    BY <1>0, <1>2, <1>g DEF InitCursor, InitLimit, Claim
  <2>2. CASE InitCursor(x)
    BY <2>1, <2>2 DEF InitCursor
  <2>3. CASE InitLimit(x)
    BY <2>1, <2>3, Bounds DEF InitLimit
  <2>4. CASE Claim(x)
    BY <2>1, <2>4 DEF Claim
  <2> QED BY <1>2, <2>2, <2>3, <2>4
<1>3. CASE NewBatch(x)
  <2>1. batchId + 1 \in 0..MaxBatch
    BY <1>3, Bounds DEF NewBatch
  <2>2. user' \in [Exports -> Users]
    BY <1>0, <1>3, <2>1, UserFields DEF NewBatch
  <2> QED BY <1>3, <2>1, <2>2 DEF NewBatch
<1>4. CASE FirstJob(x)
  <2>1. job' \in [Batches -> Jobs]
    BY <1>4, Records DEF FirstJob, First
  <2> QED BY <1>4, <1>l, <2>1 DEF FirstJob, storage
<1>5. CASE InitThrows(x)
  BY <1>5, <1>l, Faulty DEF InitThrows, storage
<1>6. ASSUME NEW t \in Threads, StartExport(x, t) PROVE Types'
  <2>1. [user[x] EXCEPT !.pc = "starting", !.on = t] \in Users
    BY <1>0, UserFields
  <2>2. user' \in [Exports -> Users]
    BY <1>l, <1>6, <2>1 DEF StartExport
  <2> QED BY <1>6, <2>2 DEF StartExport, storage
<1> QED BY <1>1, <1>2, <1>3, <1>4, <1>5, <1>6 DEF UserStep

(* ... of the watchdog and of a thread that restarts. *)
LEMMA OthersStep ==
  ASSUME Types, DogStep \/ DogIsLate \/ \E t \in Threads : Restart(t)
  PROVE  Types'
<1> USE DEF Types
<1>1. CASE DogLooks
  <2>1. dog' \in Dogs
    BY <1>1, Records DEF DogLooks
  <2> QED BY <1>1, <2>1 DEF DogLooks, storage
<1>2. CASE DogReplaces
  <2>1. batchId + 1 \in 0..MaxBatch
    BY <1>2, Bounds DEF DogReplaces
  <2>2. dog' \in Dogs
    BY <1>2, <2>1, Records DEF DogReplaces
  <2> QED BY <1>2, <2>1, <2>2 DEF DogReplaces
<1>n. ASSUME Noted(dog.seen) PROVE old' \in Nat /\ recent' \in BOOLEAN /\ dog' \in Dogs
  BY <1>n, Records DEF Noted, Dogs
<1>3. CASE DogRestarts
  <2>1. job' \in [Batches -> Jobs]
    BY <1>3, Records DEF DogRestarts, First
  <2> QED BY <1>3, <1>n, <2>1 DEF DogRestarts
<1>4. CASE DogNotes
  BY <1>4, <1>n DEF DogNotes
<1>5. CASE DogIsLate
  BY <1>5, Faulty DEF DogIsLate
<1>6. ASSUME NEW t \in Threads, Restart(t) PROVE Types'
  <2>1. job' \in [Batches -> Jobs]
    BY <1>6, EndedIs DEF Restart
  <2>3. user' \in [Exports -> Users] /\ dog' \in Dogs
    BY <1>6, Records DEF Restart
  <2>2. maxSeen' \in [Threads -> Nat] /\ disturbed' \in BOOLEAN
    BY <1>6 DEF Restart
  <2> QED BY <1>6, <2>1, <2>2, <2>3, Faulty DEF Restart
<1> QED BY <1>1, <1>2, <1>3, <1>4, <1>5, <1>6 DEF DogStep

(* The types are inductive. *)
LEMMA TypesStep == Types /\ [Next]_vars => Types'
<1>1. CASE UNCHANGED vars
  BY <1>1 DEF vars, storage, Types
<1> QED BY <1>1, JobsStep, UsersStep, OthersStep DEF Next

(* Every storage key, job, user, watchdog and count keeps its type, whatever the *)
(* intervals, threads, exports and faults. *)
THEOREM HistoricalTypeCorrect == Spec => []Types
BY TypesInit, TypesStep, PTL DEF Spec

----------------------------------------------------------------------------
(* No chunk is exported twice *)

(* At the start nothing is held or exported. *)
LEMMA HeldInit == Init => Held
BY DEF Init, Held, Holds, NoJob, NoChunkTwice

(* Steps that give no job an interval, export nothing and do not set the cursor back. *)
LEMMA HeldQuiet ==
  ASSUME Types, Types', Held, UNCHANGED exported, cursor' >= cursor,
         \A b \in Batches : Holds(b)' => /\ Holds(b) /\ job'[b].at = job[b].at
                                         /\ job'[b].offset = job[b].offset
  PROVE  Held'
<1>0. \A b \in Batches : job[b].at \in Nat /\ job'[b].at \in Nat
  BY DEF Types, Jobs
<1>1. \A b \in Batches : Holds(b)' => (job[b].at <= cursor)'
  BY <1>0 DEF Held, Types
<1>2. \A a, b \in Batches : Holds(a)' /\ Holds(b)' /\ (job[a].at = job[b].at)' => a = b
  BY DEF Held
<1>3. \A c \in Chunks : (c[1] > cursor)' => (exported[c] = 0)'
  BY ChunkIsPair, HistoricalAssumption DEF Held, Types
<1>4. \A b \in Batches, c \in Chunks : Holds(b)' /\ Ahead(b, c)' => (exported[c] = 0)'
  BY DEF Held, Ahead
<1>5. NoChunkTwice'
  BY DEF Held, NoChunkTwice
<1> QED BY <1>1, <1>2, <1>3, <1>4, <1>5 DEF Held

(* What one job exports was ahead of it, so ahead of nobody else. *)
LEMMA HeldCount ==
  ASSUME Types, Types', Held, NEW b \in Batches, job[b].pc = "placed", UNCHANGED cursor,
         Count(b), \A a \in Batches : a # b => job'[a] = job[a],
         Holds(b)' => /\ Holds(b) /\ job'[b].at = job[b].at
                      /\ job'[b].offset = job[b].offset + 1
  PROVE  Held'
<1>0. \A a \in Batches : /\ job[a].at \in Nat /\ job'[a].at \in Nat
                         /\ job[a].offset \in Nat /\ job'[a].offset \in Nat
  BY DEF Types, Jobs
<1>1. \A a \in Batches : Holds(a)' => Holds(a) /\ job'[a].at = job[a].at
  BY DEF Holds
<1>2. ASSUME NEW c \in Chunks, exported'[c] # exported[c]
      PROVE  /\ Holds(b) /\ c[1] = job[b].at /\ c[2] = job[b].offset
             /\ exported[c] = 0 /\ exported'[c] = 1
  <2>1. c = <<job[b].at, job[b].offset>> /\ job[b].ours
    BY <1>2 DEF Count, Types
  <2>2. exported'[c] = exported[c] + 1
    BY <2>1 DEF Count, Types
  <2>3. Holds(b) /\ Ahead(b, c)
    BY <1>0, <2>1 DEF Holds, Ahead
  <2> QED BY <2>1, <2>2, <2>3 DEF Held
<1>3. \A a \in Batches : Holds(a)' => (job[a].at <= cursor)'
  BY <1>1 DEF Held
<1>4. \A a, d \in Batches : Holds(a)' /\ Holds(d)' /\ (job[a].at = job[d].at)' => a = d
  BY <1>1 DEF Held
<1>5. ASSUME NEW c \in Chunks, (c[1] > cursor)' PROVE (exported[c] = 0)'
  <2>1. exported[c] = 0 /\ c[1] \in Nat
    BY <1>5, ChunkIsPair, HistoricalAssumption DEF Held
  <2>2. c[1] # job[b].at \/ ~Holds(b)
    BY <1>0, <1>5, <2>1 DEF Held, Types
  <2> QED BY <1>2, <2>1, <2>2
<1>6. ASSUME NEW a \in Batches, NEW c \in Chunks, Holds(a)', Ahead(a, c)' PROVE (exported[c] = 0)'
  <2>1. Holds(a) /\ c[1] = job[a].at /\ c[2] >= job'[a].offset /\ c[2] \in Nat
    BY <1>1, <1>6, ChunkIsPair DEF Ahead
  <2>2. CASE a = b
    <3>1. c[2] >= job[b].offset + 1
      BY <1>6, <2>1, <2>2
    <3>2. c[2] # job[b].offset /\ c[2] >= job[b].offset
      BY <1>0, <2>1, <3>1
    <3> QED BY <1>2, <2>1, <2>2, <3>2 DEF Held, Ahead
  <2>3. CASE a # b
    <3>1. exported[c] = 0
      BY <2>1, <2>3 DEF Held, Ahead
    <3>2. c[1] # job[b].at \/ ~Holds(b)
      BY <2>1, <2>3 DEF Held
    <3> QED BY <1>2, <3>1, <3>2
  <2> QED BY <2>2, <2>3
<1>7. NoChunkTwice'
  BY <1>2 DEF Held, NoChunkTwice
<1> QED BY <1>3, <1>4, <1>5, <1>6, <1>7 DEF Held

(* A chain takes the interval at the cursor, which nobody held. *)
LEMMA HeldJobs ==
  ASSUME Types, Types', Held, NEW b \in Batches,
         JobStep(b) \/ FetchFails(b) \/ AsksForRetry(b) \/ ExportFails(b)
  PROVE  Held'
<1>0. cursor \in Nat /\ job \in [Batches -> Jobs]
  BY DEF Types
<1>e. ASSUME End(b), UNCHANGED exported, UNCHANGED cursor PROVE Held'
  <2>1. \A a \in Batches : Holds(a)' => a # b /\ job'[a] = job[a]
    BY <1>0, <1>e, EndedIs DEF End, Holds
  <2> QED BY <1>0, <1>e, <2>1, HeldQuiet DEF Holds
<1>1. ASSUME NEW t \in Threads, Take(b, t) PROVE Held'
  <2>1. CASE job[b].id = batchId
    <3>1. \A a \in Batches : Holds(a)' => /\ Holds(a) /\ job'[a].at = job[a].at
                                          /\ job'[a].offset = job[a].offset
      BY <1>0, <1>1, <2>1 DEF Take, Holds, Jobs
    <3> QED BY <1>0, <1>1, <3>1, HeldQuiet DEF Take, storage
  <2> QED BY <1>0, <1>1, <1>e, <2>1 DEF Take, storage
<1>2. CASE NextInterval(b)
  <2>1. /\ cursor' = cursor + 1 /\ exported' = exported
        /\ job'[b].at = cursor + 1 /\ job'[b].offset = 0
        /\ \A a \in Batches : a # b => job'[a] = job[a]
    BY <1>0, <1>2 DEF NextInterval, Jobs
  <2>2. \A a \in Batches : Holds(a)' /\ a # b =>
          Holds(a) /\ job'[a].at <= cursor /\ job'[a].at \in Nat
    BY <1>0, <2>1 DEF Held, Holds, Jobs
  <2>3. \A a \in Batches : Holds(a)' => (job[a].at <= cursor)'
    BY <1>0, <2>1, <2>2
  <2>4. \A a, d \in Batches : Holds(a)' /\ Holds(d)' /\ (job[a].at = job[d].at)' => a = d
    <3> SUFFICES ASSUME NEW a \in Batches, NEW d \in Batches, Holds(a)', Holds(d)',
                        job'[a].at = job'[d].at, a # d
                 PROVE  FALSE
      OBVIOUS
    <3>1. CASE a = b \/ d = b
      BY <1>0, <2>1, <2>2, <3>1
    <3>2. CASE a # b /\ d # b
      BY <2>1, <2>2, <3>2 DEF Held
    <3> QED BY <3>1, <3>2
  <2>5. \A c \in Chunks : (c[1] > cursor)' => (exported[c] = 0)'
    BY <1>0, <2>1, ChunkIsPair, HistoricalAssumption DEF Held
  <2>6. ASSUME NEW a \in Batches, NEW c \in Chunks, Holds(a)', Ahead(a, c)' PROVE (exported[c] = 0)'
    <3>1. CASE a = b
      BY <1>0, <2>1, <2>6, <3>1 DEF Held, Ahead
    <3>2. CASE a # b
      BY <2>1, <2>2, <2>6, <3>2 DEF Held, Ahead
    <3> QED BY <3>1, <3>2
  <2>7. NoChunkTwice'
    BY <2>1 DEF Held, NoChunkTwice
  <2> QED BY <2>3, <2>4, <2>5, <2>6, <2>7 DEF Held
<1>3. CASE Done(b)
  BY <1>3, <1>e DEF Done
<1>4. CASE FetchFails(b)
  BY <1>4, <1>e DEF FetchFails
<1>5. CASE Export(b)
  <2>1. \A a \in Batches : a # b => job'[a] = job[a]
    BY <1>0, <1>5 DEF Export
  <2>2. Holds(b)' => Holds(b) /\ job'[b].at = job[b].at /\ job'[b].offset = job[b].offset + 1
    BY <1>0, <1>5 DEF Export, Holds, Queued, Jobs
  <2> QED BY <1>5, <2>1, <2>2, HeldCount DEF Export, storage
<1>6. CASE AsksForRetry(b)
  <2>1. /\ job'[b].at = job[b].at /\ job'[b].offset = job[b].offset
        /\ job'[b].ours = job[b].ours /\ job[b].pc = "placed"
        /\ \A a \in Batches : a # b => job'[a] = job[a]
    BY <1>0, <1>6 DEF AsksForRetry, Jobs
  <2> QED BY <1>0, <1>6, <2>1, HeldQuiet DEF Holds, AsksForRetry, storage
<1>7. CASE ExportFails(b)
  <2>1. CASE UNCHANGED exported
    BY <1>7, <1>e, <2>1 DEF ExportFails, storage
  <2>2. CASE Count(b)
    <3>1. ~Holds(b)' /\ \A a \in Batches : a # b => job'[a] = job[a]
      BY <1>0, <1>7, EndedIs DEF ExportFails, End, Holds
    <3> QED BY <1>7, <2>2, <3>1, HeldCount DEF ExportFails, storage
  <2> QED BY <1>7, <2>1, <2>2 DEF ExportFails
<1> QED BY <1>1, <1>2, <1>3, <1>4, <1>5, <1>6, <1>7 DEF JobStep

(* A new chain holds nothing yet. *)
LEMMA HeldFirst ==
  ASSUME Types, Types', Held, NEW b, job' = First(b), UNCHANGED <<exported, cursor>>
  PROVE  Held'
<1>1. \A a \in Batches : Holds(a)' => job'[a] = job[a] /\ Holds(a)
  BY DEF First, Queued, Holds, Types
<1> QED BY <1>1, HeldQuiet DEF Types

(* Setting the cursor anew takes every interval from the chains there are. *)
LEMMA HeldOthers ==
  ASSUME Types, Types', Held,
         \/ \E x \in Exports : UserStep(x) \/ InitThrows(x) \/ \E t \in Threads : StartExport(x, t)
         \/ DogStep \/ DogIsLate \/ \E t \in Threads : Restart(t)
  PROVE  Held'
<1>0. cursor \in Nat /\ job \in [Batches -> Jobs]
  BY DEF Types
<1>q. ASSUME UNCHANGED <<exported, job>>, cursor' >= cursor PROVE Held'
  BY <1>q, HeldQuiet DEF Holds
<1>1. ASSUME NEW x \in Exports, Reset(x) PROVE Held'
  <2>1. (\A b \in Batches : ~Holds(b)') /\ \A c \in Chunks : exported'[c] = 0
    BY <1>0, <1>1, DisownedIs DEF Reset, Holds
  <2> QED BY <2>1 DEF Held, NoChunkTwice
<1>2. ASSUME NEW x \in Exports, FirstJob(x) PROVE Held'
  BY <1>2, HeldFirst DEF FirstJob, storage
<1>3. CASE DogRestarts
  BY <1>3, HeldFirst DEF DogRestarts
<1>4. ASSUME NEW t \in Threads, Restart(t) PROVE Held'
  <2>1. \A b \in Batches : Holds(b)' => job'[b] = job[b]
    BY <1>4, EndedIs DEF Restart, Holds
  <2> QED BY <1>0, <1>4, <2>1, HeldQuiet DEF Holds, Restart
<1>5. ASSUME NEW x \in Exports,
             Claim(x) \/ InitCursor(x) \/ InitLimit(x) \/ NewBatch(x) \/ InitThrows(x)
               \/ \E t \in Threads : StartExport(x, t)
      PROVE  Held'
  BY <1>0, <1>5, <1>q
     DEF Claim, InitCursor, InitLimit, NewBatch, InitThrows, StartExport, storage
<1>6. CASE DogLooks \/ DogReplaces \/ DogNotes \/ DogIsLate
  BY <1>0, <1>6, <1>q DEF DogLooks, DogReplaces, DogNotes, DogIsLate, storage
<1> QED BY <1>1, <1>2, <1>3, <1>4, <1>5, <1>6 DEF UserStep, DogStep

(* Held is inductive. *)
LEMMA HeldStep == Types /\ Types' /\ Held /\ [Next]_vars => Held'
<1>1. ASSUME Types, Types', Held, UNCHANGED vars PROVE Held'
  BY <1>1, HeldQuiet DEF vars, storage, Holds, Types
<1> QED BY <1>1, HeldJobs, HeldOthers DEF Next

(* However many chains are at work, no chunk is exported twice before somebody *)
(* starts the export anew.                                                     *)
THEOREM HistoricalNoChunkTwice == Spec => []NoChunkTwice
<1>1. Held => NoChunkTwice
  BY DEF Held
<1> QED BY <1>1, HeldInit, HeldStep, HistoricalTypeCorrect, PTL DEF Spec

----------------------------------------------------------------------------
(* An undisturbed export misses nothing *)

(* An export begins in the first phase. *)
LEMMA PhasesInit == Init => Phases
BY DEF Init, Phases, Fresh, AtWork, NoJob, NoUser, Settling, Asleep

(* Steps that leave the export and whoever works at it as they are. *)
LEMMA PhasesFrame ==
  ASSUME Phases, UNCHANGED <<running, cursor, last, batchId, job, user, exported, disturbed>>,
         dog.pc # "replacing" => dog'.pc # "replacing",
         \A b \in Batches : job[b].on \in Threads => maxSeen'[job[b].on] = maxSeen[job[b].on]
                                                     \/ job[b].pc \notin {"due", "placed"}
  PROVE  Phases'
<1>1. AtWork' = AtWork
  BY DEF AtWork
<1>2. Fresh => Fresh'
  BY <1>1 DEF Fresh, Settling
<1>3. Finished => Finished'
  BY <1>1 DEF Finished, Settling
<1>4. ASSUME NEW x \in Exports, SettingUp(x) PROVE SettingUp(x)'
  BY <1>1, <1>4 DEF SettingUp
<1>5. ASSUME NEW b \in Batches, ChainAtWork(b) PROVE ChainAtWork(b)'
  <2>1. Reached(b)'
    BY <1>5 DEF ChainAtWork, Reached, Holds
  <2> QED BY <1>1, <1>5, <2>1 DEF ChainAtWork, Holds
<1> QED BY <1>2, <1>3, <1>4, <1>5 DEF Phases

(* While a job is taken, its chain is the one at work. *)
LEMMA TheChain ==
  ASSUME Phases, ~disturbed, NEW b \in Batches, job[b].pc \notin {"none", "ended"}
  PROVE  ChainAtWork(b) /\ dog.pc # "replacing"
<1>1. b \in AtWork
  BY DEF AtWork
<1>2. PICK a \in Batches : ChainAtWork(a)
  BY <1>1 DEF Phases, Fresh, Finished, SettingUp
<1> QED BY <1>1, <1>2 DEF ChainAtWork, Phases

(* While somebody sets the export up, nobody else does anything. *)
LEMMA TheUser ==
  ASSUME Phases, ~disturbed, NEW x \in Exports, user[x].pc \in Settling
  PROVE  SettingUp(x) /\ dog.pc # "replacing"
<1>1. PICK y \in Exports : SettingUp(y)
  BY DEF Phases, Fresh, Finished, ChainAtWork, Settling
<1> QED BY <1>1 DEF SettingUp, Phases, Settling

(* A job takes the chain further, ends the export, or belongs to no chain at work. *)
LEMMA PhasesJobs ==
  ASSUME Types, Types', Phases, NEW b \in Batches,
         JobStep(b) \/ FetchFails(b) \/ AsksForRetry(b) \/ ExportFails(b)
  PROVE  Phases'
<1> SUFFICES ASSUME ~disturbed' PROVE Phases'
  BY DEF Phases
<1>0. /\ job \in [Batches -> Jobs] /\ job[b].offset \in Nat /\ cursor \in Nat /\ last \in Nat
      /\ disturbed \in BOOLEAN /\ maxSeen \in [Threads -> Nat] /\ exported \in [Chunks -> Nat]
      /\ batchId \in Nat
  BY DEF Types, Jobs
<1>a. \/ NextInterval(b) \/ Done(b) \/ Export(b) \/ \E t \in Threads : Take(b, t)
  BY DEF JobStep, FetchFails, AsksForRetry, ExportFails
<1>b. /\ ~disturbed /\ job[b].pc \notin {"none", "ended"}
      /\ UNCHANGED <<user, dog, batchId, last>>
      /\ \A a \in Batches : a # b => job'[a] = job[a]
  BY <1>0, <1>a DEF NextInterval, Done, Export, Take, End, storage
<1>c. ChainAtWork(b) /\ dog.pc # "replacing"
  BY <1>b, TheChain
<1>d. job'[b].pc \notin {"none", "ended"} => AtWork' = {b}
  BY <1>b, <1>c DEF ChainAtWork, AtWork
<1>e. (\A x \in Exports : user[x].pc \in {"new", "ended"})'
  BY <1>b, <1>c DEF ChainAtWork
<1>1. ASSUME NEW t \in Threads, Take(b, t) PROVE Phases'
  <2>1. /\ job'[b] = [job[b] EXCEPT !.pc = IF job[b].inc THEN "due" ELSE "placed", !.on = t]
        /\ maxSeen'[t] = last /\ UNCHANGED <<storage, exported>> /\ job[b].pc = "queued"
    BY <1>0, <1>1, <1>c DEF Take, ChainAtWork
  <2>2. /\ job'[b].pc \in {"due", "placed"} /\ job'[b].on = t /\ job'[b].id = job[b].id
        /\ job'[b].ours = job[b].ours /\ job'[b].at = job[b].at /\ job'[b].offset = job[b].offset
        /\ Holds(b)' = Holds(b)
    BY <1>0, <2>1 DEF Jobs, Holds
  <2>3. Reached(b)'
    BY <1>b, <1>c, <2>1, <2>2 DEF ChainAtWork, Reached, storage
  <2>4. ChainAtWork(b)'
    BY <1>b, <1>c, <1>d, <1>e, <2>1, <2>2, <2>3 DEF ChainAtWork, storage
  <2> QED BY <1>b, <1>c, <2>4 DEF Phases
<1>2. CASE NextInterval(b)
  <2>1. /\ job'[b].pc = "placed" /\ job'[b].on = job[b].on /\ job'[b].id = job[b].id
        /\ job'[b].ours = TRUE /\ job'[b].at = cursor + 1 /\ job'[b].offset = 0
        /\ cursor' = cursor + 1 /\ UNCHANGED <<running, exported, maxSeen>> /\ job[b].pc = "due"
    BY <1>0, <1>2 DEF NextInterval, Jobs
  <2>2. Holds(b)' /\ ~Holds(b)
    BY <2>1 DEF Holds
  <2>3. Reached(b)'
    <3> SUFFICES ASSUME NEW c \in Chunks, c[1] <= last
                 PROVE  /\ c[1] < cursor + 1 => exported[c] >= 1
                        /\ ~(c[1] = cursor + 1 /\ c[2] < 0)
      BY <1>b, <2>1, <2>2 DEF Reached
    <3>1. c[1] \in Nat /\ c[2] \in Nat
      BY ChunkIsPair, HistoricalAssumption
    <3> QED BY <1>0, <1>c, <2>2, <3>1 DEF ChainAtWork, Reached
  <2>4. ChainAtWork(b)'
    BY <1>0, <1>b, <1>c, <1>d, <1>e, <2>1, <2>3 DEF ChainAtWork
  <2> QED BY <1>b, <1>c, <2>4 DEF Phases
<1>3. CASE Done(b)
  <2>1. job[b].pc = "placed" /\ Holds(b) /\ cursor > last
    BY <1>0, <1>3, <1>c DEF Done, Beyond, ChainAtWork, Holds
  <2>2. job'[b].pc = "ended" /\ ~running' /\ UNCHANGED <<cursor, exported>>
    BY <1>0, <1>3, EndedIs DEF Done, End
  <2>3. AtWork' = {}
    BY <1>b, <1>c, <2>2 DEF ChainAtWork, AtWork
  <2>4. \A c \in Chunks : c[1] <= last => exported[c] >= 1
    BY <1>0, <1>c, <2>1, ChunkIsPair, HistoricalAssumption DEF ChainAtWork, Reached
  <2>5. Finished'
    BY <1>b, <1>e, <2>1, <2>2, <2>3, <2>4 DEF Finished, Settling
  <2> QED BY <1>b, <1>c, <2>5 DEF Phases
<1>4. CASE Export(b)
  <2>0. /\ job[b].pc = "placed" /\ Holds(b) /\ job[b].at = cursor /\ job[b].ours
        /\ Count(b) /\ UNCHANGED <<storage, maxSeen>>
    BY <1>4, <1>c DEF Export, ChainAtWork, Holds
  <2>1. \A c \in Chunks : /\ exported[c] \in Nat /\ exported'[c] \in Nat
                          /\ exported'[c] >= exported[c]
                          /\ c = <<job[b].at, job[b].offset>> => exported'[c] >= 1
    BY <1>0, <2>0 DEF Count
  <2>2. CASE <<job[b].at, job[b].offset>> \in Chunks
    <3>1. /\ job'[b].pc = "queued" /\ ~job'[b].inc /\ job'[b].offset = job[b].offset + 1
          /\ job'[b].id = job[b].id /\ job'[b].ours /\ job'[b].at = job[b].at
      BY <1>0, <1>4, <2>0, <2>2 DEF Export, Jobs
    <3>2. Holds(b)'
      BY <3>1 DEF Holds
    <3>3. Reached(b)'
      <4> SUFFICES ASSUME NEW c \in Chunks, c[1] <= last
                   PROVE  /\ c[1] < cursor => exported'[c] >= 1
                          /\ c[1] = cursor /\ c[2] < job[b].offset + 1 => exported'[c] >= 1
        BY <1>b, <2>0, <3>1, <3>2 DEF Reached, storage
      <4>1. c[1] \in Nat /\ c[2] \in Nat /\ c = <<c[1], c[2]>>
        BY ChunkIsPair, HistoricalAssumption
      <4>2. c[1] < cursor => exported[c] >= 1
        BY <1>c DEF ChainAtWork, Reached
      <4>3. c[1] = cursor /\ c[2] < job[b].offset => exported[c] >= 1
        BY <1>c DEF ChainAtWork, Reached
      <4>4. c[1] = cursor /\ c[2] = job[b].offset => exported'[c] >= 1
        BY <2>0, <2>1, <4>1
      <4> QED BY <1>0, <2>1, <4>1, <4>2, <4>3, <4>4
    <3>4. ChainAtWork(b)'
      BY <1>b, <1>c, <1>d, <1>e, <2>0, <3>1, <3>3 DEF ChainAtWork, storage
    <3> QED BY <1>b, <1>c, <3>4 DEF Phases
  <2>3. CASE <<job[b].at, job[b].offset>> \notin Chunks
    <3>1. /\ job'[b].pc = "queued" /\ job'[b].inc /\ job'[b].id = b /\ job'[b].ours
      BY <1>0, <1>4, <2>0, <2>3 DEF Export, Queued
    <3>2. ~Holds(b)'
      BY <3>1 DEF Holds
    <3>3. Reached(b)'
      <4> SUFFICES ASSUME NEW c \in Chunks, c[1] <= last
                   PROVE  c[1] < cursor \/ c[1] = cursor => exported'[c] >= 1
        BY <1>b, <2>0, <3>2 DEF Reached, storage
      <4>1. c[1] = cursor => c[2] < job[b].offset
        BY <1>0, <2>0, <2>3, NothingAfter
      <4>2. c[1] < cursor \/ c[1] = cursor => exported[c] >= 1
        BY <1>c, <4>1 DEF ChainAtWork, Reached
      <4> QED BY <2>1, <4>2
    <3>4. ChainAtWork(b)'
      BY <1>b, <1>c, <1>d, <1>e, <2>0, <3>1, <3>2, <3>3 DEF ChainAtWork, storage
    <3> QED BY <1>b, <1>c, <3>4 DEF Phases
  <2> QED BY <2>2, <2>3
<1> QED BY <1>a, <1>1, <1>2, <1>3, <1>4

(* Whoever starts the export anew, alone, is the one to set it up. *)
LEMMA PhasesReset ==
  ASSUME Types, NEW x \in Exports, Reset(x)
  PROVE  Phases'
<1> SUFFICES ASSUME ~disturbed' PROVE Phases'
  BY DEF Phases
<1>1. AtWork = {} /\ dog.pc = "idle" /\ \A y \in Exports \ {x} : user[y].pc \in {"new", "ended"}
  BY DEF Reset, Company
<1>2. \A b \in Batches : job'[b].pc = job[b].pc
  BY DisownedIs DEF Reset
<1>3. AtWork' = {}
  BY <1>1, <1>2 DEF AtWork
<1>4. user'[x].pc = "cleared" /\ \A y \in Exports \ {x} : user'[y] = user[y]
  BY DEF Reset, UserGoto, Types, Users
<1>5. running
  BY DEF Reset, Types
<1>6. SettingUp(x)'
  BY <1>1, <1>3, <1>4, <1>5 DEF Reset, SettingUp
<1> QED BY <1>1, <1>6 DEF Phases, Reset

(* An interface job begins an export, sets it up, or starts its chain. *)
LEMMA PhasesUsers ==
  ASSUME Types, Types', Phases, NEW x \in Exports,
         UserStep(x) \/ InitThrows(x) \/ \E t \in Threads : StartExport(x, t)
  PROVE  Phases'
<1> SUFFICES ASSUME ~disturbed' PROVE Phases'
  BY DEF Phases
<1>0. user \in [Exports -> Users] /\ job \in [Batches -> Jobs] /\ batchId \in 0..MaxBatch
      /\ disturbed \in BOOLEAN
  BY DEF Types
<1>1. CASE Reset(x)
  BY <1>1, PhasesReset
<1>2. CASE InitCursor(x) \/ InitLimit(x)
  <2>1. SettingUp(x) /\ dog.pc # "replacing"
    BY <1>2, TheUser DEF InitCursor, InitLimit, Settling
  <2>2. /\ user'[x].pc = IF user[x].pc = "cleared" THEN "begun" ELSE "initialised"
        /\ \A y \in Exports \ {x} : user'[y] = user[y]
    BY <1>0, <1>2 DEF InitCursor, InitLimit, UserGoto, Users
  <2>3. AtWork' = {}
    BY <1>2, <2>1 DEF InitCursor, InitLimit, SettingUp, AtWork
  <2>4. SettingUp(x)'
    BY <1>2, <2>1, <2>2, <2>3 DEF InitCursor, InitLimit, SettingUp
  <2> QED BY <1>2, <2>1, <2>4 DEF Phases, InitCursor, InitLimit
<1>7. CASE Claim(x)
  <2>1. /\ user[x].pc = "starting" /\ user'[x].pc = "claimed" /\ ~disturbed
        /\ \A y \in Exports \ {x} : user'[y] = user[y]
        /\ UNCHANGED <<cursor, last, job, dog, exported>>
    BY <1>0, <1>7 DEF Claim, UserGoto, Users
  <2>2. AtWork' = AtWork
    BY <2>1 DEF AtWork
  <2>3. Fresh \/ Finished
    BY <2>1 DEF Phases, SettingUp, ChainAtWork
  <2>4. Fresh' \/ Finished'
    BY <2>1, <2>2, <2>3 DEF Fresh, Finished, Settling
  <2> QED BY <2>1, <2>4 DEF Phases
<1>3. CASE NewBatch(x)
  <2>1. SettingUp(x) /\ dog.pc # "replacing"
    BY <1>3, TheUser DEF NewBatch, Settling
  <2>2. /\ user'[x].pc = "numbered" /\ user'[x].batch = batchId'
        /\ \A y \in Exports \ {x} : user'[y] = user[y]
    BY <1>0, <1>3 DEF NewBatch, Users
  <2>3. AtWork' = {} /\ batchId' \in Batches
    BY <1>0, <1>3, <2>1, Bounds DEF NewBatch, SettingUp, AtWork, Batches
  <2>4. SettingUp(x)'
    BY <1>3, <2>1, <2>2, <2>3 DEF NewBatch, SettingUp
  <2> QED BY <1>3, <2>1, <2>4 DEF Phases, NewBatch
<1>4. CASE FirstJob(x)
  <2>1. SettingUp(x) /\ dog.pc # "replacing"
    BY <1>4, TheUser DEF FirstJob, Settling
  <2>2. PICK b \in Batches : b = user[x].batch /\ b = batchId
    BY <1>4, <2>1 DEF FirstJob, SettingUp
  <2>a. /\ cursor' = 2 /\ running' /\ batchId' = b /\ dog' = dog /\ exported' = exported
        /\ job' = First(b) /\ Leave(x)
    BY <1>4, <2>1, <2>2 DEF FirstJob, SettingUp, storage
  <2>3. /\ job'[b].pc = "queued" /\ job'[b].id = b /\ job'[b].inc /\ job'[b].ours
        /\ \A a \in Batches : a # b => job'[a] = job[a]
    BY <1>0, <2>a DEF First, Queued
  <2>4. AtWork' = {b}
    BY <2>1, <2>3 DEF SettingUp, AtWork
  <2>5. \A y \in Exports : user'[y].pc \in {"new", "ended"}
    BY <1>0, <2>1, <2>a DEF Leave, Left, NoUser, SettingUp
  <2>6. \A c \in Chunks : ~(c[1] < 2) /\ c[1] # 2
    BY ChunkIsPair, HistoricalAssumption
  <2>7. Reached(b)' /\ ~Holds(b)'
    BY <2>3, <2>6, <2>a DEF Reached, Holds
  <2>8. ChainAtWork(b)'
    BY <2>3, <2>4, <2>5, <2>7, <2>a DEF ChainAtWork
  <2> QED BY <2>1, <2>8, <2>a DEF Phases
<1>5. CASE InitThrows(x)
  BY <1>5 DEF InitThrows
<1>6. ASSUME NEW t \in Threads, StartExport(x, t) PROVE Phases'
  <2>1. /\ ~disturbed /\ AtWork' = AtWork /\ UNCHANGED <<dog, storage, exported, job, maxSeen>>
        /\ user[x].pc = "new" /\ \A y \in Exports \ {x} : user'[y] = user[y]
        /\ user'[x].pc \in {"starting", "ended"} /\ (running => user'[x].pc = "ended")
    BY <1>0, <1>6 DEF StartExport, AtWork, Leave, Left, NoUser, Users
  <2>2. Fresh => Fresh'
    BY <2>1 DEF Fresh, Settling, storage
  <2>3. Finished => Finished'
    BY <2>1 DEF Finished, Settling, storage
  <2>4. ASSUME NEW y \in Exports, SettingUp(y) PROVE SettingUp(y)'
    <3>1. y # x
      BY <2>1, <2>4 DEF SettingUp
    <3> QED BY <2>1, <2>4, <3>1 DEF SettingUp, storage
  <2>5. ASSUME NEW b \in Batches, ChainAtWork(b) PROVE ChainAtWork(b)'
    <3>1. Reached(b)' /\ \A y \in Exports : user'[y].pc \in {"new", "ended"}
      BY <2>1, <2>5 DEF ChainAtWork, Reached, Holds, storage
    <3> QED BY <2>1, <2>5, <3>1 DEF ChainAtWork, Holds, storage
  <2> QED BY <2>1, <2>2, <2>3, <2>4, <2>5 DEF Phases
<1> QED BY <1>1, <1>2, <1>3, <1>4, <1>5, <1>6, <1>7 DEF UserStep

(* The watchdog and restarts leave an undisturbed export where it is. *)
LEMMA PhasesOthers ==
  ASSUME Types, Types', Phases, DogStep \/ DogIsLate \/ \E t \in Threads : Restart(t)
  PROVE  Phases'
<1> SUFFICES ASSUME ~disturbed' PROVE Phases'
  BY DEF Phases
<1>1. CASE DogLooks
  BY <1>1, PhasesFrame DEF DogLooks, storage, Asleep
<1>2. CASE DogReplaces
  BY <1>2 DEF DogReplaces
<1>3. CASE DogRestarts
  BY <1>3 DEF DogRestarts, Phases
<1>4. CASE DogNotes
  BY <1>4, PhasesFrame DEF DogNotes, Noted, Asleep
<1>5. CASE DogIsLate
  BY <1>5, PhasesFrame DEF DogIsLate
<1>6. ASSUME NEW t \in Threads, Restart(t) PROVE Phases'
  <2>1. Free(t) /\ dog' = dog /\ ~disturbed
    BY <1>6 DEF Restart
  <2>2. job' = job /\ user' = user
    BY <1>6, <2>1 DEF Restart, Free, Types
  <2>3. \A b \in Batches : job[b].on \in Threads => maxSeen'[job[b].on] = maxSeen[job[b].on]
    BY <1>6, <2>1 DEF Restart, Free, Types
  <2>4. UNCHANGED <<running, cursor, last, batchId, exported, disturbed>>
    <3>1. disturbed \in BOOLEAN /\ disturbed' \in BOOLEAN
      BY DEF Types
    <3> QED BY <1>6, <2>1, <3>1 DEF Restart
  <2> QED BY <2>1, <2>2, <2>3, <2>4, PhasesFrame
<1> QED BY <1>1, <1>2, <1>3, <1>4, <1>5, <1>6 DEF DogStep

(* Phases is inductive. *)
LEMMA PhasesStep == Types /\ Types' /\ Phases /\ [Next]_vars => Phases'
<1>1. ASSUME Types, Types', Phases, UNCHANGED vars PROVE Phases'
  BY <1>1, PhasesFrame DEF vars, storage
<1> QED BY <1>1, PhasesJobs, PhasesUsers, PhasesOthers DEF Next

(* So it is complete. *)
LEMMA PhasesComplete == Types /\ Phases => Complete
<1> SUFFICES ASSUME Types, Phases, ~disturbed, last # 0
             PROVE  /\ \A c \in Chunks : c[1] < cursor /\ c[1] <= last => exported[c] >= 1
                    /\ ~running => cursor > last
  BY DEF Complete
<1>1. CASE Fresh
  BY <1>1 DEF Fresh
<1>2. CASE Finished
  BY <1>2 DEF Finished
<1>3. ASSUME NEW x \in Exports, SettingUp(x)
      PROVE  running /\ \A c \in Chunks : ~(c[1] < cursor)
  BY <1>3, ChunkIsPair, HistoricalAssumption DEF SettingUp
<1>4. ASSUME NEW b \in Batches, ChainAtWork(b)
      PROVE  running /\ \A c \in Chunks : c[1] < cursor /\ c[1] <= last => exported[c] >= 1
  BY <1>4 DEF ChainAtWork, Reached
<1> QED BY <1>1, <1>2, <1>3, <1>4 DEF Phases

----------------------------------------------------------------------------
(* Whatever interferes, the cursor passes no interval that nobody took *)

(* Batches that have a number, but no job yet, are nobody else's. *)
LEMMA NumberedInit == Init => Numbered /\ Placeless
BY DEF Init, Numbered, Placeless, Idle, NoJob, NoUser, Asleep

(* Steps that start no batch and give none a number. *)
LEMMA NumberedKept ==
  ASSUME Numbered, batchId' = batchId,
         \A b \in Batches : Idle(b) => Idle(b)',
         \A x \in Exports : user'[x].pc = "numbered" => user'[x] = user[x],
         dog'.pc = "replacing" => dog' = dog
  PROVE  Numbered'
BY DEF Numbered

(* A batch gets its job: whoever had its number gives it up. *)
LEMMA NumberedStarts ==
  ASSUME Types, Numbered, batchId' = batchId, NEW n \in Batches, n <= batchId, job' = First(n),
         \A x \in Exports : user'[x].pc = "numbered" => user'[x] = user[x] /\ user[x].batch # n,
         dog'.pc = "replacing" => dog' = dog /\ dog.batch # n
  PROVE  Numbered'
<1>1. \A b \in Batches : b # n /\ Idle(b) => Idle(b)'
  BY DEF First, Idle, Types
<1>2. \A b \in Batches : b > batchId => b # n
  BY DEF Types, Batches
<1> QED BY <1>1, <1>2 DEF Numbered

(* The next number is nobody's. *)
Unused(n) ==
  /\ Idle(n) /\ \A b \in Batches : b > n => Idle(b)
  /\ \A x \in Exports : user[x].pc = "numbered" =>
       /\ user[x].batch \in Batches /\ user[x].batch <= n /\ user[x].batch # n
       /\ Idle(user[x].batch)
  /\ dog.pc = "replacing" =>
       dog.batch \in Batches /\ dog.batch <= n /\ dog.batch # n /\ Idle(dog.batch)

LEMMA NumberIsFresh ==
  ASSUME Types, Numbered, NEW n \in Batches, n = batchId + 1
  PROVE  Unused(n)
<1>1. batchId \in Nat /\ \A b \in Batches : b \in Nat
  BY Bounds DEF Types, Batches
<1>2. \A b \in Batches : b <= batchId => b <= n /\ b # n
  BY <1>1
<1>3. \A b \in Batches : b > n \/ b = n => b > batchId
  BY <1>1
<1> QED BY <1>2, <1>3 DEF Numbered, Unused

(* Numbers are given once. *)
LEMMA NumberedStep == Types /\ Types' /\ Numbered /\ Placeless /\ [Next]_vars => Numbered'
<1> SUFFICES ASSUME Types, Types', Numbered, Placeless, [Next]_vars PROVE Numbered'
  OBVIOUS
<1>0. job \in [Batches -> Jobs] /\ user \in [Exports -> Users] /\ batchId \in 0..MaxBatch
      /\ MaxBatch \in Nat
  BY Bounds DEF Types
<1>1. ASSUME NEW b \in Batches, JobStep(b) \/ FetchFails(b) \/ AsksForRetry(b) \/ ExportFails(b)
      PROVE  Numbered'
  <2>1. /\ UNCHANGED <<batchId, user, dog>> /\ ~Idle(b)
        /\ \A a \in Batches : a # b => job'[a] = job[a]
    BY <1>0, <1>1
       DEF JobStep, NextInterval, Done, Export, Take, FetchFails, AsksForRetry, ExportFails,
           End, storage, Idle
  <2> QED BY <2>1, NumberedKept DEF Idle
<1>2. ASSUME NEW x \in Exports, Reset(x) PROVE Numbered'
  <2>1. \A b \in Batches : Idle(b) => Idle(b)'
    BY <1>2, DisownedIs DEF Reset, Idle
  <2>2. \A y \in Exports : user'[y].pc = "numbered" => user'[y] = user[y]
    BY <1>0, <1>2 DEF Reset, UserGoto, Users
  <2> QED BY <1>2, <2>1, <2>2, NumberedKept DEF Reset
<1>3. ASSUME NEW x \in Exports,
             Claim(x) \/ InitCursor(x) \/ InitLimit(x) \/ InitThrows(x)
               \/ \E t \in Threads : StartExport(x, t)
      PROVE  Numbered'
  <2>1. \A y \in Exports : user'[y].pc = "numbered" => user'[y] = user[y]
    BY <1>0, <1>3
       DEF Claim, InitCursor, InitLimit, InitThrows, StartExport, UserGoto, Leave, Left, NoUser, Users
  <2>2. UNCHANGED <<job, dog, batchId>>
    BY <1>3 DEF Claim, InitCursor, InitLimit, InitThrows, StartExport, storage
  <2> QED BY <2>1, <2>2, NumberedKept DEF Idle
<1>4. ASSUME NEW x \in Exports, NewBatch(x) PROVE Numbered'
  <2>1. PICK n \in Batches : n = batchId + 1
    BY <1>0, <1>4 DEF NewBatch, Batches
  <2>2. /\ batchId' = n /\ UNCHANGED <<job, dog>> /\ user'[x].batch = n
        /\ \A y \in Exports : y # x => user'[y] = user[y]
    BY <1>0, <1>4, <2>1 DEF NewBatch, Users
  <2>3. Unused(n)
    BY <2>1, NumberIsFresh
  <2>4. ASSUME NEW y \in Exports, user'[y].pc = "numbered"
        PROVE  (user[y].batch \in Batches /\ user[y].batch <= batchId /\ Idle(user[y].batch))'
    BY <1>0, <2>1, <2>2, <2>3, <2>4 DEF Unused, Idle, Batches
  <2>5. dog'.pc = "replacing" =>
          (dog.batch \in Batches /\ dog.batch <= batchId /\ Idle(dog.batch))'
    BY <2>2, <2>3 DEF Unused, Idle
  <2>6. dog'.pc = "replacing" =>
          \A y \in Exports : user'[y].pc = "numbered" => user'[y].batch # dog'.batch
    BY <2>2, <2>3 DEF Unused, Numbered
  <2>7. \A y, z \in Exports :
          /\ user'[y].pc = "numbered" /\ user'[z].pc = "numbered"
          /\ user'[y].batch = user'[z].batch
          => y = z
    BY <2>2, <2>3 DEF Unused, Numbered
  <2>8. \A b \in Batches : b > n => Idle(b)'
    BY <2>2, <2>3 DEF Unused, Idle
  <2> QED BY <2>2, <2>4, <2>5, <2>6, <2>7, <2>8 DEF Numbered
<1>5. ASSUME NEW x \in Exports, FirstJob(x) PROVE Numbered'
  <2>1. user'[x].pc # "numbered" /\ \A y \in Exports : y # x => user'[y] = user[y]
    BY <1>0, <1>5 DEF FirstJob, Leave, Left, NoUser
  <2>2. PICK n \in Batches : n = user[x].batch /\ n <= batchId
    BY <1>5 DEF FirstJob, Numbered
  <2>3. \A y \in Exports : user'[y].pc = "numbered" => user'[y] = user[y] /\ user[y].batch # n
    BY <1>5, <2>1, <2>2 DEF FirstJob, Numbered
  <2>4. dog'.pc = "replacing" => dog' = dog /\ dog.batch # n
    BY <1>5, <2>2 DEF FirstJob, Numbered
  <2>5. batchId' = batchId /\ job' = First(n)
    BY <1>5, <2>2 DEF FirstJob, storage
  <2> QED BY <2>2, <2>3, <2>4, <2>5, NumberedStarts
<1>6. CASE DogReplaces
  <2>1. PICK n \in Batches : n = batchId + 1
    BY <1>0, <1>6 DEF DogReplaces, Batches
  <2>2. batchId' = n /\ UNCHANGED <<job, user>> /\ dog'.batch = n
    BY <1>0, <1>6, <2>1 DEF DogReplaces, Types, Dogs
  <2>3. Unused(n)
    BY <2>1, NumberIsFresh
  <2>4. ASSUME NEW y \in Exports, user'[y].pc = "numbered"
        PROVE  /\ (user[y].batch \in Batches /\ user[y].batch <= batchId /\ Idle(user[y].batch))'
               /\ user'[y].batch # dog'.batch
    BY <2>2, <2>3, <2>4 DEF Unused, Idle
  <2>5. (dog.batch \in Batches /\ dog.batch <= batchId /\ Idle(dog.batch))'
    BY <1>0, <2>2, <2>3 DEF Unused, Idle, Batches
  <2>6. \A y, z \in Exports :
          /\ user'[y].pc = "numbered" /\ user'[z].pc = "numbered"
          /\ user'[y].batch = user'[z].batch
          => y = z
    BY <2>2 DEF Numbered
  <2>7. \A b \in Batches : b > n => Idle(b)'
    BY <2>2, <2>3 DEF Unused, Idle
  <2> QED BY <2>2, <2>4, <2>5, <2>6, <2>7 DEF Numbered
<1>7. CASE DogRestarts
  <2>1. PICK n \in Batches : n = dog.batch /\ n <= batchId
    BY <1>7 DEF DogRestarts, Numbered
  <2>2. dog'.pc # "replacing" /\ UNCHANGED <<batchId, user>> /\ job' = First(n)
    BY <1>7, <2>1 DEF DogRestarts, Noted, Asleep
  <2>3. \A y \in Exports : user[y].pc = "numbered" => user[y].batch # n
    BY <1>7, <2>1 DEF DogRestarts, Numbered
  <2> QED BY <2>1, <2>2, <2>3, NumberedStarts
<1>8. CASE DogLooks \/ DogNotes \/ DogIsLate
  <2>1. UNCHANGED <<job, user, batchId>> /\ (dog'.pc = "replacing" => dog' = dog)
    <3>1. CASE DogLooks
      BY <3>1 DEF DogLooks, Asleep, storage
    <3>2. CASE DogNotes \/ DogIsLate
      BY <3>2 DEF DogNotes, DogIsLate, Noted, Asleep
    <3> QED BY <1>8, <3>1, <3>2
  <2> QED BY <2>1, NumberedKept DEF Idle
<1>9. ASSUME NEW t \in Threads, Restart(t) PROVE Numbered'
  <2>1. \A b \in Batches : Idle(b) => Idle(b)'
    BY <1>9, EndedIs DEF Restart, Idle, Holds
  <2>2. \A y \in Exports : user'[y].pc = "numbered" => user'[y] = user[y]
    BY <1>9 DEF Restart, Left, NoUser
  <2>3. batchId' = batchId /\ (dog'.pc = "replacing" => dog' = dog)
    BY <1>9 DEF Restart, Asleep
  <2> QED BY <2>1, <2>2, <2>3, NumberedKept
<1>10. CASE UNCHANGED vars
  BY <1>10, NumberedKept DEF vars, storage, Idle
<1> QED
  BY <1>1, <1>2, <1>3, <1>4, <1>5, <1>6, <1>7, <1>8, <1>9, <1>10 DEF Next, UserStep, DogStep

(* A job gets its interval when it takes it. *)
LEMMA PlacelessStep == Types /\ Types' /\ Placeless /\ [Next]_vars => Placeless'
<1> SUFFICES ASSUME Types, Types', Placeless, [Next]_vars PROVE Placeless'
  OBVIOUS
<1>0. job \in [Batches -> Jobs] /\ "none" \notin Threads
  BY HistoricalAssumption DEF Types
<1>e. ASSUME NEW b \in Batches, job'[b] = Ended(b)
      PROVE  job'[b].pc = "ended" /\ job'[b].on = "none"
  BY <1>e, EndedIs
<1>q. ASSUME NEW n, job' = First(n) PROVE Placeless'
  BY <1>0, <1>q DEF First, Queued, Placeless
<1>j. ASSUME NEW b \in Batches, \A a \in Batches : a # b => job'[a] = job[a],
             job'[b].pc = "due" \/ (job'[b].pc = "queued" /\ job'[b].inc) => job'[b].at = 0,
             job'[b].on # "none" => job'[b].pc \in {"due", "placed"}
      PROVE  Placeless'
  BY <1>j DEF Placeless
<1>1. ASSUME NEW b \in Batches, JobStep(b) \/ FetchFails(b) \/ AsksForRetry(b) \/ ExportFails(b)
      PROVE  Placeless'
  <2>1. \A a \in Batches : a # b => job'[a] = job[a]
    BY <1>0, <1>1
       DEF JobStep, NextInterval, Done, Export, Take, FetchFails, AsksForRetry, ExportFails, End
  <2>2. CASE End(b)
    <3>1. job'[b].pc = "ended" /\ job'[b].on = "none"
      BY <1>0, <1>e, <2>2 DEF End
    <3> QED BY <1>j, <2>1, <3>1
  <2>3. ASSUME NEW t \in Threads, Take(b, t), ~End(b) PROVE Placeless'
    <3>1. /\ job'[b].pc = IF job[b].inc THEN "due" ELSE "placed"
          /\ job'[b].at = job[b].at /\ job[b].pc = "queued"
      BY <1>0, <2>3 DEF Take, Jobs
    <3> QED BY <1>j, <2>1, <3>1 DEF Placeless
  <2>4. CASE NextInterval(b)
    <3>1. job'[b].pc = "placed"
      BY <1>0, <2>4 DEF NextInterval, Jobs
    <3> QED BY <1>j, <2>1, <3>1
  <2>5. CASE Export(b)
    <3>1. /\ job'[b].pc = "queued" /\ job'[b].on = "none"
          /\ job'[b].inc => job'[b].at = 0
      BY <1>0, <2>5 DEF Export, Queued, Jobs
    <3> QED BY <1>j, <2>1, <3>1
  <2>6. CASE AsksForRetry(b)
    <3>1. job'[b].pc = "queued" /\ job'[b].on = "none" /\ ~job'[b].inc
      BY <1>0, <2>6 DEF AsksForRetry, Jobs
    <3> QED BY <1>j, <2>1, <3>1
  <2> QED BY <1>1, <2>2, <2>3, <2>4, <2>5, <2>6 DEF JobStep, Done, FetchFails, ExportFails
<1>2. ASSUME NEW x \in Exports, Reset(x) PROVE Placeless'
  <2>1. \A b \in Batches : job'[b] = Over \/ job'[b] = [job[b] EXCEPT !.ours = FALSE]
    BY <1>2 DEF Reset, Disowned
  <2>2. \A b \in Batches :
          \/ job'[b].pc = "ended" /\ job'[b].on = "none"
          \/ /\ job'[b].pc = job[b].pc /\ job'[b].on = job[b].on
             /\ job'[b].inc = job[b].inc /\ job'[b].at = job[b].at
    BY <1>0, <2>1 DEF Over, NoJob, Jobs
  <2> QED BY <2>2 DEF Placeless
<1>3. ASSUME NEW t \in Threads, Restart(t) PROVE Placeless'
  <2>1. \A b \in Batches :
          job'[b] = job[b] \/ (job'[b].pc = "ended" /\ job'[b].on = "none")
    BY <1>3, EndedIs DEF Restart
  <2> QED BY <2>1 DEF Placeless
<1>4. ASSUME NEW x \in Exports, FirstJob(x) PROVE Placeless'
  BY <1>4, <1>q DEF FirstJob
<1>5. CASE DogRestarts
  BY <1>5, <1>q DEF DogRestarts
<1>6. ASSUME NEW x \in Exports,
             Claim(x) \/ InitCursor(x) \/ InitLimit(x) \/ NewBatch(x) \/ InitThrows(x)
               \/ \E t \in Threads : StartExport(x, t)
      PROVE  Placeless'
  BY <1>6 DEF Claim, InitCursor, InitLimit, NewBatch, InitThrows, StartExport, Placeless
<1>7. CASE DogLooks \/ DogReplaces \/ DogNotes \/ DogIsLate \/ UNCHANGED vars
  BY <1>7 DEF DogLooks, DogReplaces, DogNotes, DogIsLate, vars, Placeless
<1> QED BY <1>1, <1>2, <1>3, <1>4, <1>5, <1>6, <1>7 DEF Next, UserStep, DogStep

(* Steps that take no interval, and leave to a chain what is not exported. *)
LEMMA SkipsKept ==
  ASSUME NobodySkips, \A c \in Chunks : c[1] <= cursor' => c[1] <= cursor,
         \A c \in Chunks : exported[c] >= 1 => exported'[c] >= 1,
         \A b \in Batches, c \in Chunks : LeftTo(b, c) => LeftTo(b, c)' \/ exported'[c] >= 1
  PROVE  NobodySkips'
BY DEF NobodySkips

(* A chain that ends keeps what is left to it. *)
LEMMA EndedKeeps ==
  ASSUME Types, Placeless, NEW b \in Batches, job[b].pc \notin {"none", "ended"},
         job'[b] = Ended(b), NEW c \in Chunks, LeftTo(b, c)
  PROVE  LeftTo(b, c)'
<1>1. job[b].at # 0 /\ job[b].pc \in JobPcs
  BY ChunkIsPair DEF LeftTo, Types, Jobs
<1>2. Holds(b)
  BY <1>1 DEF Placeless, Holds, LeftTo, JobPcs
<1> QED BY <1>2, EndedIs DEF LeftTo

(* A chain takes the next interval, exports of it, or ends. *)
LEMMA SkipsJobs ==
  ASSUME Types, Types', Placeless, NobodySkips, NEW b \in Batches,
         JobStep(b) \/ FetchFails(b) \/ AsksForRetry(b) \/ ExportFails(b)
  PROVE  NobodySkips'
<1>0. /\ job \in [Batches -> Jobs] /\ cursor \in Nat /\ job[b].offset \in Nat
      /\ job[b].at \in Nat /\ exported \in [Chunks -> Nat]
  BY DEF Types, Jobs
<1>1. \A a \in Batches : a # b => job'[a] = job[a]
  BY <1>0 DEF JobStep, NextInterval, Done, Export, Take, FetchFails, AsksForRetry, ExportFails, End
<1>2. ASSUME Count(b)
      PROVE  \A c \in Chunks :
               /\ exported[c] >= 1 => exported'[c] >= 1
               /\ c = <<job[b].at, job[b].offset>> /\ job[b].ours => exported'[c] >= 1
  BY <1>0, <1>2 DEF Count
<1>e. ASSUME End(b), job[b].pc \notin {"none", "ended"}, cursor' = cursor,
             UNCHANGED exported \/ Count(b)
      PROVE  NobodySkips'
  <2>1. \A c \in Chunks : LeftTo(b, c) => LeftTo(b, c)'
    BY <1>0, <1>e, EndedKeeps DEF End
  <2> QED BY <1>1, <1>2, <1>e, <2>1, SkipsKept DEF LeftTo
<1>3. ASSUME NEW t \in Threads, Take(b, t) PROVE NobodySkips'
  <2>1. CASE job[b].id = batchId
    <3>1. /\ job'[b].at = job[b].at /\ job'[b].offset = job[b].offset /\ job'[b].ours = job[b].ours
          /\ UNCHANGED <<exported, cursor>>
      BY <1>0, <1>3, <2>1 DEF Take, Jobs, storage
    <3> QED BY <1>1, <3>1, SkipsKept DEF LeftTo
  <2>2. CASE job[b].id # batchId
    BY <1>3, <1>e, <2>2 DEF Take, storage
  <2> QED BY <2>1, <2>2
<1>4. CASE NextInterval(b)
  <2>1. /\ cursor' = cursor + 1 /\ exported' = exported /\ job[b].pc = "due"
        /\ job'[b].at = cursor + 1 /\ job'[b].offset = 0 /\ job'[b].ours
    BY <1>0, <1>4 DEF NextInterval, Jobs
  <2>2. \A c \in Chunks : ~LeftTo(b, c)
    BY <2>1, ChunkIsPair DEF Placeless, LeftTo
  <2> SUFFICES ASSUME NEW c \in Chunks, c[1] <= cursor + 1
               PROVE  exported[c] >= 1 \/ \E a \in Batches : LeftTo(a, c)'
    BY <2>1 DEF NobodySkips
  <2>3. c[1] \in Nat /\ c[2] \in Nat
    BY ChunkIsPair, HistoricalAssumption
  <2>4. CASE c[1] = cursor + 1
    BY <2>1, <2>3, <2>4 DEF LeftTo
  <2>5. CASE c[1] # cursor + 1
    <3>1. c[1] <= cursor
      BY <1>0, <2>3, <2>5
    <3> QED BY <1>1, <2>2, <3>1 DEF NobodySkips, LeftTo
  <2> QED BY <2>4, <2>5
<1>5. CASE Export(b)
  <2>1. Count(b) /\ cursor' = cursor
    BY <1>5 DEF Export, storage
  <2>2. ASSUME NEW c \in Chunks, LeftTo(b, c) PROVE LeftTo(b, c)' \/ exported'[c] >= 1
    <3>1. /\ c = <<c[1], c[2]>> /\ c[1] = job[b].at /\ c[2] \in Nat /\ c[2] >= job[b].offset
          /\ job[b].ours
      BY <1>0, <2>2, ChunkIsPair DEF LeftTo
    <3>2. CASE c[2] = job[b].offset
      BY <1>2, <2>1, <3>1, <3>2
    <3>3. CASE c[2] # job[b].offset
      <4>1. <<job[b].at, job[b].offset>> \in Chunks
        BY <1>0, <3>1, NothingAfter
      <4>2. /\ job'[b].at = job[b].at /\ job'[b].offset = job[b].offset + 1
            /\ job'[b].ours = job[b].ours
        BY <1>0, <1>5, <4>1 DEF Export, Jobs
      <4>3. job[b].offset + 1 <= c[2]
        BY <1>0, <3>1, <3>3
      <4> QED BY <3>1, <4>2, <4>3 DEF LeftTo
    <3> QED BY <3>2, <3>3
  <2> QED BY <1>1, <1>2, <2>1, <2>2, SkipsKept DEF LeftTo
<1>6. CASE AsksForRetry(b)
  <2>1. /\ job'[b].at = job[b].at /\ job'[b].offset = job[b].offset /\ job'[b].ours = job[b].ours
        /\ UNCHANGED <<exported, cursor>>
    BY <1>0, <1>6 DEF AsksForRetry, Jobs, storage
  <2> QED BY <1>1, <2>1, SkipsKept DEF LeftTo
<1>7. CASE Done(b) \/ FetchFails(b) \/ ExportFails(b)
  BY <1>7, <1>e DEF Done, FetchFails, ExportFails, storage
<1> QED BY <1>3, <1>4, <1>5, <1>6, <1>7 DEF JobStep

(* A new chain has nothing left from before. *)
LEMMA SkipsFirst ==
  ASSUME Types, NobodySkips, NEW n \in Batches, Idle(n), job' = First(n),
         UNCHANGED <<exported, cursor>>
  PROVE  NobodySkips'
<1>1. ~job[n].ours /\ \A a \in Batches : a # n => job'[a] = job[a]
  BY DEF First, Idle, Types
<1> QED BY <1>1, SkipsKept DEF LeftTo

(* Nobody else moves the cursor on, except to where an export begins. *)
LEMMA SkipsOthers ==
  ASSUME Types, Types', Numbered, Placeless, NobodySkips,
         \/ \E x \in Exports : UserStep(x) \/ InitThrows(x) \/ \E t \in Threads : StartExport(x, t)
         \/ DogStep \/ DogIsLate \/ \E t \in Threads : Restart(t)
  PROVE  NobodySkips'
<1>n. \A c \in Chunks : ~(c[1] <= 0) /\ ~(c[1] <= 2)
  BY ChunkIsPair, HistoricalAssumption
<1>q. ASSUME UNCHANGED <<exported, job>>, cursor' = cursor PROVE NobodySkips'
  BY <1>q, SkipsKept DEF LeftTo
<1>1. ASSUME NEW x \in Exports, Reset(x) PROVE NobodySkips'
  <2>1. cursor' = 0
    BY <1>1 DEF Reset
  <2> QED BY <1>n, <2>1 DEF NobodySkips
<1>2. ASSUME NEW x \in Exports, InitCursor(x) PROVE NobodySkips'
  <2>1. cursor' = 2 \/ cursor' = cursor
    BY <1>2 DEF InitCursor
  <2>2. CASE cursor' = 2
    BY <1>n, <2>2 DEF NobodySkips
  <2>3. CASE cursor' = cursor
    BY <1>2, <1>q, <2>3 DEF InitCursor
  <2> QED BY <2>1, <2>2, <2>3
<1>3. ASSUME NEW x \in Exports, FirstJob(x) PROVE NobodySkips'
  BY <1>3, SkipsFirst DEF FirstJob, Numbered, storage
<1>4. CASE DogRestarts
  BY <1>4, SkipsFirst DEF DogRestarts, Numbered
<1>5. ASSUME NEW t \in Threads, Restart(t) PROVE NobodySkips'
  <2>1. ASSUME NEW b \in Batches, NEW c \in Chunks, LeftTo(b, c) PROVE LeftTo(b, c)'
    <3>1. CASE job[b].on = t
      <4>1. job[b].pc \notin {"none", "ended"} /\ job'[b] = Ended(b)
        BY <1>5, <3>1, HistoricalAssumption DEF Restart, Placeless
      <4> QED BY <2>1, <4>1, EndedKeeps
    <3>2. CASE job[b].on # t
      BY <1>5, <2>1, <3>2 DEF Restart, LeftTo
    <3> QED BY <3>1, <3>2
  <2> QED BY <1>5, <2>1, SkipsKept DEF Restart
<1>6. ASSUME NEW x \in Exports,
             Claim(x) \/ InitLimit(x) \/ NewBatch(x) \/ InitThrows(x)
               \/ \E t \in Threads : StartExport(x, t)
      PROVE  NobodySkips'
  BY <1>6, <1>q DEF Claim, InitLimit, NewBatch, InitThrows, StartExport, storage
<1>7. CASE DogLooks \/ DogReplaces \/ DogNotes \/ DogIsLate
  BY <1>7, <1>q DEF DogLooks, DogReplaces, DogNotes, DogIsLate, storage
<1> QED BY <1>1, <1>2, <1>3, <1>4, <1>5, <1>6, <1>7 DEF UserStep, DogStep

(* So NobodySkips is inductive relative to the numbers and the places. *)
LEMMA SkipsStep ==
  Types /\ Types' /\ Numbered /\ Placeless /\ NobodySkips /\ [Next]_vars => NobodySkips'
<1>1. ASSUME NobodySkips, UNCHANGED vars PROVE NobodySkips'
  BY <1>1 DEF vars, storage, NobodySkips, LeftTo
<1> QED BY <1>1, SkipsJobs, SkipsOthers DEF Next

(* Whatever interferes with an export, a chunk behind the cursor was exported, or is *)
(* left to a chain that holds its interval or ended there; and an export nobody      *)
(* interfered with passes an interval only when all its chunks were exported, and is *)
(* over only when it has passed the last one.                                        *)
THEOREM HistoricalNothingMissed == Spec => []NothingMissed
<1>1. Init => NobodySkips
  BY ChunkIsPair, HistoricalAssumption DEF Init, NobodySkips
<1>2. Types /\ Phases /\ NobodySkips => NothingMissed
  BY PhasesComplete DEF NothingMissed
<1> QED BY <1>1, <1>2, PhasesInit, PhasesStep, NumberedInit, NumberedStep, PlacelessStep, SkipsStep,
           HistoricalTypeCorrect, PTL DEF Spec

=============================================================================
