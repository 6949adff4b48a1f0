---------------------------- MODULE PersonState ----------------------------
(***************************************************************************)
(* Concurrent events that create, identify, alias and merge persons        *)
(* (src/plugin-server/src/worker/ingestion/person-state.ts, with the       *)
(* Postgres statements of utils/db/db.ts, LazyPersonContainer and          *)
(* PersonManager).                                                         *)
(*                                                                         *)
(* One process per event in flight.  A step is what runs between two       *)
(* awaits: one SQL statement and the synchronous code after it.            *)
(* createPerson and the autocommitted statements are single steps; the     *)
(* merge transaction is four statements and a COMMIT.  Its writes stay     *)
(* invisible until COMMIT, while its row locks make others wait, so they   *)
(* are applied at COMMIT and the locks are read off the process's pc.      *)
(* Foreign keys are deferred to COMMIT, as the Django migrations declare.  *)
(*                                                                         *)
(* Property values, timestamps and the Redis person caches are abstracted; *)
(* what is kept of a person row is is_identified and version.              *)
(***************************************************************************)
EXTENDS Integers, FiniteSets

CONSTANTS
  Events,       \* processes, one per event
  Workers,      \* worker threads, each with its own PersonManager
  WorkerOf,     \* [Events -> Workers]
  Dids,         \* distinct ids of one team
  IllegalIds,   \* those isDistinctIdIllegal rejects
  Inputs,       \* the event payloads that may arrive
  Starts,       \* possible owners of the ids at the start: [Dids -> 0..MaxPerson]
  MaxPerson,    \* bound: person rows ever inserted
  MaxFaults     \* bound: crashes and failed Kafka writes

Pids     == 1..MaxPerson
Rows     == [live : BOOLEAN, ident : BOOLEAN, ver : Nat]
Versions == [ver : Int, ident : BOOLEAN, del : BOOLEAN]      \* ClickHouse person
Owners   == [owner : 0..MaxPerson, ver : Int]                \* a distinct id row
Snapshots == [id : 0..MaxPerson, ident : BOOLEAN]            \* a Person held in memory
Payloads == [kind : {"event", "identify", "alias"}, did : Dids, prev : Dids, sets : BOOLEAN]

ASSUME PersonAssumption ==
  /\ WorkerOf \in [Events -> Workers]
  /\ IllegalIds \subseteq Dids
  /\ Inputs \subseteq Payloads
  /\ MaxPerson \in Nat /\ MaxFaults \in Nat
  /\ Starts \subseteq [Dids -> 0..MaxPerson]

MAX_FAILED_PERSON_MERGE_ATTEMPTS == 3

NoPerson == [id |-> 0, ident |-> FALSE]                      \* undefined
Fresh    == [memo |-> FALSE, person |-> NoPerson]            \* container.reset()
With(s)  == [memo |-> TRUE, person |-> s]                    \* container.with(person)

(* A set of Kafka messages: at most one per row; version -1 means none. *)
NoMsgs == [person |-> [i \in Pids |-> [ver |-> -1, ident |-> FALSE, del |-> FALSE]],
           pdi    |-> [d \in Dids |-> [owner |-> 0, ver |-> -1]]]
Messages == [person : [Pids -> Versions], pdi : [Dids -> Owners]]

VARIABLES
  person,    \* analytickit_person, committed
  pdi,       \* analytickit_persondistinctid, committed; owner 0 means no row
  nextId,    \* the next person id
  chPerson,  \* ClickHouse person, collapsed to the highest version
  chPdi,     \* ClickHouse person_distinct_id2, collapsed likewise
  seen,      \* per worker: personSeen
  ps,        \* per event: its PersonState
  faults     \* faults so far

vars == <<person, pdi, nextId, chPerson, chPdi, seen, ps, faults>>
db   == <<person, pdi, nextId>>
ch   == <<chPerson, chPdi>>

Idle(e) == [pc |-> "idle", ev |-> e, box |-> Fresh, old |-> NoPerson, new |-> NoPerson,
            retry |-> TRUE, tries |-> 0, moved |-> {}, flag |-> FALSE, again |-> FALSE,
            got |-> NoPerson, said |-> "nothing", out |-> NoMsgs]

Init ==
  \E s \in Starts, I \in SUBSET Pids :
    /\ I \subseteq {s[d] : d \in Dids}
    /\ person = [i \in Pids |-> [live |-> \E d \in Dids : s[d] = i, ident |-> i \in I, ver |-> 0]]
    /\ pdi = [d \in Dids |-> [owner |-> s[d], ver |-> 0]]
    /\ nextId \in 1..MaxPerson + 1
    /\ \A i \in Pids : i < nextId <=> person[i].live
    /\ chPerson = [i \in Pids |-> [ver |-> IF person[i].live THEN 0 ELSE -1,
                                   ident |-> person[i].ident, del |-> FALSE]]
    /\ chPdi = [d \in Dids |-> [owner |-> s[d], ver |-> IF s[d] = 0 THEN -1 ELSE 0]]
    /\ seen = [w \in Workers |-> {}]
    /\ \E in \in [Events -> Inputs] : ps = [p \in Events |-> Idle(in[p])]
    /\ faults = 0

----------------------------------------------------------------------------
(* Postgres *)

PidOf(d) == pdi[d].owner

Fetch(d) == IF PidOf(d) = 0 THEN NoPerson
            ELSE [id |-> PidOf(d), ident |-> person[PidOf(d)].ident]

(* container.get(): a resolved promise is returned again, whatever it holds. *)
Get(p) == IF ps[p].box.memo THEN ps[p].box.person ELSE Fetch(ps[p].ev.did)

(* Row locks of the merge transactions, held until COMMIT or ROLLBACK. *)
LocksPerson(q, i) ==
  \/ ps[q].pc \in {"move", "delete", "commit"} /\ ps[q].new.id = i
  \/ ps[q].pc = "commit" /\ ps[q].old.id = i
Deletes(q, i)  == ps[q].pc = "commit" /\ ps[q].old.id = i
LocksId(q, d)  == ps[q].pc \in {"delete", "commit"} /\ d \in ps[q].moved

(* The transaction q stands in the way of the next statement of the merge of p. *)
WaitsFor(p, q) ==
  /\ p # q
  /\ \/ ps[p].pc = "merge"  /\ LocksPerson(q, ps[p].new.id)
     \/ ps[p].pc = "move"   /\ \E d \in Dids : PidOf(d) = ps[p].old.id /\ LocksId(q, d)
     \/ ps[p].pc = "delete" /\ LocksPerson(q, ps[p].old.id)
Waits(p) == \E q \in Events : WaitsFor(p, q)

(* p is on a cycle: every set closed under waiting that has what p waits for has p. *)
Deadlocked(p) ==
  Waits(p) /\ \A S \in SUBSET Events :
    ({q \in Events : WaitsFor(p, q)} \subseteq S
       /\ \A q \in S : {r \in Events : WaitsFor(q, r)} \subseteq S) => p \in S

Held(D) == \E q \in Events, d \in D : LocksId(q, d)

PersonRow(i, ident, ver) == [NoMsgs.person EXCEPT ![i] = [ver |-> ver, ident |-> ident, del |-> FALSE]]

(* A row of a distinct id is also the Kafka message about it. *)
NewIdRow(i)    == [owner |-> i, ver |-> 0]
MovedRow(d, i) == [owner |-> i, ver |-> pdi[d].ver + 1]

(* ReplacingMergeTree: the row of the highest version survives. *)
Newest(table, msgs) ==
  [k \in DOMAIN table |->
     IF msgs[k].ver >= 0 /\ msgs[k].ver >= table[k].ver THEN msgs[k] ELSE table[k]]

----------------------------------------------------------------------------
(* Control of one event *)

Aliases(e) == e.kind \in {"identify", "alias"} /\ e.did \notin IllegalIds /\ e.did # e.prev
Should(p)  == ps[p].ev.kind = "identify"                    \* shouldIdentifyPerson
NeedsUpdate(r) == r.ev.sets \/ r.flag

At(p, pc) == ps[p].pc = pc
Set(p, r) == ps' = [ps EXCEPT ![p] = r]

(* Mutant: an exception leaves the moved rows behind. *)
Threw_keepsRows(r, why) == [r EXCEPT !.pc = "props", !.said = why]

(* An exception leaves handleIdentifyOrAlias, which logs it and goes on. *)
Threw(r, why) == [r EXCEPT !.pc = "props", !.said = why, !.moved = {}]

(* The catch blocks of aliasDeprecated: once more, or not at all. *)
Caught(r) == IF r.retry THEN [r EXCEPT !.pc = "alias", !.retry = FALSE]
             ELSE Threw(r, "swallowed")

(* createPersonIfDistinctIdIsNew has answered. *)
Checked(r) == [r EXCEPT !.pc = IF NeedsUpdate(r) THEN "update" ELSE "done"]

(* emitToBufferStep fetches the person unless the event came as a $snapshot or *)
(* out of the buffer; $identify events are neither.                            *)
Receive(p) ==
  /\ At(p, "idle")
  /\ \E fetched \in BOOLEAN :
       /\ ~fetched => ps[p].ev.kind # "identify"
       /\ Set(p, [ps[p] EXCEPT
             !.box = IF fetched THEN With(Fetch(ps[p].ev.did)) ELSE Fresh,
             !.pc  = IF Aliases(ps[p].ev) THEN "alias" ELSE "props"])
  /\ UNCHANGED <<db, ch, seen, faults>>

FetchOld(p) ==
  /\ At(p, "alias")
  /\ Set(p, [ps[p] EXCEPT !.old = Fetch(ps[p].ev.prev), !.pc = "decide"])
  /\ UNCHANGED <<db, ch, seen, faults>>

(* The branches of aliasDeprecated, on an old person just read and a new one *)
(* that may have been read long ago.                                         *)
Decide(p) ==
  LET old == ps[p].old
      new == Get(p)
      r   == [ps[p] EXCEPT !.new = new, !.box = With(new)]
  IN /\ At(p, "decide")
     /\ \/ (old.id = 0) # (new.id = 0) /\ Set(p, [r EXCEPT !.pc = "add"])
        \/ old.id = 0 /\ new.id = 0 /\ Set(p, [r EXCEPT !.pc = "createBoth"])
        \/ /\ old.id # 0 /\ new.id # 0 /\ old.id # new.id
           /\ IF Should(p) /\ old.ident
              THEN Set(p, [r EXCEPT !.flag = TRUE, !.said = "refused", !.pc = "props"])
              ELSE Set(p, [r EXCEPT !.pc = "merge"])
        \/ /\ old.id # 0 /\ old.id = new.id
           /\ Set(p, [r EXCEPT !.flag = Should(p), !.said = "joined", !.pc = "props"])
     /\ UNCHANGED <<db, ch, seen, faults>>

(* The one of the two ids that has no person, and the person it is to have. *)
Target(p)  == IF ps[p].old.id # 0 THEN ps[p].old ELSE ps[p].new
Missing(p) == IF ps[p].old.id # 0 THEN ps[p].ev.did ELSE ps[p].ev.prev

AddDistinctId(p) ==
  LET i == Target(p).id  d == Missing(p) IN
  /\ At(p, "add")
  /\ ~Held({d}) /\ \A q \in Events : ~Deletes(q, i)
  /\ IF PidOf(d) = 0 /\ person[i].live
     THEN /\ pdi' = [pdi EXCEPT ![d] = NewIdRow(i)]
          /\ Set(p, [ps[p] EXCEPT !.pc = "pubAdd",
                   !.out = [NoMsgs EXCEPT !.pdi[d] = NewIdRow(i)]])
     ELSE Set(p, Caught(ps[p])) /\ UNCHANGED pdi
  /\ UNCHANGED <<person, nextId, ch, seen, faults>>

(* createPerson for the ids D: one transaction, undone when an id is taken. *)
Insert(p, D, ident, pc, taken) ==
  /\ ~Held(D)
  /\ \/ /\ \A d \in D : PidOf(d) = 0
        /\ nextId <= MaxPerson
        /\ person' = [person EXCEPT ![nextId] = [live |-> TRUE, ident |-> ident, ver |-> 0]]
        /\ pdi' = [d \in Dids |-> IF d \in D THEN NewIdRow(nextId) ELSE pdi[d]]
        /\ nextId' = nextId + 1
        /\ Set(p, [ps[p] EXCEPT !.pc = pc, !.got = [id |-> nextId, ident |-> ident],
                 !.out = [person |-> PersonRow(nextId, ident, 0),
                          pdi |-> [d \in Dids |-> IF d \in D THEN NewIdRow(nextId)
                                                    ELSE NoMsgs.pdi[d]]]])
     \/ /\ \E d \in D : PidOf(d) # 0
        /\ Set(p, taken)
        /\ UNCHANGED db
  /\ UNCHANGED <<ch, seen, faults>>

CreateBoth(p) ==
  /\ At(p, "createBoth")
  /\ Insert(p, {ps[p].ev.did, ps[p].ev.prev}, Should(p), "pubBoth", Caught(ps[p]))

----------------------------------------------------------------------------
(* mergePeople, one statement at a time *)

Identified(p) == ps[p].new.ident \/ ps[p].old.ident \/ Should(p)

UpdateInto(p) ==
  /\ At(p, "merge") /\ ~Waits(p)
  /\ IF person[ps[p].new.id].live
     THEN Set(p, [ps[p] EXCEPT !.pc = "move",
                    !.box = With([id |-> ps[p].new.id, ident |-> Identified(p)])])
     ELSE Set(p, Threw(ps[p], "failed"))                     \* NoRowsUpdatedError
  /\ UNCHANGED <<db, ch, seen, faults>>

IdsOf(i) == {d \in Dids : PidOf(d) = i}

(* Mutant: no rows moved is not taken for a race. *)
MoveDistinctIds_ignoresNone(p) ==
  /\ At(p, "move") /\ ~Waits(p)
  /\ Set(p, [ps[p] EXCEPT !.moved = IdsOf(ps[p].old.id), !.pc = "delete"])
  /\ UNCHANGED <<db, ch, seen, faults>>

MoveDistinctIds(p) ==
  LET rows == IdsOf(ps[p].old.id) IN
  /\ At(p, "move") /\ ~Waits(p)
  /\ Set(p, IF rows = {} THEN Threw(ps[p], "raced")          \* RaceConditionError
            ELSE [ps[p] EXCEPT !.moved = rows, !.pc = "delete"])
  /\ UNCHANGED <<db, ch, seen, faults>>

DeletePerson(p) ==
  /\ At(p, "delete") /\ ~Waits(p)
  /\ Set(p, [ps[p] EXCEPT !.pc = "commit"])
  /\ UNCHANGED <<db, ch, seen, faults>>

(* Mutant: only the id of the alias is moved by an unchecked foreign key. *)
Dangling_unchecked(p) == FALSE

(* The foreign key of the ids is checked here: a row that still points at the *)
(* deleted person rolls the transaction back, outside the try of mergePeople. *)
Dangling(p) == \E d \in Dids \ ps[p].moved : PidOf(d) = ps[p].old.id

(* Mutant: the delete message carries the version the row had. *)
DeletedVersion_same(v) == v

DeletedVersion(v) == v + 100

Commit(p) ==
  LET r == ps[p]  into == r.new.id  other == r.old.id IN
  /\ At(p, "commit")
  /\ IF Dangling(p)
     THEN Set(p, Threw(r, "uncommitted")) /\ UNCHANGED <<person, pdi>>
     ELSE /\ person' = [person EXCEPT ![into].ver = @ + 1, ![into].ident = Identified(p),
                                     ![other].live = FALSE]
          /\ pdi' = [d \in Dids |-> IF d \in r.moved THEN MovedRow(d, into) ELSE pdi[d]]
          /\ Set(p, [r EXCEPT !.pc = "pubMerge", !.moved = {},
               !.out = [person |-> [NoMsgs.person EXCEPT
                           ![into]  = [ver |-> person[into].ver + 1, ident |-> Identified(p), del |-> FALSE],
                           ![other] = [ver |-> DeletedVersion(person[other].ver), ident |-> r.old.ident,
                                       del |-> TRUE]],
                        pdi |-> [d \in Dids |-> IF d \in r.moved THEN MovedRow(d, into)
                                              ELSE NoMsgs.pdi[d]]]])
  /\ UNCHANGED <<nextId, ch, seen, faults>>

(* Postgres breaks a deadlock: the DatabaseError is counted and the alias is *)
(* run again inside the callback, with no retry of its own.                  *)
DeadlockVictim(p) ==
  LET r == [ps[p] EXCEPT !.tries = @ + 1, !.moved = {}] IN
  /\ Deadlocked(p)
  /\ Set(p, IF r.tries = MAX_FAILED_PERSON_MERGE_ATTEMPTS THEN Threw(r, "failed")
            ELSE [r EXCEPT !.pc = "alias", !.retry = FALSE])
  /\ UNCHANGED <<db, ch, seen, faults>>

----------------------------------------------------------------------------
(* updateProperties *)

(* The id is marked as seen before the query that asks whether it is new. *)
IsNewPerson(p) ==
  LET r == ps[p]  w == WorkerOf[p] IN
  /\ At(p, "props")
  /\ \/ r.box.person # NoPerson /\ Set(p, Checked(r)) /\ UNCHANGED seen
     \/ r.box.person = NoPerson /\ r.ev.did \in seen[w]
        /\ Set(p, Checked([r EXCEPT !.box = Fresh])) /\ UNCHANGED seen
     \/ r.box.person = NoPerson /\ r.ev.did \notin seen[w]
        /\ seen' = [seen EXCEPT ![w] = @ \cup {r.ev.did}]
        /\ Set(p, [r EXCEPT !.pc = "count"])
  /\ UNCHANGED <<db, ch, faults>>

CountIds(p) ==
  /\ At(p, "count")
  /\ Set(p, IF PidOf(ps[p].ev.did) = 0 THEN [ps[p] EXCEPT !.pc = "createOne"]
            ELSE Checked([ps[p] EXCEPT !.box = Fresh]))
  /\ UNCHANGED <<db, ch, seen, faults>>

CreateOne(p) ==
  /\ At(p, "createOne")
  /\ Insert(p, {ps[p].ev.did}, ps[p].flag, "pubOne", Checked([ps[p] EXCEPT !.box = Fresh]))

(* tryUpdatePerson up to its UPDATE.  Whether the properties differ from those *)
(* in memory depends on what was set before.                                   *)
ReadForUpdate(p) ==
  LET f == Get(p)
      r == [ps[p] EXCEPT !.box = With(f)]
  IN /\ At(p, "update")
     /\ \/ f.id = 0 /\ Set(p, [r EXCEPT !.pc = "deadMissing"])
        \/ /\ f.id # 0
           /\ \E differs \in {FALSE, r.ev.sets} :
                Set(p, [r EXCEPT !.pc = IF differs \/ (r.flag /\ ~f.ident) THEN "write" ELSE "done"])
     /\ UNCHANGED <<db, ch, seen, faults>>

(* Mutant: the retry after NoRowsUpdatedError keeps the stale person and is not counted. *)
UpdatePerson_loops(p) ==
  /\ At(p, "write")
  /\ \A q \in Events : ~LocksPerson(q, ps[p].box.person.id)
  /\ Set(p, [ps[p] EXCEPT !.pc = IF person[ps[p].box.person.id].live THEN "done" ELSE "update"])
  /\ UNCHANGED <<db, ch, seen, faults>>

(* updatePersonDeprecated outside a transaction, and the one retry that *)
(* updatePersonProperties grants when the row is gone.                  *)
UpdatePerson(p) ==
  LET r == ps[p]
      i == r.box.person.id
      ident == person[i].ident \/ (r.flag /\ ~r.box.person.ident)
  IN /\ At(p, "write")
     /\ \A q \in Events : ~LocksPerson(q, i)
     /\ IF person[i].live
        THEN /\ person' = [person EXCEPT ![i].ver = @ + 1, ![i].ident = ident]
             /\ Set(p, [r EXCEPT !.pc = "pubUpdate", !.got = [id |-> i, ident |-> ident],
                      !.out = [NoMsgs EXCEPT !.person =
                                 PersonRow(i, ident, person[i].ver + 1)]])
        ELSE /\ Set(p, IF r.again THEN [r EXCEPT !.pc = "deadNoRows"]
                       ELSE [r EXCEPT !.again = TRUE, !.box = Fresh, !.pc = "update"])
             /\ UNCHANGED person
     /\ UNCHANGED <<pdi, nextId, ch, seen, faults>>

----------------------------------------------------------------------------
(* What follows a committed write: its messages, then the code after the await *)

Published(r) ==
  CASE r.pc = "pubAdd"    -> [r EXCEPT !.box = IF r.old.id # 0 THEN With(r.old) ELSE @,
                                       !.flag = r.ev.kind = "identify",
                                       !.said = "joined", !.pc = "props"]
    [] r.pc = "pubBoth"   -> [r EXCEPT !.box = With(r.got), !.said = "joined", !.pc = "props"]
    [] r.pc = "pubMerge"  -> [r EXCEPT !.said = "joined", !.pc = "props"]
    [] OTHER              -> [r EXCEPT !.box = With(r.got), !.pc = "done"]

PublishThrew(r) ==
  CASE r.pc \in {"pubAdd", "pubBoth"} -> Caught(r)
    [] r.pc = "pubMerge"              -> Threw(r, "failed")
    [] r.pc = "pubOne"                -> Checked([r EXCEPT !.box = Fresh])
    [] OTHER                          -> [r EXCEPT !.pc = "dead"]

Publishing == {"pubAdd", "pubBoth", "pubMerge", "pubOne", "pubUpdate"}

Deliver(msgs) == /\ chPerson' = Newest(chPerson, msgs.person)
                 /\ chPdi' = Newest(chPdi, msgs.pdi)

Publish(p) ==
  /\ ps[p].pc \in Publishing
  /\ Deliver(ps[p].out)
  /\ Set(p, [Published(ps[p]) EXCEPT !.out = NoMsgs])
  /\ UNCHANGED <<db, seen, faults>>

(* queueMessages throws at this caller.  Its own messages may stay buffered and *)
(* go out with a later batch.                                                   *)
PublishFails(p) ==
  /\ ps[p].pc \in Publishing
  /\ faults < MaxFaults
  /\ faults' = faults + 1
  /\ Deliver(ps[p].out) \/ UNCHANGED ch
  /\ Set(p, [PublishThrew(ps[p]) EXCEPT !.out = NoMsgs])
  /\ UNCHANGED <<db, seen>>

Ended == {"done", "dead", "deadMissing", "deadNoRows"}

(* A worker dies: Postgres rolls its transactions back, its caches are gone,  *)
(* and Kafka delivers its unfinished events again, with any finished ones     *)
(* whose offsets were not committed.                                          *)
Crash(w) ==
  /\ faults < MaxFaults
  /\ faults' = faults + 1
  /\ seen' = [seen EXCEPT ![w] = {}]
  /\ \E R \in SUBSET {p \in Events : WorkerOf[p] = w /\ ps[p].pc \in Ended} :
       ps' = [p \in Events |->
                IF p \in R \/ (WorkerOf[p] = w /\ ps[p].pc \notin Ended)
                THEN Idle(ps[p].ev) ELSE ps[p]]
  /\ UNCHANGED <<db, ch>>

Settled == \A p \in Events : ps[p].pc \in Ended
Rest    == Settled /\ UNCHANGED vars

Step(p) ==
  \/ Receive(p) \/ FetchOld(p) \/ Decide(p) \/ AddDistinctId(p) \/ CreateBoth(p)
  \/ UpdateInto(p) \/ MoveDistinctIds(p) \/ DeletePerson(p) \/ Commit(p) \/ DeadlockVictim(p)
  \/ IsNewPerson(p) \/ CountIds(p) \/ CreateOne(p) \/ ReadForUpdate(p) \/ UpdatePerson(p)
  \/ Publish(p)

Next ==
  \/ \E p \in Events : Step(p) \/ PublishFails(p)
  \/ \E w \in Workers : Crash(w)
  \/ Rest

Spec     == Init /\ [][Next]_vars
FairSpec == Spec /\ \A p \in Events : WF_vars(Step(p))

----------------------------------------------------------------------------
(* Properties *)

Codes == {"idle", "alias", "decide", "add", "createBoth", "merge", "move", "delete", "commit",
          "props", "count", "createOne", "update", "write"} \cup Publishing \cup Ended

Sayings == {"nothing", "joined", "refused", "swallowed", "raced", "uncommitted", "failed"}

States == [pc : Codes, ev : Inputs, box : [memo : BOOLEAN, person : Snapshots],
           old : Snapshots, new : Snapshots, got : Snapshots, retry : BOOLEAN,
           tries : 0..MAX_FAILED_PERSON_MERGE_ATTEMPTS, moved : SUBSET Dids,
           flag : BOOLEAN, again : BOOLEAN, said : Sayings, out : Messages]

(* Every variable stays in its type; an event is at an UPDATE or in a merge only *)
(* with a person in hand, and holds moved rows only inside its transaction.      *)
TypeOK ==
  /\ person \in [Pids -> Rows]
  /\ pdi \in [Dids -> Owners]
  /\ nextId \in 1..MaxPerson + 1
  /\ chPerson \in [Pids -> Versions] /\ chPdi \in [Dids -> Owners]
  /\ seen \in [Workers -> SUBSET Dids]
  /\ faults \in 0..MaxFaults
  /\ ps \in [Events -> States]
  /\ \A p \in Events :
       LET r == ps[p] IN
       /\ r.pc = "write" => r.box.person.id # 0
       /\ r.pc \in {"merge", "move", "delete", "commit"} =>
            r.new.id # 0 /\ r.old.id # 0 /\ r.new.id # r.old.id
       /\ r.moved # {} => r.pc \in {"delete", "commit"}

(* No person row is left without a distinct id, where no event could ever find *)
(* it again, and no distinct id points at a deleted person.                    *)
NoOrphans ==
  /\ \A i \in Pids : person[i].live => IdsOf(i) # {}
  /\ \A d \in Dids : PidOf(d) # 0 => person[PidOf(d)].live

(* Distinct ids that belong to one person never come to belong to two: whatever *)
(* merges, retries and crashes do, identities only grow together.               *)
IdsStayTogether ==
  [][\A d, e \in Dids : PidOf(d) # 0 /\ PidOf(d) = PidOf(e) => PidOf(d)' = PidOf(e)' /\ PidOf(d)' # 0]_vars

(* When aliasDeprecated or mergePeople ends on one of its success branches the *)
(* two ids really are one person, although the person it worked with may have  *)
(* been read long before.                                                      *)
Joined(e) == PidOf(e.did) # 0 /\ PidOf(e.did) = PidOf(e.prev)

AliasesTakeEffect == \A p \in Events : ps[p].said = "joined" => Joined(ps[p].ev)

(* Once every event has ended, ClickHouse agrees with Postgres on which persons *)
(* exist, which are identified, and who owns each distinct id, in whatever      *)
(* order the messages of concurrent events were sent.                           *)
ClickHouseAgrees ==
  Settled =>
    /\ \A i \in Pids :
         /\ person[i].live <=> chPerson[i].ver >= 0 /\ ~chPerson[i].del
         /\ person[i].live => chPerson[i].ident = person[i].ident
    /\ \A d \in Dids : PidOf(d) = chPdi[d].owner

(* Every event ends: no wait for a row lock, no retry and no deadlock lasts. *)
EventsSettle == <>Settled

(* aliasDeprecated: "for $identify, we'll not merge a user who's already *)
(* identified into anyone else".                                         *)
IdentifyKeepsIdentified ==
  [][\A p \in Events : Should(p) /\ At(p, "commit") /\ ps'[p].pc = "pubMerge"
        => ~person[ps[p].old.id].ident]_vars

=============================================================================
