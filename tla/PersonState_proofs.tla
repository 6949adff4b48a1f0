------------------------- MODULE PersonState_proofs -------------------------
(***************************************************************************)
(* Proofs about PersonState, for any events, workers, ids and bounds:      *)
(* types, no orphaned person, ids never separate, a successful alias has   *)
(* joined its ids, and ClickHouse agrees in the end if nothing was lost.   *)
(*                                                                         *)
(* A person held in memory is stale as soon as it has been read.  What     *)
(* stays true of it is that its id was handed out and that, while its row  *)
(* still lives, the id it was read for belongs to it (Sound): rows die by  *)
(* merges only, and a merge takes every id along.  Two transactions meet   *)
(* only through their row locks (Apart).                                   *)
(***************************************************************************)
EXTENDS PersonState, TLAPS

Types ==
  /\ person \in [Pids -> Rows]
  /\ pdi \in [Dids -> Owners]
  /\ nextId \in 1..MaxPerson + 1
  /\ chPerson \in [Pids -> Versions] /\ chPdi \in [Dids -> Owners]
  /\ seen \in [Workers -> SUBSET Dids]
  /\ faults \in 0..MaxFaults
  /\ ps \in [Events -> States]

(* What a person read for the id d is still good for. *)
Sound(s, d) ==
  s.id # 0 => s.id < nextId /\ (person[s.id].live => PidOf(d) = s.id)

InMerge == {"move", "delete", "commit"}
Moving  == {"delete", "commit"}
Aliasing == {"idle", "alias", "decide", "add", "createBoth", "pubAdd", "pubBoth", "pubMerge",
             "merge"} \cup InMerge

Good(r) ==
  /\ Sound(r.old, r.ev.prev) /\ Sound(r.new, r.ev.did) /\ Sound(r.box.person, r.ev.did)
  /\ r.pc \in {"pubBoth", "pubOne", "pubUpdate"} => Sound(r.got, r.ev.did)
  /\ r.pc = "pubAdd" => Sound(r.old, r.ev.did)
  /\ r.pc = "add" => r.old.id # 0 \/ r.new.id # 0
  /\ r.pc = "write" => r.box.person.id # 0
  /\ r.pc \in InMerge \cup {"merge"} => r.new.id # 0 /\ r.old.id # 0 /\ r.new.id # r.old.id
  /\ r.pc \in InMerge => person[r.new.id].live
  /\ r.moved # {} <=> r.pc \in Moving
  /\ \A d \in r.moved : PidOf(d) = r.old.id
  /\ r.said = "joined" \/ r.pc \in {"pubAdd", "pubBoth", "pubMerge"} => Joined(r.ev)
  /\ r.pc = "decide" /\ r.box.memo /\ r.old.id # 0 /\ r.box.person.id = r.old.id => Joined(r.ev)
  /\ r.pc \in Aliasing => r.tries < MAX_FAILED_PERSON_MERGE_ATTEMPTS

Apart(r, s) ==
  /\ r.pc \in Moving /\ s.pc \in Moving => r.moved \cap s.moved = {}
  /\ r.pc = "commit" /\ s.pc \in InMerge => r.old.id # s.new.id

Numbered == \A i \in Pids : person[i].live => i < nextId

IInv ==
  /\ Types /\ NoOrphans /\ Numbered
  /\ \A p \in Events : Good(ps[p])
  /\ \A p, q \in Events : p # q => Apart(ps[p], ps[q])

OthersTyped ==
  /\ chPerson \in [Pids -> Versions] /\ chPdi \in [Dids -> Owners]
  /\ seen \in [Workers -> SUBSET Dids]
  /\ faults \in 0..MaxFaults

----------------------------------------------------------------------------
(* Steps of one event that leave Postgres alone *)

(* Changing one event's record keeps the others' types. *)
LEMMA OneChanges ==
  ASSUME ps \in [Events -> States], NEW p \in Events, NEW r \in States,
         ps' = [ps EXCEPT ![p] = r]
  PROVE  /\ ps' \in [Events -> States] /\ ps'[p] = r
         /\ \A q \in Events : q # p => ps'[q] = ps[q]
OBVIOUS

(* With Postgres unchanged, the invariant is about the event that moved and its *)
(* locks against the others'.                                                   *)
LEMMA Quiet ==
  ASSUME IInv, NEW p \in Events, UNCHANGED db, OthersTyped',
         ps' \in [Events -> States], \A q \in Events : q # p => ps'[q] = ps[q],
         Good(ps[p])',
         \A q \in Events : q # p => Apart(ps'[p], ps[q]) /\ Apart(ps[q], ps'[p])
  PROVE  IInv'
<1>1. person' = person /\ pdi' = pdi /\ nextId' = nextId
  BY DEF db
<1>2. Types' /\ NoOrphans' /\ Numbered'
  <2>1. Types'
    BY <1>1 DEF IInv, Types, OthersTyped
  <2>2. NoOrphans' /\ Numbered'
    BY <1>1 DEF IInv, NoOrphans, Numbered, IdsOf, PidOf
  <2> QED BY <2>1, <2>2
<1>3. ASSUME NEW q \in Events PROVE Good(ps[q])'
  <2>1. CASE q = p
    BY <2>1, Zenon
  <2>2. CASE q # p
    <3>1. Good(ps[q]) /\ ps'[q] = ps[q]
      BY <2>2 DEF IInv
    <3> QED BY <3>1, <1>1 DEF Good, Sound, Joined, PidOf
  <2> QED BY <2>1, <2>2
<1>4. ASSUME NEW q \in Events, NEW s \in Events, q # s PROVE Apart(ps[q], ps[s])'
  <2>1. Apart(ps'[q], ps'[s])
    BY <1>4 DEF IInv
  <2> QED BY <2>1 DEF Apart
<1> QED BY <1>2, <1>3, <1>4 DEF IInv

(* Outside the merge transaction nothing is locked. *)
LEMMA Outside ==
  ASSUME IInv, NEW p \in Events, NEW r, r \in States, ps' = [ps EXCEPT ![p] = r],
         UNCHANGED db, OthersTyped', r.pc \notin InMerge, Good(r)
  PROVE  IInv'
<1>1. ps \in [Events -> States]
  BY DEF IInv, Types
<1>2. ps' \in [Events -> States] /\ ps'[p] = r /\ \A q \in Events : q # p => ps'[q] = ps[q]
  BY <1>1, OneChanges
<1>3. Good(ps[p])'
  <2>1. person' = person /\ pdi' = pdi /\ nextId' = nextId
    BY DEF db
  <2> QED BY <1>2, <2>1 DEF Good, Sound, Joined, PidOf
<1>4. ASSUME NEW q \in Events PROVE Apart(ps'[p], ps[q]) /\ Apart(ps[q], ps'[p])
  BY <1>2 DEF Apart, InMerge, Moving
<1> QED BY <1>2, <1>3, <1>4, Quiet

(* What an event may rely on about its own record. *)
LEMMA Own ==
  ASSUME IInv, NEW p \in Events
  PROVE  /\ ps[p] \in States /\ Good(ps[p])
         /\ ps[p].ev \in Inputs
         /\ ps[p].ev.did \in Dids /\ ps[p].ev.prev \in Dids /\ ps[p].ev.sets \in BOOLEAN
<1>1. ps[p] \in States /\ Good(ps[p])
  BY DEF IInv, Types
<1>2. ps[p].ev \in Inputs
  BY <1>1 DEF States
<1> QED BY <1>1, <1>2, PersonAssumption DEF Payloads

(* A person just read is a snapshot, and as good as one can be. *)
LEMMA FetchSound ==
  ASSUME IInv, NEW d \in Dids
  PROVE  Fetch(d) \in Snapshots /\ Sound(Fetch(d), d) /\ Fetch(d).id = PidOf(d)
<1>1. PidOf(d) \in 0..MaxPerson
  BY DEF IInv, Types, Owners, PidOf
<1>2. MaxPerson \in Nat
  BY PersonAssumption
<1>3. CASE PidOf(d) = 0
  BY <1>3, <1>2 DEF Fetch, NoPerson, Snapshots, Sound
<1>4. CASE PidOf(d) # 0
  <2>1. PidOf(d) \in Pids
    BY <1>1, <1>2, <1>4 DEF Pids
  <2>2. person[PidOf(d)].live /\ PidOf(d) < nextId
    BY <2>1, <1>4 DEF IInv, NoOrphans, Numbered
  <2>3. person[PidOf(d)].ident \in BOOLEAN
    BY <2>1 DEF IInv, Types, Rows
  <2>4. Fetch(d) = [id |-> PidOf(d), ident |-> person[PidOf(d)].ident]
    BY <1>4 DEF Fetch
  <2> QED BY <2>2, <2>3, <2>4, <1>1 DEF Snapshots, Sound
<1> QED BY <1>3, <1>4

(* What the container answers, remembered or read now. *)
LEMMA GetSound ==
  ASSUME IInv, NEW p \in Events
  PROVE  Get(p) \in Snapshots /\ Sound(Get(p), ps[p].ev.did)
<1>1. CASE ps[p].box.memo
  BY <1>1, Own DEF Get, Good, States
<1>2. CASE ~ps[p].box.memo
  BY <1>2, Own, FetchSound DEF Get
<1> QED BY <1>1, <1>2

(* The ends of a failed attempt. *)
LEMMA ThrewGood ==
  ASSUME IInv, NEW r \in States, Good(r), NEW why \in Sayings, why # "joined"
  PROVE  Threw(r, why) \in States /\ Good(Threw(r, why)) /\ Threw(r, why).pc = "props"
<1> DEFINE t == Threw(r, why)
<1>1. t = [r EXCEPT !.pc = "props", !.said = why, !.moved = {}]
  BY DEF Threw
<1>2. "props" \in Codes
  BY DEF Codes
<1>3. t \in States
  BY <1>1, <1>2 DEF States
<1>4. /\ t.pc = "props" /\ t.said = why /\ t.moved = {} /\ t.ev = r.ev /\ t.old = r.old
      /\ t.new = r.new /\ t.box = r.box
  BY <1>1 DEF States
<1>5. Good(t)
  BY <1>4 DEF Good, InMerge, Moving, Aliasing
<1> QED BY <1>3, <1>4, <1>5

LEMMA CaughtGood ==
  ASSUME IInv, NEW r \in States, Good(r), r.pc \in Aliasing, r.moved = {}
  PROVE  Caught(r) \in States /\ Good(Caught(r)) /\ Caught(r).pc \notin InMerge
<1>1. CASE r.retry
  <2> DEFINE t == [r EXCEPT !.pc = "alias", !.retry = FALSE]
  <2>1. Caught(r) = t
    BY <1>1 DEF Caught
  <2>2. "alias" \in Codes
    BY DEF Codes
  <2>3. t \in States
    BY <2>2 DEF States
  <2>4. /\ t.pc = "alias" /\ t.said = r.said /\ t.moved = {} /\ t.ev = r.ev /\ t.old = r.old
        /\ t.new = r.new /\ t.box = r.box /\ t.tries = r.tries
    BY DEF States
  <2>5. Good(t)
    BY <2>4 DEF Good, InMerge, Moving
  <2> QED BY <2>1, <2>3, <2>4, <2>5 DEF InMerge
<1>2. CASE ~r.retry
  BY <1>2, ThrewGood DEF Caught, Sayings, InMerge
<1> QED BY <1>1, <1>2

LEMMA CheckedGood ==
  ASSUME IInv, NEW r \in States, Good(r), r.moved = {}
  PROVE  Checked(r) \in States /\ Good(Checked(r)) /\ Checked(r).pc \notin InMerge
<1> DEFINE t == Checked(r)
<1>1. PICK pc \in {"update", "done"} : t = [r EXCEPT !.pc = pc]
  BY DEF Checked
<1>2. pc \in Codes /\ pc \notin InMerge \cup Aliasing
  BY <1>1 DEF Codes, Ended, Publishing, InMerge, Aliasing
<1>3. t \in States
  BY <1>1, <1>2 DEF States
<1>4. /\ t.pc = pc /\ t.said = r.said /\ t.moved = {} /\ t.ev = r.ev /\ t.old = r.old
      /\ t.new = r.new /\ t.box = r.box
  BY <1>1 DEF States
<1>5. Good(t)
  BY <1>4, <1>2, <1>1 DEF Good, InMerge, Moving, Aliasing
<1> QED BY <1>2, <1>3, <1>4, <1>5

(* Forgetting the person in the container is always allowed. *)
LEMMA FreshGood ==
  ASSUME IInv, NEW r \in States, Good(r), r.pc \notin {"decide", "write"}
  PROVE  [r EXCEPT !.box = Fresh] \in States /\ Good([r EXCEPT !.box = Fresh])
<1> DEFINE t == [r EXCEPT !.box = Fresh]
<1>1. Fresh \in [memo : BOOLEAN, person : Snapshots] /\ Fresh.person.id = 0
  BY PersonAssumption DEF Fresh, NoPerson, Snapshots
<1>2. t \in States
  BY <1>1 DEF States
<1>3. /\ t.pc = r.pc /\ t.said = r.said /\ t.moved = r.moved /\ t.ev = r.ev /\ t.old = r.old
      /\ t.new = r.new /\ t.box = Fresh /\ t.got = r.got /\ t.tries = r.tries
  BY DEF States
<1>4. Good(t)
  BY <1>3, <1>1 DEF Good, Sound
<1> QED BY <1>2, <1>4

----------------------------------------------------------------------------
(* The actions, outside the merge transaction *)

LEMMA CodesFact ==
  /\ \A x \in {"idle", "alias", "decide", "add", "createBoth", "merge", "move", "delete", "commit",
                "props", "count", "createOne", "update", "write", "pubAdd", "pubBoth", "pubMerge",
                "pubOne", "pubUpdate", "done", "dead", "deadMissing", "deadNoRows"} : x \in Codes
  /\ \A x \in {"idle", "alias", "decide", "add", "createBoth", "merge", "props", "count", "createOne",
                "update", "write", "pubAdd", "pubBoth", "pubMerge", "pubOne", "pubUpdate", "done",
                "dead", "deadMissing", "deadNoRows"} : x \notin InMerge /\ x \notin Moving
BY DEF Codes, Publishing, Ended, InMerge, Moving

LEMMA Typed == ASSUME IInv, UNCHANGED <<ch, seen, faults>> PROVE OthersTyped'
BY DEF IInv, Types, OthersTyped, ch

LEMMA ReceiveInv == ASSUME IInv, NEW p \in Events, Receive(p) PROVE IInv'
<1>1. PICK fetched \in BOOLEAN :
        Set(p, [ps[p] EXCEPT
             !.box = IF fetched THEN With(Fetch(ps[p].ev.did)) ELSE Fresh,
             !.pc  = IF Aliases(ps[p].ev) THEN "alias" ELSE "props"])
  BY DEF Receive
<1> DEFINE b == IF fetched THEN With(Fetch(ps[p].ev.did)) ELSE Fresh
           c == IF Aliases(ps[p].ev) THEN "alias" ELSE "props"
           r == [ps[p] EXCEPT !.box = b, !.pc = c]
<1>2. b \in [memo : BOOLEAN, person : Snapshots] /\ Sound(b.person, ps[p].ev.did)
  BY Own, FetchSound, PersonAssumption DEF With, Fresh, NoPerson, Snapshots, Sound
<1>3. c \in {"alias", "props"} /\ c \in Codes /\ c \notin InMerge
  BY CodesFact
<1> HIDE DEF b, c
<1>4. ps[p] \in States /\ Good(ps[p]) /\ ps[p].pc = "idle"
  BY Own DEF Receive, At
<1>5. r \in States
  BY <1>2, <1>3, <1>4 DEF States
<1>6. /\ r.pc = c /\ r.box = b /\ r.old = ps[p].old /\ r.new = ps[p].new /\ r.ev = ps[p].ev
      /\ r.moved = ps[p].moved /\ r.said = ps[p].said /\ r.tries = ps[p].tries
  BY <1>4 DEF States
<1>7. Good(r)
  BY <1>2, <1>3, <1>4, <1>6 DEF Good, InMerge, Moving, Aliasing
<1>8. ps' = [ps EXCEPT ![p] = r]
  BY <1>1 DEF Set, b, c
<1>9. UNCHANGED db /\ OthersTyped'
  BY Typed DEF Receive
<1> QED BY <1>3, <1>5, <1>6, <1>7, <1>8, <1>9, Outside

LEMMA FetchOldInv == ASSUME IInv, NEW p \in Events, FetchOld(p) PROVE IInv'
<1> DEFINE o == Fetch(ps[p].ev.prev)
           r == [ps[p] EXCEPT !.old = o, !.pc = "decide"]
<1>1. ps[p] \in States /\ Good(ps[p]) /\ ps[p].pc = "alias"
  BY Own DEF FetchOld, At
<1>2. o \in Snapshots /\ Sound(o, ps[p].ev.prev) /\ o.id = PidOf(ps[p].ev.prev)
  BY Own, FetchSound
<1>3. o.id # 0 /\ ps[p].box.person.id = o.id => Joined(ps[p].ev)
  <2> HAVE o.id # 0 /\ ps[p].box.person.id = o.id
  <2>1. o.id \in Pids /\ person[o.id].live
    BY <1>2, Own DEF IInv, Types, NoOrphans, Owners, PidOf, Pids
  <2>2. PidOf(ps[p].ev.did) = o.id
    BY <1>1, <2>1 DEF Good, Sound
  <2> QED BY <2>2, <1>2 DEF Joined
<1> HIDE DEF o
<1>4. r \in States
  BY <1>1, <1>2, CodesFact DEF States
<1>5. /\ r.pc = "decide" /\ r.box = ps[p].box /\ r.old = o /\ r.new = ps[p].new /\ r.ev = ps[p].ev
      /\ r.moved = ps[p].moved /\ r.said = ps[p].said /\ r.tries = ps[p].tries
  BY <1>1 DEF States
<1>6. Good(r)
  BY <1>1, <1>2, <1>3, <1>5 DEF Good, InMerge, Moving, Aliasing
<1>7. ps' = [ps EXCEPT ![p] = r] /\ UNCHANGED db /\ OthersTyped'
  BY Typed DEF FetchOld, Set, o
<1> QED BY <1>4, <1>5, <1>6, <1>7, CodesFact, Outside

LEMMA DecideInv == ASSUME IInv, NEW p \in Events, Decide(p) PROVE IInv'
<1> DEFINE old == ps[p].old
           new == Get(p)
           n   == [ps[p] EXCEPT !.new = new, !.box = With(new)]
<1>1. ps[p] \in States /\ Good(ps[p]) /\ ps[p].pc = "decide" /\ ps[p].ev \in Inputs
  BY Own DEF Decide, At
<1>2. new \in Snapshots /\ Sound(new, ps[p].ev.did)
  BY GetSound
<1>3. old.id # 0 /\ old.id = new.id => Joined(ps[p].ev)
  <2> HAVE old.id # 0 /\ old.id = new.id
  <2>1. CASE ps[p].box.memo
    BY <2>1, <1>1 DEF Get, Good
  <2>2. CASE ~ps[p].box.memo
    <3>1. new.id = PidOf(ps[p].ev.did) /\ new.id # 0
      BY <2>2, Own, FetchSound DEF Get
    <3>2. new.id \in Pids /\ person[new.id].live
      BY <3>1, Own DEF IInv, Types, NoOrphans, Owners, PidOf, Pids
    <3>3. PidOf(ps[p].ev.prev) = old.id
      BY <3>1, <3>2, <1>1 DEF Good, Sound
    <3> QED BY <3>1, <3>3 DEF Joined
  <2> QED BY <2>1, <2>2
<1> HIDE DEF new
<1>4. With(new) \in [memo : BOOLEAN, person : Snapshots] /\ With(new).person = new
  BY <1>2 DEF With
<1>5. n \in States
  BY <1>1, <1>2, <1>4 DEF States
<1>6. UNCHANGED db /\ OthersTyped'
  BY Typed DEF Decide
<1>7. CASE (old.id = 0) # (new.id = 0) /\ Set(p, [n EXCEPT !.pc = "add"])
  <2> DEFINE r == [n EXCEPT !.pc = "add"]
  <2>1. r \in States
    BY <1>5, CodesFact DEF States
  <2>2. /\ r.pc = "add" /\ r.box = With(new) /\ r.old = old /\ r.new = new /\ r.ev = ps[p].ev
        /\ r.moved = ps[p].moved /\ r.said = ps[p].said /\ r.tries = ps[p].tries
    BY <1>1, <1>5 DEF States
  <2>3. Good(r)
    BY <1>1, <1>2, <1>4, <1>7, <2>2 DEF Good, InMerge, Moving, Aliasing
  <2> QED BY <2>1, <2>2, <2>3, <1>6, <1>7, CodesFact, Outside DEF Set
<1>8. CASE old.id = 0 /\ new.id = 0 /\ Set(p, [n EXCEPT !.pc = "createBoth"])
  <2> DEFINE r == [n EXCEPT !.pc = "createBoth"]
  <2>1. r \in States
    BY <1>5, CodesFact DEF States
  <2>2. /\ r.pc = "createBoth" /\ r.box = With(new) /\ r.old = old /\ r.new = new
        /\ r.ev = ps[p].ev
        /\ r.moved = ps[p].moved /\ r.said = ps[p].said /\ r.tries = ps[p].tries
    BY <1>1, <1>5 DEF States
  <2>3. Good(r)
    BY <1>1, <1>2, <1>4, <2>2 DEF Good, InMerge, Moving, Aliasing
  <2> QED BY <2>1, <2>2, <2>3, <1>6, <1>8, CodesFact, Outside DEF Set
<1>9. CASE Set(p, [n EXCEPT !.flag = TRUE, !.said = "refused", !.pc = "props"])
  <2> DEFINE r == [n EXCEPT !.flag = TRUE, !.said = "refused", !.pc = "props"]
  <2>1. r \in States
    BY <1>5, CodesFact DEF States, Sayings
  <2>2. /\ r.pc = "props" /\ r.box = With(new) /\ r.old = old /\ r.new = new /\ r.ev = ps[p].ev
        /\ r.moved = ps[p].moved /\ r.said = "refused"
    BY <1>1, <1>5 DEF States
  <2>3. Good(r)
    BY <1>1, <1>2, <1>4, <2>2 DEF Good, InMerge, Moving, Aliasing
  <2> QED BY <2>1, <2>2, <2>3, <1>6, <1>9, CodesFact, Outside DEF Set
<1>10. CASE /\ old.id # 0 /\ new.id # 0 /\ old.id # new.id
            /\ Set(p, [n EXCEPT !.pc = "merge"])
  <2> DEFINE r == [n EXCEPT !.pc = "merge"]
  <2>1. r \in States
    BY <1>5, CodesFact DEF States
  <2>2. /\ r.pc = "merge" /\ r.box = With(new) /\ r.old = old /\ r.new = new /\ r.ev = ps[p].ev
        /\ r.moved = ps[p].moved /\ r.said = ps[p].said /\ r.tries = ps[p].tries
    BY <1>1, <1>5 DEF States
  <2>3. Good(r)
    BY <1>1, <1>2, <1>4, <1>10, <2>2 DEF Good, InMerge, Moving, Aliasing
  <2> QED BY <2>1, <2>2, <2>3, <1>6, <1>10, CodesFact, Outside DEF Set
<1>11. CASE /\ old.id # 0 /\ old.id = new.id
            /\ Set(p, [n EXCEPT !.flag = Should(p), !.said = "joined", !.pc = "props"])
  <2> DEFINE r == [n EXCEPT !.flag = Should(p), !.said = "joined", !.pc = "props"]
  <2>0. Should(p) \in BOOLEAN
    BY DEF Should
  <2>1. r \in States
    BY <1>5, <2>0, CodesFact DEF States, Sayings
  <2>2. /\ r.pc = "props" /\ r.box = With(new) /\ r.old = old /\ r.new = new /\ r.ev = ps[p].ev
        /\ r.moved = ps[p].moved /\ r.said = "joined"
    BY <1>1, <1>5 DEF States
  <2>3. Good(r)
    BY <1>1, <1>2, <1>3, <1>4, <1>11, <2>2 DEF Good, InMerge, Moving, Aliasing
  <2> QED BY <2>1, <2>2, <2>3, <1>6, <1>11, CodesFact, Outside DEF Set
<1> QED BY <1>7, <1>8, <1>9, <1>10, <1>11 DEF Decide, new

LEMMA IsNewPersonInv == ASSUME IInv, NEW p \in Events, IsNewPerson(p) PROVE IInv'
<1> DEFINE r == ps[p]
<1>1. r \in States /\ Good(r) /\ r.pc = "props" /\ r.ev.did \in Dids /\ r.moved = {}
  BY Own, CodesFact DEF IsNewPerson, At, Good
<1>2. UNCHANGED db
  BY DEF IsNewPerson
<1>3. OthersTyped'
  BY <1>1 DEF IsNewPerson, IInv, Types, OthersTyped, ch
<1>4. CASE Set(p, Checked(r))
  <2>1. Checked(r) \in States /\ Good(Checked(r)) /\ Checked(r).pc \notin InMerge
    BY <1>1, CheckedGood
  <2> QED BY <2>1, <1>2, <1>3, <1>4, Outside DEF Set
<1>5. CASE Set(p, Checked([r EXCEPT !.box = Fresh]))
  <2> DEFINE f == [r EXCEPT !.box = Fresh]
  <2>1. f \in States /\ Good(f)
    BY <1>1, FreshGood
  <2>2. f.moved = {}
    BY <1>1 DEF States
  <2> HIDE DEF f
  <2>3. Checked(f) \in States /\ Good(Checked(f)) /\ Checked(f).pc \notin InMerge
    BY <2>1, <2>2, CheckedGood
  <2> QED BY <2>3, <1>2, <1>3, <1>5, Outside DEF Set, f
<1>6. CASE Set(p, [r EXCEPT !.pc = "count"])
  <2> DEFINE n == [r EXCEPT !.pc = "count"]
  <2>1. n \in States
    BY <1>1, CodesFact DEF States
  <2>2. /\ n.pc = "count" /\ n.box = r.box /\ n.old = r.old /\ n.new = r.new /\ n.ev = r.ev
        /\ n.moved = r.moved /\ n.said = r.said
    BY <1>1 DEF States
  <2>3. Good(n)
    BY <1>1, <2>2 DEF Good, InMerge, Moving, Aliasing
  <2> QED BY <2>1, <2>2, <2>3, <1>2, <1>3, <1>6, CodesFact, Outside DEF Set
<1> QED BY <1>4, <1>5, <1>6 DEF IsNewPerson

LEMMA CountIdsInv == ASSUME IInv, NEW p \in Events, CountIds(p) PROVE IInv'
<1> DEFINE r == ps[p]
<1>1. r \in States /\ Good(r) /\ r.pc = "count" /\ r.moved = {}
  BY Own, CodesFact DEF CountIds, At, Good
<1>2. UNCHANGED db /\ OthersTyped'
  BY Typed DEF CountIds
<1>3. CASE Set(p, Checked([r EXCEPT !.box = Fresh]))
  <2> DEFINE f == [r EXCEPT !.box = Fresh]
  <2>1. f \in States /\ Good(f)
    BY <1>1, FreshGood
  <2>2. f.moved = {}
    BY <1>1 DEF States
  <2> HIDE DEF f
  <2>3. Checked(f) \in States /\ Good(Checked(f)) /\ Checked(f).pc \notin InMerge
    BY <2>1, <2>2, CheckedGood
  <2> QED BY <2>3, <1>2, <1>3, Outside DEF Set, f
<1>4. CASE Set(p, [r EXCEPT !.pc = "createOne"])
  <2> DEFINE n == [r EXCEPT !.pc = "createOne"]
  <2>1. n \in States
    BY <1>1, CodesFact DEF States
  <2>2. /\ n.pc = "createOne" /\ n.box = r.box /\ n.old = r.old /\ n.new = r.new /\ n.ev = r.ev
        /\ n.moved = r.moved /\ n.said = r.said
    BY <1>1 DEF States
  <2>3. Good(n)
    BY <1>1, <2>2 DEF Good, InMerge, Moving, Aliasing
  <2> QED BY <2>1, <2>2, <2>3, <1>2, <1>4, CodesFact, Outside DEF Set
<1> QED BY <1>3, <1>4 DEF CountIds

LEMMA ReadForUpdateInv == ASSUME IInv, NEW p \in Events, ReadForUpdate(p) PROVE IInv'
<1> DEFINE f == Get(p)
           n == [ps[p] EXCEPT !.box = With(f)]
<1>1. ps[p] \in States /\ Good(ps[p]) /\ ps[p].pc = "update"
  BY Own DEF ReadForUpdate, At
<1>2. f \in Snapshots /\ Sound(f, ps[p].ev.did)
  BY GetSound
<1> HIDE DEF f
<1>3. With(f) \in [memo : BOOLEAN, person : Snapshots] /\ With(f).person = f
  BY <1>2 DEF With
<1>4. PICK c \in {"deadMissing", "write", "done"} :
        Set(p, [n EXCEPT !.pc = c]) /\ (c = "write" => f.id # 0)
  <2>1. CASE f.id = 0 /\ Set(p, [n EXCEPT !.pc = "deadMissing"])
    BY <2>1
  <2>2. CASE f.id # 0 /\ \E differs \in {FALSE, n.ev.sets} :
               Set(p, [n EXCEPT !.pc = IF differs \/ (n.flag /\ ~f.ident) THEN "write" ELSE "done"])
    <3>1. PICK differs \in {FALSE, n.ev.sets} :
               Set(p, [n EXCEPT !.pc = IF differs \/ (n.flag /\ ~f.ident) THEN "write" ELSE "done"])
      BY <2>2
    <3>2. CASE differs \/ (n.flag /\ ~f.ident)
      <4>1. Set(p, [n EXCEPT !.pc = "write"])
        BY <3>1, <3>2
      <4> QED BY <4>1, <2>2
    <3>3. CASE ~(differs \/ (n.flag /\ ~f.ident))
      <4>1. Set(p, [n EXCEPT !.pc = "done"])
        BY <3>1, <3>3
      <4> QED BY <4>1, <2>2
    <3> QED BY <3>2, <3>3
  <2> QED BY <2>1, <2>2 DEF ReadForUpdate, f
<1> DEFINE r == [n EXCEPT !.pc = c]
<1>5. r \in States
  BY <1>1, <1>3, <1>4, CodesFact DEF States
<1>6. /\ r.pc = c /\ r.box = With(f) /\ r.old = ps[p].old /\ r.new = ps[p].new /\ r.ev = ps[p].ev
      /\ r.moved = ps[p].moved /\ r.said = ps[p].said
  BY <1>1 DEF States
<1>7. Good(r)
  BY <1>1, <1>2, <1>3, <1>4, <1>6 DEF Good, InMerge, Moving, Aliasing
<1>8. UNCHANGED db /\ OthersTyped'
  BY Typed DEF ReadForUpdate
<1>9. r.pc \notin InMerge
  BY <1>6, CodesFact
<1>10. ps' = [ps EXCEPT ![p] = r]
  BY <1>4 DEF Set
<1> QED BY <1>5, <1>7, <1>8, <1>9, <1>10, Outside

(* ClickHouse keeps its types whatever is delivered. *)
LEMMA DeliverTyped ==
  ASSUME IInv, NEW msgs \in Messages, Deliver(msgs) \/ UNCHANGED ch
  PROVE  chPerson' \in [Pids -> Versions] /\ chPdi' \in [Dids -> Owners]
<1>1. chPerson \in [Pids -> Versions] /\ chPdi \in [Dids -> Owners]
  BY DEF IInv, Types
<1>2. msgs.person \in [Pids -> Versions] /\ msgs.pdi \in [Dids -> Owners]
  BY DEF Messages
<1> QED BY <1>1, <1>2 DEF Deliver, Newest, ch

LEMMA NoMsgsTyped == NoMsgs \in Messages
BY PersonAssumption DEF NoMsgs, Messages, Versions, Owners

(* Emptying the outbox changes nothing else. *)
LEMMA SentGood ==
  ASSUME IInv, NEW r \in States, Good(r), r.pc \notin InMerge
  PROVE  /\ [r EXCEPT !.out = NoMsgs] \in States /\ Good([r EXCEPT !.out = NoMsgs])
         /\ [r EXCEPT !.out = NoMsgs].pc \notin InMerge
<1> DEFINE t == [r EXCEPT !.out = NoMsgs]
<1>1. t \in States
  BY NoMsgsTyped DEF States
<1>2. /\ t.pc = r.pc /\ t.said = r.said /\ t.moved = r.moved /\ t.ev = r.ev /\ t.old = r.old
      /\ t.new = r.new /\ t.box = r.box /\ t.got = r.got /\ t.tries = r.tries
  BY DEF States
<1>3. Good(t)
  BY <1>2 DEF Good
<1> QED BY <1>1, <1>2, <1>3

LEMMA PublishedGood ==
  ASSUME IInv, NEW r \in States, Good(r), r.pc \in Publishing
  PROVE  Published(r) \in States /\ Good(Published(r)) /\ Published(r).pc \notin InMerge
<1> DEFINE t == Published(r)
<1>0. r.moved = {}
  BY DEF Good, Publishing, Moving
<1>1. CASE r.pc = "pubAdd"
  <2> DEFINE b == IF r.old.id # 0 THEN With(r.old) ELSE r.box
             g == r.ev.kind = "identify"
  <2>1. t = [r EXCEPT !.box = b, !.flag = g, !.said = "joined", !.pc = "props"]
    BY <1>1 DEF Published, States
  <2>2. b \in [memo : BOOLEAN, person : Snapshots] /\ Sound(b.person, r.ev.did)
    BY <1>1 DEF With, States, Good
  <2>3. g \in BOOLEAN
    OBVIOUS
  <2> HIDE DEF b, g
  <2>4. t \in States
    BY <2>1, <2>2, <2>3, CodesFact DEF States, Sayings
  <2>5. /\ t.pc = "props" /\ t.said = "joined" /\ t.moved = {} /\ t.ev = r.ev /\ t.old = r.old
        /\ t.new = r.new /\ t.box = b
    BY <2>1, <1>0 DEF States
  <2>6. Good(t)
    BY <1>1, <2>2, <2>5 DEF Good, InMerge, Moving, Aliasing
  <2> QED BY <2>4, <2>5, <2>6, CodesFact
<1>2. CASE r.pc = "pubBoth"
  <2>1. t = [r EXCEPT !.box = With(r.got), !.said = "joined", !.pc = "props"]
    BY <1>2 DEF Published
  <2>2. With(r.got) \in [memo : BOOLEAN, person : Snapshots] /\ Sound(With(r.got).person, r.ev.did)
    BY <1>2 DEF With, States, Good
  <2>3. t \in States
    BY <2>1, <2>2, CodesFact DEF States, Sayings
  <2>4. /\ t.pc = "props" /\ t.said = "joined" /\ t.moved = {} /\ t.ev = r.ev /\ t.old = r.old
        /\ t.new = r.new /\ t.box = With(r.got)
    BY <2>1, <1>0 DEF States
  <2>5. Good(t)
    BY <1>2, <2>2, <2>4 DEF Good, InMerge, Moving, Aliasing
  <2> QED BY <2>3, <2>4, <2>5, CodesFact
<1>3. CASE r.pc = "pubMerge"
  <2>1. t = [r EXCEPT !.said = "joined", !.pc = "props"]
    BY <1>3 DEF Published
  <2>2. t \in States
    BY <2>1, CodesFact DEF States, Sayings
  <2>3. /\ t.pc = "props" /\ t.said = "joined" /\ t.moved = {} /\ t.ev = r.ev /\ t.old = r.old
        /\ t.new = r.new /\ t.box = r.box
    BY <2>1, <1>0 DEF States
  <2>4. Good(t)
    BY <1>3, <2>3 DEF Good, InMerge, Moving, Aliasing
  <2> QED BY <2>2, <2>3, <2>4, CodesFact
<1>4. CASE r.pc \in {"pubOne", "pubUpdate"}
  <2>1. t = [r EXCEPT !.box = With(r.got), !.pc = "done"]
    BY <1>4 DEF Published
  <2>2. With(r.got) \in [memo : BOOLEAN, person : Snapshots] /\ Sound(With(r.got).person, r.ev.did)
    BY <1>4 DEF With, States, Good
  <2>3. t \in States
    BY <2>1, <2>2, CodesFact DEF States
  <2>4. /\ t.pc = "done" /\ t.said = r.said /\ t.moved = {} /\ t.ev = r.ev /\ t.old = r.old
        /\ t.new = r.new /\ t.box = With(r.got)
    BY <2>1, <1>0 DEF States
  <2>5. Good(t)
    BY <1>4, <2>2, <2>4 DEF Good, InMerge, Moving, Aliasing
  <2> QED BY <2>3, <2>4, <2>5, CodesFact
<1> QED BY <1>1, <1>2, <1>3, <1>4 DEF Publishing

LEMMA PublishThrewGood ==
  ASSUME IInv, NEW r \in States, Good(r), r.pc \in Publishing
  PROVE  PublishThrew(r) \in States /\ Good(PublishThrew(r)) /\ PublishThrew(r).pc \notin InMerge
<1>0. r.moved = {}
  BY DEF Good, Publishing, Moving
<1>1. CASE r.pc \in {"pubAdd", "pubBoth"}
  <2>1. PublishThrew(r) = Caught(r) /\ r.pc \in Aliasing
    BY <1>1 DEF PublishThrew, Aliasing
  <2> QED BY <2>1, <1>0, CaughtGood
<1>2. CASE r.pc = "pubMerge"
  <2>1. PublishThrew(r) = Threw(r, "failed") /\ "failed" \in Sayings
    BY <1>2 DEF PublishThrew, Sayings
  <2> QED BY <2>1, ThrewGood, CodesFact
<1>3. CASE r.pc = "pubOne"
  <2> DEFINE f == [r EXCEPT !.box = Fresh]
  <2>1. f \in States /\ Good(f)
    BY <1>3, FreshGood
  <2>2. f.moved = {} /\ PublishThrew(r) = Checked(f)
    BY <1>0, <1>3 DEF States, PublishThrew
  <2> HIDE DEF f
  <2> QED BY <2>1, <2>2, CheckedGood
<1>4. CASE r.pc = "pubUpdate"
  <2> DEFINE t == [r EXCEPT !.pc = "dead"]
  <2>1. PublishThrew(r) = t
    BY <1>4 DEF PublishThrew
  <2>2. t \in States
    BY CodesFact DEF States
  <2>3. /\ t.pc = "dead" /\ t.said = r.said /\ t.moved = {} /\ t.ev = r.ev /\ t.old = r.old
        /\ t.new = r.new /\ t.box = r.box
    BY <1>0 DEF States
  <2>4. Good(t)
    BY <1>4, <2>3 DEF Good, InMerge, Moving, Aliasing
  <2> QED BY <2>1, <2>2, <2>3, <2>4, CodesFact
<1> QED BY <1>1, <1>2, <1>3, <1>4 DEF Publishing

LEMMA PublishInv == ASSUME IInv, NEW p \in Events, Publish(p) PROVE IInv'
<1>1. ps[p] \in States /\ Good(ps[p]) /\ ps[p].pc \in Publishing /\ ps[p].out \in Messages
  BY Own DEF Publish, States
<1> DEFINE t == Published(ps[p])
<1>2. t \in States /\ Good(t) /\ t.pc \notin InMerge
  BY <1>1, PublishedGood
<1> HIDE DEF t
<1> DEFINE u == [t EXCEPT !.out = NoMsgs]
<1>3. u \in States /\ Good(u) /\ u.pc \notin InMerge
  BY <1>2, SentGood
<1>4. ps' = [ps EXCEPT ![p] = u] /\ UNCHANGED db
  BY DEF Publish, Set, t
<1>5. OthersTyped'
  BY <1>1, DeliverTyped DEF Publish, IInv, Types, OthersTyped
<1> HIDE DEF u
<1> QED BY <1>3, <1>4, <1>5, Outside

LEMMA PublishFailsInv == ASSUME IInv, NEW p \in Events, PublishFails(p) PROVE IInv'
<1>1. ps[p] \in States /\ Good(ps[p]) /\ ps[p].pc \in Publishing /\ ps[p].out \in Messages
  BY Own DEF PublishFails, States
<1> DEFINE t == PublishThrew(ps[p])
<1>2. t \in States /\ Good(t) /\ t.pc \notin InMerge
  BY <1>1, PublishThrewGood
<1> HIDE DEF t
<1> DEFINE u == [t EXCEPT !.out = NoMsgs]
<1>3. u \in States /\ Good(u) /\ u.pc \notin InMerge
  BY <1>2, SentGood
<1>4. ps' = [ps EXCEPT ![p] = u] /\ UNCHANGED db
  BY DEF PublishFails, Set, t
<1>5. OthersTyped'
  <2>1. chPerson' \in [Pids -> Versions] /\ chPdi' \in [Dids -> Owners]
    BY <1>1, DeliverTyped DEF PublishFails
  <2>2. seen' \in [Workers -> SUBSET Dids] /\ faults' \in 0..MaxFaults
    BY PersonAssumption DEF PublishFails, IInv, Types
  <2> QED BY <2>1, <2>2 DEF OthersTyped
<1> HIDE DEF u
<1> QED BY <1>3, <1>4, <1>5, Outside

----------------------------------------------------------------------------
(* The merge transaction up to its COMMIT: nothing is visible yet, but locks are taken *)

LEMMA UpdateIntoInv == ASSUME IInv, NEW p \in Events, UpdateInto(p) PROVE IInv'
<1> DEFINE i == ps[p].new.id
<1>1. ps[p] \in States /\ Good(ps[p]) /\ ps[p].pc = "merge" /\ ps[p].moved = {}
  BY Own, CodesFact DEF UpdateInto, At, Good
<1>2. UNCHANGED db /\ OthersTyped'
  BY Typed DEF UpdateInto
<1>3. CASE ~person[i].live
  <2>1. Set(p, Threw(ps[p], "failed")) /\ "failed" \in Sayings
    BY <1>3 DEF UpdateInto, Sayings
  <2> QED BY <2>1, <1>1, <1>2, ThrewGood, CodesFact, Outside DEF Set
<1>4. CASE person[i].live
  <2> DEFINE b == With([id |-> i, ident |-> Identified(p)])
             r == [ps[p] EXCEPT !.pc = "move", !.box = b]
  <2>1. ps' = [ps EXCEPT ![p] = r]
    BY <1>4 DEF UpdateInto, Set
  <2>2. Identified(p) \in BOOLEAN
    BY DEF Identified
  <2>3. b \in [memo : BOOLEAN, person : Snapshots] /\ b.person.id = i
    BY <1>1, <2>2 DEF With, States, Snapshots
  <2> HIDE DEF b
  <2>4. r \in States
    BY <1>1, <2>3, CodesFact DEF States
  <2>5. /\ r.pc = "move" /\ r.box = b /\ r.old = ps[p].old /\ r.new = ps[p].new /\ r.ev = ps[p].ev
        /\ r.moved = {} /\ r.said = ps[p].said /\ r.tries = ps[p].tries
    BY <1>1 DEF States
  <2>6. Good(r)
    BY <1>1, <1>4, <2>3, <2>5 DEF Good, Sound, InMerge, Moving, Aliasing
  <2>7. ps' \in [Events -> States] /\ ps'[p] = r /\ \A q \in Events : q # p => ps'[q] = ps[q]
    BY <2>1, <2>4, OneChanges DEF IInv, Types
  <2>8. Good(ps[p])'
    BY <1>2, <2>6, <2>7 DEF Good, Sound, Joined, PidOf, db
  <2>9. ASSUME NEW q \in Events, q # p PROVE Apart(r, ps[q]) /\ Apart(ps[q], r)
    <3>1. ~LocksPerson(q, i)
      BY <1>1, <2>9 DEF UpdateInto, Waits, WaitsFor
    <3> QED BY <3>1, <2>5 DEF Apart, LocksPerson, Moving
  <2> QED BY <1>2, <2>7, <2>8, <2>9, Quiet
<1> QED BY <1>3, <1>4

LEMMA MoveDistinctIdsInv == ASSUME IInv, NEW p \in Events, MoveDistinctIds(p) PROVE IInv'
<1> DEFINE rows == IdsOf(ps[p].old.id)
<1>1. ps[p] \in States /\ Good(ps[p]) /\ ps[p].pc = "move"
  BY Own DEF MoveDistinctIds, At
<1>2. UNCHANGED db /\ OthersTyped'
  BY Typed DEF MoveDistinctIds
<1>3. CASE rows = {}
  <2>1. Set(p, Threw(ps[p], "raced")) /\ "raced" \in Sayings
    BY <1>3 DEF MoveDistinctIds, Sayings
  <2> QED BY <2>1, <1>1, <1>2, ThrewGood, CodesFact, Outside DEF Set
<1>4. CASE rows # {}
  <2> DEFINE r == [ps[p] EXCEPT !.moved = rows, !.pc = "delete"]
  <2>1. ps' = [ps EXCEPT ![p] = r]
    BY <1>4 DEF MoveDistinctIds, Set
  <2>2. rows \in SUBSET Dids /\ \A d \in rows : PidOf(d) = ps[p].old.id
    BY DEF IdsOf
  <2>3. \A q \in Events, d \in rows : q # p => ~LocksId(q, d)
    BY <1>1 DEF MoveDistinctIds, Waits, WaitsFor, IdsOf
  <2> HIDE DEF rows
  <2>4. r \in States
    BY <1>1, <2>2, CodesFact DEF States
  <2>5. /\ r.pc = "delete" /\ r.box = ps[p].box /\ r.old = ps[p].old /\ r.new = ps[p].new
        /\ r.ev = ps[p].ev /\ r.moved = rows /\ r.said = ps[p].said /\ r.tries = ps[p].tries
    BY <1>1 DEF States
  <2>6. Good(r)
    BY <1>1, <1>4, <2>2, <2>5 DEF Good, InMerge, Moving, Aliasing
  <2>7. ps' \in [Events -> States] /\ ps'[p] = r /\ \A q \in Events : q # p => ps'[q] = ps[q]
    BY <2>1, <2>4, OneChanges DEF IInv, Types
  <2>8. Good(ps[p])'
    BY <1>2, <2>6, <2>7 DEF Good, Sound, Joined, PidOf, db
  <2>9. ASSUME NEW q \in Events, q # p PROVE Apart(r, ps[q]) /\ Apart(ps[q], r)
    <3>1. Apart(ps[q], ps[p])
      BY <2>9 DEF IInv
    <3>2. ps[q].pc \in Moving => rows \cap ps[q].moved = {}
      BY <2>3, <2>9 DEF LocksId, Moving
    <3> QED BY <1>1, <2>5, <3>1, <3>2 DEF Apart, Moving, InMerge
  <2> QED BY <1>2, <2>7, <2>8, <2>9, Quiet
<1> QED BY <1>3, <1>4

LEMMA DeletePersonInv == ASSUME IInv, NEW p \in Events, DeletePerson(p) PROVE IInv'
<1> DEFINE r == [ps[p] EXCEPT !.pc = "commit"]
<1>1. ps[p] \in States /\ Good(ps[p]) /\ ps[p].pc = "delete"
  BY Own DEF DeletePerson, At
<1>2. UNCHANGED db /\ OthersTyped'
  BY Typed DEF DeletePerson
<1>3. ps' = [ps EXCEPT ![p] = r]
  BY DEF DeletePerson, Set
<1>4. r \in States
  BY <1>1, CodesFact DEF States
<1>5. /\ r.pc = "commit" /\ r.box = ps[p].box /\ r.old = ps[p].old /\ r.new = ps[p].new
      /\ r.ev = ps[p].ev /\ r.moved = ps[p].moved /\ r.said = ps[p].said /\ r.tries = ps[p].tries
  BY <1>1 DEF States
<1>6. Good(r)
  BY <1>1, <1>5 DEF Good, InMerge, Moving, Aliasing
<1>7. ps' \in [Events -> States] /\ ps'[p] = r /\ \A q \in Events : q # p => ps'[q] = ps[q]
  BY <1>3, <1>4, OneChanges DEF IInv, Types
<1>8. Good(ps[p])'
  BY <1>2, <1>6, <1>7 DEF Good, Sound, Joined, PidOf, db
<1>9. ASSUME NEW q \in Events, q # p PROVE Apart(r, ps[q]) /\ Apart(ps[q], r)
  <2>1. Apart(ps[q], ps[p]) /\ Apart(ps[p], ps[q])
    BY <1>9 DEF IInv
  <2>2. ~LocksPerson(q, ps[p].old.id)
    BY <1>1, <1>9 DEF DeletePerson, Waits, WaitsFor
  <2> QED BY <1>1, <1>5, <2>1, <2>2 DEF Apart, Moving, InMerge, LocksPerson
<1> QED BY <1>2, <1>7, <1>8, <1>9, Quiet

LEMMA DeadlockVictimInv == ASSUME IInv, NEW p \in Events, DeadlockVictim(p) PROVE IInv'
<1> DEFINE v == [ps[p] EXCEPT !.tries = @ + 1, !.moved = {}]
<1>1. ps[p] \in States /\ Good(ps[p]) /\ ps[p].pc \in {"merge", "move", "delete"}
  BY Own DEF DeadlockVictim, Deadlocked, Waits, WaitsFor
<1>2. ps[p].tries \in 0..3 /\ ps[p].tries < 3
  BY <1>1 DEF Good, Aliasing, InMerge, States, MAX_FAILED_PERSON_MERGE_ATTEMPTS
<1>3. v \in States /\ v.tries = ps[p].tries + 1
  <2>1. ps[p].tries + 1 \in 0..3
    BY <1>2
  <2> QED BY <1>1, <2>1 DEF States, MAX_FAILED_PERSON_MERGE_ATTEMPTS
<1>4. /\ v.pc = ps[p].pc /\ v.box = ps[p].box /\ v.old = ps[p].old /\ v.new = ps[p].new
      /\ v.ev = ps[p].ev /\ v.moved = {} /\ v.said = ps[p].said
  BY <1>1 DEF States
<1> HIDE DEF v
<1>5. UNCHANGED db /\ OthersTyped'
  BY Typed DEF DeadlockVictim
<1>6. CASE v.tries = MAX_FAILED_PERSON_MERGE_ATTEMPTS
  <2> DEFINE r == [v EXCEPT !.pc = "props", !.said = "failed", !.moved = {}]
  <2>1. ps' = [ps EXCEPT ![p] = r]
    BY <1>6 DEF DeadlockVictim, Set, Threw, v
  <2>2. r \in States
    BY <1>3, CodesFact DEF States, Sayings
  <2>3. /\ r.pc = "props" /\ r.box = ps[p].box /\ r.old = ps[p].old /\ r.new = ps[p].new
        /\ r.ev = ps[p].ev /\ r.moved = {} /\ r.said = "failed"
    BY <1>3, <1>4 DEF States
  <2>4. Good(r)
    BY <1>1, <2>3 DEF Good, InMerge, Moving, Aliasing
  <2> QED BY <2>1, <2>2, <2>3, <2>4, <1>5, CodesFact, Outside
<1>7. CASE v.tries # MAX_FAILED_PERSON_MERGE_ATTEMPTS
  <2> DEFINE r == [v EXCEPT !.pc = "alias", !.retry = FALSE]
  <2>1. ps' = [ps EXCEPT ![p] = r]
    BY <1>7 DEF DeadlockVictim, Set, v
  <2>2. r \in States
    BY <1>3, CodesFact DEF States
  <2>3. /\ r.pc = "alias" /\ r.box = ps[p].box /\ r.old = ps[p].old /\ r.new = ps[p].new
        /\ r.ev = ps[p].ev /\ r.moved = {} /\ r.said = ps[p].said /\ r.tries = v.tries
    BY <1>3, <1>4 DEF States
  <2>4. r.tries < MAX_FAILED_PERSON_MERGE_ATTEMPTS
    BY <1>2, <1>3, <1>7, <2>3 DEF MAX_FAILED_PERSON_MERGE_ATTEMPTS
  <2>5. Good(r)
    BY <1>1, <2>3, <2>4 DEF Good, InMerge, Moving
  <2> QED BY <2>1, <2>2, <2>3, <2>5, <1>5, CodesFact, Outside
<1> QED BY <1>6, <1>7

----------------------------------------------------------------------------
(* Steps that change Postgres *)

(* Rows only die, ids only leave a person that dies, and leave it together. *)
Evolves ==
  /\ nextId' >= nextId
  /\ \A i \in Pids : i < nextId /\ person'[i].live => person[i].live
  /\ \A d \in Dids : PidOf(d) # 0 =>
       PidOf(d)' # 0 /\ (PidOf(d)' # PidOf(d) => ~person'[PidOf(d)].live)
  /\ \A d, e \in Dids : PidOf(d) # 0 /\ PidOf(d) = PidOf(e) => PidOf(d)' = PidOf(e)'

DbTyped ==
  /\ person \in [Pids -> Rows] /\ pdi \in [Dids -> Owners] /\ nextId \in 1..MaxPerson + 1
  /\ NoOrphans /\ Numbered

LEMMA SoundStays ==
  ASSUME IInv, DbTyped', Evolves, NEW s \in Snapshots, NEW d \in Dids, Sound(s, d)
  PROVE  Sound(s, d)'
<1> SUFFICES ASSUME s.id # 0
             PROVE s.id < nextId' /\ (person'[s.id].live => PidOf(d)' = s.id)
  BY DEF Sound
<1>1. s.id \in Pids /\ nextId \in Nat /\ nextId' \in Nat
  BY PersonAssumption DEF Snapshots, Pids, IInv, Types, DbTyped
<1>2. s.id < nextId
  BY DEF Sound
<1>3. s.id < nextId'
  BY <1>1, <1>2 DEF Evolves, Pids
<1>4. ASSUME person'[s.id].live PROVE PidOf(d)' = s.id
  <2>1. person[s.id].live
    BY <1>1, <1>2, <1>4 DEF Evolves
  <2>2. PidOf(d) = s.id
    BY <2>1 DEF Sound
  <2> QED BY <2>2, <1>4 DEF Evolves
<1> QED BY <1>3, <1>4

LEMMA JoinedStays ==
  ASSUME Evolves, NEW e \in Payloads, Joined(e) PROVE Joined(e)'
BY DEF Evolves, Joined, Payloads

(* An event that did not move keeps what it relies on, if its transaction's rows *)
(* were left alone.                                                              *)
LEMMA OtherStays ==
  ASSUME IInv, DbTyped', Evolves, NEW r \in States, Good(r),
         r.pc \in InMerge => person'[r.new.id].live,
         \A d \in r.moved : PidOf(d)' = PidOf(d)
  PROVE  Good(r)'
<1>1. r.ev \in Payloads /\ r.ev.did \in Dids /\ r.ev.prev \in Dids
  BY PersonAssumption DEF States, Payloads
<1>2. r.old \in Snapshots /\ r.new \in Snapshots /\ r.box.person \in Snapshots /\ r.got \in Snapshots
  BY DEF States
<1>3. Sound(r.old, r.ev.prev)' /\ Sound(r.new, r.ev.did)' /\ Sound(r.box.person, r.ev.did)'
  BY <1>1, <1>2, SoundStays DEF Good
<1>4. r.pc \in {"pubBoth", "pubOne", "pubUpdate"} => Sound(r.got, r.ev.did)'
  BY <1>1, <1>2, SoundStays DEF Good
<1>5. r.pc = "pubAdd" => Sound(r.old, r.ev.did)'
  BY <1>1, <1>2, SoundStays DEF Good
<1>6. Joined(r.ev) => Joined(r.ev)'
  BY <1>1, JoinedStays
<1>7. \A d \in r.moved : PidOf(d)' = r.old.id
  BY DEF Good
<1>8. r.pc \in InMerge => person'[r.new.id].live
  OBVIOUS
<1> QED BY <1>3, <1>4, <1>5, <1>6, <1>7, <1>8 DEF Good

LEMMA Changing ==
  ASSUME IInv, NEW p \in Events, NEW r \in States, ps' = [ps EXCEPT ![p] = r],
         OthersTyped', DbTyped', Evolves, r.pc \notin InMerge, Good(r)',
         \A q \in Events : q # p =>
           /\ ps[q].pc \in InMerge => person'[ps[q].new.id].live
           /\ \A d \in ps[q].moved : PidOf(d)' = PidOf(d)
  PROVE  IInv'
<1>1. ps' \in [Events -> States] /\ ps'[p] = r /\ \A q \in Events : q # p => ps'[q] = ps[q]
  BY OneChanges DEF IInv, Types
<1>2. ASSUME NEW q \in Events PROVE Good(ps[q])'
  <2>1. CASE q = p
    <3>1. ps'[q] = r
      BY <1>1, <2>1
    <3> QED BY <3>1, SMTT(20) DEF Good
  <2>2. CASE q # p
    <3>1. ps[q] \in States /\ Good(ps[q]) /\ ps'[q] = ps[q]
      BY <1>1, <2>2, Own
    <3> DEFINE s == ps[q]
    <3>2. s \in States /\ Good(s) /\ ps'[q] = s
      BY <3>1
    <3>3. (s.pc \in InMerge => person'[s.new.id].live) /\ \A d \in s.moved : PidOf(d)' = PidOf(d)
      BY <2>2
    <3> HIDE DEF s
    <3>4. PICK x \in States : x = s
      BY <3>2
    <3>5. Good(x)'
      BY <3>2, <3>3, <3>4, OtherStays
    <3> QED BY <3>2, <3>4, <3>5 DEF Good, Sound, Joined, PidOf
  <2> QED BY <2>1, <2>2
<1>3. ASSUME NEW q \in Events, NEW s \in Events, q # s PROVE Apart(ps[q], ps[s])'
  <2>1. Apart(ps[q], ps[s])
    BY <1>3 DEF IInv
  <2> QED BY <1>1, <2>1 DEF Apart, InMerge, Moving
<1>4. Types' /\ NoOrphans' /\ Numbered'
  BY <1>1 DEF Types, DbTyped, OthersTyped
<1> QED BY <1>2, <1>3, <1>4 DEF IInv

LEMMA AddDistinctIdInv ==
  ASSUME IInv, NEW p \in Events, AddDistinctId(p) PROVE IInv' /\ Evolves
<1>0. PICK e \in Payloads : e = ps[p].ev
  BY Own, PersonAssumption
<1>1. /\ ps[p] \in States /\ Good(ps[p]) /\ ps[p].pc = "add" /\ ps[p].moved = {}
      /\ e.did \in Dids /\ e.prev \in Dids
  BY <1>0, Own, CodesFact DEF AddDistinctId, At, Good
<1>2. OthersTyped'
  BY Typed DEF AddDistinctId
<1>3. Missing(p) \in Dids /\ Target(p).id \in Pids
  <2>1. ps[p].old \in Snapshots /\ ps[p].new \in Snapshots /\ (ps[p].old.id # 0 \/ ps[p].new.id # 0)
    BY <1>1 DEF States, Good
  <2> QED BY <1>0, <1>1, <2>1, PersonAssumption DEF Target, Missing, Snapshots, Pids
<1>6. PICK i \in Pids, d \in Dids : i = Target(p).id /\ d = Missing(p)
  BY <1>3
<1>4. CASE ~(PidOf(d) = 0 /\ person[i].live)
  <2>1. Set(p, Caught(ps[p])) /\ UNCHANGED db
    BY <1>4, <1>6 DEF AddDistinctId, db
  <2>2. ps[p].pc \in Aliasing
    BY <1>1 DEF Aliasing
  <2>3. Caught(ps[p]) \in States /\ Good(Caught(ps[p])) /\ Caught(ps[p]).pc \notin InMerge
    BY <1>1, <2>2, CaughtGood
  <2>4. IInv'
    BY <1>2, <2>1, <2>3, Outside DEF Set
  <2>5. Evolves
    BY <2>1, PersonAssumption DEF Evolves, db, IInv, Types, PidOf
  <2> QED BY <2>4, <2>5
<1>5. CASE PidOf(d) = 0 /\ person[i].live
  <2>2. NewIdRow(i) \in Owners /\ NewIdRow(i).owner = i
    BY PersonAssumption DEF NewIdRow, Owners, Pids
  <2>3. [NoMsgs EXCEPT !.pdi[d] = NewIdRow(i)] \in Messages
    BY <2>2, NoMsgsTyped DEF Messages
  <2>4. PICK r \in States :
          r = [ps[p] EXCEPT !.pc = "pubAdd", !.out = [NoMsgs EXCEPT !.pdi[d] = NewIdRow(i)]]
    BY <1>1, <2>3, CodesFact DEF States
  <2>1. /\ pdi' = [pdi EXCEPT ![d] = NewIdRow(i)] /\ ps' = [ps EXCEPT ![p] = r]
        /\ person' = person /\ nextId' = nextId
    BY <1>5, <1>6, <2>4 DEF AddDistinctId, Set
  <2>5. /\ r.pc = "pubAdd" /\ r.box = ps[p].box /\ r.old = ps[p].old /\ r.new = ps[p].new
        /\ r.ev = e /\ r.moved = {} /\ r.said = ps[p].said /\ r.tries = ps[p].tries
    BY <1>0, <1>1, <2>4 DEF States
  <2>6. PidOf(d)' = i /\ \A x \in Dids : x # d => PidOf(x)' = PidOf(x)
    BY <2>1, <2>2 DEF PidOf, IInv, Types
  <2>7. PidOf(d) = 0 /\ i # 0 /\ person[i].live /\ i < nextId
    BY <1>5, PersonAssumption DEF Pids, IInv, Numbered
  <2>8. DbTyped'
    <3>1. pdi' \in [Dids -> Owners]
      BY <2>1, <2>2 DEF IInv, Types
    <3>2. NoOrphans'
      <4>1. ASSUME NEW j \in Pids, person'[j].live PROVE IdsOf(j)' # {}
        <5>1. PICK x \in Dids : PidOf(x) = j
          BY <2>1, <4>1 DEF IInv, NoOrphans, IdsOf
        <5>2. PidOf(x)' = j
          BY <5>1, <2>6, <2>7, PersonAssumption DEF Pids
        <5> QED BY <5>2 DEF IdsOf
      <4>2. ASSUME NEW x \in Dids, PidOf(x)' # 0 PROVE person'[PidOf(x)'].live
        BY <2>1, <2>6, <2>7, <4>2 DEF IInv, NoOrphans
      <4> QED BY <2>1, <4>1, <4>2 DEF NoOrphans
    <3> QED BY <2>1, <3>1, <3>2 DEF DbTyped, IInv, Types, Numbered
  <2>9. Evolves
    BY <2>1, <2>6, <2>7, PersonAssumption DEF Evolves, IInv, Types
  <2>10. Joined(e)' /\ (r.old.id # 0 => Sound(r.old, e.did)')
    <3>1. CASE r.old.id # 0
      <4>1. i = r.old.id /\ d = e.did
        BY <1>0, <1>6, <2>5, <3>1 DEF Target, Missing
      <4>2. PidOf(e.prev) = i
        BY <1>0, <1>1, <2>5, <2>7, <4>1 DEF Good, Sound
      <4>3. PidOf(e.prev)' = i /\ PidOf(e.did)' = i
        BY <4>1, <4>2, <2>6, <2>7, <1>1
      <4> QED BY <4>1, <4>3, <2>1, <2>7 DEF Joined, Sound
    <3>2. CASE r.old.id = 0
      <4>1. i = r.new.id /\ d = e.prev
        BY <1>0, <1>6, <2>5, <3>2 DEF Target, Missing
      <4>2. PidOf(e.did) = i
        BY <1>0, <1>1, <2>5, <2>7, <4>1 DEF Good, Sound
      <4>3. PidOf(e.prev)' = i /\ PidOf(e.did)' = i
        BY <4>1, <4>2, <2>6, <2>7, <1>1
      <4> QED BY <4>3, <2>7, <3>2 DEF Joined
    <3> QED BY <3>1, <3>2
  <2>11. Good(r)'
    <3>1. r.old \in Snapshots /\ r.new \in Snapshots /\ r.box.person \in Snapshots
      BY <2>4 DEF States
    <3>2. Sound(r.old, e.prev) /\ Sound(r.new, e.did) /\ Sound(r.box.person, e.did)
      BY <1>0, <1>1, <2>5 DEF Good
    <3>3. Sound(r.old, e.prev)' /\ Sound(r.new, e.did)' /\ Sound(r.box.person, e.did)'
      BY <1>1, <3>1, <3>2, <2>8, <2>9, SoundStays
    <3>4. r.pc = "pubAdd" => Sound(r.old, e.did)'
      BY <2>10 DEF Sound
    <3> QED BY <1>0, <2>5, <2>10, <3>3, <3>4, <1>1 DEF Good, InMerge, Moving, Aliasing
  <2>12. ASSUME NEW q \in Events, q # p
         PROVE /\ ps[q].pc \in InMerge => person'[ps[q].new.id].live
               /\ \A x \in ps[q].moved : PidOf(x)' = PidOf(x)
    <3>1. ps[q] \in States /\ Good(ps[q])
      BY Own
    <3>2. \A x \in ps[q].moved : x # d
      BY <3>1, <2>7, CodesFact DEF Good, InMerge, Moving
    <3> QED BY <3>1, <3>2, <2>1, <2>6 DEF Good, States
  <2>13. IInv'
    BY <1>2, <2>1, <2>4, <2>5, <2>8, <2>9, <2>11, <2>12, CodesFact, Changing
  <2> QED BY <2>9, <2>13
<1> QED BY <1>4, <1>5

LEMMA InsertInv ==
  ASSUME IInv, NEW p \in Events, NEW D \in SUBSET Dids, NEW ident \in BOOLEAN,
         NEW c \in {"pubBoth", "pubOne"}, NEW taken \in States, Good(taken), taken.pc \notin InMerge,
         ps[p].ev.did \in D, c = "pubBoth" => ps[p].ev.prev \in D /\ ps[p].pc = "createBoth",
         ps[p].moved = {}, Insert(p, D, ident, c, taken)
  PROVE  IInv' /\ Evolves
<1>0. PICK e \in Payloads : e = ps[p].ev
  BY Own, PersonAssumption
<1>1. ps[p] \in States /\ Good(ps[p]) /\ e.did \in Dids /\ e.prev \in Dids
  BY <1>0, Own
<1>2. OthersTyped'
  BY Typed DEF Insert
<1>3. CASE Set(p, taken) /\ UNCHANGED db
  <2>1. IInv'
    BY <1>2, <1>3, Outside DEF Set
  <2>2. Evolves
    BY <1>3, PersonAssumption DEF Evolves, db, IInv, Types, PidOf
  <2> QED BY <2>1, <2>2
<1>4. CASE /\ \A d \in D : PidOf(d) = 0
           /\ nextId <= MaxPerson
           /\ person' = [person EXCEPT ![nextId] = [live |-> TRUE, ident |-> ident, ver |-> 0]]
           /\ pdi' = [d \in Dids |-> IF d \in D THEN NewIdRow(nextId) ELSE pdi[d]]
           /\ nextId' = nextId + 1
           /\ Set(p, [ps[p] EXCEPT !.pc = c, !.got = [id |-> nextId, ident |-> ident],
                    !.out = [person |-> PersonRow(nextId, ident, 0),
                             pdi |-> [d \in Dids |-> IF d \in D THEN NewIdRow(nextId)
                                                    ELSE NoMsgs.pdi[d]]]])
  <2>1. PICK n \in Pids : n = nextId
    BY <1>4, PersonAssumption DEF IInv, Types, Pids
  <2>2. n # 0 /\ ~person[n].live /\ n \in Nat
    BY <2>1, PersonAssumption DEF Pids, IInv, Numbered
  <2>3. NewIdRow(n) \in Owners /\ NewIdRow(n).owner = n
    BY PersonAssumption DEF NewIdRow, Owners, Pids
  <2> DEFINE o == [person |-> PersonRow(n, ident, 0),
                   pdi |-> [d \in Dids |-> IF d \in D THEN NewIdRow(n) ELSE NoMsgs.pdi[d]]]
             g == [id |-> n, ident |-> ident]
  <2>4. o \in Messages
    <3>1. NoMsgs.person \in [Pids -> Versions] /\ NoMsgs.pdi \in [Dids -> Owners]
      BY NoMsgsTyped DEF Messages
    <3>2. PersonRow(n, ident, 0) \in [Pids -> Versions]
      BY <3>1 DEF PersonRow, Versions
    <3> QED BY <2>3, <3>1, <3>2 DEF Messages
  <2>5. g \in Snapshots /\ g.id = n
    BY PersonAssumption DEF Snapshots, Pids
  <2> HIDE DEF o, g
  <2>6. PICK r \in States : r = [ps[p] EXCEPT !.pc = c, !.got = g, !.out = o]
    BY <1>1, <2>4, <2>5, CodesFact DEF States
  <2>7. ps' = [ps EXCEPT ![p] = r]
    BY <1>4, <2>1, <2>6 DEF Set, o, g
  <2>8. /\ r.pc = c /\ r.box = ps[p].box /\ r.old = ps[p].old /\ r.new = ps[p].new /\ r.ev = e
        /\ r.moved = {} /\ r.said = ps[p].said /\ r.tries = ps[p].tries /\ r.got.id = n
    BY <1>0, <1>1, <2>5, <2>6 DEF States
  <2>9. /\ \A d \in D : PidOf(d) = 0 /\ PidOf(d)' = n
        /\ \A d \in Dids : d \notin D => PidOf(d)' = PidOf(d)
    BY <1>4, <2>1, <2>3 DEF PidOf
  <2>10. /\ person' \in [Pids -> Rows] /\ person'[n].live
         /\ \A j \in Pids : j # n => person'[j] = person[j]
    BY <1>4, <2>1 DEF IInv, Types, Rows
  <2>11. DbTyped'
    <3>1. pdi' \in [Dids -> Owners]
      BY <1>4, <2>1, <2>3 DEF IInv, Types
    <3>2. nextId' \in 1..MaxPerson + 1
      BY <1>4, PersonAssumption DEF IInv, Types
    <3>3. ASSUME NEW j \in Pids, person'[j].live PROVE IdsOf(j)' # {} /\ j < nextId'
      <4>1. CASE j = n
        BY <4>1, <1>0, <1>1, <1>4, <2>1, <2>2, <2>9 DEF IdsOf
      <4>2. CASE j # n
        <5>1. person[j].live
          BY <4>2, <3>3, <2>10
        <5>2. PICK x \in Dids : PidOf(x) = j
          BY <5>1 DEF IInv, NoOrphans, IdsOf
        <5>3. j # 0 /\ j \in Nat /\ nextId \in Nat
          BY <2>1, <2>2, PersonAssumption DEF Pids
        <5>4. PidOf(x)' = j
          BY <5>2, <5>3, <2>9
        <5>5. j < nextId
          BY <5>1 DEF IInv, Numbered
        <5> QED BY <5>3, <5>4, <5>5, <1>4 DEF IdsOf
      <4> QED BY <4>1, <4>2
    <3>4. ASSUME NEW x \in Dids, PidOf(x)' # 0 PROVE person'[PidOf(x)'].live
      <4>1. CASE x \in D
        BY <4>1, <2>9, <2>10
      <4>2. CASE x \notin D
        <5>1. PidOf(x)' = PidOf(x) /\ PidOf(x) \in Pids
          BY <4>2, <2>9, <3>4, PersonAssumption DEF IInv, Types, Owners, PidOf, Pids
        <5>2. person[PidOf(x)].live
          BY <5>1, <3>4 DEF IInv, NoOrphans
        <5> QED BY <5>1, <5>2, <2>2, <2>10
      <4> QED BY <4>1, <4>2
    <3> QED BY <2>10, <3>1, <3>2, <3>3, <3>4 DEF DbTyped, NoOrphans, Numbered
  <2>12. Evolves
    BY <1>4, <2>1, <2>2, <2>9, <2>10, PersonAssumption DEF Evolves, Pids
  <2>13. Good(r)'
    <3>1. r.old \in Snapshots /\ r.new \in Snapshots /\ r.box.person \in Snapshots
      BY DEF States
    <3>2. Sound(r.old, e.prev) /\ Sound(r.new, e.did) /\ Sound(r.box.person, e.did)
      BY <1>0, <1>1, <2>8 DEF Good
    <3>3. Sound(r.old, e.prev)' /\ Sound(r.new, e.did)' /\ Sound(r.box.person, e.did)'
      BY <1>1, <3>1, <3>2, <2>11, <2>12, SoundStays
    <3>4. Sound(r.got, e.did)'
      BY <1>0, <1>4, <2>1, <2>2, <2>8, <2>9 DEF Sound
    <3>5. c = "pubBoth" => Joined(e)'
      BY <1>0, <2>2, <2>9 DEF Joined
    <3>6. r.said = "joined" => Joined(e)'
      BY <1>0, <1>1, <2>8, <2>12, JoinedStays DEF Good
    <3>7. c = "pubBoth" => r.tries < MAX_FAILED_PERSON_MERGE_ATTEMPTS
      BY <1>1, <2>8 DEF Good, Aliasing
    <3> QED BY <2>8, <3>3, <3>4, <3>5, <3>6, <3>7 DEF Good, InMerge, Moving, Aliasing
  <2>14. ASSUME NEW q \in Events, q # p
         PROVE /\ ps[q].pc \in InMerge => person'[ps[q].new.id].live
               /\ \A x \in ps[q].moved : PidOf(x)' = PidOf(x)
    <3>1. ps[q] \in States /\ Good(ps[q])
      BY Own
    <3>2. \A x \in ps[q].moved : x \in Dids /\ x \notin D
      BY <3>1, <2>9, CodesFact DEF Good, InMerge, Moving, States
    <3>3. ps[q].pc \in InMerge => ps[q].new.id \in Pids /\ person[ps[q].new.id].live
      BY <3>1, PersonAssumption DEF Good, States, Snapshots, Pids
    <3> QED BY <3>2, <3>3, <2>2, <2>9, <2>10
  <2>15. IInv'
    BY <1>2, <2>7, <2>8, <2>11, <2>12, <2>13, <2>14, CodesFact, Changing
  <2> QED BY <2>12, <2>15
<1> QED BY <1>3, <1>4 DEF Insert

LEMMA CreateBothInv == ASSUME IInv, NEW p \in Events, CreateBoth(p) PROVE IInv' /\ Evolves
<1>1. /\ ps[p] \in States /\ Good(ps[p]) /\ ps[p].pc = "createBoth" /\ ps[p].moved = {}
      /\ ps[p].ev.did \in Dids /\ ps[p].ev.prev \in Dids
  BY Own, CodesFact DEF CreateBoth, At, Good
<1>2. ps[p].pc \in Aliasing
  BY <1>1 DEF Aliasing
<1> DEFINE k == Caught(ps[p])
           D == {ps[p].ev.did, ps[p].ev.prev}
<1>3. k \in States /\ Good(k) /\ k.pc \notin InMerge
  BY <1>1, <1>2, CaughtGood
<1>4. Insert(p, D, Should(p), "pubBoth", k) /\ D \in SUBSET Dids /\ Should(p) \in BOOLEAN
  BY <1>1 DEF CreateBoth, Should
<1> HIDE DEF k
<1> QED BY <1>1, <1>3, <1>4, InsertInv

LEMMA CreateOneInv == ASSUME IInv, NEW p \in Events, CreateOne(p) PROVE IInv' /\ Evolves
<1>1. /\ ps[p] \in States /\ Good(ps[p]) /\ ps[p].pc = "createOne" /\ ps[p].moved = {}
      /\ ps[p].ev.did \in Dids /\ ps[p].flag \in BOOLEAN
  BY Own, CodesFact DEF CreateOne, At, Good, States
<1> DEFINE f == [ps[p] EXCEPT !.box = Fresh]
           k == Checked(f)
<1>2. f \in States /\ Good(f) /\ f.moved = {}
  BY <1>1, FreshGood DEF States
<1> HIDE DEF f
<1>3. k \in States /\ Good(k) /\ k.pc \notin InMerge
  BY <1>2, CheckedGood
<1>4. Insert(p, {ps[p].ev.did}, ps[p].flag, "pubOne", k)
  BY DEF CreateOne, f
<1> HIDE DEF k
<1>5. {ps[p].ev.did} \in SUBSET Dids
  BY <1>1
<1> QED BY <1>1, <1>3, <1>4, <1>5, InsertInv

LEMMA UpdatePersonInv == ASSUME IInv, NEW p \in Events, UpdatePerson(p) PROVE IInv' /\ Evolves
<1>0. PICK e \in Payloads : e = ps[p].ev
  BY Own, PersonAssumption
<1>1. /\ ps[p] \in States /\ Good(ps[p]) /\ ps[p].pc = "write" /\ ps[p].moved = {}
      /\ e.did \in Dids /\ e.prev \in Dids
  BY <1>0, Own, CodesFact DEF UpdatePerson, At, Good
<1>2. ps[p].box.person \in Snapshots /\ ps[p].box.person.id # 0
  BY <1>1 DEF Good, States
<1>3. PICK i \in Pids : i = ps[p].box.person.id
  <2>1. ps[p].box.person.id \in 0..MaxPerson
    BY <1>2 DEF Snapshots
  <2> QED BY <1>2, <2>1, PersonAssumption DEF Pids
<1>4. OthersTyped' /\ pdi' = pdi /\ nextId' = nextId
  <2>1. pdi' = pdi /\ nextId' = nextId /\ UNCHANGED <<ch, seen, faults>>
    BY Zenon DEF UpdatePerson
  <2> QED BY <2>1, Typed, Zenon
<1>5. CASE ~person[i].live
  <2>1. person' = person
    BY <1>3, <1>5 DEF UpdatePerson
  <2>2. Evolves
    BY <2>1, <1>4, PersonAssumption DEF Evolves, IInv, Types, PidOf
  <2> DEFINE r == IF ps[p].again THEN [ps[p] EXCEPT !.pc = "deadNoRows"]
                  ELSE [ps[p] EXCEPT !.again = TRUE, !.box = Fresh, !.pc = "update"]
  <2>3. ps' = [ps EXCEPT ![p] = r]
    BY <1>3, <1>5 DEF UpdatePerson, Set
  <2>4. Fresh \in [memo : BOOLEAN, person : Snapshots] /\ Fresh.person.id = 0
    BY PersonAssumption DEF Fresh, NoPerson, Snapshots
  <2>5. r \in States
    BY <1>1, <2>4, CodesFact DEF States
  <2>6. /\ r.pc \in {"deadNoRows", "update"} /\ r.box \in {ps[p].box, Fresh} /\ r.old = ps[p].old
        /\ r.new = ps[p].new /\ r.ev = ps[p].ev /\ r.moved = {} /\ r.said = ps[p].said
    BY <1>1 DEF States
  <2> HIDE DEF r
  <2>7. Good(r)
    BY <1>1, <2>4, <2>6 DEF Good, Sound, InMerge, Moving, Aliasing
  <2>8. IInv'
    BY <1>4, <2>1, <2>3, <2>5, <2>6, <2>7, CodesFact, Outside DEF db
  <2> QED BY <2>2, <2>8
<1>6. CASE person[i].live
  <2> DEFINE ident == person[i].ident \/ (ps[p].flag /\ ~ps[p].box.person.ident)
             g == [id |-> i, ident |-> ident]
             o == [NoMsgs EXCEPT !.person = PersonRow(i, ident, person[i].ver + 1)]
  <2>1. /\ person' = [person EXCEPT ![i].ver = @ + 1, ![i].ident = ident]
        /\ Set(p, [ps[p] EXCEPT !.pc = "pubUpdate", !.got = g, !.out = o])
    BY <1>3, <1>6 DEF UpdatePerson
  <2>2. ident \in BOOLEAN
    OBVIOUS
  <2>3. g \in Snapshots /\ g.id = i
    BY <2>2, PersonAssumption DEF Snapshots, Pids
  <2>4. o \in Messages
    <3>1. NoMsgs.person \in [Pids -> Versions] /\ NoMsgs.pdi \in [Dids -> Owners]
      BY NoMsgsTyped DEF Messages
    <3>2. person[i].ver + 1 \in Int
      BY DEF IInv, Types, Rows
    <3>3. PersonRow(i, ident, person[i].ver + 1) \in [Pids -> Versions]
      BY <3>1, <3>2, <2>2 DEF PersonRow, Versions
    <3> QED BY <3>1, <3>3, NoMsgsTyped DEF Messages
  <2> HIDE DEF ident
  <2>5. /\ person' \in [Pids -> Rows] /\ \A j \in Pids : person'[j].live = person[j].live
    <3>1. person \in [Pids -> Rows] /\ person[i] \in Rows
      BY DEF IInv, Types
    <3>2. /\ person' = [j \in Pids |-> person'[j]] /\ \A j \in Pids : j # i => person'[j] = person[j]
          /\ person'[i] = [person[i] EXCEPT !.ver = @ + 1, !.ident = ident]
      BY <2>1, <3>1
    <3>3. person'[i] \in Rows /\ person'[i].live = person[i].live
      <4>1. PICK row \in Rows : row = person[i]
        BY <3>1
      <4>2. row.ver + 1 \in Nat /\ row.live \in BOOLEAN
        BY DEF Rows
      <4>3. person'[i] = [live |-> row.live, ident |-> ident, ver |-> row.ver + 1]
        BY <3>2, <4>1 DEF Rows
      <4>4. [live |-> row.live, ident |-> ident, ver |-> row.ver + 1] \in Rows
        BY <2>2, <4>2 DEF Rows
      <4> QED BY <4>1, <4>3, <4>4
    <3> QED BY <3>1, <3>2, <3>3
  <2> HIDE DEF g, o
  <2>6. PICK r \in States : r = [ps[p] EXCEPT !.pc = "pubUpdate", !.got = g, !.out = o]
    BY <1>1, <2>3, <2>4, CodesFact DEF States
  <2>7. ps' = [ps EXCEPT ![p] = r]
    BY <2>1, <2>6 DEF Set
  <2>8. /\ r.pc = "pubUpdate" /\ r.box = ps[p].box /\ r.old = ps[p].old /\ r.new = ps[p].new
        /\ r.ev = e /\ r.moved = {} /\ r.said = ps[p].said /\ r.got.id = i
    BY <1>0, <1>1, <2>3, <2>6 DEF States
  <2>9. \A d \in Dids : PidOf(d)' = PidOf(d) /\ PidOf(d) \in 0..MaxPerson
    BY <1>4 DEF PidOf, IInv, Types, Owners
  <2>10. DbTyped'
    <3>1. NoOrphans'
      <4>1. ASSUME NEW j \in Pids, person'[j].live PROVE IdsOf(j)' # {}
        BY <2>5, <2>9, <4>1 DEF IInv, NoOrphans, IdsOf
      <4>2. ASSUME NEW x \in Dids, PidOf(x)' # 0 PROVE person'[PidOf(x)'].live
        <5>1. PidOf(x)' = PidOf(x) /\ PidOf(x) \in Pids /\ person[PidOf(x)].live
          BY <2>9, <4>2, PersonAssumption DEF IInv, NoOrphans, Pids
        <5> QED BY <2>5, <5>1
      <4> QED BY <4>1, <4>2 DEF NoOrphans
    <3> QED BY <1>4, <2>5, <3>1 DEF DbTyped, IInv, Types, Numbered
  <2>11. Evolves
    BY <1>4, <2>5, <2>9, PersonAssumption DEF Evolves, IInv, Types
  <2>12. Good(r)'
    <3>1. r.old \in Snapshots /\ r.new \in Snapshots /\ r.box.person \in Snapshots /\ r.got \in Snapshots
      BY DEF States
    <3>2. Sound(r.old, e.prev) /\ Sound(r.new, e.did) /\ Sound(r.box.person, e.did) /\ Sound(r.got, e.did)
      BY <1>0, <1>1, <1>3, <2>8 DEF Good, Sound
    <3>3. Sound(r.old, e.prev)' /\ Sound(r.new, e.did)' /\ Sound(r.box.person, e.did)' /\ Sound(r.got, e.did)'
      BY <1>1, <3>1, <3>2, <2>10, <2>11, SoundStays
    <3>4. r.said = "joined" => Joined(e)'
      BY <1>0, <1>1, <2>8, <2>11, JoinedStays DEF Good
    <3> QED BY <2>8, <3>3, <3>4 DEF Good, InMerge, Moving, Aliasing
  <2>13. ASSUME NEW q \in Events, q # p
         PROVE /\ ps[q].pc \in InMerge => person'[ps[q].new.id].live
               /\ \A x \in ps[q].moved : PidOf(x)' = PidOf(x)
    <3>1. ps[q] \in States /\ Good(ps[q])
      BY Own
    <3>2. ps[q].pc \in InMerge => ps[q].new.id \in Pids /\ person[ps[q].new.id].live
      BY <3>1, PersonAssumption DEF Good, States, Snapshots, Pids
    <3> QED BY <3>1, <3>2, <2>5, <2>9 DEF States
  <2>14. IInv'
    <3>1. r.pc \notin InMerge
      BY <2>8 DEF InMerge
    <3> QED BY <1>4, <2>7, <2>10, <2>11, <2>12, <2>13, <3>1, Changing, ZenonT(40)
  <2> QED BY <2>11, <2>14
<1> QED BY <1>5, <1>6, ZenonT(40)

LEMMA CommitInv == ASSUME IInv, NEW p \in Events, Commit(p) PROVE IInv' /\ Evolves
<1>0. PICK e \in Payloads : e = ps[p].ev
  BY Own, PersonAssumption
<1>1. /\ ps[p] \in States /\ Good(ps[p]) /\ ps[p].pc = "commit"
      /\ e.did \in Dids /\ e.prev \in Dids
  BY <1>0, Own DEF Commit, At
<1>2. OthersTyped' /\ nextId' = nextId
  BY Typed DEF Commit
<1>3. PICK into \in Pids, other \in Pids :
        into = ps[p].new.id /\ other = ps[p].old.id /\ into # other /\ person[into].live
  <2>1. /\ ps[p].new \in Snapshots /\ ps[p].old \in Snapshots /\ ps[p].new.id # 0 /\ ps[p].old.id # 0
        /\ ps[p].new.id # ps[p].old.id /\ person[ps[p].new.id].live
    BY <1>1 DEF Good, InMerge, States
  <2> QED BY <2>1, PersonAssumption DEF Snapshots, Pids
<1>4. PICK M \in SUBSET Dids : M = ps[p].moved
  BY <1>1 DEF States
<1>5. M # {} /\ \A d \in M : PidOf(d) = other
  BY <1>1, <1>3, <1>4 DEF Good, Moving
<1>6. into # 0 /\ other # 0 /\ into \in Nat /\ other \in Nat
  BY PersonAssumption DEF Pids
<1>7. CASE Dangling(p)
  <2>1. Set(p, Threw(ps[p], "uncommitted")) /\ UNCHANGED db /\ "uncommitted" \in Sayings
    BY <1>7 DEF Commit, db, Sayings
  <2>2. IInv'
    BY <2>1, <1>1, <1>2, ThrewGood, CodesFact, Outside DEF Set
  <2>3. Evolves
    BY <2>1, PersonAssumption DEF Evolves, db, IInv, Types, PidOf
  <2> QED BY <2>2, <2>3
<1>8. CASE ~Dangling(p)
  <2> DEFINE o == [person |-> [NoMsgs.person EXCEPT
                           ![into]  = [ver |-> person[into].ver + 1, ident |-> Identified(p), del |-> FALSE],
                           ![other] = [ver |-> DeletedVersion(person[other].ver), ident |-> ps[p].old.ident,
                                       del |-> TRUE]],
                        pdi |-> [d \in Dids |-> IF d \in M THEN MovedRow(d, into)
                                              ELSE NoMsgs.pdi[d]]]
  <2>1. /\ person' = [person EXCEPT ![into].ver = @ + 1, ![into].ident = Identified(p),
                                   ![other].live = FALSE]
        /\ pdi' = [d \in Dids |-> IF d \in M THEN MovedRow(d, into) ELSE pdi[d]]
        /\ Set(p, [ps[p] EXCEPT !.pc = "pubMerge", !.moved = {}, !.out = o])
    BY <1>3, <1>4, <1>8 DEF Commit
  <2>2. Identified(p) \in BOOLEAN
    BY DEF Identified
  <2>3. \A d \in Dids : MovedRow(d, into) \in Owners /\ MovedRow(d, into).owner = into
    <3>1. \A d \in Dids : pdi[d].ver + 1 \in Int
      BY DEF IInv, Types, Owners
    <3> QED BY <3>1, PersonAssumption DEF MovedRow, Owners, Pids
  <2>4. o \in Messages
    <3>1. NoMsgs.person \in [Pids -> Versions] /\ NoMsgs.pdi \in [Dids -> Owners]
      BY NoMsgsTyped DEF Messages
    <3>2. person[into].ver + 1 \in Int /\ DeletedVersion(person[other].ver) \in Int
      BY DEF IInv, Types, Rows, DeletedVersion
    <3>3. ps[p].old.ident \in BOOLEAN
      BY <1>1 DEF States, Snapshots
    <3>4. /\ [ver |-> person[into].ver + 1, ident |-> Identified(p), del |-> FALSE] \in Versions
          /\ [ver |-> DeletedVersion(person[other].ver), ident |-> ps[p].old.ident, del |-> TRUE] \in Versions
      BY <2>2, <3>2, <3>3 DEF Versions
    <3> QED BY <2>3, <3>1, <3>4 DEF Messages
  <2>5. /\ person' \in [Pids -> Rows] /\ ~person'[other].live /\ person'[into].live
        /\ \A j \in Pids : j # other => person'[j].live = person[j].live
    <3>1. person \in [Pids -> Rows] /\ person[into] \in Rows /\ person[other] \in Rows
      BY DEF IInv, Types
    <3>2. /\ person' = [j \in Pids |-> person'[j]]
          /\ \A j \in Pids : j # into /\ j # other => person'[j] = person[j]
          /\ person'[into] = [person[into] EXCEPT !.ver = @ + 1, !.ident = Identified(p)]
          /\ person'[other] = [person[other] EXCEPT !.live = FALSE]
      BY <1>3, <2>1, <3>1
    <3>3. /\ person'[into] \in Rows /\ person'[into].live = person[into].live
          /\ person'[other] \in Rows /\ ~person'[other].live
      <4>1. PICK row \in Rows : row = person[into]
        BY <3>1
      <4>2. PICK gone \in Rows : gone = person[other]
        BY <3>1
      <4>3. row.ver + 1 \in Nat /\ row.live \in BOOLEAN /\ gone.ident \in BOOLEAN /\ gone.ver \in Nat
        BY DEF Rows
      <4>4. /\ person'[into] = [live |-> row.live, ident |-> Identified(p), ver |-> row.ver + 1]
            /\ person'[other] = [live |-> FALSE, ident |-> gone.ident, ver |-> gone.ver]
        BY <3>2, <4>1, <4>2 DEF Rows
      <4>5. /\ [live |-> row.live, ident |-> Identified(p), ver |-> row.ver + 1] \in Rows
            /\ [live |-> FALSE, ident |-> gone.ident, ver |-> gone.ver] \in Rows
        BY <2>2, <4>3 DEF Rows
      <4> QED BY <4>1, <4>4, <4>5
    <3>4. person' \in [Pids -> Rows]
      BY <3>1, <3>2, <3>3
    <3> QED BY <1>3, <3>2, <3>3, <3>4
  <2> HIDE DEF o
  <2>6. PICK r \in States : r = [ps[p] EXCEPT !.pc = "pubMerge", !.moved = {}, !.out = o]
    BY <1>1, <2>4, CodesFact DEF States
  <2>7. ps' = [ps EXCEPT ![p] = r]
    BY <2>1, <2>6 DEF Set
  <2>8. /\ r.pc = "pubMerge" /\ r.box = ps[p].box /\ r.old = ps[p].old /\ r.new = ps[p].new
        /\ r.ev = e /\ r.moved = {} /\ r.said = ps[p].said /\ r.tries = ps[p].tries
    BY <1>0, <1>1, <2>6 DEF States
  <2>9. \A d \in Dids : PidOf(d) = other <=> d \in M
    BY <1>3, <1>4, <1>5, <1>8 DEF Dangling
  <2>10. \A d \in Dids : IF d \in M THEN PidOf(d)' = into ELSE PidOf(d)' = PidOf(d)
    BY <2>1, <2>3 DEF PidOf
  <2>11. DbTyped'
    <3>1. pdi' \in [Dids -> Owners]
      BY <2>1, <2>3 DEF IInv, Types
    <3>2. ASSUME NEW j \in Pids, person'[j].live PROVE IdsOf(j)' # {} /\ j < nextId'
      <4>1. person[j].live /\ j # other
        BY <2>5, <3>2
      <4>2. PICK x \in Dids : PidOf(x) = j
        BY <4>1 DEF IInv, NoOrphans, IdsOf
      <4>3. PidOf(x)' = j
        BY <4>1, <4>2, <2>9, <2>10
      <4> QED BY <1>2, <4>1, <4>3 DEF IdsOf, IInv, Numbered
    <3>3. ASSUME NEW x \in Dids, PidOf(x)' # 0 PROVE person'[PidOf(x)'].live
      <4>1. CASE x \in M
        BY <4>1, <2>5, <2>10
      <4>2. CASE x \notin M
        <5>1. PidOf(x)' = PidOf(x) /\ PidOf(x) \in Pids /\ PidOf(x) # other
          BY <4>2, <2>9, <2>10, <3>3, PersonAssumption DEF IInv, Types, Owners, PidOf, Pids
        <5>2. person[PidOf(x)].live
          BY <5>1, <3>3 DEF IInv, NoOrphans
        <5> QED BY <5>1, <5>2, <2>5
      <4> QED BY <4>1, <4>2
    <3> QED BY <1>2, <2>5, <3>1, <3>2, <3>3 DEF DbTyped, NoOrphans, Numbered, IInv, Types
  <2>12. Evolves
    <3>1. nextId' >= nextId
      BY <1>2, PersonAssumption DEF IInv, Types
    <3>2. \A i \in Pids : i < nextId /\ person'[i].live => person[i].live
      BY <2>5
    <3>3. ASSUME NEW d \in Dids, PidOf(d) # 0
          PROVE PidOf(d)' # 0 /\ (PidOf(d)' # PidOf(d) => ~person'[PidOf(d)].live)
      BY <1>6, <2>5, <2>9, <2>10, <3>3
    <3>4. ASSUME NEW d \in Dids, NEW f \in Dids, PidOf(d) = PidOf(f) PROVE PidOf(d)' = PidOf(f)'
      BY <2>9, <2>10, <3>4
    <3> QED BY <3>1, <3>2, <3>3, <3>4 DEF Evolves
  <2>13. Joined(e)'
    <3>1. \E d \in Dids : PidOf(d) = other
      BY <1>5
    <3>2. person[other].live
      BY <1>6, <3>1 DEF IInv, NoOrphans
    <3>3. PidOf(e.prev) = other /\ PidOf(e.did) = into
      BY <1>0, <1>1, <1>3, <1>6, <3>2 DEF Good, Sound
    <3> QED BY <1>1, <1>3, <1>6, <3>3, <2>9, <2>10 DEF Joined
  <2>14. Good(r)'
    <3>1. r.old \in Snapshots /\ r.new \in Snapshots /\ r.box.person \in Snapshots
      BY DEF States
    <3>2. Sound(r.old, e.prev) /\ Sound(r.new, e.did) /\ Sound(r.box.person, e.did)
      BY <1>0, <1>1, <2>8 DEF Good
    <3>3. Sound(r.old, e.prev)' /\ Sound(r.new, e.did)' /\ Sound(r.box.person, e.did)'
      BY <1>1, <3>1, <3>2, <2>11, <2>12, SoundStays
    <3>4. r.tries < MAX_FAILED_PERSON_MERGE_ATTEMPTS
      BY <1>1, <2>8 DEF Good, Aliasing, InMerge
    <3> QED BY <2>8, <2>13, <3>3, <3>4 DEF Good, InMerge, Moving, Aliasing
  <2>15. ASSUME NEW q \in Events, q # p
         PROVE /\ ps[q].pc \in InMerge => person'[ps[q].new.id].live
               /\ \A x \in ps[q].moved : PidOf(x)' = PidOf(x)
    <3>1. ps[q] \in States /\ Good(ps[q]) /\ Apart(ps[p], ps[q])
      BY <2>15, Own DEF IInv
    <3>2. ps[q].pc \in InMerge => ps[q].new.id \in Pids /\ person[ps[q].new.id].live
      BY <3>1, PersonAssumption DEF Good, States, Snapshots, Pids
    <3>3. ps[q].pc \in InMerge => ps[q].new.id # other
      BY <1>1, <1>3, <3>1 DEF Apart
    <3>4. \A x \in ps[q].moved : x \in Dids /\ x \notin M
      BY <1>1, <1>4, <3>1 DEF Apart, Moving, Good, States
    <3> QED BY <3>2, <3>3, <3>4, <2>5, <2>10
  <2>16. IInv'
    BY <1>2, <2>7, <2>8, <2>11, <2>12, <2>14, <2>15, CodesFact, Changing
  <2> QED BY <2>12, <2>16
<1> QED BY <1>7, <1>8, ZenonT(40)

----------------------------------------------------------------------------
(* The whole specification *)

LEMMA IdleGood ==
  ASSUME NEW e \in Inputs PROVE Idle(e) \in States /\ Good(Idle(e)) /\ Idle(e).pc = "idle"
<1>1. NoPerson \in Snapshots /\ NoPerson.id = 0 /\ Fresh \in [memo : BOOLEAN, person : Snapshots]
  BY PersonAssumption DEF NoPerson, Snapshots, Fresh
<1>2. 0 \in 0..MAX_FAILED_PERSON_MERGE_ATTEMPTS /\ 0 < MAX_FAILED_PERSON_MERGE_ATTEMPTS
  BY DEF MAX_FAILED_PERSON_MERGE_ATTEMPTS
<1>3. Idle(e) \in States
  BY <1>1, <1>2, NoMsgsTyped, CodesFact DEF Idle, States, Sayings
<1>4. Good(Idle(e))
  BY <1>1, <1>2 DEF Idle, Good, Sound, Fresh, InMerge, Moving, Aliasing
<1> QED BY <1>3, <1>4 DEF Idle

LEMMA InitInv == Init => IInv
<1> SUFFICES ASSUME Init PROVE IInv
  OBVIOUS
<1>1. PICK s \in Starts, I \in SUBSET Pids :
    /\ person = [i \in Pids |-> [live |-> \E d \in Dids : s[d] = i, ident |-> i \in I, ver |-> 0]]
    /\ pdi = [d \in Dids |-> [owner |-> s[d], ver |-> 0]]
    /\ nextId \in 1..MaxPerson + 1
    /\ \A i \in Pids : i < nextId <=> person[i].live
    /\ chPerson = [i \in Pids |-> [ver |-> IF person[i].live THEN 0 ELSE -1,
                                   ident |-> person[i].ident, del |-> FALSE]]
    /\ chPdi = [d \in Dids |-> [owner |-> s[d], ver |-> IF s[d] = 0 THEN -1 ELSE 0]]
    /\ seen = [w \in Workers |-> {}]
    /\ \E in \in [Events -> Inputs] : ps = [p \in Events |-> Idle(in[p])]
    /\ faults = 0
  BY DEF Init
<1>2. s \in [Dids -> 0..MaxPerson]
  BY PersonAssumption
<1>3. PICK in \in [Events -> Inputs] : ps = [p \in Events |-> Idle(in[p])]
  BY <1>1
<1>4. \A p \in Events : ps[p] \in States /\ Good(ps[p]) /\ ps[p].pc = "idle"
  BY <1>3, IdleGood
<1>5. /\ person \in [Pids -> Rows] /\ \A i \in Pids : person[i].ident \in BOOLEAN
  <2>1. \A i \in Pids : (\E d \in Dids : s[d] = i) \in BOOLEAN /\ (i \in I) \in BOOLEAN
    OBVIOUS
  <2>2. \A i \in Pids : [live |-> \E d \in Dids : s[d] = i, ident |-> i \in I, ver |-> 0] \in Rows
    BY <2>1 DEF Rows
  <2>3. \A i \in Pids : person[i] = [live |-> \E d \in Dids : s[d] = i, ident |-> i \in I, ver |-> 0]
    BY <1>1
  <2> QED BY <1>1, <2>1, <2>2, <2>3
<1>6. /\ pdi \in [Dids -> Owners]
      /\ chPerson \in [Pids -> Versions] /\ chPdi \in [Dids -> Owners]
  BY <1>1, <1>2, <1>5 DEF Owners, Versions
<1>7. Types
  BY <1>1, <1>3, <1>4, <1>5, <1>6, PersonAssumption DEF Types
<1>8. \A i \in Pids : person[i].live <=> \E d \in Dids : s[d] = i
  BY <1>1
<1>9. \A d \in Dids : PidOf(d) = s[d]
  BY <1>1 DEF PidOf
<1>10. NoOrphans /\ Numbered
  <2>1. \A d \in Dids : s[d] # 0 => s[d] \in Pids
    BY <1>2, PersonAssumption DEF Pids
  <2> QED BY <1>1, <1>8, <1>9, <2>1 DEF NoOrphans, Numbered, IdsOf
<1>11. \A p, q \in Events : Apart(ps[p], ps[q])
  BY <1>4, CodesFact DEF Apart
<1> QED BY <1>4, <1>7, <1>10, <1>11 DEF IInv

(* A crash puts events back to where they started; the others do not notice. *)
LEMMA CrashInv == ASSUME IInv, NEW w \in Workers, Crash(w) PROVE IInv'
<1>1. UNCHANGED db /\ OthersTyped'
  <2>1. faults' \in 0..MaxFaults /\ seen' \in [Workers -> SUBSET Dids]
    BY PersonAssumption DEF Crash, IInv, Types
  <2> QED BY <2>1 DEF Crash, IInv, Types, OthersTyped, ch
<1>2. PICK R \in SUBSET Events :
        ps' = [p \in Events |-> IF p \in R THEN Idle(ps[p].ev) ELSE ps[p]]
  <2>1. PICK R \in SUBSET {p \in Events : WorkerOf[p] = w /\ ps[p].pc \in Ended} :
       ps' = [p \in Events |->
                IF p \in R \/ (WorkerOf[p] = w /\ ps[p].pc \notin Ended)
                THEN Idle(ps[p].ev) ELSE ps[p]]
    BY DEF Crash
  <2> WITNESS R \cup {p \in Events : WorkerOf[p] = w /\ ps[p].pc \notin Ended} \in SUBSET Events
  <2> QED BY <2>1
<1>3. ASSUME NEW p \in Events
      PROVE ps'[p] \in States /\ Good(ps'[p]) /\ (ps'[p] = ps[p] \/ ps'[p].pc = "idle")
  <2>1. CASE p \in R
    BY <1>2, <2>1, Own, IdleGood
  <2>2. CASE p \notin R
    BY <1>2, <2>2, Own
  <2> QED BY <2>1, <2>2
<1>4. person' = person /\ pdi' = pdi /\ nextId' = nextId
  BY <1>1 DEF db
<1>5. Types' /\ NoOrphans' /\ Numbered'
  <2>1. ps' \in [Events -> States]
    BY <1>2, <1>3
  <2>2. Types'
    BY <1>1, <1>4, <2>1 DEF IInv, Types, OthersTyped
  <2>3. NoOrphans' /\ Numbered'
    BY <1>4 DEF IInv, NoOrphans, Numbered, IdsOf, PidOf
  <2> QED BY <2>2, <2>3
<1>6. \A p \in Events : Good(ps[p])'
  BY <1>3, <1>4 DEF Good, Sound, Joined, PidOf
<1>7. ASSUME NEW p \in Events, NEW q \in Events, p # q PROVE Apart(ps[p], ps[q])'
  <2>1. Apart(ps[p], ps[q])
    BY <1>7 DEF IInv
  <2> QED BY <1>3, <2>1, CodesFact DEF Apart
<1> QED BY <1>5, <1>6, <1>7 DEF IInv

(* The person tables evolve or stay: every step of every event. *)
LEMMA StillEvolves == ASSUME IInv, UNCHANGED db PROVE Evolves
BY PersonAssumption DEF Evolves, db, IInv, Types, PidOf

(* The steps that read, decide and send leave the person tables alone. *)
LEMMA Reading ==
  ASSUME NEW p \in Events,
         \/ Receive(p) \/ FetchOld(p) \/ Decide(p) \/ UpdateInto(p) \/ MoveDistinctIds(p)
         \/ DeletePerson(p) \/ DeadlockVictim(p) \/ IsNewPerson(p) \/ CountIds(p)
         \/ ReadForUpdate(p) \/ Publish(p)
  PROVE  UNCHANGED db
<1>1. CASE Receive(p) \/ FetchOld(p) \/ Decide(p) BY <1>1 DEF Receive, FetchOld, Decide
<1>2. CASE UpdateInto(p) \/ MoveDistinctIds(p) BY <1>2 DEF UpdateInto, MoveDistinctIds
<1>3. CASE DeletePerson(p) \/ DeadlockVictim(p) BY <1>3 DEF DeletePerson, DeadlockVictim
<1>4. CASE IsNewPerson(p) \/ CountIds(p) BY <1>4 DEF IsNewPerson, CountIds
<1>5. CASE ReadForUpdate(p) \/ Publish(p) BY <1>5 DEF ReadForUpdate, Publish
<1> QED BY <1>1, <1>2, <1>3, <1>4, <1>5, ZenonT(40)

(* Every step preserves the invariant and lets the person tables evolve. *)
LEMMA StepInv == ASSUME IInv, [Next]_vars PROVE IInv' /\ Evolves
<1>1. CASE UNCHANGED vars
  <2>1. IInv'
    <3>1. /\ person' = person /\ pdi' = pdi /\ nextId' = nextId /\ ps' = ps
          /\ chPerson' = chPerson /\ chPdi' = chPdi /\ seen' = seen /\ faults' = faults
      BY <1>1 DEF vars
    <3>2. Types' /\ NoOrphans' /\ Numbered'
      BY <3>1 DEF IInv, Types, NoOrphans, Numbered, IdsOf, PidOf
    <3>3. \A p \in Events : Good(ps[p])'
      BY <3>1 DEF IInv, Good, Sound, Joined, PidOf
    <3>4. \A p, q \in Events : p # q => Apart(ps[p], ps[q])'
      BY <3>1 DEF IInv, Apart
    <3> QED BY <3>2, <3>3, <3>4 DEF IInv
  <2> QED BY <1>1, <2>1, StillEvolves DEF vars, db
<1>2. ASSUME NEW p \in Events, Step(p) PROVE IInv' /\ Evolves
  <2>1. CASE Receive(p)
    BY <2>1, ReceiveInv, Reading, StillEvolves, Zenon
  <2>2. CASE FetchOld(p)
    BY <2>2, FetchOldInv, Reading, StillEvolves, Zenon
  <2>3. CASE Decide(p)
    BY <2>3, DecideInv, Reading, StillEvolves, Zenon
  <2>4. CASE AddDistinctId(p)
    BY <2>4, AddDistinctIdInv, Zenon
  <2>5. CASE CreateBoth(p)
    BY <2>5, CreateBothInv, Zenon
  <2>6. CASE UpdateInto(p)
    BY <2>6, UpdateIntoInv, Reading, StillEvolves, Zenon
  <2>7. CASE MoveDistinctIds(p)
    BY <2>7, MoveDistinctIdsInv, Reading, StillEvolves, Zenon
  <2>8. CASE DeletePerson(p)
    BY <2>8, DeletePersonInv, Reading, StillEvolves, Zenon
  <2>9. CASE Commit(p)
    BY <2>9, CommitInv, Zenon
  <2>10. CASE DeadlockVictim(p)
    BY <2>10, DeadlockVictimInv, Reading, StillEvolves, Zenon
  <2>11. CASE IsNewPerson(p)
    BY <2>11, IsNewPersonInv, Reading, StillEvolves, Zenon
  <2>12. CASE CountIds(p)
    BY <2>12, CountIdsInv, Reading, StillEvolves, Zenon
  <2>13. CASE CreateOne(p)
    BY <2>13, CreateOneInv, Zenon
  <2>14. CASE ReadForUpdate(p)
    BY <2>14, ReadForUpdateInv, Reading, StillEvolves, Zenon
  <2>15. CASE UpdatePerson(p)
    BY <2>15, UpdatePersonInv, Zenon
  <2>16. CASE Publish(p)
    BY <2>16, PublishInv, Reading, StillEvolves, Zenon
  <2> QED BY <1>2, <2>1, <2>2, <2>3, <2>4, <2>5, <2>6, <2>7, <2>8, <2>9, <2>10, <2>11, <2>12,
             <2>13, <2>14, <2>15, <2>16 DEF Step
<1>3. ASSUME NEW p \in Events, PublishFails(p) PROVE IInv' /\ Evolves
  BY <1>3, PublishFailsInv, StillEvolves DEF PublishFails
<1>4. ASSUME NEW w \in Workers, Crash(w) PROVE IInv' /\ Evolves
  BY <1>4, CrashInv, StillEvolves DEF Crash
<1>5. CASE Rest
  BY <1>5, <1>1 DEF Rest
<1> QED BY <1>1, <1>2, <1>3, <1>4, <1>5 DEF Next

(* The inductive invariant holds of every reachable state. *)
THEOREM PersonInvariant == Spec => []IInv
<1>1. IInv /\ [Next]_vars => IInv'
  BY StepInv
<1> QED BY InitInv, <1>1, PTL DEF Spec

(* Every variable of PersonState keeps its type, and an event holds a person, *)
(* or moved rows, where its program counter says so.                          *)
THEOREM PersonTypeCorrect == Spec => []TypeOK
<1>1. IInv => TypeOK
  BY DEF IInv, Types, TypeOK, Good, InMerge, Moving
<1> QED BY <1>1, PersonInvariant, PTL

(* However many events create, alias and merge at once, every person row keeps a *)
(* distinct id and no distinct id refers to a deleted person.                    *)
THEOREM PersonNoOrphans == Spec => []NoOrphans
<1>1. IInv => NoOrphans
  BY DEF IInv
<1> QED BY <1>1, PersonInvariant, PTL

(* An alias that ended on a success branch has made its two ids one person, and *)
(* they remain one person.                                                      *)
THEOREM PersonAliasesTakeEffect == Spec => []AliasesTakeEffect
<1>1. IInv => AliasesTakeEffect
  BY DEF IInv, Good, AliasesTakeEffect
<1> QED BY <1>1, PersonInvariant, PTL

(* No step separates two distinct ids of one person. *)
THEOREM PersonIdsStayTogether == Spec => IdsStayTogether
<1> DEFINE Together == \A d, e \in Dids : PidOf(d) # 0 /\ PidOf(d) = PidOf(e)
                         => PidOf(d)' = PidOf(e)' /\ PidOf(d)' # 0
<1>1. IInv /\ [Next]_vars => [Together]_vars
  BY StepInv DEF Evolves
<1> QED BY <1>1, PersonInvariant, PTL DEF Spec, IdsStayTogether

----------------------------------------------------------------------------
(* ClickHouse follows Postgres as long as nothing is lost.  Of every row there *)
(* is a last word, the version Postgres wrote last.  What ClickHouse holds and *)
(* what is still to be sent is that word or older, and the word itself is in   *)
(* one of the two: Heard says so of a row and the messages about it.           *)

Heard(last, words, row, sent) ==
  /\ row.ver < 0 \/ row.ver < last \/ row \in words
  /\ \A e \in Events : sent[e].ver < 0 \/ sent[e].ver < last \/ sent[e] \in words
  /\ last >= 0 => row \in words \/ \E e \in Events : sent[e] \in words

(* The last word on a person; -1 while its id is not handed out. *)
LastOf(i) == IF i >= nextId THEN -1
             ELSE IF person[i].live THEN person[i].ver ELSE DeletedVersion(person[i].ver)
About(i)  == {v \in Versions : /\ v.ver = LastOf(i) /\ v.del = ~person[i].live
                               /\ person[i].live => v.ident = person[i].ident}
SentOf(i) == [e \in Events |-> ps[e].out.person[i]]

LastId(d) == IF PidOf(d) = 0 THEN -1 ELSE pdi[d].ver
Owned(d)  == IF PidOf(d) = 0 THEN {} ELSE {pdi[d]}
SentId(d) == [e \in Events |-> ps[e].out.pdi[d]]

PersonHeard == \A i \in Pids : Heard(LastOf(i), About(i), chPerson[i], SentOf(i))
IdHeard     == \A d \in Dids : Heard(LastId(d), Owned(d), chPdi[d], SentId(d))

Follows ==
  /\ PersonHeard /\ IdHeard
  /\ \A d \in Dids : /\ PidOf(d) # 0 => pdi[d].ver >= 0
                     /\ chPdi[d].ver < 0 => chPdi[d].owner = 0
  /\ \A e \in Events : ps[e].pc \notin Publishing => ps[e].out = NoMsgs

(* One event says a new word on a row. *)
LEMMA WordSaid ==
  ASSUME NEW p \in Events, NEW last \in Int, NEW words, NEW row, NEW sent,
         NEW last1 \in Int, NEW words1, NEW sent1,
         row.ver \in Int, \A e \in Events : sent[e].ver \in Int,
         Heard(last, words, row, sent), \A v \in words : v.ver = last,
         last < last1, sent1[p] \in words1,
         \A e \in Events : e # p => sent1[e] = sent[e]
  PROVE  Heard(last1, words1, row, sent1)
<1>1. row.ver < 0 \/ row.ver < last1
  BY DEF Heard
<1>2. ASSUME NEW e \in Events PROVE sent1[e].ver < 0 \/ sent1[e].ver < last1 \/ sent1[e] \in words1
  <2>1. CASE e = p
    BY <2>1
  <2>2. CASE e # p
    BY <2>2 DEF Heard
  <2> QED BY <2>1, <2>2
<1> QED BY <1>1, <1>2 DEF Heard

(* One event that had nothing to send about a row still has nothing. *)
LEMMA NothingSaid ==
  ASSUME NEW p \in Events, NEW last \in Int, NEW words, NEW row, NEW sent, NEW sent1,
         Heard(last, words, row, sent), \A v \in words : v.ver = last,
         sent[p].ver = -1, sent1[p].ver = -1,
         \A e \in Events : e # p => sent1[e] = sent[e]
  PROVE  Heard(last, words, row, sent1)
<1>1. ASSUME NEW e \in Events PROVE sent1[e].ver < 0 \/ sent1[e].ver < last \/ sent1[e] \in words
  <2>1. CASE e = p
    BY <2>1
  <2>2. CASE e # p
    BY <2>2 DEF Heard
  <2> QED BY <2>1, <2>2
<1>2. ASSUME last >= 0, row \notin words PROVE \E e \in Events : sent1[e] \in words
  <2>1. PICK e \in Events : sent[e] \in words
    BY <1>2 DEF Heard
  <2>2. e # p
    BY <2>1, <1>2
  <2> QED BY <2>1, <2>2
<1> QED BY <1>1, <1>2 DEF Heard

(* One event's message about a row reaches ClickHouse. *)
LEMMA WordDelivered ==
  ASSUME NEW p \in Events, NEW last \in Int, NEW words, NEW row, NEW sent, NEW row1, NEW sent1,
         row.ver \in Int, sent[p].ver \in Int,
         Heard(last, words, row, sent), \A v \in words : v.ver = last,
         row1 = IF sent[p].ver >= 0 /\ sent[p].ver >= row.ver THEN sent[p] ELSE row,
         sent1[p].ver = -1,
         \A e \in Events : e # p => sent1[e] = sent[e]
  PROVE  Heard(last, words, row1, sent1)
<1>1. row1.ver < 0 \/ row1.ver < last \/ row1 \in words
  BY DEF Heard
<1>2. ASSUME NEW e \in Events PROVE sent1[e].ver < 0 \/ sent1[e].ver < last \/ sent1[e] \in words
  <2>1. CASE e = p
    BY <2>1
  <2>2. CASE e # p
    BY <2>2 DEF Heard
  <2> QED BY <2>1, <2>2
<1>3. ASSUME last >= 0 PROVE row1 \in words \/ \E e \in Events : sent1[e] \in words
  <2>1. CASE row \in words
    <3>1. row.ver = last
      BY <2>1
    <3> QED BY <2>1, <3>1, <1>3 DEF Heard
  <2>2. CASE sent[p] \in words
    <3>1. sent[p].ver = last
      BY <2>2
    <3>2. row.ver < 0 \/ row.ver <= last
      BY DEF Heard
    <3> QED BY <2>2, <3>1, <3>2, <1>3
  <2>3. ASSUME NEW e \in Events, e # p, sent[e] \in words PROVE sent1[e] \in words
    BY <2>3
  <2> QED BY <1>3, <2>1, <2>2, <2>3 DEF Heard
<1> QED BY <1>1, <1>2, <1>3 DEF Heard

(* The versions compared are numbers, and a word has the version it should. *)
LEMMA PersonWords ==
  ASSUME IInv, NEW i \in Pids
  PROVE  /\ LastOf(i) \in Int /\ LastOf(i) >= -1 /\ chPerson[i].ver \in Int
         /\ \A e \in Events : SentOf(i)[e] = ps[e].out.person[i] /\ SentOf(i)[e].ver \in Int
         /\ \A v \in About(i) : v.ver = LastOf(i)
<1>1. person[i].ver \in Nat
  BY DEF IInv, Types, Rows
<1>2. LastOf(i) \in Int /\ LastOf(i) >= -1
  BY <1>1 DEF LastOf, DeletedVersion
<1>3. chPerson[i].ver \in Int
  BY DEF IInv, Types, Versions
<1>4. ASSUME NEW e \in Events
      PROVE SentOf(i)[e] = ps[e].out.person[i] /\ SentOf(i)[e].ver \in Int
  <2>1. ps[e].out \in Messages
    BY Own DEF States
  <2>2. ps[e].out.person[i].ver \in Int
    BY <2>1 DEF Messages, Versions
  <2> QED BY <2>2 DEF SentOf
<1> QED BY <1>2, <1>3, <1>4 DEF About

(* The same of the distinct ids. *)
LEMMA IdWords ==
  ASSUME IInv, NEW d \in Dids
  PROVE  /\ LastId(d) \in Int /\ chPdi[d].ver \in Int
         /\ \A e \in Events : SentId(d)[e] = ps[e].out.pdi[d] /\ SentId(d)[e].ver \in Int
         /\ \A v \in Owned(d) : v.ver = LastId(d)
<1>1. pdi[d].ver \in Int /\ chPdi[d].ver \in Int
  BY DEF IInv, Types, Owners
<1>2. ASSUME NEW e \in Events
      PROVE SentId(d)[e] = ps[e].out.pdi[d] /\ SentId(d)[e].ver \in Int
  <2>1. ps[e].out \in Messages
    BY Own DEF States
  <2>2. ps[e].out.pdi[d].ver \in Int
    BY <2>1 DEF Messages, Owners
  <2> QED BY <2>2 DEF SentId
<1> QED BY <1>1, <1>2 DEF LastId, Owned

(* No message about any row. *)
LEMMA Silence ==
  /\ \A i \in Pids : NoMsgs.person[i].ver = -1
  /\ \A d \in Dids : NoMsgs.pdi[d].ver = -1
BY DEF NoMsgs

(* A step that neither writes nor sends. *)
LEMMA Unspoken ==
  ASSUME IInv, Follows, NEW p \in Events, NEW r \in States, ps' = [ps EXCEPT ![p] = r],
         UNCHANGED <<db, ch>>, ps[p].out = NoMsgs, r.out = NoMsgs
  PROVE  Follows'
<1>1. /\ person' = person /\ pdi' = pdi /\ nextId' = nextId
      /\ chPerson' = chPerson /\ chPdi' = chPdi
  BY DEF db, ch
<1>2. ps' \in [Events -> States] /\ ps'[p] = r /\ \A q \in Events : q # p => ps'[q] = ps[q]
  BY OneChanges DEF IInv, Types
<1>3. \A e \in Events : ps'[e].out = ps[e].out
  BY <1>2
<1>4. ASSUME NEW i \in Pids PROVE Heard(LastOf(i), About(i), chPerson[i], SentOf(i))'
  <2>1. SentOf(i)' = SentOf(i)
    BY <1>3 DEF SentOf
  <2>2. LastOf(i)' = LastOf(i) /\ About(i)' = About(i)
    BY <1>1 DEF LastOf, About
  <2>3. Heard(LastOf(i), About(i), chPerson[i], SentOf(i))
    BY DEF Follows, PersonHeard
  <2> QED BY <1>1, <2>1, <2>2, <2>3 DEF Heard
<1>5. ASSUME NEW d \in Dids PROVE Heard(LastId(d), Owned(d), chPdi[d], SentId(d))'
  <2>1. SentId(d)' = SentId(d)
    BY <1>3 DEF SentId
  <2>2. LastId(d)' = LastId(d) /\ Owned(d)' = Owned(d)
    BY <1>1 DEF LastId, Owned, PidOf
  <2>3. Heard(LastId(d), Owned(d), chPdi[d], SentId(d))
    BY DEF Follows, IdHeard
  <2> QED BY <1>1, <2>1, <2>2, <2>3 DEF Heard
<1>6. \A e \in Events : ps'[e].pc \notin Publishing => ps'[e].out = NoMsgs
  BY <1>2 DEF Follows
<1> QED BY <1>1, <1>4, <1>5, <1>6 DEF Follows, PersonHeard, IdHeard, PidOf

(* A write that has its messages to send: on each row it wrote, the new word, and *)
(* of a higher version than the last.                                             *)
LEMMA Spoken ==
  ASSUME IInv, Follows, NEW p \in Events, NEW r \in States, ps' = [ps EXCEPT ![p] = r],
         UNCHANGED ch, ps[p].out = NoMsgs, r.pc \in Publishing, IInv',
         \A i \in Pids :
           \/ LastOf(i)' = LastOf(i) /\ About(i)' = About(i) /\ r.out.person[i].ver = -1
           \/ LastOf(i)' > LastOf(i) /\ r.out.person[i] \in About(i)',
         \A d \in Dids :
           \/ pdi'[d] = pdi[d] /\ r.out.pdi[d].ver = -1
           \/ /\ LastId(d)' > LastId(d) /\ r.out.pdi[d] = pdi'[d]
              /\ PidOf(d)' # 0 /\ pdi'[d].ver >= 0
  PROVE  Follows'
<1>1. chPerson' = chPerson /\ chPdi' = chPdi
  BY DEF ch
<1>2. ps' \in [Events -> States] /\ ps'[p] = r /\ \A q \in Events : q # p => ps'[q] = ps[q]
  BY OneChanges DEF IInv, Types
<1>3. ASSUME NEW i \in Pids PROVE Heard(LastOf(i)', About(i)', chPerson[i], SentOf(i)')
  <2>1. /\ LastOf(i) \in Int /\ chPerson[i].ver \in Int
        /\ \A e \in Events : SentOf(i)[e] = ps[e].out.person[i] /\ SentOf(i)[e].ver \in Int
        /\ \A v \in About(i) : v.ver = LastOf(i)
    BY PersonWords
  <2>2. /\ SentOf(i)'[p] = r.out.person[i]
        /\ \A e \in Events : e # p => SentOf(i)'[e] = SentOf(i)[e]
    BY <1>2 DEF SentOf
  <2>3. Heard(LastOf(i), About(i), chPerson[i], SentOf(i))
    BY DEF Follows, PersonHeard
  <2>4. LastOf(i)' \in Int
    <3>1. person'[i].ver \in Nat
      BY DEF IInv, Types, Rows
    <3> QED BY <3>1 DEF LastOf, DeletedVersion
  <2> DEFINE l == LastOf(i)   l1 == LastOf(i)'  w == About(i)  w1 == About(i)'
             s == SentOf(i)   s1 == SentOf(i)'
  <2>5. CASE l1 = l /\ w1 = w /\ r.out.person[i].ver = -1
    <3>1. s[p].ver = -1 /\ s1[p].ver = -1
      BY <2>1, <2>2, <2>5, Silence
    <3> HIDE DEF l, l1, w, w1, s, s1
    <3>2. Heard(l, w, chPerson[i], s1)
      BY <2>1, <2>2, <2>3, <3>1, NothingSaid DEF l, w, s, s1
    <3> QED BY <2>5, <3>2 DEF l1, w1, s1
  <2>6. CASE l1 > l /\ r.out.person[i] \in w1
    <3>1. s1[p] \in w1
      BY <2>2, <2>6
    <3>2. l < l1
      BY <2>1, <2>4, <2>6
    <3>3. Heard(l, w, chPerson[i], s) /\ l \in Int /\ l1 \in Int
      BY <2>1, <2>3, <2>4
    <3>4. /\ chPerson[i].ver \in Int /\ \A e \in Events : s[e].ver \in Int
          /\ \A v \in w : v.ver = l
          /\ \A e \in Events : e # p => s1[e] = s[e]
      BY <2>1, <2>2
    <3> HIDE DEF l, l1, w, w1, s, s1
    <3>5. Heard(l1, w1, chPerson[i], s1)
      BY <3>1, <3>2, <3>3, <3>4, WordSaid
    <3> QED BY <3>5 DEF l1, w1, s1
  <2> QED BY <2>5, <2>6
<1>4. ASSUME NEW d \in Dids PROVE Heard(LastId(d)', Owned(d)', chPdi[d], SentId(d)')
  <2>1. /\ LastId(d) \in Int /\ chPdi[d].ver \in Int
        /\ \A e \in Events : SentId(d)[e] = ps[e].out.pdi[d] /\ SentId(d)[e].ver \in Int
        /\ \A v \in Owned(d) : v.ver = LastId(d)
    BY IdWords
  <2>2. /\ SentId(d)'[p] = r.out.pdi[d]
        /\ \A e \in Events : e # p => SentId(d)'[e] = SentId(d)[e]
    BY <1>2 DEF SentId
  <2>3. Heard(LastId(d), Owned(d), chPdi[d], SentId(d))
    BY DEF Follows, IdHeard
  <2>4. LastId(d)' \in Int
    <3>1. pdi'[d].ver \in Int
      BY DEF IInv, Types, Owners
    <3> QED BY <3>1 DEF LastId
  <2> DEFINE l == LastId(d)   l1 == LastId(d)'  w == Owned(d)  w1 == Owned(d)'
             s == SentId(d)   s1 == SentId(d)'
  <2>5. CASE pdi'[d] = pdi[d] /\ r.out.pdi[d].ver = -1
    <3>1. s[p].ver = -1 /\ s1[p].ver = -1
      BY <2>1, <2>2, <2>5, Silence
    <3>2. l1 = l /\ w1 = w
      BY <2>5 DEF LastId, Owned, PidOf
    <3> HIDE DEF l, l1, w, w1, s, s1
    <3>3. Heard(l, w, chPdi[d], s1)
      BY <2>1, <2>2, <2>3, <3>1, NothingSaid DEF l, w, s, s1
    <3> QED BY <3>2, <3>3 DEF l1, w1, s1
  <2>6. CASE l1 > l /\ r.out.pdi[d] = pdi'[d] /\ PidOf(d)' # 0
    <3>1. s1[p] \in w1
      BY <2>2, <2>6 DEF Owned
    <3>2. l < l1
      BY <2>1, <2>4, <2>6
    <3>3. Heard(l, w, chPdi[d], s) /\ l \in Int /\ l1 \in Int
      BY <2>1, <2>3, <2>4
    <3>4. /\ chPdi[d].ver \in Int /\ \A e \in Events : s[e].ver \in Int
          /\ \A v \in w : v.ver = l
          /\ \A e \in Events : e # p => s1[e] = s[e]
      BY <2>1, <2>2
    <3> HIDE DEF l, l1, w, w1, s, s1
    <3>5. Heard(l1, w1, chPdi[d], s1)
      BY <3>1, <3>2, <3>3, <3>4, WordSaid
    <3> QED BY <3>5 DEF l1, w1, s1
  <2> QED BY <2>5, <2>6
<1>5. \A e \in Events : ps'[e].pc \notin Publishing => ps'[e].out = NoMsgs
  BY <1>2 DEF Follows
<1>6. \A d \in Dids : /\ PidOf(d)' # 0 => pdi'[d].ver >= 0
                      /\ chPdi'[d].ver < 0 => chPdi'[d].owner = 0
  BY <1>1 DEF Follows, PidOf
<1>7. PersonHeard' /\ IdHeard'
  BY <1>1, <1>3, <1>4 DEF PersonHeard, IdHeard, Heard
<1> QED BY <1>5, <1>6, <1>7 DEF Follows

(* The ways an attempt ends leave the outbox alone. *)
LEMMA OutStays ==
  ASSUME NEW r \in States, NEW why \in Sayings
  PROVE  /\ Threw(r, why).out = r.out /\ Threw(r, why).pc \notin Publishing
         /\ Caught(r).out = r.out /\ Caught(r).pc \notin Publishing
         /\ Checked(r).out = r.out /\ Checked(r).pc \notin Publishing
<1>1. Threw(r, why).out = r.out /\ Threw(r, why).pc = "props"
  BY DEF Threw, States
<1>2. Caught(r).out = r.out /\ Caught(r).pc \in {"alias", "props"}
  <2>1. CASE r.retry
    BY <2>1 DEF Caught, States
  <2>2. CASE ~r.retry
    BY <2>2 DEF Caught, Threw, States
  <2> QED BY <2>1, <2>2
<1>3. Checked(r).out = r.out /\ Checked(r).pc \in {"update", "done"}
  BY DEF Checked, States
<1> QED BY <1>1, <1>2, <1>3 DEF Publishing

(* An event that is not publishing has nothing to send. *)
LEMMA OutEmpty ==
  ASSUME IInv, Follows, NEW p \in Events, ps[p].pc \notin Publishing
  PROVE  ps[p] \in States /\ ps[p].out = NoMsgs /\ Good(ps[p])
BY Own DEF Follows

(* The reading steps leave the outbox of their event as empty as it was, and start *)
(* no publishing.                                                                  *)
LEMMA ReadingQuiet ==
  ASSUME IInv, Follows, NEW p \in Events,
         \/ Receive(p) \/ FetchOld(p) \/ Decide(p) \/ UpdateInto(p) \/ MoveDistinctIds(p)
         \/ DeletePerson(p) \/ DeadlockVictim(p) \/ IsNewPerson(p) \/ CountIds(p)
         \/ ReadForUpdate(p)
  PROVE  /\ UNCHANGED <<db, ch>> /\ ps[p].out = NoMsgs
         /\ \E r : ps' = [ps EXCEPT ![p] = r] /\ r.out = NoMsgs
<1>1. ps[p].pc \notin Publishing
  BY DEF Receive, FetchOld, Decide, UpdateInto, MoveDistinctIds, DeletePerson, DeadlockVictim,
         Deadlocked, Waits, WaitsFor, IsNewPerson, CountIds, ReadForUpdate, At, Publishing
<1>2. ps[p] \in States /\ ps[p].out = NoMsgs
  BY <1>1, OutEmpty
<1> DEFINE Quietly == \E r : ps' = [ps EXCEPT ![p] = r] /\ r.out = NoMsgs
<1>3. \A x : Set(p, x) /\ x.out = NoMsgs => Quietly
  BY DEF Set
<1>4. CASE Receive(p)
  <2>1. PICK b, c : Set(p, [ps[p] EXCEPT !.box = b, !.pc = c]) /\ UNCHANGED <<db, ch>>
    BY <1>4 DEF Receive
  <2>2. [ps[p] EXCEPT !.box = b, !.pc = c].out = NoMsgs
    BY <1>2 DEF States
  <2> QED BY <1>2, <1>3, <2>1, <2>2
<1>5. CASE FetchOld(p)
  <2>1. PICK o : Set(p, [ps[p] EXCEPT !.old = o, !.pc = "decide"]) /\ UNCHANGED <<db, ch>>
    BY <1>5 DEF FetchOld
  <2>2. [ps[p] EXCEPT !.old = o, !.pc = "decide"].out = NoMsgs
    BY <1>2 DEF States
  <2> QED BY <1>2, <1>3, <2>1, <2>2
<1>6. CASE Decide(p)
  <2> DEFINE R(b, n) == [ps[p] EXCEPT !.new = n, !.box = b]
  <2>1. PICK b, n, f, s, c : \/ Set(p, [R(b, n) EXCEPT !.pc = c])
                             \/ Set(p, [R(b, n) EXCEPT !.flag = f, !.said = s, !.pc = c])
    BY <1>6 DEF Decide
  <2>2. /\ [R(b, n) EXCEPT !.pc = c].out = NoMsgs
        /\ [R(b, n) EXCEPT !.flag = f, !.said = s, !.pc = c].out = NoMsgs
    BY <1>2 DEF States
  <2>3. Quietly
    BY <1>3, <2>1, <2>2
  <2>4. UNCHANGED <<db, ch>>
    BY <1>6 DEF Decide
  <2> QED BY <1>2, <2>3, <2>4
<1>7. CASE UpdateInto(p)
  <2>1. UNCHANGED <<db, ch>>
    BY <1>7 DEF UpdateInto
  <2>2. PICK b : Set(p, [ps[p] EXCEPT !.pc = "move", !.box = b]) \/ Set(p, Threw(ps[p], "failed"))
    BY <1>7 DEF UpdateInto
  <2>3. [ps[p] EXCEPT !.pc = "move", !.box = b].out = NoMsgs /\ Threw(ps[p], "failed").out = NoMsgs
    BY <1>2 DEF Threw, States
  <2> QED BY <1>2, <1>3, <2>1, <2>2, <2>3
<1>8. CASE MoveDistinctIds(p)
  <2>1. UNCHANGED <<db, ch>>
    BY <1>8 DEF MoveDistinctIds
  <2>2. PICK b : Set(p, [ps[p] EXCEPT !.moved = b, !.pc = "delete"]) \/ Set(p, Threw(ps[p], "raced"))
    BY <1>8 DEF MoveDistinctIds
  <2>3. [ps[p] EXCEPT !.moved = b, !.pc = "delete"].out = NoMsgs /\ Threw(ps[p], "raced").out = NoMsgs
    BY <1>2 DEF Threw, States
  <2> QED BY <1>2, <1>3, <2>1, <2>2, <2>3
<1>9. CASE DeletePerson(p)
  <2>1. Set(p, [ps[p] EXCEPT !.pc = "commit"]) /\ UNCHANGED <<db, ch>>
    BY <1>9 DEF DeletePerson
  <2>2. [ps[p] EXCEPT !.pc = "commit"].out = NoMsgs
    BY <1>2 DEF States
  <2> QED BY <1>2, <1>3, <2>1, <2>2
<1>10. CASE DeadlockVictim(p)
  <2> DEFINE r == [ps[p] EXCEPT !.tries = @ + 1, !.moved = {}]
  <2>1. UNCHANGED <<db, ch>>
    BY <1>10 DEF DeadlockVictim
  <2>2. r.out = NoMsgs /\ [r EXCEPT !.pc = "alias", !.retry = FALSE].out = NoMsgs
        /\ Threw(r, "failed").out = NoMsgs
    BY <1>2 DEF States, Threw
  <2>3. Quietly
    BY <1>3, <1>10, <2>2 DEF DeadlockVictim
  <2> QED BY <1>2, <2>1, <2>3
<1>11. CASE IsNewPerson(p)
  <2> DEFINE f == [ps[p] EXCEPT !.box = Fresh]   n == [ps[p] EXCEPT !.pc = "count"]
  <2>1. UNCHANGED <<db, ch>>
    BY <1>11 DEF IsNewPerson, ch
  <2>2. Checked(ps[p]).out = NoMsgs /\ Checked(f).out = NoMsgs /\ n.out = NoMsgs
    BY <1>2 DEF Checked, States
  <2>3. Set(p, Checked(ps[p])) \/ Set(p, Checked(f)) \/ Set(p, n)
    BY <1>11 DEF IsNewPerson
  <2> HIDE DEF f, n
  <2> QED BY <1>2, <1>3, <2>1, <2>2, <2>3
<1>12. CASE CountIds(p)
  <2> DEFINE f == [ps[p] EXCEPT !.box = Fresh]   n == [ps[p] EXCEPT !.pc = "createOne"]
  <2>1. UNCHANGED <<db, ch>>
    BY <1>12 DEF CountIds
  <2>2. Checked(f).out = NoMsgs /\ n.out = NoMsgs
    BY <1>2 DEF Checked, States
  <2>3. Set(p, Checked(f)) \/ Set(p, n)
    BY <1>12 DEF CountIds
  <2> HIDE DEF f, n
  <2> QED BY <1>2, <1>3, <2>1, <2>2, <2>3
<1>13. CASE ReadForUpdate(p)
  <2>1. UNCHANGED <<db, ch>>
    BY <1>13 DEF ReadForUpdate
  <2>2. \A c : [[ps[p] EXCEPT !.box = With(Get(p))] EXCEPT !.pc = c].out = NoMsgs
    BY <1>2 DEF States
  <2>3. Quietly
    BY <1>3, <1>13, <2>2 DEF ReadForUpdate
  <2> QED BY <1>2, <2>1, <2>3
<1> QED BY <1>4, <1>5, <1>6, <1>7, <1>8, <1>9, <1>10, <1>11, <1>12, <1>13

(* So they leave what ClickHouse will come to hold as it is. *)
LEMMA ReadingFollows ==
  ASSUME IInv, Follows, NEW p \in Events, IInv',
         \/ Receive(p) \/ FetchOld(p) \/ Decide(p) \/ UpdateInto(p) \/ MoveDistinctIds(p)
         \/ DeletePerson(p) \/ DeadlockVictim(p) \/ IsNewPerson(p) \/ CountIds(p)
         \/ ReadForUpdate(p)
  PROVE  Follows'
<1>1. UNCHANGED <<db, ch>> /\ ps[p].out = NoMsgs
  BY ReadingQuiet
<1>2. PICK r : ps' = [ps EXCEPT ![p] = r] /\ r.out = NoMsgs
  BY ReadingQuiet
<1>3. r \in States
  <2>1. ps \in [Events -> States] /\ ps' \in [Events -> States]
    BY DEF IInv, Types
  <2>2. ps'[p] = r
    BY <1>2, <2>1
  <2> QED BY <2>1, <2>2
<1> QED BY <1>1, <1>2, <1>3, Unspoken

(* Publishing hands over what was to be sent. *)
LEMMA PublishFollows ==
  ASSUME IInv, Follows, NEW p \in Events, Publish(p), IInv'
  PROVE  Follows'
<1>1. /\ ps[p] \in States /\ ps[p].pc \in Publishing /\ ps[p].out \in Messages /\ Good(ps[p])
  BY Own DEF Publish, States
<1> DEFINE t == Published(ps[p])
<1>2. t \in States /\ t.pc \in {"props", "done"}
  <2>1. t \in States
    BY <1>1, PublishedGood
  <2>2. t.pc \in {"props", "done"}
    BY <1>1 DEF Published, Publishing, States
  <2> QED BY <2>1, <2>2
<1> HIDE DEF t
<1>3. /\ person' = person /\ pdi' = pdi /\ nextId' = nextId
      /\ chPerson' = Newest(chPerson, ps[p].out.person) /\ chPdi' = Newest(chPdi, ps[p].out.pdi)
      /\ ps' = [ps EXCEPT ![p] = [t EXCEPT !.out = NoMsgs]]
  BY DEF Publish, db, Deliver, Set, t
<1>4. /\ ps'[p].out = NoMsgs /\ \A q \in Events : q # p => ps'[q] = ps[q]
  <2>1. [t EXCEPT !.out = NoMsgs].out = NoMsgs
    BY <1>2 DEF States
  <2> HIDE DEF t
  <2> QED BY <1>3, <2>1 DEF IInv, Types
<1>5. ASSUME NEW i \in Pids PROVE Heard(LastOf(i), About(i), chPerson'[i], SentOf(i)')
  <2>1. /\ LastOf(i) \in Int /\ chPerson[i].ver \in Int
        /\ \A e \in Events : SentOf(i)[e] = ps[e].out.person[i] /\ SentOf(i)[e].ver \in Int
        /\ \A v \in About(i) : v.ver = LastOf(i)
    BY PersonWords
  <2>2. /\ SentOf(i)'[p].ver = -1
        /\ \A e \in Events : e # p => SentOf(i)'[e] = SentOf(i)[e]
    BY <1>4, Silence DEF SentOf
  <2>3. Heard(LastOf(i), About(i), chPerson[i], SentOf(i))
    BY DEF Follows, PersonHeard
  <2>4. chPerson'[i] = IF SentOf(i)[p].ver >= 0 /\ SentOf(i)[p].ver >= chPerson[i].ver
                       THEN SentOf(i)[p] ELSE chPerson[i]
    BY <1>3, <2>1 DEF Newest, IInv, Types
  <2> DEFINE l == LastOf(i)  w == About(i)  s == SentOf(i)  s1 == SentOf(i)'
             c == chPerson[i]  c1 == chPerson'[i]
  <2>5. /\ l \in Int /\ c.ver \in Int /\ s[p].ver \in Int /\ Heard(l, w, c, s)
        /\ \A v \in w : v.ver = l
    BY <2>1, <2>3
  <2>6. /\ c1 = IF s[p].ver >= 0 /\ s[p].ver >= c.ver THEN s[p] ELSE c
        /\ s1[p].ver = -1
        /\ \A e \in Events : e # p => s1[e] = s[e]
    BY <2>2, <2>4
  <2> HIDE DEF l, w, s, s1, c, c1
  <2>7. Heard(l, w, c1, s1)
    BY <2>5, <2>6, WordDelivered
  <2> QED BY <2>7 DEF l, w, s1, c1
<1>6. ASSUME NEW d \in Dids PROVE Heard(LastId(d), Owned(d), chPdi'[d], SentId(d)')
  <2>1. /\ LastId(d) \in Int /\ chPdi[d].ver \in Int
        /\ \A e \in Events : SentId(d)[e] = ps[e].out.pdi[d] /\ SentId(d)[e].ver \in Int
        /\ \A v \in Owned(d) : v.ver = LastId(d)
    BY IdWords
  <2>2. /\ SentId(d)'[p].ver = -1
        /\ \A e \in Events : e # p => SentId(d)'[e] = SentId(d)[e]
    BY <1>4, Silence DEF SentId
  <2>3. Heard(LastId(d), Owned(d), chPdi[d], SentId(d))
    BY DEF Follows, IdHeard
  <2>4. chPdi'[d] = IF SentId(d)[p].ver >= 0 /\ SentId(d)[p].ver >= chPdi[d].ver
                    THEN SentId(d)[p] ELSE chPdi[d]
    BY <1>3, <2>1 DEF Newest, IInv, Types
  <2> DEFINE l == LastId(d)  w == Owned(d)  s == SentId(d)  s1 == SentId(d)'
             c == chPdi[d]  c1 == chPdi'[d]
  <2>5. /\ l \in Int /\ c.ver \in Int /\ s[p].ver \in Int /\ Heard(l, w, c, s)
        /\ \A v \in w : v.ver = l
    BY <2>1, <2>3
  <2>6. /\ c1 = IF s[p].ver >= 0 /\ s[p].ver >= c.ver THEN s[p] ELSE c
        /\ s1[p].ver = -1
        /\ \A e \in Events : e # p => s1[e] = s[e]
    BY <2>2, <2>4
  <2> HIDE DEF l, w, s, s1, c, c1
  <2>7. Heard(l, w, c1, s1)
    BY <2>5, <2>6, WordDelivered
  <2> QED BY <2>7 DEF l, w, s1, c1
<1>7. ASSUME NEW d \in Dids PROVE chPdi'[d].ver < 0 => chPdi'[d].owner = 0
  <2>1. ps[p].out.pdi[d].ver \in Int /\ chPdi[d].ver \in Int
    BY <1>1 DEF Messages, Owners, IInv, Types
  <2>2. chPdi'[d] = IF ps[p].out.pdi[d].ver >= 0 /\ ps[p].out.pdi[d].ver >= chPdi[d].ver
                    THEN ps[p].out.pdi[d] ELSE chPdi[d]
    BY <1>3 DEF Newest, IInv, Types
  <2> QED BY <2>1, <2>2 DEF Follows
<1>8. \A i \in Pids : LastOf(i)' = LastOf(i) /\ About(i)' = About(i)
  BY <1>3 DEF LastOf, About
<1>9. \A d \in Dids : LastId(d)' = LastId(d) /\ Owned(d)' = Owned(d) /\ PidOf(d)' = PidOf(d)
  BY <1>3 DEF LastId, Owned, PidOf
<1>10. PersonHeard'
  BY <1>5, <1>8 DEF PersonHeard, Heard
<1>11. IdHeard'
  BY <1>6, <1>9 DEF IdHeard, Heard
<1>12. \A e \in Events : ps'[e].pc \notin Publishing => ps'[e].out = NoMsgs
  BY <1>4 DEF Follows
<1>13. \A d \in Dids : PidOf(d)' # 0 => pdi'[d].ver >= 0
  BY <1>3, <1>9 DEF Follows
<1> QED BY <1>7, <1>10, <1>11, <1>12, <1>13 DEF Follows

(* A new distinct id is the first word on its row. *)
LEMMA AddDistinctIdFollows ==
  ASSUME IInv, Follows, NEW p \in Events, AddDistinctId(p), IInv'
  PROVE  Follows'
<1>1. /\ ps[p] \in States /\ ps[p].out = NoMsgs /\ Good(ps[p]) /\ ps[p].pc = "add"
  BY OutEmpty DEF AddDistinctId, At, Publishing
<1>2. PICK d \in Dids : d = Missing(p)
  BY Own DEF Missing
<1>3. PICK i : i = Target(p).id
  OBVIOUS
<1>4. person' = person /\ nextId' = nextId /\ UNCHANGED ch
  BY DEF AddDistinctId
<1>5. CASE ~(PidOf(d) = 0 /\ person[i].live)
  <2>1. pdi' = pdi /\ Set(p, Caught(ps[p]))
    BY <1>2, <1>3, <1>5 DEF AddDistinctId
  <2>2. "failed" \in Sayings
    BY DEF Sayings
  <2>3. Caught(ps[p]).out = NoMsgs
    BY <1>1, <2>2, OutStays
  <2>4. Caught(ps[p]) \in States
    BY <1>1, CaughtGood, CodesFact DEF Aliasing, Good
  <2> QED BY <1>1, <1>4, <2>1, <2>3, <2>4, Unspoken DEF Set, db
<1>6. CASE PidOf(d) = 0 /\ person[i].live
  <2> DEFINE o == [NoMsgs EXCEPT !.pdi[d] = NewIdRow(i)]
  <2>1. pdi' = [pdi EXCEPT ![d] = NewIdRow(i)] /\ Set(p, [ps[p] EXCEPT !.pc = "pubAdd", !.out = o])
    BY <1>2, <1>3, <1>6 DEF AddDistinctId
  <2>2. /\ \A j \in Pids : o.person[j].ver = -1
        /\ o.pdi[d] = NewIdRow(i) /\ \A x \in Dids : x # d => o.pdi[x].ver = -1
    BY DEF NoMsgs
  <2> HIDE DEF o
  <2> DEFINE r == [ps[p] EXCEPT !.pc = "pubAdd", !.out = o]
  <2>3. r.out = o /\ r.pc = "pubAdd"
    BY <1>1 DEF States
  <2>4. ps' = [ps EXCEPT ![p] = r]
    BY <2>1 DEF Set
  <2>5. r \in States
    <3>1. ps \in [Events -> States] /\ ps' \in [Events -> States]
      BY DEF IInv, Types
    <3>2. ps'[p] = r
      BY <2>4, <3>1
    <3> QED BY <3>1, <3>2
  <2> HIDE DEF r
  <2>6. \A j \in Pids : LastOf(j)' = LastOf(j) /\ About(j)' = About(j)
    BY <1>4 DEF LastOf, About
  <2>7. pdi'[d] = NewIdRow(i) /\ \A x \in Dids : x # d => pdi'[x] = pdi[x]
    BY <2>1 DEF IInv, Types
  <2>8. i # 0
    BY <1>1, <1>3 DEF Good, Target
  <2>9. PidOf(d)' # 0 /\ pdi'[d].ver >= 0 /\ LastId(d)' > LastId(d)
    BY <1>6, <2>7, <2>8 DEF NewIdRow, PidOf, LastId
  <2>10. ASSUME NEW x \in Dids
         PROVE \/ pdi'[x] = pdi[x] /\ r.out.pdi[x].ver = -1
               \/ /\ LastId(x)' > LastId(x) /\ r.out.pdi[x] = pdi'[x]
                  /\ PidOf(x)' # 0 /\ pdi'[x].ver >= 0
    <3>1. CASE x = d
      BY <2>2, <2>3, <2>7, <2>9, <3>1
    <3>2. CASE x # d
      BY <2>2, <2>3, <2>7, <3>2
    <3> QED BY <3>1, <3>2
  <2>11. r.pc \in Publishing
    BY <2>3 DEF Publishing
  <2> QED BY <1>1, <1>4, <2>2, <2>3, <2>4, <2>5, <2>6, <2>10, <2>11, Spoken
<1> QED BY <1>5, <1>6

(* So are a new person and its ids. *)
LEMMA InsertFollows ==
  ASSUME IInv, Follows, NEW p \in Events, NEW D \in SUBSET Dids, NEW ident \in BOOLEAN,
         NEW c \in {"pubBoth", "pubOne"}, NEW taken \in States, taken.out = NoMsgs,
         ps[p].pc \notin Publishing, Insert(p, D, ident, c, taken), IInv'
  PROVE  Follows'
<1>1. ps[p] \in States /\ ps[p].out = NoMsgs
  BY OutEmpty
<1>2. UNCHANGED ch
  BY DEF Insert
<1>3. CASE Set(p, taken) /\ UNCHANGED db
  BY <1>1, <1>2, <1>3, Unspoken DEF Set
<1>4. CASE /\ \A d \in D : PidOf(d) = 0
           /\ nextId <= MaxPerson
           /\ person' = [person EXCEPT ![nextId] = [live |-> TRUE, ident |-> ident, ver |-> 0]]
           /\ pdi' = [d \in Dids |-> IF d \in D THEN NewIdRow(nextId) ELSE pdi[d]]
           /\ nextId' = nextId + 1
           /\ Set(p, [ps[p] EXCEPT !.pc = c, !.got = [id |-> nextId, ident |-> ident],
                    !.out = [person |-> PersonRow(nextId, ident, 0),
                             pdi |-> [d \in Dids |-> IF d \in D THEN NewIdRow(nextId)
                                                    ELSE NoMsgs.pdi[d]]]])
  <2>1. PICK n \in Pids : n = nextId
    BY <1>4, PersonAssumption DEF IInv, Types, Pids
  <2> DEFINE o == [person |-> PersonRow(n, ident, 0),
                   pdi |-> [d \in Dids |-> IF d \in D THEN NewIdRow(n) ELSE NoMsgs.pdi[d]]]
             g == [id |-> n, ident |-> ident]
             row == [ver |-> 0, ident |-> ident, del |-> FALSE]
  <2>2. /\ o.person[n] = row /\ \A j \in Pids : j # n => o.person[j].ver = -1
        /\ \A x \in Dids : IF x \in D THEN o.pdi[x] = NewIdRow(n) ELSE o.pdi[x].ver = -1
    BY DEF NoMsgs, PersonRow
  <2>3. Set(p, [ps[p] EXCEPT !.pc = c, !.got = g, !.out = o])
    BY <1>4, <2>1
  <2> HIDE DEF o, g
  <2> DEFINE r == [ps[p] EXCEPT !.pc = c, !.got = g, !.out = o]
  <2>4. r.out = o /\ r.pc = c
    BY <1>1 DEF States
  <2>5. ps' = [ps EXCEPT ![p] = r]
    BY <2>3 DEF Set
  <2> HIDE DEF r
  <2>6. r \in States
    <3>1. ps \in [Events -> States] /\ ps' \in [Events -> States]
      BY DEF IInv, Types
    <3>2. ps'[p] = r
      BY <2>5, <3>1
    <3> QED BY <3>1, <3>2
  <2>7. nextId \in Nat /\ nextId' = nextId + 1 /\ Pids \subseteq Nat
    BY <1>4, <2>1, PersonAssumption DEF Pids
  <2>8. /\ person'[n] = [live |-> TRUE, ident |-> ident, ver |-> 0]
        /\ \A j \in Pids : j # n => person'[j] = person[j]
    BY <1>4, <2>1 DEF IInv, Types
  <2>9. ASSUME NEW i \in Pids
        PROVE \/ LastOf(i)' = LastOf(i) /\ About(i)' = About(i) /\ r.out.person[i].ver = -1
              \/ LastOf(i)' > LastOf(i) /\ r.out.person[i] \in About(i)'
    <3>1. CASE i = n
      <4>1. LastOf(i) = -1 /\ LastOf(i)' = 0
        BY <3>1, <2>1, <2>7, <2>8 DEF LastOf
      <4>2. row \in Versions
        BY DEF Versions
      <4>3. person'[i].live /\ person'[i].ident = ident
        BY <3>1, <2>8
      <4>4. row.ver = LastOf(i)' /\ row.del = ~person'[i].live /\ row.ident = person'[i].ident
        BY <4>1, <4>3
      <4>5. row \in About(i)'
        BY <4>2, <4>4 DEF About
      <4> QED BY <3>1, <4>1, <4>5, <2>2, <2>4
    <3>2. CASE i # n
      <4>1. i >= nextId' <=> i >= nextId
        BY <3>2, <2>1, <2>7
      <4>2. LastOf(i)' = LastOf(i)
        BY <3>2, <4>1, <2>8 DEF LastOf
      <4>3. About(i)' = About(i)
        BY <3>2, <4>2, <2>8 DEF About
      <4> QED BY <3>2, <4>2, <4>3, <2>2, <2>4
    <3> QED BY <3>1, <3>2
  <2>10. ASSUME NEW x \in Dids
         PROVE \/ pdi'[x] = pdi[x] /\ r.out.pdi[x].ver = -1
               \/ /\ LastId(x)' > LastId(x) /\ r.out.pdi[x] = pdi'[x]
                  /\ PidOf(x)' # 0 /\ pdi'[x].ver >= 0
    <3>1. CASE x \in D
      <4>1. pdi'[x] = NewIdRow(n) /\ PidOf(x) = 0 /\ n # 0
        BY <3>1, <1>4, <2>1 DEF Pids
      <4>2. LastId(x) = -1 /\ LastId(x)' = 0 /\ PidOf(x)' # 0 /\ pdi'[x].ver >= 0
        BY <4>1 DEF LastId, PidOf, NewIdRow
      <4> QED BY <3>1, <4>1, <4>2, <2>2, <2>4
    <3>2. CASE x \notin D
      BY <3>2, <1>4, <2>2, <2>4
    <3> QED BY <3>1, <3>2
  <2>11. r.pc \in Publishing
    BY <2>4 DEF Publishing
  <2> QED BY <1>1, <1>2, <2>5, <2>6, <2>9, <2>10, <2>11, Spoken
<1> QED BY <1>3, <1>4 DEF Insert

(* Both ways of creating a person are inserts. *)
LEMMA CreatingFollows ==
  ASSUME IInv, Follows, NEW p \in Events, CreateBoth(p) \/ CreateOne(p), IInv'
  PROVE  Follows'
<1>1. "failed" \in Sayings
  BY DEF Sayings
<1>2. CASE CreateBoth(p)
  <2>1. /\ ps[p] \in States /\ Good(ps[p]) /\ ps[p].pc = "createBoth" /\ ps[p].moved = {}
        /\ ps[p].ev.did \in Dids /\ ps[p].ev.prev \in Dids /\ ps[p].out = NoMsgs
    BY <1>2, Own, OutEmpty, CodesFact DEF CreateBoth, At, Good, Publishing
  <2> DEFINE k == Caught(ps[p])   D == {ps[p].ev.did, ps[p].ev.prev}
  <2>2. k \in States /\ k.out = NoMsgs
    BY <1>1, <2>1, CaughtGood, OutStays DEF Aliasing
  <2>3. Insert(p, D, Should(p), "pubBoth", k) /\ D \in SUBSET Dids /\ Should(p) \in BOOLEAN
    BY <1>2, <2>1 DEF CreateBoth, Should
  <2>4. ps[p].pc \notin Publishing
    BY <2>1 DEF Publishing
  <2> HIDE DEF k, D
  <2> QED BY <2>1, <2>2, <2>3, <2>4, InsertFollows
<1>3. CASE CreateOne(p)
  <2>1. /\ ps[p] \in States /\ Good(ps[p]) /\ ps[p].pc = "createOne" /\ ps[p].moved = {}
        /\ ps[p].ev.did \in Dids /\ ps[p].flag \in BOOLEAN /\ ps[p].out = NoMsgs
    BY <1>3, Own, OutEmpty, CodesFact DEF CreateOne, At, Good, Publishing, States
  <2> DEFINE f == [ps[p] EXCEPT !.box = Fresh]
             k == Checked(f)
             D == {ps[p].ev.did}
  <2>2. f \in States /\ Good(f) /\ f.moved = {} /\ f.out = NoMsgs
    BY <2>1, FreshGood DEF States
  <2> HIDE DEF f
  <2>3. k \in States /\ k.out = NoMsgs
    BY <1>1, <2>2, CheckedGood, OutStays
  <2>4. Insert(p, D, ps[p].flag, "pubOne", k) /\ D \in SUBSET Dids
    BY <1>3, <2>1 DEF CreateOne, f
  <2>5. ps[p].pc \notin Publishing
    BY <2>1 DEF Publishing
  <2> HIDE DEF k, D
  <2> QED BY <2>1, <2>3, <2>4, <2>5, InsertFollows
<1> QED BY <1>2, <1>3

(* An update speaks with the next version of its person. *)
LEMMA UpdatePersonFollows ==
  ASSUME IInv, Follows, NEW p \in Events, UpdatePerson(p), IInv'
  PROVE  Follows'
<1>1. /\ ps[p] \in States /\ ps[p].out = NoMsgs /\ Good(ps[p]) /\ ps[p].pc = "write"
  BY OutEmpty DEF UpdatePerson, At, Publishing
<1>2. PICK i \in Pids : i = ps[p].box.person.id
  <2>1. ps[p].box.person.id \in 0..MaxPerson /\ ps[p].box.person.id # 0
    BY <1>1 DEF States, Snapshots, Good
  <2> QED BY <2>1, PersonAssumption DEF Pids
<1>3. pdi' = pdi /\ nextId' = nextId /\ UNCHANGED ch
  BY Zenon DEF UpdatePerson
<1>4. ps \in [Events -> States] /\ ps' \in [Events -> States]
  BY DEF IInv, Types
<1>5. CASE ~person[i].live
  <2> DEFINE r == IF ps[p].again THEN [ps[p] EXCEPT !.pc = "deadNoRows"]
                  ELSE [ps[p] EXCEPT !.again = TRUE, !.box = Fresh, !.pc = "update"]
  <2>1. ps' = [ps EXCEPT ![p] = r] /\ person' = person
    BY <1>2, <1>5 DEF UpdatePerson, Set
  <2>2. r.out = NoMsgs
    BY <1>1 DEF States
  <2> HIDE DEF r
  <2>3. r \in States
    BY <1>4, <2>1
  <2> QED BY <1>1, <1>3, <2>1, <2>2, <2>3, Unspoken DEF db
<1>6. CASE person[i].live
  <2> DEFINE ident == person[i].ident \/ (ps[p].flag /\ ~ps[p].box.person.ident)
             v == person[i].ver
             g == [id |-> i, ident |-> ident]
             o == [NoMsgs EXCEPT !.person = PersonRow(i, ident, v + 1)]
             row == [ver |-> v + 1, ident |-> ident, del |-> FALSE]
  <2>1. /\ person' = [person EXCEPT ![i].ver = @ + 1, ![i].ident = ident]
        /\ Set(p, [ps[p] EXCEPT !.pc = "pubUpdate", !.got = g, !.out = o])
    BY <1>2, <1>6 DEF UpdatePerson
  <2>2. ident \in BOOLEAN
    OBVIOUS
  <2> HIDE DEF ident
  <2>3. person \in [Pids -> Rows] /\ v \in Nat
    BY DEF IInv, Types, Rows
  <2>4. /\ o.person[i] = row /\ \A j \in Pids : j # i => o.person[j].ver = -1
        /\ \A x \in Dids : o.pdi[x].ver = -1
    BY DEF NoMsgs, PersonRow
  <2>5. /\ person'[i].live /\ person'[i].ver = v + 1 /\ person'[i].ident = ident
        /\ \A j \in Pids : j # i => person'[j] = person[j]
    BY <1>6, <2>1, <2>3 DEF Rows
  <2> HIDE DEF o, g
  <2> DEFINE r == [ps[p] EXCEPT !.pc = "pubUpdate", !.got = g, !.out = o]
  <2>6. r.out = o /\ r.pc = "pubUpdate"
    BY <1>1 DEF States
  <2>7. ps' = [ps EXCEPT ![p] = r]
    BY <2>1 DEF Set
  <2> HIDE DEF r
  <2>8. r \in States
    BY <1>4, <2>7
  <2>9. ASSUME NEW j \in Pids
        PROVE \/ LastOf(j)' = LastOf(j) /\ About(j)' = About(j) /\ r.out.person[j].ver = -1
              \/ LastOf(j)' > LastOf(j) /\ r.out.person[j] \in About(j)'
    <3>1. CASE j = i
      <4>1. i < nextId /\ i \in Nat /\ nextId \in Nat
        BY <1>6, PersonAssumption DEF IInv, Numbered, Types, Pids
      <4>2. LastOf(i) = v /\ LastOf(i)' = v + 1
        BY <4>1, <1>3, <1>6, <2>5 DEF LastOf
      <4>3. row \in Versions
        BY <2>2, <2>3 DEF Versions
      <4>4. row \in About(i)'
        BY <4>2, <4>3, <2>5 DEF About
      <4> QED BY <3>1, <4>2, <4>4, <2>3, <2>4, <2>6
    <3>2. CASE j # i
      <4>1. LastOf(j)' = LastOf(j)
        BY <3>2, <1>3, <2>5 DEF LastOf
      <4>2. About(j)' = About(j)
        BY <3>2, <4>1, <2>5 DEF About
      <4> QED BY <3>2, <4>1, <4>2, <2>4, <2>6
    <3> QED BY <3>1, <3>2
  <2>10. \A x \in Dids : pdi'[x] = pdi[x] /\ r.out.pdi[x].ver = -1
    BY <1>3, <2>4, <2>6
  <2>11. r.pc \in Publishing
    BY <2>6 DEF Publishing
  <2> QED BY <1>1, <1>3, <2>7, <2>8, <2>9, <2>10, <2>11, Spoken
<1> QED BY <1>5, <1>6

(* A merge speaks on the surviving person, the deleted one and every id moved. *)
LEMMA CommitFollows ==
  ASSUME IInv, Follows, NEW p \in Events, Commit(p), IInv'
  PROVE  Follows'
<1>1. /\ ps[p] \in States /\ ps[p].out = NoMsgs /\ Good(ps[p]) /\ ps[p].pc = "commit"
  BY OutEmpty DEF Commit, At, Publishing
<1>2. PICK into \in Pids, other \in Pids :
        into = ps[p].new.id /\ other = ps[p].old.id /\ into # other /\ person[into].live
  <2>1. /\ ps[p].new \in Snapshots /\ ps[p].old \in Snapshots /\ ps[p].new.id # 0 /\ ps[p].old.id # 0
        /\ ps[p].new.id # ps[p].old.id /\ person[ps[p].new.id].live
    BY <1>1 DEF Good, InMerge, States
  <2> QED BY <2>1, PersonAssumption DEF Snapshots, Pids
<1>3. PICK M \in SUBSET Dids : M = ps[p].moved
  BY <1>1 DEF States
<1>4. M # {} /\ \A d \in M : PidOf(d) = other
  BY <1>1, <1>2, <1>3 DEF Good, Moving
<1>5. into # 0 /\ other # 0 /\ into \in Nat /\ other \in Nat /\ nextId \in Nat
  BY PersonAssumption DEF Pids, IInv, Types
<1>6. person[other].live /\ other < nextId /\ into < nextId
  BY <1>2, <1>4, <1>5 DEF IInv, NoOrphans, Numbered
<1>7. nextId' = nextId /\ UNCHANGED ch
  BY DEF Commit
<1>8. ps \in [Events -> States] /\ ps' \in [Events -> States]
  BY DEF IInv, Types
<1>9. CASE Dangling(p)
  <2>1. Set(p, Threw(ps[p], "uncommitted")) /\ UNCHANGED db /\ "uncommitted" \in Sayings
    BY <1>9 DEF Commit, db, Sayings
  <2>2. Threw(ps[p], "uncommitted").out = NoMsgs /\ Threw(ps[p], "uncommitted") \in States
    BY <1>1, <2>1, OutStays, ThrewGood
  <2> QED BY <1>1, <1>7, <2>1, <2>2, Unspoken DEF Set
<1>10. CASE ~Dangling(p)
  <2> DEFINE ident == Identified(p)
             v == person[into].ver
             gone == [ver |-> DeletedVersion(person[other].ver), ident |-> ps[p].old.ident, del |-> TRUE]
             row == [ver |-> v + 1, ident |-> ident, del |-> FALSE]
             o == [person |-> [NoMsgs.person EXCEPT ![into]  = row, ![other] = gone],
                   pdi |-> [d \in Dids |-> IF d \in M THEN MovedRow(d, into) ELSE NoMsgs.pdi[d]]]
  <2>1. /\ person' = [person EXCEPT ![into].ver = @ + 1, ![into].ident = ident,
                                   ![other].live = FALSE]
        /\ pdi' = [d \in Dids |-> IF d \in M THEN MovedRow(d, into) ELSE pdi[d]]
        /\ Set(p, [ps[p] EXCEPT !.pc = "pubMerge", !.moved = {}, !.out = o])
    BY <1>2, <1>3, <1>10 DEF Commit
  <2>2. ident \in BOOLEAN /\ ps[p].old.ident \in BOOLEAN
    BY <1>1 DEF Identified, States, Snapshots
  <2> HIDE DEF ident
  <2>3. person \in [Pids -> Rows] /\ v \in Nat /\ person[other].ver \in Nat
    BY DEF IInv, Types, Rows
  <2>4. /\ o.person[into] = row /\ o.person[other] = gone
        /\ \A j \in Pids : j # into /\ j # other => o.person[j].ver = -1
        /\ \A x \in Dids : IF x \in M THEN o.pdi[x] = MovedRow(x, into) ELSE o.pdi[x].ver = -1
    BY <1>2 DEF NoMsgs
  <2>5. /\ person'[into].live /\ person'[into].ver = v + 1 /\ person'[into].ident = ident
        /\ ~person'[other].live /\ person'[other].ver = person[other].ver
        /\ \A j \in Pids : j # into /\ j # other => person'[j] = person[j]
    <3>1. PICK a \in Rows, b \in Rows : a = person[into] /\ b = person[other]
      BY <2>3
    <3>2. /\ person'[into] = [a EXCEPT !.ver = @ + 1, !.ident = ident]
          /\ person'[other] = [b EXCEPT !.live = FALSE]
          /\ \A j \in Pids : j # into /\ j # other => person'[j] = person[j]
      BY <1>2, <2>1, <2>3, <3>1
    <3>3. /\ person'[into].live = a.live /\ person'[into].ver = a.ver + 1 /\ person'[into].ident = ident
          /\ ~person'[other].live /\ person'[other].ver = b.ver
      BY <3>2 DEF Rows
    <3> QED BY <1>2, <3>1, <3>2, <3>3
  <2> HIDE DEF o
  <2> DEFINE r == [ps[p] EXCEPT !.pc = "pubMerge", !.moved = {}, !.out = o]
  <2>6. r.out = o /\ r.pc = "pubMerge"
    BY <1>1 DEF States
  <2>7. ps' = [ps EXCEPT ![p] = r]
    BY <2>1 DEF Set
  <2> HIDE DEF r
  <2>8. r \in States
    BY <1>8, <2>7
  <2>9. ASSUME NEW j \in Pids
        PROVE \/ LastOf(j)' = LastOf(j) /\ About(j)' = About(j) /\ r.out.person[j].ver = -1
              \/ LastOf(j)' > LastOf(j) /\ r.out.person[j] \in About(j)'
    <3>1. CASE j = into
      <4>1. LastOf(into) = v /\ LastOf(into)' = v + 1
        BY <1>2, <1>5, <1>6, <1>7, <2>5 DEF LastOf
      <4>2. row \in Versions
        BY <2>2, <2>3 DEF Versions
      <4>3. row \in About(into)'
        BY <4>1, <4>2, <2>5 DEF About
      <4> QED BY <3>1, <4>1, <4>3, <2>3, <2>4, <2>6
    <3>2. CASE j = other
      <4>1. LastOf(other) = person[other].ver /\ LastOf(other)' = person[other].ver + 100
        BY <1>5, <1>6, <1>7, <2>5 DEF LastOf, DeletedVersion
      <4>2. gone \in Versions /\ gone.ver = person[other].ver + 100 /\ gone.del
        BY <2>2, <2>3 DEF Versions, DeletedVersion
      <4>3. gone \in About(other)'
        BY <4>1, <4>2, <2>5 DEF About
      <4> QED BY <3>2, <4>1, <4>3, <2>3, <2>4, <2>6
    <3>3. CASE j # into /\ j # other
      <4>1. LastOf(j)' = LastOf(j)
        BY <3>3, <1>7, <2>5 DEF LastOf
      <4>2. About(j)' = About(j)
        BY <3>3, <4>1, <2>5 DEF About
      <4> QED BY <3>3, <4>1, <4>2, <2>4, <2>6
    <3> QED BY <3>1, <3>2, <3>3
  <2>10. ASSUME NEW x \in Dids
         PROVE \/ pdi'[x] = pdi[x] /\ r.out.pdi[x].ver = -1
               \/ /\ LastId(x)' > LastId(x) /\ r.out.pdi[x] = pdi'[x]
                  /\ PidOf(x)' # 0 /\ pdi'[x].ver >= 0
    <3>1. CASE x \in M
      <4>1. pdi'[x] = MovedRow(x, into) /\ PidOf(x) # 0
        BY <3>1, <1>4, <1>5, <2>1
      <4>2. pdi[x].ver \in Int /\ pdi[x].ver >= 0
        BY <4>1 DEF IInv, Types, Owners, Follows
      <4>3. /\ LastId(x) = pdi[x].ver /\ PidOf(x)' # 0 /\ pdi'[x].ver = pdi[x].ver + 1
            /\ LastId(x)' = pdi[x].ver + 1
        BY <4>1, <1>5 DEF LastId, PidOf, MovedRow
      <4> QED BY <3>1, <4>1, <4>2, <4>3, <2>4, <2>6
    <3>2. CASE x \notin M
      BY <3>2, <2>1, <2>4, <2>6
    <3> QED BY <3>1, <3>2
  <2>11. r.pc \in Publishing
    BY <2>6 DEF Publishing
  <2> QED BY <1>1, <1>7, <2>7, <2>8, <2>9, <2>10, <2>11, Spoken
<1> QED BY <1>9, <1>10

(* At the start nothing is under way and ClickHouse holds what Postgres holds. *)
LEMMA InitFollows == ASSUME Init PROVE Follows
<1>1. PICK s \in Starts, I \in SUBSET Pids :
    /\ person = [i \in Pids |-> [live |-> \E d \in Dids : s[d] = i, ident |-> i \in I, ver |-> 0]]
    /\ pdi = [d \in Dids |-> [owner |-> s[d], ver |-> 0]]
    /\ nextId \in 1..MaxPerson + 1
    /\ \A i \in Pids : i < nextId <=> person[i].live
    /\ chPerson = [i \in Pids |-> [ver |-> IF person[i].live THEN 0 ELSE -1,
                                   ident |-> person[i].ident, del |-> FALSE]]
    /\ chPdi = [d \in Dids |-> [owner |-> s[d], ver |-> IF s[d] = 0 THEN -1 ELSE 0]]
    /\ \E in \in [Events -> Inputs] : ps = [p \in Events |-> Idle(in[p])]
  BY DEF Init
<1>2. IInv
  BY InitInv
<1>3. \A e \in Events : ps[e].out = NoMsgs
  BY <1>1 DEF Idle
<1>4. ASSUME NEW i \in Pids PROVE Heard(LastOf(i), About(i), chPerson[i], SentOf(i))
  <2>1. i \in Nat /\ nextId \in Nat
    BY <1>1, PersonAssumption DEF Pids
  <2>2. \A e \in Events : SentOf(i)[e].ver = -1
    BY <1>3, Silence DEF SentOf
  <2>3. person[i].ver = 0 /\ (i < nextId <=> person[i].live)
    BY <1>1
  <2>4. /\ chPerson[i].ver = IF person[i].live THEN 0 ELSE -1
        /\ chPerson[i].ident = person[i].ident /\ ~chPerson[i].del
        /\ chPerson[i] \in Versions
    BY <1>1, <1>2 DEF IInv, Types
  <2>5. CASE person[i].live
    <3>1. LastOf(i) = 0
      BY <2>1, <2>3, <2>5 DEF LastOf
    <3>2. chPerson[i].del = ~person[i].live
      BY <2>4, <2>5 DEF Versions
    <3>3. chPerson[i] \in About(i)
      BY <2>4, <2>5, <3>1, <3>2 DEF About
    <3> QED BY <2>2, <3>1, <3>3 DEF Heard
  <2>6. CASE ~person[i].live
    <3>1. LastOf(i) = -1
      BY <2>1, <2>3, <2>6 DEF LastOf
    <3> QED BY <2>2, <2>4, <2>6, <3>1 DEF Heard
  <2> QED BY <2>5, <2>6
<1>5. ASSUME NEW d \in Dids PROVE Heard(LastId(d), Owned(d), chPdi[d], SentId(d))
  <2>1. \A e \in Events : SentId(d)[e].ver = -1
    BY <1>3, Silence DEF SentId
  <2>2. /\ pdi[d] = [owner |-> s[d], ver |-> 0]
        /\ chPdi[d] = [owner |-> s[d], ver |-> IF s[d] = 0 THEN -1 ELSE 0]
    BY <1>1
  <2>3. CASE s[d] = 0
    BY <2>1, <2>2, <2>3 DEF LastId, PidOf, Heard
  <2>4. CASE s[d] # 0
    BY <2>1, <2>2, <2>4 DEF LastId, PidOf, Owned, Heard
  <2> QED BY <2>3, <2>4
<1>6. \A d \in Dids : /\ PidOf(d) # 0 => pdi[d].ver >= 0
                      /\ chPdi[d].ver < 0 => chPdi[d].owner = 0
  BY <1>1
<1> QED BY <1>3, <1>4, <1>5, <1>6 DEF Follows, PersonHeard, IdHeard

(* Without a fault ClickHouse goes on following. *)
LEMMA StepFollows ==
  ASSUME IInv, Follows, [Next]_vars, IInv', faults' = 0
  PROVE  Follows'
<1>1. CASE UNCHANGED vars
  <2>1. /\ person' = person /\ pdi' = pdi /\ nextId' = nextId /\ ps' = ps
        /\ chPerson' = chPerson /\ chPdi' = chPdi
    BY <1>1 DEF vars
  <2>2. ASSUME NEW i \in Pids PROVE Heard(LastOf(i), About(i), chPerson[i], SentOf(i))'
    <3>1. LastOf(i)' = LastOf(i) /\ About(i)' = About(i) /\ SentOf(i)' = SentOf(i)
      BY <2>1 DEF LastOf, About, SentOf
    <3> QED BY <2>1, <3>1 DEF Follows, PersonHeard, Heard
  <2>3. ASSUME NEW d \in Dids PROVE Heard(LastId(d), Owned(d), chPdi[d], SentId(d))'
    <3>1. LastId(d)' = LastId(d) /\ Owned(d)' = Owned(d) /\ SentId(d)' = SentId(d)
      BY <2>1 DEF LastId, Owned, SentId, PidOf
    <3> QED BY <2>1, <3>1 DEF Follows, IdHeard, Heard
  <2> QED BY <2>1, <2>2, <2>3 DEF Follows, PersonHeard, IdHeard, PidOf
<1>2. ASSUME NEW p \in Events, Step(p) PROVE Follows'
  <2>1. CASE \/ Receive(p) \/ FetchOld(p) \/ Decide(p) \/ UpdateInto(p) \/ MoveDistinctIds(p)
             \/ DeletePerson(p) \/ DeadlockVictim(p) \/ IsNewPerson(p) \/ CountIds(p)
             \/ ReadForUpdate(p)
    BY <2>1, ReadingFollows, Zenon
  <2>2. CASE AddDistinctId(p)
    BY <2>2, AddDistinctIdFollows, Zenon
  <2>3. CASE CreateBoth(p) \/ CreateOne(p)
    BY <2>3, CreatingFollows, Zenon
  <2>4. CASE Commit(p)
    BY <2>4, CommitFollows, Zenon
  <2>5. CASE UpdatePerson(p)
    BY <2>5, UpdatePersonFollows, Zenon
  <2>6. CASE Publish(p)
    BY <2>6, PublishFollows, Zenon
  <2> QED BY <1>2, <2>1, <2>2, <2>3, <2>4, <2>5, <2>6, Zenon DEF Step
<1>3. ASSUME NEW p \in Events, PublishFails(p) PROVE FALSE
  BY <1>3, PersonAssumption DEF PublishFails, IInv, Types
<1>4. ASSUME NEW w \in Workers, Crash(w) PROVE FALSE
  BY <1>4, PersonAssumption DEF Crash, IInv, Types
<1>5. CASE Rest
  BY <1>1, <1>5 DEF Rest
<1> QED BY <1>1, <1>2, <1>3, <1>4, <1>5 DEF Next

(* A fault stays counted. *)
LEMMA FaultsStay == ASSUME IInv, [Next]_vars, faults' = 0 PROVE faults = 0
<1>1. faults \in Nat
  BY PersonAssumption DEF IInv, Types
<1>2. ASSUME NEW p \in Events, Step(p) PROVE faults' = faults
  <2>1. CASE Receive(p) \/ FetchOld(p) \/ Decide(p) \/ AddDistinctId(p)
    BY <2>1, Zenon DEF Receive, FetchOld, Decide, AddDistinctId
  <2>2. CASE CreateBoth(p) \/ CreateOne(p)
    BY <2>2, Zenon DEF CreateBoth, CreateOne, Insert
  <2>3. CASE UpdateInto(p) \/ MoveDistinctIds(p) \/ DeletePerson(p) \/ Commit(p) \/ DeadlockVictim(p)
    BY <2>3, Zenon DEF UpdateInto, MoveDistinctIds, DeletePerson, Commit, DeadlockVictim
  <2>4. CASE IsNewPerson(p) \/ CountIds(p) \/ ReadForUpdate(p) \/ UpdatePerson(p) \/ Publish(p)
    BY <2>4, Zenon DEF IsNewPerson, CountIds, ReadForUpdate, UpdatePerson, Publish
  <2> QED BY <1>2, <2>1, <2>2, <2>3, <2>4, Zenon DEF Step
<1>3. ASSUME NEW p \in Events, PublishFails(p) PROVE FALSE
  BY <1>1, <1>3 DEF PublishFails
<1>4. ASSUME NEW w \in Workers, Crash(w) PROVE FALSE
  BY <1>1, <1>4 DEF Crash
<1>5. CASE UNCHANGED vars \/ Rest
  BY <1>5 DEF Rest, vars
<1> QED BY <1>2, <1>3, <1>4, <1>5 DEF Next

(* Once every event has ended there is nothing left to send, and ClickHouse has *)
(* the last word on every row.                                                  *)
LEMMA FollowsAgrees == ASSUME IInv, Follows PROVE ClickHouseAgrees
<1> SUFFICES ASSUME Settled
             PROVE  /\ \A i \in Pids :
                         /\ person[i].live <=> chPerson[i].ver >= 0 /\ ~chPerson[i].del
                         /\ person[i].live => chPerson[i].ident = person[i].ident
                    /\ \A d \in Dids : PidOf(d) = chPdi[d].owner
  BY DEF ClickHouseAgrees
<1>1. \A e \in Events : ps[e].out = NoMsgs
  BY DEF Settled, Follows, Ended, Publishing
<1>2. ASSUME NEW i \in Pids
      PROVE /\ person[i].live <=> chPerson[i].ver >= 0 /\ ~chPerson[i].del
            /\ person[i].live => chPerson[i].ident = person[i].ident
  <2>1. \A e \in Events : SentOf(i)[e].ver = -1
    BY <1>1, Silence DEF SentOf
  <2>2. /\ LastOf(i) \in Int /\ LastOf(i) >= -1 /\ chPerson[i].ver \in Int
        /\ \A v \in About(i) : v.ver = LastOf(i)
    BY PersonWords
  <2>3. /\ i \in Nat /\ nextId \in Nat /\ (person[i].live => i < nextId)
        /\ person[i].ver \in Nat /\ person[i].live \in BOOLEAN
    BY PersonAssumption DEF Pids, IInv, Types, Numbered, Rows
  <2>4. Heard(LastOf(i), About(i), chPerson[i], SentOf(i))
    BY DEF Follows, PersonHeard
  <2>5. CASE i < nextId
    <3>1. LastOf(i) >= 0
      BY <2>3, <2>5 DEF LastOf, DeletedVersion
    <3>2. \A e \in Events : SentOf(i)[e] \notin About(i)
      BY <2>1, <2>2, <3>1
    <3>3. chPerson[i] \in About(i)
      BY <2>4, <3>1, <3>2 DEF Heard
    <3>4. /\ chPerson[i].ver = LastOf(i) /\ chPerson[i].del = ~person[i].live
          /\ person[i].live => chPerson[i].ident = person[i].ident
      BY <3>3 DEF About
    <3> QED BY <2>3, <3>1, <3>4
  <2>6. CASE ~(i < nextId)
    <3>1. LastOf(i) = -1 /\ ~person[i].live
      BY <2>3, <2>6 DEF LastOf
    <3>2. chPerson[i].ver < 0
      BY <2>2, <2>4, <3>1 DEF Heard
    <3> QED BY <2>2, <3>1, <3>2
  <2> QED BY <2>5, <2>6
<1>3. ASSUME NEW d \in Dids PROVE PidOf(d) = chPdi[d].owner
  <2>1. \A e \in Events : SentId(d)[e].ver = -1
    BY <1>1, Silence DEF SentId
  <2>2. /\ LastId(d) \in Int /\ chPdi[d].ver \in Int
        /\ \A v \in Owned(d) : v.ver = LastId(d)
    BY IdWords
  <2>3. Heard(LastId(d), Owned(d), chPdi[d], SentId(d))
    BY DEF Follows, IdHeard
  <2>4. CASE PidOf(d) = 0
    <3>1. chPdi[d].ver < 0
      BY <2>2, <2>3, <2>4 DEF Heard, LastId, Owned
    <3> QED BY <2>4, <3>1 DEF Follows
  <2>5. CASE PidOf(d) # 0
    <3>1. LastId(d) >= 0
      BY <2>5 DEF LastId, Follows
    <3>2. \A e \in Events : SentId(d)[e] \notin Owned(d)
      BY <2>1, <2>2, <3>1
    <3>3. chPdi[d] \in Owned(d)
      BY <2>3, <3>1, <3>2 DEF Heard
    <3> QED BY <2>5, <3>3 DEF Owned, PidOf
  <2> QED BY <2>4, <2>5
<1> QED BY <1>2, <1>3

(* As long as no message was lost and no worker died, ClickHouse agrees with     *)
(* Postgres whenever every event has ended, in whatever order concurrent events  *)
(* sent their messages: each row's versions grow with each write of it.          *)
THEOREM PersonClickHouseAgrees == Spec => [](faults = 0 => ClickHouseAgrees)
<1> DEFINE FInv == faults = 0 => Follows
<1>1. Init => FInv
  BY InitFollows
<1>2. IInv /\ FInv /\ [Next]_vars => FInv'
  <2> SUFFICES ASSUME IInv, FInv, [Next]_vars, faults' = 0 PROVE Follows'
    OBVIOUS
  <2>1. Follows /\ IInv'
    BY FaultsStay, StepInv
  <2> QED BY <2>1, StepFollows
<1>3. IInv /\ FInv => (faults = 0 => ClickHouseAgrees)
  BY FollowsAgrees
<1> HIDE DEF FInv
<1> QED BY <1>1, <1>2, <1>3, PersonInvariant, PTL DEF Spec
=============================================================================
