------------------------- MODULE ExportEvents_proofs -------------------------
(* The types and the size bound of the export buffer, and that it refines the *)
(* channel with bounded retries, for any events, sizes and limits.            *)
EXTENDS ExportEvents, SequenceTheorems, TLAPS

(* A batch goes by its first event; its retries are counted from its first    *)
(* export on, and one is asked for only below the maximum.                    *)
Batched ==
  \A b \in Events :
    /\ stage[b] = "none" <=> batch[b] = <<>>
    /\ batch[b] # <<>> => b \in Range(batch[b])
    /\ stage[b] = "none" => retries[b] = 0
    /\ stage[b] = "enqueuing" => retries[b] < MAXIMUM_RETRIES
    /\ stage[b] = "queued" => retries[b] # 0

(* No event is in two batches, or in a batch and the buffer.                  *)
Apart ==
  \A b \in Events :
    /\ Range(batch[b]) \cap Range(buffer) = {}
    /\ \A c \in Events \ {b} : Range(batch[b]) \cap Range(batch[c]) = {}

(* What is in the buffer or a batch has been added; who races is not.         *)
Marked ==
  /\ \A e \in Range(buffer) : pc[e] = "added"
  /\ \A b \in Events : \A e \in Range(batch[b]) : pc[e] = "added"
  /\ \A e \in Events : race[e] # {} => pc[e] = "racing"

Inv == TypeOK /\ BatchesWithinLimit /\ Batched /\ Apart /\ Marked

-----------------------------------------------------------------------------
(* Sequences of events                                                        *)

LEMMA RangeOfEmpty == Range(<<>>) = {}
BY DEF Range

LEMMA RangeOfAppend ==
  ASSUME NEW s \in Seq(Events), NEW x \in Events
  PROVE  /\ Append(s, x) \in Seq(Events) /\ Append(s, x) # <<>>
         /\ Range(Append(s, x)) = Range(s) \cup {x}
         /\ Append(s, x)[Len(Append(s, x))] = x
<1>1. Append(s, x) = s \o <<x>> /\ <<x>> \in Seq(Events)
  BY AppendIsConcat
<1>2. Range(s \o <<x>>) = Range(s) \cup Range(<<x>>)
  BY <1>1, RangeConcatenation, ZenonT(40)
<1>3. Range(<<x>>) = {x}
  BY DEF Range
<1> QED BY <1>1, <1>2, <1>3, AppendProperties

LEMMA HeadInRange ==
  ASSUME NEW s \in Seq(Events), s # <<>>
  PROVE  /\ Head(s) \in Range(s) /\ Head(s) \in Events /\ Range(s) \subseteq Events
         /\ s[Len(s)] \in Events
<1>1. Len(s) \in Nat /\ Len(s) # 0 /\ DOMAIN s = 1..Len(s)
  BY LenProperties
<1>2. Head(s) = s[1] /\ 1 \in DOMAIN s /\ Len(s) \in DOMAIN s
  BY <1>1
<1>3. Range(s) \subseteq Events
  BY RangeOfSeq
<1> QED BY <1>2, <1>3 DEF Range

-----------------------------------------------------------------------------
(* The invariant                                                              *)

(* The types, from those of the variables a step of the thread changes.       *)
LEMMA ThreadTypes ==
  ASSUME TypeOK, UNCHANGED <<retries, alive>>,
         buffer' \in Seq(Events), points' \in Nat, timer' \in BOOLEAN,
         pc' \in [Events -> {"idle", "racing", "woken", "flushed", "added", "refused", "lost"}],
         race' \in [Events -> SUBSET Events],
         batch' \in [Events -> Seq(Events)], size' \in [Events -> Nat],
         stage' \in [Events -> {"none"} \cup Live \cup Ended]
  PROVE  TypeOK'
BY Zenon DEF TypeOK

LEMMA EmptyIsSeq == <<>> \in Seq(Events) /\ 0 \in Nat /\ FALSE \in BOOLEAN /\ TRUE \in BOOLEAN
OBVIOUS

(* A flush of events that are in no batch yet.                                *)
LEMMA FlushKeeps ==
  ASSUME TypeOK, BatchesWithinLimit, Batched, Apart,
         NEW events \in Seq(Events), NEW total \in Nat, Flush(events, total),
         \A b \in Events : Range(batch[b]) \cap Range(events) = {},
         events # <<>> => total <= Limit + SizeOf[events[Len(events)]],
         UNCHANGED retries
  PROVE  /\ buffer' = <<>> /\ points' = 0 /\ timer' = FALSE
         /\ batch' \in [Events -> Seq(Events)] /\ size' \in [Events -> Nat]
         /\ stage' \in [Events -> {"none"} \cup Live \cup Ended]
         /\ BatchesWithinLimit' /\ Batched' /\ Apart'
         /\ \A b \in Events : Range(batch'[b]) \subseteq Range(batch[b]) \cup Range(events)
<1>1. buffer' = <<>> /\ points' = 0 /\ timer' = FALSE
  BY DEF Flush
<1>2. CASE events = <<>>
  <2>1. UNCHANGED <<batch, size, stage>>
    BY <1>2 DEF Flush
  <2>2. BatchesWithinLimit'
    BY <1>1, <2>1, ExportAssumption DEF BatchesWithinLimit, ExportAssumption
  <2>3. Batched' /\ Apart'
    BY <1>1, <2>1, RangeOfEmpty DEF Batched, Apart
  <2> QED BY <1>1, <2>1, <2>2, <2>3 DEF TypeOK
<1>3. CASE events # <<>>
  <2> DEFINE h == Head(events)
  <2>1. h \in Range(events) /\ h \in Events
    BY <1>3, HeadInRange
  <2>2. /\ batch' = [batch EXCEPT ![h] = events] /\ size' = [size EXCEPT ![h] = total]
        /\ stage' = [stage EXCEPT ![h] = "exporting"]
    BY <1>3 DEF Flush
  <2>3. batch[h] = <<>>
    BY <2>1 DEF Batched
  <2>4. /\ batch'[h] = events /\ size'[h] = total /\ stage'[h] = "exporting"
        /\ \A b \in Events \ {h} : batch'[b] = batch[b] /\ size'[b] = size[b] /\ stage'[b] = stage[b]
    BY <2>1, <2>2 DEF TypeOK
  <2> HIDE DEF h
  <2>5. BatchesWithinLimit'
    BY <1>1, <1>3, <2>1, <2>4, ExportAssumption, SMTT(30) DEF BatchesWithinLimit, ExportAssumption
  <2>6. Batched'
    BY <1>3, <2>1, <2>4 DEF Batched
  <2>7. Apart'
    BY <1>1, <2>1, <2>4, RangeOfEmpty DEF Apart
  <2>8. \A b \in Events : Range(batch'[b]) \subseteq Range(batch[b]) \cup Range(events)
    BY <2>4
  <2>9. /\ batch' \in [Events -> Seq(Events)] /\ size' \in [Events -> Nat]
        /\ stage' \in [Events -> {"none"} \cup Live \cup Ended]
    BY <2>1, <2>2 DEF TypeOK, Live
  <2> QED BY <1>1, <2>5, <2>6, <2>7, <2>8, <2>9
<1> QED BY <1>2, <1>3

(* The buffer itself may be flushed.                                          *)
LEMMA BufferFlushes ==
  ASSUME Inv
  PROVE  /\ buffer \in Seq(Events) /\ points \in Nat
         /\ \A b \in Events : Range(batch[b]) \cap Range(buffer) = {}
         /\ buffer # <<>> => points <= Limit + SizeOf[buffer[Len(buffer)]]
<1>1. buffer # <<>> => buffer[Len(buffer)] \in Events
  BY HeadInRange DEF Inv, TypeOK
<1> QED BY <1>1, ExportAssumption, SMTT(30) DEF Inv, TypeOK, BatchesWithinLimit, Apart, ExportAssumption

LEMMA TimerInv == ASSUME Inv, TimerFires \/ Teardown PROVE Inv'
<1>1. Flush(buffer, points) /\ UNCHANGED <<adds, retries, alive>>
  BY DEF TimerFires, Teardown
<1>2. /\ buffer' = <<>> /\ points' = 0 /\ timer' = FALSE
      /\ batch' \in [Events -> Seq(Events)] /\ size' \in [Events -> Nat]
      /\ stage' \in [Events -> {"none"} \cup Live \cup Ended]
      /\ BatchesWithinLimit' /\ Batched' /\ Apart'
      /\ \A b \in Events : Range(batch'[b]) \subseteq Range(batch[b]) \cup Range(buffer)
  BY <1>1, BufferFlushes, FlushKeeps DEF Inv
<1>3. Marked'
  BY <1>1, <1>2, RangeOfEmpty DEF Marked, Inv, adds
<1>4. TypeOK'
  <2>1. /\ pc' \in [Events -> {"idle", "racing", "woken", "flushed", "added", "refused", "lost"}]
        /\ race' \in [Events -> SUBSET Events]
    BY <1>1 DEF Inv, TypeOK, adds
  <2> QED BY <1>1, <1>2, <2>1, EmptyIsSeq, ThreadTypes, Zenon DEF Inv
<1> QED BY <1>2, <1>3, <1>4 DEF Inv

(* An event that is in neither the buffer nor a batch.                        *)
LEMMA FreshEvent ==
  ASSUME Inv, NEW e \in Events, pc[e] # "added"
  PROVE  e \notin Range(buffer) /\ \A b \in Events : e \notin Range(batch[b])
BY DEF Inv, Marked

LEMMA PushInv ==
  ASSUME Inv, NEW e \in Events, pc[e] \in {"idle", "flushed"}, alive, Push(e), UNCHANGED <<retries, alive>>
  PROVE Inv'
<1> DEFINE more == Append(buffer, e)
<1>1. e \notin Range(buffer) /\ (\A b \in Events : e \notin Range(batch[b])) /\ race[e] = {}
  BY FreshEvent DEF Inv, Marked
<1>2. /\ more \in Seq(Events) /\ more # <<>> /\ Range(more) = Range(buffer) \cup {e}
      /\ more[Len(more)] = e
  BY RangeOfAppend DEF Inv, TypeOK
<1>3. SizeOf[e] \in Nat /\ Limit \in Nat /\ points \in Nat /\ points <= Limit
  BY ExportAssumption DEF ExportAssumption, Inv, TypeOK, BatchesWithinLimit
<1>4. pc' = [pc EXCEPT ![e] = "added"] /\ UNCHANGED race
  BY DEF Push
<1>5. \A b \in Events : Range(batch[b]) \cap Range(more) = {}
  BY <1>1, <1>2 DEF Inv, Apart
<1>9. /\ pc' \in [Events -> {"idle", "racing", "woken", "flushed", "added", "refused", "lost"}]
      /\ race' \in [Events -> SUBSET Events]
  BY <1>4 DEF Inv, TypeOK
<1>6. pc'[e] = "added" /\ \A d \in Events \ {e} : pc'[d] = pc[d]
  BY <1>4 DEF Inv, TypeOK
<1> HIDE DEF more
<1>7. CASE points + SizeOf[e] > Limit
  <2>1. Flush(more, points + SizeOf[e])
    BY <1>7 DEF Push, more
  <2>2. points + SizeOf[e] \in Nat /\ points + SizeOf[e] <= Limit + SizeOf[more[Len(more)]]
    BY <1>2, <1>3
  <2>3. /\ buffer' = <<>> /\ points' = 0 /\ timer' = FALSE
        /\ batch' \in [Events -> Seq(Events)] /\ size' \in [Events -> Nat]
        /\ stage' \in [Events -> {"none"} \cup Live \cup Ended]
        /\ BatchesWithinLimit' /\ Batched' /\ Apart'
        /\ \A b \in Events : Range(batch'[b]) \subseteq Range(batch[b]) \cup Range(more)
    BY <1>2, <1>5, <2>1, <2>2, FlushKeeps DEF Inv
  <2>4. Marked'
    BY <1>1, <1>2, <1>4, <1>6, <2>3, RangeOfEmpty, HeadInRange DEF Marked, Inv
  <2>5. TypeOK'
    BY <1>9, <2>3, EmptyIsSeq, ThreadTypes, Zenon DEF Inv
  <2> QED BY <2>3, <2>4, <2>5 DEF Inv
<1>8. CASE ~(points + SizeOf[e] > Limit)
  <2>1. buffer' = more /\ points' = points + SizeOf[e] /\ timer' = TRUE /\ UNCHANGED <<batch, size, stage>>
    BY <1>8 DEF Push, more
  <2>2. BatchesWithinLimit'
    BY <1>3, <1>8, <2>1 DEF Inv, BatchesWithinLimit
  <2>3. Batched' /\ Apart'
    BY <1>5, <2>1 DEF Inv, Batched, Apart
  <2>4. Marked'
    BY <1>1, <1>2, <1>4, <1>6, <2>1, HeadInRange DEF Inv, Marked
  <2>5. TypeOK'
    <3>1. points' \in Nat
      BY <1>3, <2>1
    <3>2. /\ batch' \in [Events -> Seq(Events)] /\ size' \in [Events -> Nat]
          /\ stage' \in [Events -> {"none"} \cup Live \cup Ended]
      BY <2>1 DEF Inv, TypeOK
    <3> QED BY <1>2, <1>9, <2>1, <3>1, <3>2, EmptyIsSeq, ThreadTypes, Zenon DEF Inv
  <2> QED BY <2>2, <2>3, <2>4, <2>5 DEF Inv
<1> QED BY <1>7, <1>8

(* add() flushes what rests, and waits; or pushes its event at once.          *)
LEMMA AddInv == ASSUME Inv, NEW e \in Events, Add(e) PROVE Inv'
<1>1. alive /\ pc[e] = "idle" /\ UNCHANGED <<retries, alive>>
  BY DEF Add
<1>2. CASE points # 0 /\ points + SizeOf[e] > Limit
  <2>1. Flush(buffer, points) /\ AwaitIfNeeded(e, Pending')
    BY <1>2 DEF Add
  <2>2. /\ buffer' = <<>> /\ points' = 0 /\ timer' = FALSE
        /\ batch' \in [Events -> Seq(Events)] /\ size' \in [Events -> Nat]
        /\ stage' \in [Events -> {"none"} \cup Live \cup Ended]
        /\ BatchesWithinLimit' /\ Batched' /\ Apart'
        /\ \A b \in Events : Range(batch'[b]) \subseteq Range(batch[b]) \cup Range(buffer)
    BY <1>1, <2>1, BufferFlushes, FlushKeeps DEF Inv
  <2>3. Pending' \in SUBSET Events
    BY DEF Pending
  <2>4. /\ pc' \in [Events -> {"idle", "racing", "woken", "flushed", "added", "refused", "lost"}]
        /\ race' \in [Events -> SUBSET Events]
    BY <2>1, <2>3, ZenonT(40) DEF AwaitIfNeeded, Inv, TypeOK
  <2>5. Marked'
    <3>1. \A d \in Events \ {e} : pc'[d] = pc[d] /\ race'[d] = race[d]
      BY <2>1 DEF AwaitIfNeeded, Inv, TypeOK
    <3>2. race[e] = {} /\ (race'[e] # {} => pc'[e] = "racing")
      BY <1>1, <2>1 DEF AwaitIfNeeded, Inv, Marked, TypeOK
    <3>3. e \notin Range(buffer) /\ \A b \in Events : e \notin Range(batch[b])
      BY <1>1, FreshEvent
    <3>4. Range(buffer) \subseteq Events /\ \A b \in Events : Range(batch[b]) \subseteq Events
      BY RangeOfSeq DEF Inv, TypeOK
    <3>5. ASSUME NEW b \in Events, NEW d \in Range(batch'[b]) PROVE pc'[d] = "added"
      <4>1. d \in Range(batch[b]) \cup Range(buffer)
        BY <2>2
      <4>2. d \in Events /\ d # e /\ pc[d] = "added"
        BY <3>3, <3>4, <4>1 DEF Inv, Marked
      <4> QED BY <3>1, <4>2
    <3>6. \A d \in Events : race'[d] # {} => pc'[d] = "racing"
      BY <3>1, <3>2 DEF Inv, Marked
    <3> QED BY <2>2, <3>5, <3>6, RangeOfEmpty DEF Marked
  <2> QED BY <1>1, <2>2, <2>4, <2>5, EmptyIsSeq, ThreadTypes, Zenon DEF Inv
<1>3. CASE ~(points # 0 /\ points + SizeOf[e] > Limit)
  BY <1>1, <1>3, PushInv DEF Add
<1> QED BY <1>2, <1>3

LEMMA WaitInv == ASSUME Inv, NEW e \in Events, AwaitAgain(e) PROVE Inv'
<1>1. pc[e] = "woken" /\ AwaitIfNeeded(e, Pending) /\ UNCHANGED <<content, exports, alive>>
  BY DEF AwaitAgain
<1>2. Pending \in SUBSET Events
  BY DEF Pending
<1>3. /\ pc' \in [Events -> {"idle", "racing", "woken", "flushed", "added", "refused", "lost"}]
      /\ race' \in [Events -> SUBSET Events]
  BY <1>1, <1>2 DEF AwaitIfNeeded, Inv, TypeOK
<1>4. Marked'
  <2>1. \A d \in Events \ {e} : pc'[d] = pc[d] /\ race'[d] = race[d]
    BY <1>1 DEF AwaitIfNeeded, Inv, TypeOK
  <2>2. race[e] = {} /\ (race'[e] # {} => pc'[e] = "racing")
    BY <1>1 DEF AwaitIfNeeded, Inv, Marked, TypeOK
  <2>3. e \notin Range(buffer) /\ \A b \in Events : e \notin Range(batch[b])
    BY <1>1, FreshEvent
  <2>4. Range(buffer) \subseteq Events /\ \A b \in Events : Range(batch[b]) \subseteq Events
    BY RangeOfSeq DEF Inv, TypeOK
  <2> QED BY <1>1, <2>1, <2>2, <2>3, <2>4 DEF Inv, Marked, content
<1>5. TypeOK'
  BY <1>1, <1>3 DEF Inv, TypeOK, content, exports
<1>6. BatchesWithinLimit' /\ Batched' /\ Apart'
  BY <1>1 DEF Inv, BatchesWithinLimit, Batched, Apart, content, exports
<1> QED BY <1>4, <1>5, <1>6 DEF Inv

(* Whoever raced a promise that settles has added nothing yet.                *)
LEMMA SettlesInv ==
  ASSUME Inv, NEW b \in Events, NEW outcome \in {"woken", "refused"}, Settles(b, outcome)
  PROVE  /\ BatchesWithinLimit' /\ Apart' /\ Marked'
         /\ UNCHANGED <<content, alive>>
         /\ pc' \in [Events -> {"idle", "racing", "woken", "flushed", "added", "refused", "lost"}]
         /\ race' \in [Events -> SUBSET Events]
<1>1. \A e \in Events : /\ pc'[e] = IF b \in race[e] THEN outcome ELSE pc[e]
                       /\ race'[e] = IF b \in race[e] THEN {} ELSE race[e]
  BY DEF Settles
<1>2. UNCHANGED <<content, alive>>
  BY DEF Settles
<1>3. \A e \in Events : b \in race[e] => pc[e] = "racing"
  BY DEF Inv, Marked
<1>4. Range(buffer) \subseteq Events /\ \A c \in Events : Range(batch[c]) \subseteq Events
  BY RangeOfSeq DEF Inv, TypeOK
<1>5. Marked'
  BY <1>1, <1>2, <1>3, <1>4 DEF Marked, Inv, content
<1>6. BatchesWithinLimit' /\ Apart'
  BY <1>2 DEF Inv, BatchesWithinLimit, Apart, content
<1>7. /\ pc' \in [Events -> {"idle", "racing", "woken", "flushed", "added", "refused", "lost"}]
      /\ race' \in [Events -> SUBSET Events]
  BY DEF Settles, Inv, TypeOK
<1> QED BY <1>2, <1>5, <1>6, <1>7

(* What an export, or the enqueueing of its retry, comes to.                  *)
ExportStep(b) ==
  Exports(b) \/ AsksForRetry(b) \/ GivesUp(b) \/ ExportThrows(b) \/ Enqueued(b) \/ EnqueueFails(b)
  \/ RunJob(b) \/ JobDies(b)

LEMMA ExportStepEffect ==
  ASSUME Inv, NEW b \in Events, ExportStep(b)
  PROVE  /\ stage[b] # "none"
         /\ UNCHANGED <<content, alive>>
         /\ \/ UNCHANGED adds
            \/ \E outcome \in {"woken", "refused"} : Settles(b, outcome)
         /\ \/ /\ stage[b] \in {"exporting", "enqueuing"}
               /\ stage' = [stage EXCEPT ![b] = stage'[b]] /\ stage'[b] \in Ended
               /\ UNCHANGED retries
            \/ /\ stage[b] = "exporting" /\ retries[b] < MAXIMUM_RETRIES
               /\ stage' = [stage EXCEPT ![b] = "enqueuing"] /\ UNCHANGED retries
            \/ /\ stage[b] = "enqueuing"
               /\ stage' = [stage EXCEPT ![b] = "queued"]
               /\ retries' = [retries EXCEPT ![b] = @ + 1]
            \/ /\ stage[b] = "queued"
               /\ stage' = [stage EXCEPT ![b] = "exporting"] /\ UNCHANGED retries
<1> USE DEF Inv, TypeOK, Ended
<1>1. CASE Exports(b) \/ GivesUp(b) \/ ExportThrows(b)
  BY <1>1 DEF Exports, GivesUp, ExportThrows, Settles
<1>2. CASE AsksForRetry(b) \/ RunJob(b)
  BY <1>2 DEF AsksForRetry, RunJob
<1>3. CASE Enqueued(b) \/ EnqueueFails(b)
  BY <1>3 DEF Enqueued, EnqueueFails, Settles
<1>4. CASE JobDies(b)
  BY <1>4 DEF JobDies
<1> QED BY <1>1, <1>2, <1>3, <1>4 DEF ExportStep

LEMMA ExportStepInv == ASSUME Inv, NEW b \in Events, ExportStep(b) PROVE Inv'
<1>1. /\ BatchesWithinLimit' /\ Apart' /\ Marked' /\ UNCHANGED <<content, alive>>
      /\ pc' \in [Events -> {"idle", "racing", "woken", "flushed", "added", "refused", "lost"}]
      /\ race' \in [Events -> SUBSET Events]
  <2>1. CASE UNCHANGED adds
    <3>1. UNCHANGED <<content, alive>>
      BY ExportStepEffect
    <3> QED BY <2>1, <3>1 DEF Inv, TypeOK, BatchesWithinLimit, Apart, Marked, adds, content
  <2>2. CASE \E outcome \in {"woken", "refused"} : Settles(b, outcome)
    BY <2>2, SettlesInv
  <2> QED BY <2>1, <2>2, ExportStepEffect
<1>2. Batched' /\ stage' \in [Events -> {"none"} \cup Live \cup Ended]
               /\ retries' \in [Events -> 0..MAXIMUM_RETRIES]
  <2>0. batch' = batch /\ MAXIMUM_RETRIES \in Nat /\ retries[b] \in 0..MAXIMUM_RETRIES
    BY <1>1, ExportAssumption DEF content, ExportAssumption, Inv, TypeOK
  <2> USE <2>0 DEF Inv, TypeOK, Batched
  <2>1. CASE /\ stage[b] \in {"exporting", "enqueuing"}
             /\ stage' = [stage EXCEPT ![b] = stage'[b]] /\ stage'[b] \in Ended
             /\ UNCHANGED retries
    BY <2>1 DEF Ended
  <2>2. CASE /\ stage[b] = "exporting" /\ retries[b] < MAXIMUM_RETRIES
             /\ stage' = [stage EXCEPT ![b] = "enqueuing"] /\ UNCHANGED retries
    BY <2>2 DEF Live
  <2>3. CASE /\ stage[b] = "enqueuing"
             /\ stage' = [stage EXCEPT ![b] = "queued"]
             /\ retries' = [retries EXCEPT ![b] = @ + 1]
    BY <2>3 DEF Live
  <2>4. CASE /\ stage[b] = "queued"
             /\ stage' = [stage EXCEPT ![b] = "exporting"] /\ UNCHANGED retries
    BY <2>4 DEF Live
  <2> QED BY <2>1, <2>2, <2>3, <2>4, ExportStepEffect
<1>3. TypeOK'
  BY <1>1, <1>2 DEF Inv, TypeOK, content
<1> QED BY <1>1, <1>2, <1>3 DEF Inv

(* The end of the thread takes the buffer; retries already written remain.    *)
LEMMA KillInv == ASSUME Inv, Kill PROVE Inv'
<1>1. /\ alive' = FALSE /\ buffer' = <<>> /\ points' = 0 /\ timer' = FALSE
      /\ UNCHANGED <<batch, size>> /\ race' = [e \in Events |-> {}]
  BY DEF Kill
<1>2. PICK written \in SUBSET {b \in Pending : stage[b] = "enqueuing"} :
        /\ stage' = [b \in Events |-> CASE b \in written -> "queued"
                                        [] b \in Pending \ written -> "lost"
                                        [] OTHER -> stage[b]]
        /\ retries' = [b \in Events |-> IF b \in written THEN 1 ELSE retries[b]]
  BY DEF Kill
<1>3. /\ \A b \in written : stage'[b] = "queued" /\ retries'[b] = 1
      /\ \A b \in Pending \ written : stage'[b] = "lost" /\ retries'[b] = retries[b]
      /\ \A b \in Events \ Pending : stage'[b] = stage[b] /\ retries'[b] = retries[b]
      /\ written \subseteq Pending /\ Pending \subseteq Events
      /\ \A b \in Pending : stage[b] \in {"exporting", "enqueuing"} /\ retries[b] = 0
      /\ \A b \in written : stage[b] = "enqueuing"
  BY <1>2 DEF Pending
<1>4. BatchesWithinLimit' /\ Apart'
  <2>1. BatchesWithinLimit'
    BY <1>1, ExportAssumption DEF Inv, BatchesWithinLimit, ExportAssumption
  <2>2. Apart'
    BY <1>1, RangeOfEmpty DEF Inv, Apart
  <2> QED BY <2>1, <2>2
<1>5. Batched'
  BY <1>1, <1>3, SMTT(30) DEF Inv, Batched, TypeOK
<1>6. \A e \in Events : pc'[e] = CASE pc[e] \in {"racing", "woken", "flushed"} -> "refused"
                                   [] e \in Range(buffer) -> "lost"
                                   [] OTHER -> pc[e]
  BY DEF Kill
<1>7. Marked'
  <2>1. ASSUME NEW b \in Events, NEW e \in Range(batch[b]) PROVE pc'[e] = "added"
    <3>1. e \in Events /\ pc[e] = "added" /\ e \notin Range(buffer)
      BY RangeOfSeq DEF Inv, TypeOK, Marked, Apart
    <3> QED BY <1>6, <3>1
  <2> QED BY <1>1, <2>1, RangeOfEmpty DEF Marked
<1>8. /\ pc' \in [Events -> {"idle", "racing", "woken", "flushed", "added", "refused", "lost"}]
      /\ race' \in [Events -> SUBSET Events]
  BY <1>1 DEF Kill, Inv, TypeOK
<1>9. /\ stage' \in [Events -> {"none"} \cup Live \cup Ended]
      /\ retries' \in [Events -> 0..MAXIMUM_RETRIES]
  <2>1. \A b \in Events : stage'[b] \in {"none"} \cup Live \cup Ended
    BY <1>3 DEF Inv, TypeOK, Live, Ended
  <2>2. \A b \in Events : retries'[b] \in 0..MAXIMUM_RETRIES
    BY <1>3, ExportAssumption, SMTT(30) DEF Inv, TypeOK, Batched, ExportAssumption
  <2> QED BY <1>2, <2>1, <2>2
<1>10. TypeOK'
  BY <1>1, <1>8, <1>9, EmptyIsSeq DEF Inv, TypeOK
<1> QED BY <1>4, <1>5, <1>7, <1>10 DEF Inv

(* Every step preserves the invariant.                                        *)
LEMMA StepInv == ASSUME Inv, [Next]_vars PROVE Inv'
<1>1. CASE UNCHANGED vars
  BY <1>1 DEF vars, Inv, TypeOK, BatchesWithinLimit, Batched, Apart, Marked
<1>2. ASSUME NEW e \in Events, Add(e) \/ AwaitAgain(e) \/ Resume(e) PROVE Inv'
  BY <1>2, AddInv, WaitInv, PushInv DEF Resume
<1>3. CASE TimerFires \/ Teardown \/ Kill
  BY <1>3, TimerInv, KillInv
<1>4. ASSUME NEW b \in Events, ExportStep(b) PROVE Inv'
  BY <1>4, ExportStepInv
<1> QED BY <1>1, <1>2, <1>3, <1>4 DEF Next, ExportStep

(* The inductive invariant holds of every reachable state. *)
THEOREM ExportInvariant == Spec => []Inv
<1>1. Init => Inv
  <2> SUFFICES ASSUME Init PROVE Inv
    OBVIOUS
  <2>1. TypeOK
    <3>1. 0 \in 0..MAXIMUM_RETRIES
      BY ExportAssumption DEF ExportAssumption
    <3>2. /\ buffer \in Seq(Events) /\ batch \in [Events -> Seq(Events)]
          /\ size \in [Events -> Nat] /\ retries \in [Events -> 0..MAXIMUM_RETRIES]
      BY <3>1, EmptyIsSeq DEF Init
    <3>3. /\ stage \in [Events -> {"none"} \cup Live \cup Ended] /\ race \in [Events -> SUBSET Events]
          /\ pc \in [Events -> {"idle", "racing", "woken", "flushed", "added", "refused", "lost"}]
      BY DEF Init
    <3> QED BY <3>2, <3>3 DEF Init, TypeOK
  <2>2. BatchesWithinLimit /\ Batched /\ Apart /\ Marked
    BY RangeOfEmpty, ExportAssumption
    DEF Init, BatchesWithinLimit, Batched, Apart, Marked, ExportAssumption
  <2> QED BY <2>1, <2>2 DEF Inv
<1>2. Inv /\ [Next]_vars => Inv'
  BY StepInv
<1> QED BY <1>1, <1>2, PTL DEF Spec

(* TypeOK, in particular that no batch has more retries than it may have.     *)
THEOREM ExportTypeCorrect == Spec => []TypeOK
<1>1. Inv => TypeOK
  BY DEF Inv
<1> QED BY <1>1, ExportInvariant, PTL

(* BatchesWithinLimit: however adds and flushes interleave, the buffer rests  *)
(* within the limit, with a timer, and a batch exceeds it by one event only.  *)
THEOREM ExportBatchesBounded == Spec => []BatchesWithinLimit
<1>1. Inv => BatchesWithinLimit
  BY DEF Inv
<1> QED BY <1>1, ExportInvariant, PTL

-----------------------------------------------------------------------------
(* The refinement                                                             *)

(* How often a batch has been tried. *)
TriesOf(b) == IF stage[b] = "queued" THEN retries[b] ELSE retries[b] + 1

LEMMA OwnerIsUnique ==
  ASSUME NEW bt \in [Events -> Seq(Events)],
         \A b \in Events : \A c \in Events \ {b} : Range(bt[b]) \cap Range(bt[c]) = {},
         NEW b \in Events, NEW e \in Range(bt[b])
  PROVE  (CHOOSE c \in Events : e \in Range(bt[c])) = b
<1>1. \A c \in Events : e \in Range(bt[c]) => c = b
  OBVIOUS
<1>2. \E c \in Events : e \in Range(bt[c])
  OBVIOUS
<1> QED BY <1>1, <1>2

(* The tries of an event are those of its batch, before and after a step.     *)
LEMMA TriesAreOfBatch ==
  ASSUME Inv, Inv'
  PROVE  /\ \A b \in Events : \A e \in Range(batch[b]) : Tries(e) = TriesOf(b)
         /\ \A b \in Events : \A e \in Range(batch'[b]) : Tries(e)' = TriesOf(b)'
         /\ \A e \in Events : (\A b \in Events : e \notin Range(batch[b])) => Tries(e) = 0
         /\ \A e \in Events : (\A b \in Events : e \notin Range(batch'[b])) => Tries(e)' = 0
<1>1. ASSUME NEW b \in Events, NEW e \in Range(batch[b]) PROVE Tries(e) = TriesOf(b)
  <2>1. (CHOOSE c \in Events : e \in Range(batch[c])) = b
    BY OwnerIsUnique DEF Inv, TypeOK, Apart
  <2>2. \E c \in Events : e \in Range(batch[c])
    OBVIOUS
  <2> QED BY <2>1, <2>2 DEF Tries, TriesOf
<1>2. ASSUME NEW b \in Events, NEW e \in Range(batch'[b]) PROVE Tries(e)' = TriesOf(b)'
  <2>1. /\ batch' \in [Events -> Seq(Events)]
        /\ \A x \in Events : \A c \in Events \ {x} : Range(batch'[x]) \cap Range(batch'[c]) = {}
    BY DEF Inv, TypeOK, Apart
  <2>2. (CHOOSE c \in Events : e \in Range(batch'[c])) = b
    BY <2>1, OwnerIsUnique
  <2>3. \E c \in Events : e \in Range(batch'[c])
    OBVIOUS
  <2> QED BY <2>2, <2>3 DEF Tries, TriesOf
<1>3. \A e \in Events : (\A b \in Events : e \notin Range(batch[b])) => Tries(e) = 0
  BY DEF Tries
<1>4. \A e \in Events : (\A b \in Events : e \notin Range(batch'[b])) => Tries(e)' = 0
  BY DEF Tries
<1> QED BY <1>1, <1>2, <1>3, <1>4

LossesOf == EventsIn(Ended \ {"exported"}) \cup {e \in Events : pc[e] = "lost"}
TriesNow == [e \in Events |-> Tries(e)]

(* A flush hands its events over, and touches no other batch.                 *)
LEMMA FlushHands ==
  ASSUME Inv, Inv', NEW events \in Seq(Events), events # <<>>, NEW total, Flush(events, total),
         \A b \in Events : Range(batch[b]) \cap Range(events) = {},
         UNCHANGED retries, \A e \in Events : pc'[e] = "lost" <=> pc[e] = "lost"
  PROVE  /\ EventsIn(Live)' = EventsIn(Live) \cup Range(events)
         /\ EventsIn({"exported"})' = EventsIn({"exported"})
         /\ LossesOf' = LossesOf
         /\ TriesNow' = [e \in Events |-> IF e \in Range(events) THEN 1 ELSE TriesNow[e]]
<1> DEFINE h == Head(events)
<1>1. h \in Range(events) /\ h \in Events /\ Range(events) \subseteq Events
  BY HeadInRange
<1>2. batch' = [batch EXCEPT ![h] = events] /\ stage' = [stage EXCEPT ![h] = "exporting"]
  BY DEF Flush
<1>3. batch[h] = <<>> /\ stage[h] = "none" /\ retries[h] = 0
  BY <1>1 DEF Inv, Batched
<1>4. /\ batch'[h] = events /\ stage'[h] = "exporting"
      /\ \A b \in Events \ {h} : batch'[b] = batch[b] /\ stage'[b] = stage[b]
  BY <1>1, <1>2 DEF Inv, TypeOK
<1> HIDE DEF h
<1>6. EventsIn(Live)' = EventsIn(Live) \cup Range(events)
  BY <1>1, <1>3, <1>4 DEF EventsIn, Live
<1>7. EventsIn({"exported"})' = EventsIn({"exported"})
  BY <1>1, <1>3, <1>4 DEF EventsIn
<1>8. EventsIn(Ended \ {"exported"})' = EventsIn(Ended \ {"exported"})
  BY <1>1, <1>3, <1>4 DEF EventsIn, Ended
<1>9. ASSUME NEW e \in Events PROVE Tries(e)' = IF e \in Range(events) THEN 1 ELSE Tries(e)
  <2>1. CASE e \in Range(events)
    <3>1. Tries(e)' = TriesOf(h)'
      BY <1>1, <1>4, <2>1, TriesAreOfBatch
    <3>2. TriesOf(h)' = 1
      BY <1>3, <1>4 DEF TriesOf
    <3> QED BY <2>1, <3>1, <3>2
  <2>2. CASE e \notin Range(events) /\ \E b \in Events : e \in Range(batch[b])
    <3>1. PICK b \in Events : e \in Range(batch[b])
      BY <2>2
    <3>2. b # h
      BY <1>3, <3>1, RangeOfEmpty
    <3>3. Tries(e) = TriesOf(b) /\ Tries(e)' = TriesOf(b)'
      BY <1>4, <3>1, <3>2, TriesAreOfBatch
    <3>4. TriesOf(b)' = TriesOf(b)
      BY <1>4, <3>2 DEF TriesOf
    <3> QED BY <2>2, <3>3, <3>4
  <2>3. CASE e \notin Range(events) /\ \A b \in Events : e \notin Range(batch[b])
    <3>1. \A b \in Events : e \notin Range(batch'[b])
      BY <1>4, <2>3
    <3> QED BY <2>3, <3>1, TriesAreOfBatch
  <2> QED BY <2>1, <2>2, <2>3
<1>10. TriesNow' = [e \in Events |-> IF e \in Range(events) THEN 1 ELSE TriesNow[e]]
  BY <1>9 DEF TriesNow
<1> QED BY <1>6, <1>7, <1>8, <1>10 DEF LossesOf

(* The events of the batches alone make up the channel's sets.                *)
LEMMA BatchesStay ==
  ASSUME UNCHANGED <<batch, stage, retries>>, \A e \in Events : pc'[e] = "lost" <=> pc[e] = "lost"
  PROVE  /\ EventsIn(Live)' = EventsIn(Live) /\ EventsIn({"exported"})' = EventsIn({"exported"})
         /\ LossesOf' = LossesOf /\ TriesNow' = TriesNow
<1>1. EventsIn(Live)' = EventsIn(Live) /\ EventsIn({"exported"})' = EventsIn({"exported"})
      /\ EventsIn(Ended \ {"exported"})' = EventsIn(Ended \ {"exported"})
  BY DEF EventsIn
<1>2. TriesNow' = TriesNow
  BY DEF TriesNow, Tries
<1> QED BY <1>1, <1>2 DEF LossesOf

LEMMA ChannelRange == \A s : Channel!Range(s) = Range(s)
BY DEF Channel!Range, Range

(* A hand-over of events, in the channel's terms.                             *)
LEMMA HandedOver ==
  ASSUME NEW E \in SUBSET Events,
         EventsIn(Live)' = EventsIn(Live) \cup E,
         TriesNow' = [e \in Events |-> IF e \in E THEN 1 ELSE TriesNow[e]]
  PROVE  Channel!Hand(E)
<1>1. [e \in Events |-> Tries(e)]' = [m \in Events |-> IF m \in E THEN 1 ELSE [e \in Events |-> Tries(e)][m]]
  BY DEF TriesNow
<1> QED BY <1>1, Zenon DEF Channel!Hand

(* A flush of what rests is a HandOver, or nothing.                           *)
LEMMA FlushIsHandOver ==
  ASSUME Inv, Inv', alive, Flush(buffer, points), UNCHANGED <<retries, alive>>,
         \A e \in Events : pc'[e] = "lost" <=> pc[e] = "lost"
  PROVE  Channel!HandOver \/ UNCHANGED Channel!vars
<1>1. CASE buffer = <<>>
  <2>1. UNCHANGED <<buffer, batch, stage, retries, alive>>
    BY <1>1 DEF Flush
  <2> QED BY <2>1, BatchesStay DEF Channel!vars, LossesOf, TriesNow
<1>2. CASE buffer # <<>>
  <2>1. buffer' = <<>>
    BY DEF Flush
  <2>2. /\ EventsIn(Live)' = EventsIn(Live) \cup Range(buffer)
        /\ EventsIn({"exported"})' = EventsIn({"exported"})
        /\ LossesOf' = LossesOf
        /\ TriesNow' = [e \in Events |-> IF e \in Range(buffer) THEN 1 ELSE TriesNow[e]]
    BY <1>2, FlushHands, BufferFlushes
  <2>3. Range(buffer) \in SUBSET Events
    BY RangeOfSeq DEF Inv, TypeOK
  <2>4. Channel!Hand(Range(buffer))
    BY <2>2, <2>3, HandedOver
  <2> QED BY <1>2, <2>1, <2>2, <2>4, ChannelRange DEF Channel!HandOver, LossesOf
<1> QED BY <1>1, <1>2

(* An event that is pushed joins the queue, or completes a batch.             *)
LEMMA PushIsAccept ==
  ASSUME Inv, Inv', NEW e \in Events, pc[e] \in {"idle", "flushed"}, alive, Push(e),
         UNCHANGED <<retries, alive>>
  PROVE  Channel!Accept(e)
<1> DEFINE more == Append(buffer, e)
<1>1. e \notin Range(buffer) /\ (\A b \in Events : e \notin Range(batch[b]))
  BY FreshEvent
<1>2. more \in Seq(Events) /\ more # <<>> /\ Range(more) = Range(buffer) \cup {e}
  BY RangeOfAppend DEF Inv, TypeOK
<1>3. \A d \in Events : pc'[d] = "lost" <=> pc[d] = "lost"
  BY DEF Push, Inv, TypeOK
<1>4. Channel!Fresh(e)
  <2>1. \A S : e \notin EventsIn(S)
    BY <1>1 DEF EventsIn
  <2> QED BY <1>1, <2>1, ChannelRange DEF Channel!Fresh
<1> HIDE DEF more
<1>5. CASE points + SizeOf[e] > Limit
  <2>1. Flush(more, points + SizeOf[e])
    BY <1>5 DEF Push, more
  <2>2. \A b \in Events : Range(batch[b]) \cap Range(more) = {}
    BY <1>1, <1>2 DEF Inv, Apart
  <2>3. /\ EventsIn(Live)' = EventsIn(Live) \cup Range(more)
        /\ EventsIn({"exported"})' = EventsIn({"exported"})
        /\ LossesOf' = LossesOf
        /\ TriesNow' = [d \in Events |-> IF d \in Range(more) THEN 1 ELSE TriesNow[d]]
    BY <1>2, <1>3, <2>1, <2>2, FlushHands
  <2>4. buffer' = <<>>
    BY <2>1 DEF Flush
  <2>5. Range(more) \in SUBSET Events
    BY <1>2, RangeOfSeq
  <2>6. Channel!Hand(Range(buffer) \cup {e})
    BY <1>2, <2>3, <2>5, HandedOver
  <2> QED BY <1>4, <2>3, <2>4, <2>6, ChannelRange DEF Channel!Accept, LossesOf
<1>6. CASE ~(points + SizeOf[e] > Limit)
  <2>1. buffer' = Append(buffer, e) /\ UNCHANGED <<batch, stage, retries>>
    BY <1>6 DEF Push
  <2> QED BY <1>3, <1>4, <2>1, BatchesStay DEF Channel!Accept, LossesOf, TriesNow
<1> QED BY <1>5, <1>6

(* Whoever waits, races or goes on is neither lost nor accepted.              *)
LEMMA ThreadStepChannel ==
  ASSUME Inv, Inv',
         TimerFires \/ Teardown \/ \E e \in Events : Add(e) \/ AwaitAgain(e) \/ Resume(e)
  PROVE  Channel!Next \/ UNCHANGED Channel!vars
<1>1. CASE TimerFires \/ Teardown
  <2>1. alive /\ Flush(buffer, points) /\ UNCHANGED <<adds, retries, alive>>
    BY <1>1 DEF TimerFires, Teardown
  <2>2. pc' = pc
    BY <2>1 DEF adds
  <2> QED BY <2>1, <2>2, FlushIsHandOver DEF Channel!Next
<1>2. ASSUME NEW e \in Events, Add(e) PROVE Channel!Next \/ UNCHANGED Channel!vars
  <2>1. alive /\ pc[e] = "idle" /\ UNCHANGED <<retries, alive>>
    BY <1>2 DEF Add
  <2>2. CASE points # 0 /\ points + SizeOf[e] > Limit
    <3>1. Flush(buffer, points) /\ AwaitIfNeeded(e, Pending')
      BY <1>2, <2>2 DEF Add
    <3>2. \A d \in Events : pc'[d] = "lost" <=> pc[d] = "lost"
      BY <2>1, <3>1, ZenonT(40) DEF AwaitIfNeeded, Inv, TypeOK
    <3> QED BY <2>1, <3>1, <3>2, FlushIsHandOver DEF Channel!Next
  <2>3. CASE ~(points # 0 /\ points + SizeOf[e] > Limit)
    <3>1. Push(e)
      BY <1>2, <2>3 DEF Add
    <3> QED BY <2>1, <3>1, PushIsAccept DEF Channel!Next
  <2> QED BY <2>2, <2>3
<1>3. ASSUME NEW e \in Events, AwaitAgain(e) PROVE UNCHANGED Channel!vars
  <2>1. UNCHANGED <<content, exports, alive>> /\ pc[e] = "woken" /\ AwaitIfNeeded(e, Pending)
    BY <1>3 DEF AwaitAgain
  <2>2. \A d \in Events : pc'[d] = "lost" <=> pc[d] = "lost"
    BY <2>1, ZenonT(40) DEF AwaitIfNeeded, Inv, TypeOK
  <2> QED BY <2>1, <2>2, BatchesStay DEF Channel!vars, LossesOf, TriesNow, content, exports
<1>4. ASSUME NEW e \in Events, Resume(e) PROVE Channel!Next
  <2>1. alive /\ pc[e] = "flushed" /\ Push(e) /\ UNCHANGED <<retries, alive>>
    BY <1>4 DEF Resume
  <2> QED BY <2>1, PushIsAccept DEF Channel!Next
<1> QED BY <1>1, <1>2, <1>3, <1>4

(* The export of a batch settles it, tries it again, or goes on.              *)
LEMMA ExportStepChannel ==
  ASSUME Inv, Inv', NEW b \in Events, ExportStep(b)
  PROVE  Channel!Next \/ UNCHANGED Channel!vars
<1>1. UNCHANGED <<buffer, batch, alive>>
  BY ExportStepEffect DEF content
<1>2. \A e \in Events : pc'[e] = "lost" <=> pc[e] = "lost"
  <2>1. CASE UNCHANGED adds
    BY <2>1 DEF adds
  <2>2. CASE \E outcome \in {"woken", "refused"} : Settles(b, outcome)
    BY <2>2 DEF Settles, Inv, Marked
  <2> QED BY <2>1, <2>2, ExportStepEffect
<1>3. batch[b] # <<>> /\ Range(batch[b]) # {} /\ Range(batch[b]) \subseteq Events
  BY ExportStepEffect, HeadInRange DEF Inv, TypeOK, Batched
<1>4. \A c \in Events \ {b} : stage'[c] = stage[c] /\ retries'[c] = retries[c]
  <2>1. /\ \E v : stage' = [stage EXCEPT ![b] = v]
        /\ retries' = retries \/ retries' = [retries EXCEPT ![b] = @ + 1]
    BY ExportStepEffect
  <2> QED BY <2>1 DEF Inv, TypeOK
<1>5. \A c \in Events \ {b} : Range(batch[b]) \cap Range(batch[c]) = {}
  BY DEF Inv, Apart
<1>6. \A e \in Events : e \notin Range(batch[b]) => Tries(e)' = Tries(e)
  <2> SUFFICES ASSUME NEW e \in Events, e \notin Range(batch[b]) PROVE Tries(e)' = Tries(e)
    OBVIOUS
  <2>1. ASSUME NEW c \in Events, e \in Range(batch[c]) PROVE Tries(e)' = Tries(e)
    <3>1. Tries(e) = TriesOf(c) /\ Tries(e)' = TriesOf(c)'
      BY <1>1, <2>1, TriesAreOfBatch
    <3>2. c # b
      BY <2>1
    <3>3. TriesOf(c)' = TriesOf(c)
      BY <1>4, <3>2 DEF TriesOf
    <3> QED BY <3>1, <3>3
  <2>2. CASE \A c \in Events : e \notin Range(batch[c])
    BY <1>1, <2>2, TriesAreOfBatch
  <2> QED BY <2>1, <2>2
<1>7. \A e \in Range(batch[b]) : Tries(e) = TriesOf(b) /\ Tries(e)' = TriesOf(b)'
  BY <1>1, TriesAreOfBatch
<1>8. retries[b] \in Nat
  BY ExportAssumption DEF Inv, TypeOK, ExportAssumption
<1>9. stage[b] \in Live => Range(batch[b]) \subseteq EventsIn(Live)
  BY DEF EventsIn
<1>10. CASE /\ stage[b] \in {"exporting", "enqueuing"}
            /\ stage' = [stage EXCEPT ![b] = stage'[b]] /\ stage'[b] \in Ended
            /\ UNCHANGED retries
  <2>1. stage[b] \in Live /\ stage[b] \notin Ended /\ stage'[b] \notin Live
    BY <1>10 DEF Live, Ended
  <2>2. EventsIn(Live)' = EventsIn(Live) \ Range(batch[b])
    BY <1>1, <1>4, <1>5, <2>1 DEF EventsIn
  <2>3. TriesNow' = TriesNow
    <3>1. TriesOf(b)' = TriesOf(b)
      BY <1>10 DEF TriesOf, Ended
    <3> QED BY <1>3, <1>6, <1>7, <3>1 DEF TriesNow
  <2>4. CASE stage'[b] = "exported"
    <3>1. EventsIn({"exported"})' = EventsIn({"exported"}) \cup Range(batch[b])
      BY <1>1, <1>4, <2>1, <2>4 DEF EventsIn
    <3>2. EventsIn(Ended \ {"exported"})' = EventsIn(Ended \ {"exported"})
      BY <1>1, <1>4, <2>1, <2>4 DEF EventsIn
    <3>3. LossesOf' = LossesOf
      BY <1>2, <3>2 DEF LossesOf
    <3>4. Channel!Settle
      BY <1>1, <1>3, <1>9, <2>1, <2>2, <2>3, <3>1, <3>3
      DEF Channel!Settle, LossesOf, TriesNow
    <3> QED BY <3>4 DEF Channel!Next
  <2>5. CASE stage'[b] # "exported"
    <3>1. EventsIn({"exported"})' = EventsIn({"exported"})
      BY <1>1, <1>4, <2>1, <2>5 DEF EventsIn, Ended
    <3>2. EventsIn(Ended \ {"exported"})' = EventsIn(Ended \ {"exported"}) \cup Range(batch[b])
      BY <1>1, <1>4, <1>10, <2>1, <2>5 DEF EventsIn
    <3>3. LossesOf' = LossesOf \cup Range(batch[b])
      BY <1>2, <3>2 DEF LossesOf
    <3>4. Channel!Settle
      BY <1>1, <1>3, <1>9, <2>1, <2>2, <2>3, <3>1, <3>3
      DEF Channel!Settle, LossesOf, TriesNow
    <3> QED BY <3>4 DEF Channel!Next
  <2> QED BY <2>4, <2>5
<1>11. ASSUME stage[b] \in Live, stage'[b] \in Live
       PROVE  /\ EventsIn(Live)' = EventsIn(Live)
              /\ EventsIn({"exported"})' = EventsIn({"exported"})
              /\ LossesOf' = LossesOf
  <2>1. stage[b] \notin Ended /\ stage'[b] \notin Ended
    BY <1>11 DEF Live, Ended
  <2>2. EventsIn(Live)' = EventsIn(Live)
    BY <1>1, <1>4, <1>11 DEF EventsIn
  <2>3. EventsIn({"exported"})' = EventsIn({"exported"})
    BY <1>1, <1>4, <2>1 DEF EventsIn, Ended
  <2>4. EventsIn(Ended \ {"exported"})' = EventsIn(Ended \ {"exported"})
    BY <1>1, <1>4, <2>1 DEF EventsIn
  <2> QED BY <1>2, <2>2, <2>3, <2>4 DEF LossesOf
<1>12. ASSUME stage[b] \in Live, stage'[b] \in Live, TriesOf(b)' = TriesOf(b)
       PROVE  UNCHANGED Channel!vars
  <2>1. TriesNow' = TriesNow
    BY <1>3, <1>6, <1>7, <1>12 DEF TriesNow
  <2> QED BY <1>1, <1>11, <1>12, <2>1 DEF Channel!vars, LossesOf, TriesNow
<1>13. CASE /\ stage[b] = "exporting" /\ retries[b] < MAXIMUM_RETRIES
            /\ stage' = [stage EXCEPT ![b] = "enqueuing"] /\ UNCHANGED retries
  <2>1. stage'[b] = "enqueuing"
    BY <1>13 DEF Inv, TypeOK
  <2> QED BY <1>12, <1>13, <2>1 DEF TriesOf, Live
<1>14. CASE /\ stage[b] = "enqueuing"
            /\ stage' = [stage EXCEPT ![b] = "queued"]
            /\ retries' = [retries EXCEPT ![b] = @ + 1]
  <2>1. stage'[b] = "queued" /\ retries'[b] = retries[b] + 1
    BY <1>14 DEF Inv, TypeOK
  <2> QED BY <1>12, <1>14, <2>1 DEF TriesOf, Live
<1>15. CASE /\ stage[b] = "queued"
            /\ stage' = [stage EXCEPT ![b] = "exporting"] /\ UNCHANGED retries
  <2>1. stage'[b] = "exporting" /\ stage[b] \in Live /\ stage'[b] \in Live
    BY <1>15 DEF Inv, TypeOK, Live
  <2>2. TriesOf(b) = retries[b] /\ TriesOf(b)' = retries[b] + 1
    BY <1>15, <2>1 DEF TriesOf
  <2>3. retries[b] \in 1..((MAXIMUM_RETRIES + 1) - 1)
    BY <1>15, ExportAssumption DEF Inv, TypeOK, Batched, ExportAssumption
  <2>4. \A e \in Range(batch[b]) : TriesNow[e] = retries[b]
    BY <1>3, <1>7, <2>2 DEF TriesNow
  <2>5. TriesNow' = [e \in Events |-> IF e \in Range(batch[b]) THEN TriesNow[e] + 1 ELSE TriesNow[e]]
    BY <1>6, <1>7, <2>2 DEF TriesNow
  <2>6. Channel!TryAgain
    <3>1. Range(batch[b]) \in SUBSET EventsIn(Live) /\ Range(batch[b]) # {}
      BY <1>3, <1>9, <2>1
    <3>2. [e \in Events |-> Tries(e)]' =
            [m \in Events |-> IF m \in Range(batch[b]) THEN [e \in Events |-> Tries(e)][m] + 1
                                                     ELSE [e \in Events |-> Tries(e)][m]]
      BY <2>5 DEF TriesNow
    <3>3. \A e \in Range(batch[b]) : [d \in Events |-> Tries(d)][e] \in 1..((MAXIMUM_RETRIES + 1) - 1)
      BY <2>3, <2>4 DEF TriesNow
    <3>4. UNCHANGED <<buffer, EventsIn(Live), EventsIn({"exported"}), LossesOf, alive>>
      BY <1>1, <1>11, <2>1
    <3>5. \E more \in SUBSET EventsIn(Live) :
            /\ more # {}
            /\ \A m \in more : [d \in Events |-> Tries(d)][m] \in 1..((MAXIMUM_RETRIES + 1) - 1)
            /\ [d \in Events |-> Tries(d)]' =
                 [m \in Events |-> IF m \in more THEN [d \in Events |-> Tries(d)][m] + 1
                                                ELSE [d \in Events |-> Tries(d)][m]]
      BY <3>1, <3>2, <3>3, Zenon
    <3> QED BY <3>4, <3>5, Zenon DEF Channel!TryAgain, LossesOf
  <2> QED BY <2>6 DEF Channel!Next
<1> QED BY <1>10, <1>13, <1>14, <1>15, ExportStepEffect

(* The end of the thread is the channel's crash.                              *)
LEMMA KillIsCrash == ASSUME Inv, Inv', Kill PROVE Channel!Crash
<1>1. alive /\ alive' = FALSE /\ buffer' = <<>> /\ UNCHANGED batch
  BY DEF Kill
<1>2. PICK written \in SUBSET {b \in Pending : stage[b] = "enqueuing"} :
        /\ stage' = [b \in Events |-> CASE b \in written -> "queued"
                                        [] b \in Pending \ written -> "lost"
                                        [] OTHER -> stage[b]]
        /\ retries' = [b \in Events |-> IF b \in written THEN 1 ELSE retries[b]]
  BY DEF Kill
<1> DEFINE dead == Pending \ written
           gone == UNION {Range(batch[b]) : b \in dead}
<1>3. /\ \A b \in written : stage[b] = "enqueuing" /\ retries[b] = 0
                            /\ stage'[b] = "queued" /\ retries'[b] = 1
      /\ \A b \in dead : stage[b] \in {"exporting", "enqueuing"} /\ stage'[b] = "lost"
                         /\ retries'[b] = retries[b]
      /\ \A b \in Events \ (written \cup dead) : stage'[b] = stage[b] /\ retries'[b] = retries[b]
      /\ written \subseteq Events /\ dead \subseteq Events /\ written \cap dead = {}
  BY <1>2 DEF Pending
<1>4. \A b \in Events : \A c \in Events \ {b} : Range(batch[b]) \cap Range(batch[c]) = {}
  BY DEF Inv, Apart
<1> HIDE DEF dead
<1>5. gone \subseteq EventsIn(Live)
  BY <1>3 DEF EventsIn, Live
<1>6. EventsIn(Live)' = EventsIn(Live) \ gone
  <2>1. ASSUME NEW e \in EventsIn(Live)' PROVE e \in EventsIn(Live) \ gone
    <3>1. PICK b \in Events : stage'[b] \in Live /\ e \in Range(batch[b])
      BY <1>1 DEF EventsIn
    <3>2. b \notin dead
      BY <1>3, <3>1 DEF Live
    <3>3. stage[b] \in Live
      BY <1>3, <3>1, <3>2 DEF Live
    <3>4. e \notin gone
      BY <1>3, <1>4, <3>1, <3>2
    <3> QED BY <3>1, <3>3, <3>4 DEF EventsIn
  <2>2. ASSUME NEW e \in EventsIn(Live) \ gone PROVE e \in EventsIn(Live)'
    <3>1. PICK b \in Events : stage[b] \in Live /\ e \in Range(batch[b])
      BY DEF EventsIn
    <3>2. b \notin dead
      BY <3>1
    <3>3. stage'[b] \in Live
      BY <1>3, <3>1, <3>2 DEF Live
    <3> QED BY <1>1, <3>1, <3>3 DEF EventsIn
  <2> QED BY <2>1, <2>2
<1>7. EventsIn({"exported"})' = EventsIn({"exported"})
  <2>1. \A b \in Events : stage'[b] = "exported" <=> stage[b] = "exported"
    BY <1>3
  <2> QED BY <1>1, <2>1 DEF EventsIn
<1>8. EventsIn(Ended \ {"exported"})' = EventsIn(Ended \ {"exported"}) \cup gone
  <2>1. \A b \in Events : stage'[b] \in Ended \ {"exported"} <=>
                            stage[b] \in Ended \ {"exported"} \/ b \in dead
    BY <1>3 DEF Ended
  <2> QED BY <1>1, <1>3, <2>1 DEF EventsIn
<1>9. {e \in Events : pc[e] = "lost"}' = {e \in Events : pc[e] = "lost"} \cup Range(buffer)
  <2>1. pc' = [e \in Events |-> CASE pc[e] \in {"racing", "woken", "flushed"} -> "refused"
                                  [] e \in Range(buffer) -> "lost"
                                  [] OTHER -> pc[e]]
    BY DEF Kill
  <2>2. Range(buffer) \subseteq Events /\ \A e \in Range(buffer) : pc[e] = "added"
    BY RangeOfSeq DEF Inv, TypeOK, Marked
  <2> QED BY <2>1, <2>2
<1>10. ASSUME NEW e \in Events PROVE Tries(e)' = Tries(e)
  <2>1. ASSUME NEW b \in Events, e \in Range(batch[b]) PROVE Tries(e)' = Tries(e)
    <3>1. Tries(e) = TriesOf(b) /\ Tries(e)' = TriesOf(b)'
      BY <1>1, <2>1, TriesAreOfBatch
    <3>2. TriesOf(b)' = TriesOf(b)
      <4>1. CASE b \in written
        BY <1>3, <4>1 DEF TriesOf
      <4>2. CASE b \in dead
        BY <1>3, <4>2 DEF TriesOf
      <4>3. CASE b \notin written \cup dead
        BY <1>3, <4>3 DEF TriesOf
      <4> QED BY <4>1, <4>2, <4>3
    <3> QED BY <3>1, <3>2
  <2>2. CASE \A c \in Events : e \notin Range(batch[c])
    BY <1>1, <2>2, TriesAreOfBatch
  <2> QED BY <2>1, <2>2
<1>11. [e \in Events |-> Tries(e)]' = [e \in Events |-> Tries(e)]
  BY <1>10
<1> HIDE DEF gone
<1>12. LossesOf' = LossesOf \cup gone \cup Range(buffer)
  BY <1>8, <1>9 DEF LossesOf
<1>13. gone \in SUBSET EventsIn(Live)
  BY <1>5
<1> QED BY <1>1, <1>6, <1>7, <1>11, <1>12, <1>13, ChannelRange DEF Channel!Crash, LossesOf

LEMMA StepChannel == ASSUME Inv, Inv', [Next]_vars PROVE [Channel!Next]_(Channel!vars)
<1>1. CASE UNCHANGED vars
  <2>1. UNCHANGED <<buffer, alive, batch, stage, retries, pc>>
    BY <1>1 DEF vars
  <2> QED BY <2>1, BatchesStay DEF Channel!vars, LossesOf, TriesNow
<1>2. CASE TimerFires \/ Teardown \/ \E e \in Events : Add(e) \/ AwaitAgain(e) \/ Resume(e)
  BY <1>2, ThreadStepChannel
<1>3. CASE Kill
  BY <1>3, KillIsCrash DEF Channel!Next
<1>4. ASSUME NEW b \in Events, ExportStep(b) PROVE [Channel!Next]_(Channel!vars)
  BY <1>4, ExportStepChannel
<1> QED BY <1>1, <1>2, <1>3, <1>4 DEF Next, ExportStep

(* ImplementsRetries: batches are handed over whole and tried MAXIMUM_RETRIES *)
(* times more at most, never after they were exported or given up, whichever  *)
(* thread or job dies.                                                        *)
THEOREM ExportImplementsRetries == Spec => ImplementsRetries
<1>1. Init => Channel!Init
  <2> SUFFICES ASSUME Init PROVE Channel!Init
    OBVIOUS
  <2>1. EventsIn(Live) = {} /\ EventsIn({"exported"}) = {} /\ EventsIn(Ended \ {"exported"}) = {}
    BY RangeOfEmpty DEF Init, EventsIn
  <2>2. \A e \in Events : Tries(e) = 0
    BY RangeOfEmpty DEF Init, Tries
  <2> QED BY <2>1, <2>2 DEF Init, Channel!Init
<1>2. Inv /\ Inv' /\ [Next]_vars => [Channel!Next]_(Channel!vars)
  BY StepChannel
<1> QED BY <1>1, <1>2, ExportInvariant, PTL DEF Spec, ImplementsRetries, Channel!Spec

=============================================================================
