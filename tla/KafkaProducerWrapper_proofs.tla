--------------------- MODULE KafkaProducerWrapper_proofs ---------------------
(***************************************************************************)
(* Proofs about KafkaProducerWrapper for every set of messages, every size *)
(* function, every number of callers and every pair of limits.             *)
(***************************************************************************)
EXTENDS KafkaProducerWrapper, SequenceTheorems, TLAPS

(* Every list a caller may pass to queueMessages is a non-empty sequence of   *)
(* distinct messages.                                                         *)
LEMMA ListsAreSeqs == \A list \in Lists : list \in Seq(Msgs) /\ list # <<>> /\ IsInjective(list)
<1> SUFFICES ASSUME NEW list \in Lists
             PROVE  list \in Seq(Msgs) /\ list # <<>> /\ IsInjective(list)
  OBVIOUS
<1>1. IsInjective(list)
  BY DEF Lists
<1>2. PICK n \in 1..MaxList : list \in [1..n -> Msgs]
  BY DEF Lists
<1>3. n \in Nat /\ n # 0
  BY <1>2, ProducerAssumption DEF ProducerAssumption
<1>4. list \in Seq(Msgs)
  BY <1>2, <1>3, SeqDef
<1>5. Len(list) = n
  BY <1>2, <1>3, <1>4, LenProperties
<1> QED
  BY <1>1, <1>3, <1>4, <1>5

(* Type correctness: the variables keep the shapes TypeOK gives them.         *)
LEMMA InitType == Init => TypeOK
<1> SUFFICES ASSUME Init PROVE TypeOK
  OBVIOUS
<1>1. <<>> \in Seq(Msgs)
  OBVIOUS
<1>2. /\ todo \in [Callers -> Seq(Msgs)] /\ sending \in [Flushers -> Seq(Msgs)]
  BY <1>1 DEF Init
<1>3. overdue \in BOOLEAN
  BY DEF Init
<1> QED
  BY <1>1, <1>2, <1>3 DEF Init, TypeOK

LEMMA FlushType ==
  ASSUME TypeOK, NEW f \in Flushers, NEW batch \in Seq(Msgs), NEW append \in Seq(Msgs),
         Flush(f, batch, append)
  PROVE  /\ currentBatch' \in Seq(Msgs) /\ currentBatchSize' \in Nat /\ overdue' \in BOOLEAN
         /\ sending' \in [Flushers -> Seq(Msgs)] /\ flushed' \in Seq(Msgs)
<1>1. append # <<>> => SizeOf[Head(append)] \in Nat
  BY ProducerAssumption DEF ProducerAssumption
<1>2. currentBatchSize' \in Nat
  BY <1>1 DEF Flush
<1>3. flushed' \in Seq(Msgs)
  BY ConcatProperties DEF TypeOK, Flush
<1>4. sending' \in [Flushers -> Seq(Msgs)]
  BY DEF TypeOK, Flush
<1>5. overdue' \in BOOLEAN
  BY DEF Flush
<1> QED
  BY <1>2, <1>3, <1>4, <1>5 DEF Flush

LEMMA StepType == TypeOK /\ [Next]_vars => TypeOK'
<1> SUFFICES ASSUME TypeOK, [Next]_vars PROVE TypeOK'
  OBVIOUS
<1> USE DEF TypeOK, buffer, outcome
<1>1. ASSUME NEW c \in Callers, NEW list \in Lists, StartList(c, list) PROVE TypeOK'
  BY <1>1, ListsAreSeqs DEF StartList
<1>2. ASSUME NEW c \in Callers, QueueMessage(c) PROVE TypeOK'
  <2> DEFINE msg == Head(todo[c])
  <2>0. todo[c] \in Seq(Msgs) /\ todo[c] # <<>> /\ c \in Flushers
    BY <1>2 DEF QueueMessage, Flushers
  <2>1. msg \in Msgs /\ SizeOf[msg] \in Nat /\ c \in Flushers /\ Tail(todo[c]) \in Seq(Msgs)
    BY <2>0, HeadTailProperties, ProducerAssumption DEF ProducerAssumption
  <2>2. accepted' \in Seq(Msgs) /\ todo' \in [Callers -> Seq(Msgs)]
    BY <1>2, <2>1 DEF QueueMessage
  <2>3. <<msg>> \in Seq(Msgs) /\ Append(currentBatch, msg) \in Seq(Msgs) /\ <<>> \in Seq(Msgs)
    BY <2>1
  <2>4. /\ currentBatch' \in Seq(Msgs) /\ currentBatchSize' \in Nat /\ overdue' \in BOOLEAN
        /\ sending' \in [Flushers -> Seq(Msgs)] /\ flushed' \in Seq(Msgs)
    <3>1. CASE Flush(c, currentBatch, <<msg>>)
      BY <3>1, <2>1, <2>3, FlushType
    <3>2. CASE Flush(c, Append(currentBatch, msg), <<>>)
      BY <3>2, <2>1, <2>3, FlushType
    <3>3. CASE /\ currentBatch' = Append(currentBatch, msg)
               /\ currentBatchSize' = currentBatchSize + SizeOf[msg]
               /\ UNCHANGED <<overdue, flushed, sending>>
      BY <3>3, <2>1, <2>3
    <3> QED
      BY <1>2, <3>1, <3>2, <3>3 DEF QueueMessage
  <2> QED
    BY <1>2, <2>2, <2>4 DEF QueueMessage
<1>3. ASSUME NEW t \in Ticks, IntervalFlush(t) PROVE TypeOK'
  BY <1>3, FlushType DEF IntervalFlush, Flushers
<1>4. CASE TimePasses
  BY <1>4 DEF TimePasses
<1>5. CASE Disconnect
  <2>1. CASE Flush(Closer, currentBatch, <<>>)
    <3>1. Closer \in Flushers /\ <<>> \in Seq(Msgs)
      BY DEF Flushers
    <3>2. /\ currentBatch' \in Seq(Msgs) /\ currentBatchSize' \in Nat /\ overdue' \in BOOLEAN
          /\ sending' \in [Flushers -> Seq(Msgs)] /\ flushed' \in Seq(Msgs)
      BY <2>1, <3>1, FlushType
    <3> QED
      BY <1>5, <3>2 DEF Disconnect
  <2>2. CASE UNCHANGED <<buffer, sending>>
    BY <1>5, <2>2 DEF Disconnect
  <2> QED
    BY <1>5, <2>1, <2>2 DEF Disconnect
<1>6. CASE ProducerDisconnected
  BY <1>6 DEF ProducerDisconnected
<1>7. CASE Kill
  <2>1. \A f \in Flushers : Range(sending[f]) \subseteq Msgs
    BY RangeOfSeq
  <2>2. \A c \in Callers : Range(todo[c]) \subseteq Msgs
    BY RangeOfSeq
  <2>3. Range(currentBatch) \subseteq Msgs
    BY RangeOfSeq
  <2>4. delivered' \subseteq Msgs /\ lost' \subseteq Msgs /\ refused' \subseteq Msgs
    BY <1>7, <2>1, <2>2, <2>3 DEF Kill, Outstanding, Unqueued
  <2> QED
    BY <1>7, <2>4 DEF Kill
<1>8. ASSUME NEW f \in Flushers, SendSucceeds(f) PROVE TypeOK'
  <2>1. Range(sending[f]) \subseteq Msgs
    BY RangeOfSeq
  <2> QED
    BY <1>8, <2>1 DEF SendSucceeds
<1>9. ASSUME NEW f \in Flushers, SendFails(f) PROVE TypeOK'
  <2>1. Range(sending[f]) \subseteq Msgs
    BY RangeOfSeq
  <2>2. f \in Callers => Range(todo[f]) \subseteq Msgs
    BY RangeOfSeq
  <2>3. delivered' \subseteq Msgs /\ lost' \subseteq Msgs
    BY <1>9, <2>1 DEF SendFails
  <2>4. sending' \in [Flushers -> Seq(Msgs)]
    BY <1>9 DEF SendFails
  <2>5. /\ todo' \in [Callers -> Seq(Msgs)] /\ rejected' \subseteq Flushers /\ refused' \subseteq Msgs
    <3>1. CASE f \in Callers
      <4>1. f \notin Ticks /\ f # Closer
        BY <3>1, ProducerAssumption DEF ProducerAssumption
      <4>2. /\ refused' = refused \cup Range(todo[f])
            /\ todo' = [todo EXCEPT ![f] = <<>>]
            /\ rejected' = rejected \cup {f}
        BY <1>9, <4>1 DEF SendFails
      <4> QED
        BY <4>2, <2>2, <3>1
    <3>2. CASE f \notin Callers
      BY <1>9, <3>2 DEF SendFails
    <3> QED
      BY <3>1, <3>2
  <2> QED
    BY <1>9, <2>3, <2>4, <2>5 DEF SendFails
<1>10. CASE UNCHANGED vars
  BY <1>10 DEF vars
<1> QED
  BY <1>1, <1>2, <1>3, <1>4, <1>5, <1>6, <1>7, <1>8, <1>9, <1>10 DEF Next

(* TypeOK holds in every reachable state.                                     *)
THEOREM ProducerTypeCorrect == Spec => []TypeOK
BY InitType, StepType, PTL DEF Spec

-----------------------------------------------------------------------------
(* Moving one message from the call into the buffer or through it does not    *)
(* change the order of the whole.                                             *)
LEMMA AppendBehind ==
  ASSUME NEW s \in Seq(Msgs), NEW t \in Seq(Msgs), NEW x \in Msgs
  PROVE  /\ Append(s \o t, x) = s \o Append(t, x)
         /\ Append(s \o t, x) = (s \o t) \o <<x>>
<1>1. <<x>> \in Seq(Msgs)
  OBVIOUS
<1>2. Append(s \o t, x) = (s \o t) \o <<x>> /\ Append(t, x) = t \o <<x>>
  BY AppendIsConcat, ConcatProperties
<1> QED
  BY <1>1, <1>2, ConcatAssociative

LEMMA StepOrder == TypeOK /\ HandedOverInOrder /\ [Next]_vars => HandedOverInOrder'
<1> SUFFICES ASSUME TypeOK, HandedOverInOrder, [Next]_vars, Alive' PROVE accepted' = flushed' \o currentBatch'
  BY DEF HandedOverInOrder
<1>0. Alive
  BY DEF Alive, Next, vars, StartList, QueueMessage, IntervalFlush, TimePasses, Disconnect,
         ProducerDisconnected, Kill, SendSucceeds, SendFails
<1>a. accepted = flushed \o currentBatch
  BY <1>0 DEF HandedOverInOrder
<1>b. currentBatch \in Seq(Msgs) /\ flushed \in Seq(Msgs) /\ accepted \in Seq(Msgs)
  BY DEF TypeOK
<1>c. accepted \o <<>> = accepted
  BY <1>b, ConcatEmptySeq
<1>1. ASSUME NEW c \in Callers, QueueMessage(c) PROVE accepted' = flushed' \o currentBatch'
  <2> DEFINE msg == Head(todo[c])
  <2>1. msg \in Msgs
    BY <1>1, HeadTailProperties DEF QueueMessage, TypeOK
  <2>2. accepted' = Append(accepted, msg)
    BY <1>1 DEF QueueMessage
  <2>3. CASE Flush(c, currentBatch, <<msg>>)
    BY <2>1, <2>2, <2>3, <1>a, <1>b, AppendBehind DEF Flush
  <2>4. CASE Flush(c, Append(currentBatch, msg), <<>>)
    <3>1. accepted' \in Seq(Msgs)
      BY <2>1, <2>2, <1>b, AppendProperties
    <3>2. accepted' = flushed'
      BY <2>1, <2>2, <2>4, <1>a, <1>b, AppendBehind DEF Flush
    <3> QED
      BY <3>1, <3>2, <2>4, ConcatEmptySeq DEF Flush
  <2>5. CASE currentBatch' = Append(currentBatch, msg) /\ UNCHANGED flushed
    BY <2>1, <2>2, <2>5, <1>a, <1>b, AppendBehind
  <2> QED
    BY <1>1, <2>3, <2>4, <2>5 DEF QueueMessage
<1>2. ASSUME NEW t \in Ticks, IntervalFlush(t) PROVE accepted' = flushed' \o currentBatch'
  BY <1>2, <1>a, <1>b, <1>c DEF IntervalFlush, Flush
<1>3. CASE Disconnect
  BY <1>3, <1>a, <1>b, <1>c DEF Disconnect, Flush, buffer
<1>4. CASE UNCHANGED <<accepted, flushed, currentBatch>>
  BY <1>4, <1>a
<1> QED
  BY <1>1, <1>2, <1>3, <1>4 DEF Next, vars, StartList, TimePasses, ProducerDisconnected, Kill,
     SendSucceeds, SendFails, buffer, Alive

(* For every number of callers and all limits, messages are handed to         *)
(* sendBatch in the order queueMessage accepted them, none missing.           *)
THEOREM ProducerKeepsOrder == Spec => []HandedOverInOrder
<1>1. Init => HandedOverInOrder
  <2> SUFFICES ASSUME Init PROVE accepted = flushed \o currentBatch
    BY DEF HandedOverInOrder
  <2>1. <<>> \in Seq(Msgs)
    OBVIOUS
  <2> QED
    BY <2>1, ConcatEmptySeq DEF Init
<1> QED
  BY <1>1, StepOrder, ProducerTypeCorrect, PTL DEF Spec

-----------------------------------------------------------------------------
(* What the sequence operations of an action do to sets of messages.          *)
LEMMA RangeOfEmpty == Range(<<>>) = {}
BY DEF Range

LEMMA RangeOfAppend ==
  ASSUME NEW s \in Seq(Msgs), NEW x \in Msgs
  PROVE  Range(Append(s, x)) = Range(s) \cup {x} /\ Range(<<x>>) = {x}
<1>1. Range(<<x>>) = {x}
  BY DEF Range
<1>2. Append(s, x) = s \o <<x>> /\ <<x>> \in Seq(Msgs)
  BY AppendIsConcat
<1>3. Range(s \o <<x>>) = Range(s) \cup Range(<<x>>)
  BY <1>2, RangeConcatenation
<1> QED
  BY <1>1, <1>2, <1>3

LEMMA HeadAndTail ==
  ASSUME NEW s \in Seq(Msgs), s # <<>>
  PROVE  /\ Head(s) \in Msgs /\ Tail(s) \in Seq(Msgs)
         /\ Range(s) = {Head(s)} \cup Range(Tail(s))
         /\ IsInjective(s) => IsInjective(Tail(s)) /\ Head(s) \notin Range(Tail(s))
<1>1. /\ Head(s) \in Msgs /\ Tail(s) \in Seq(Msgs) /\ Len(Tail(s)) = Len(s) - 1
      /\ Head(s) = s[1] /\ \A i \in 1..Len(Tail(s)) : Tail(s)[i] = s[i+1]
      /\ Len(s) \in Nat /\ Len(s) # 0
  BY HeadTailProperties, LenProperties, EmptySeq
<1>2. DOMAIN s = 1..Len(s) /\ DOMAIN Tail(s) = 1..Len(Tail(s))
  BY <1>1, LenProperties
<1>3. Range(s) = {Head(s)} \cup Range(Tail(s))
  <2>1. Range(s) \subseteq {Head(s)} \cup Range(Tail(s))
    <3> SUFFICES ASSUME NEW i \in 1..Len(s), i # 1 PROVE s[i] \in Range(Tail(s))
      BY <1>1, <1>2 DEF Range
    <3>1. i - 1 \in 1..Len(Tail(s)) /\ s[i] = Tail(s)[i-1]
      BY <1>1
    <3> QED
      BY <3>1, <1>2 DEF Range
  <2>2. Range(Tail(s)) \subseteq Range(s)
    BY <1>1, <1>2 DEF Range
  <2>3. Head(s) \in Range(s)
    BY <1>1, <1>2 DEF Range
  <2> QED
    BY <2>1, <2>2, <2>3
<1>4. ASSUME IsInjective(s) PROVE IsInjective(Tail(s)) /\ Head(s) \notin Range(Tail(s))
  <2>1. \A i, j \in 1..Len(s) : s[i] = s[j] => i = j
    BY <1>2, <1>4 DEF IsInjective
  <2>2. \A i \in 1..Len(Tail(s)) : i + 1 \in 1..Len(s) /\ i + 1 # 1
    BY <1>1
  <2>3. IsInjective(Tail(s))
    BY <1>1, <1>2, <2>1, <2>2 DEF IsInjective
  <2>4. Head(s) \notin Range(Tail(s))
    BY <1>1, <1>2, <2>1, <2>2 DEF Range
  <2> QED
    BY <2>3, <2>4
<1> QED
  BY <1>1, <1>3, <1>4

(* A flusher that awaits nothing starts a send; a flusher's send ends.        *)
LEMMA OutstandingAfterFlush ==
  ASSUME TypeOK, NEW f \in Flushers, sending[f] = <<>>, NEW batch \in Seq(Msgs),
         OneFlusherPerMessage, Range(batch) \cap Outstanding = {},
         sending' = [sending EXCEPT ![f] = batch]
  PROVE  Outstanding' = Outstanding \cup Range(batch) /\ OneFlusherPerMessage'
<1>1. sending'[f] = batch /\ \A g \in Flushers : g # f => sending'[g] = sending[g]
  BY DEF TypeOK
<1>2. Outstanding' = Outstanding \cup Range(batch)
  BY <1>1, RangeOfEmpty DEF Outstanding
<1>3. OneFlusherPerMessage'
  <2> SUFFICES ASSUME NEW g \in Flushers, NEW h \in Flushers, g # h
               PROVE  Range(sending'[g]) \cap Range(sending'[h]) = {}
    BY DEF OneFlusherPerMessage
  <2>1. Range(sending[g]) \subseteq Outstanding /\ Range(sending[h]) \subseteq Outstanding
    BY DEF Outstanding
  <2>2. Range(sending[g]) \cap Range(sending[h]) = {}
    BY DEF OneFlusherPerMessage
  <2> QED
    BY <1>1, <2>1, <2>2
<1> QED
  BY <1>2, <1>3

LEMMA OutstandingAfterSettle ==
  ASSUME TypeOK, NEW f \in Flushers, OneFlusherPerMessage,
         sending' = [sending EXCEPT ![f] = <<>>]
  PROVE  /\ Range(sending[f]) \subseteq Outstanding
         /\ Outstanding' = Outstanding \ Range(sending[f]) /\ OneFlusherPerMessage'
<1>1. sending'[f] = <<>> /\ \A g \in Flushers : g # f => sending'[g] = sending[g]
  BY DEF TypeOK
<1>2. Outstanding' = Outstanding \ Range(sending[f])
  BY <1>1, RangeOfEmpty DEF Outstanding, OneFlusherPerMessage
<1>3. OneFlusherPerMessage'
  BY <1>1, RangeOfEmpty DEF OneFlusherPerMessage
<1> QED
  BY <1>2, <1>3 DEF Outstanding

-----------------------------------------------------------------------------
(* One queueMessage call: where the message and the displaced batch end up.   *)
LEMMA QueueMessageMoves ==
  ASSUME TypeOK, EveryMessageHasOneFate, NEW c \in Callers, QueueMessage(c),
         NEW msg, msg = Head(todo[c])
  PROVE  /\ msg \in Msgs
         /\ msg \notin Range(accepted) \cup refused
         /\ Range(accepted') = Range(accepted) \cup {msg}
         /\ OneFlusherPerMessage'
         /\ \/ /\ currentBatch # <<>> /\ currentBatch' = <<msg>> /\ Range(currentBatch') = {msg}
               /\ Outstanding' = Outstanding \cup Range(currentBatch)
            \/ /\ currentBatch' = <<>> /\ Range(currentBatch') = {}
               /\ Outstanding' = Outstanding \cup Range(currentBatch) \cup {msg}
            \/ /\ currentBatch' = Append(currentBatch, msg)
               /\ Range(currentBatch') = Range(currentBatch) \cup {msg}
               /\ Outstanding' = Outstanding
<1>1. /\ c \in Flushers /\ sending[c] = <<>> /\ todo[c] \in Seq(Msgs) /\ todo[c] # <<>>
      /\ currentBatch \in Seq(Msgs) /\ accepted \in Seq(Msgs)
  BY DEF QueueMessage, TypeOK, Flushers
<1>2. msg \in Msgs /\ msg \in Range(todo[c])
  BY <1>1, HeadAndTail
<1>3. msg \notin Range(accepted) \cup refused
  BY <1>2 DEF EveryMessageHasOneFate, ListsAreFresh
<1>4. accepted' = Append(accepted, msg)
  BY DEF QueueMessage
<1>5. Range(accepted') = Range(accepted) \cup {msg}
  BY <1>1, <1>2, <1>4, RangeOfAppend
<1>6. /\ Range(currentBatch) \cap Outstanding = {} /\ msg \notin Outstanding
      /\ OneFlusherPerMessage
  BY <1>3 DEF EveryMessageHasOneFate
<1>7. Append(currentBatch, msg) \in Seq(Msgs)
      /\ Range(Append(currentBatch, msg)) = Range(currentBatch) \cup {msg}
      /\ Range(<<msg>>) = {msg}
  BY <1>1, <1>2, RangeOfAppend, AppendProperties
<1>8. CASE OverBatchSize(msg) /\ Flush(c, currentBatch, <<msg>>)
  <2>1. Outstanding' = Outstanding \cup Range(currentBatch) /\ OneFlusherPerMessage'
    BY <1>1, <1>6, <1>8, OutstandingAfterFlush DEF Flush
  <2> QED
    BY <1>2, <1>3, <1>5, <1>7, <1>8, <2>1 DEF Flush, OverBatchSize
<1>9. CASE Flush(c, Append(currentBatch, msg), <<>>)
  <2>1. Range(Append(currentBatch, msg)) \cap Outstanding = {}
    BY <1>6, <1>7
  <2>2. Outstanding' = Outstanding \cup Range(Append(currentBatch, msg)) /\ OneFlusherPerMessage'
    BY <1>1, <1>6, <1>7, <1>9, <2>1, OutstandingAfterFlush DEF Flush
  <2> QED
    BY <1>2, <1>3, <1>5, <1>7, <1>9, <2>2, RangeOfEmpty DEF Flush
<1>10. CASE currentBatch' = Append(currentBatch, msg) /\ UNCHANGED sending
  <2>1. Outstanding' = Outstanding /\ OneFlusherPerMessage'
    BY <1>6, <1>10 DEF Outstanding, OneFlusherPerMessage
  <2> QED
    BY <1>2, <1>3, <1>5, <1>7, <1>10, <2>1
<1> QED
  BY <1>8, <1>9, <1>10 DEF QueueMessage

(* The lists stay disjoint from each other and from what was accepted.        *)
LEMMA ListsAfterQueueMessage ==
  ASSUME TypeOK, EveryMessageHasOneFate, NEW c \in Callers, QueueMessage(c)
  PROVE  ListsAreFresh'
<1> DEFINE msg == Head(todo[c])
<1>1. todo[c] \in Seq(Msgs) /\ todo[c] # <<>> /\ todo' = [todo EXCEPT ![c] = Tail(todo[c])]
      /\ refused' = refused
  BY DEF QueueMessage, TypeOK
<1>2. /\ Range(todo[c]) = {msg} \cup Range(Tail(todo[c])) /\ IsInjective(Tail(todo[c]))
      /\ msg \notin Range(Tail(todo[c]))
  BY <1>1, HeadAndTail DEF EveryMessageHasOneFate, ListsAreFresh
<1>3. Range(accepted') = Range(accepted) \cup {msg}
  BY QueueMessageMoves
<1>4. todo'[c] = Tail(todo[c]) /\ \A d \in Callers : d # c => todo'[d] = todo[d]
  BY <1>1 DEF TypeOK
<1>5. \A d \in Callers : /\ IsInjective(todo'[d]) /\ Range(todo'[d]) \subseteq Range(todo[d])
                         /\ msg \notin Range(todo'[d])
  BY <1>2, <1>4 DEF EveryMessageHasOneFate, ListsAreFresh
<1>6. \A d \in Callers : Range(todo'[d]) \cap (Range(accepted') \cup refused') = {}
  BY <1>1, <1>3, <1>5 DEF EveryMessageHasOneFate, ListsAreFresh
<1>7. ASSUME NEW d \in Callers, NEW e \in Callers, d # e
      PROVE  Range(todo'[d]) \cap Range(todo'[e]) = {}
  BY <1>5, <1>7 DEF EveryMessageHasOneFate, ListsAreFresh
<1> QED
  BY <1>5, <1>6, <1>7 DEF ListsAreFresh

(* A flush that is not part of queueMessage: the interval's, disconnect's.    *)
LEMMA PlainFlushFate ==
  ASSUME TypeOK, EveryMessageHasOneFate, NEW f \in Flushers, sending[f] = <<>>,
         Flush(f, currentBatch, <<>>),
         UNCHANGED <<todo, accepted, delivered, lost, refused>>
  PROVE  /\ EveryMessageHasOneFate'
         /\ currentBatch' = <<>> /\ Outstanding' = Outstanding \cup Range(currentBatch)
<1>1. currentBatch \in Seq(Msgs) /\ Range(currentBatch) \cap Outstanding = {} /\ OneFlusherPerMessage
  BY DEF TypeOK, EveryMessageHasOneFate
<1>2. Outstanding' = Outstanding \cup Range(currentBatch) /\ OneFlusherPerMessage'
  BY <1>1, OutstandingAfterFlush DEF Flush
<1>3. Range(currentBatch') = {} /\ currentBatch' = <<>>
  BY RangeOfEmpty DEF Flush
<1>4. ListsAreFresh'
  BY DEF EveryMessageHasOneFate, ListsAreFresh
<1> QED
  BY <1>2, <1>3, <1>4 DEF EveryMessageHasOneFate

(* The settling of a send: its batch leaves Outstanding for delivered or lost. *)
LEMMA SettleFate ==
  ASSUME TypeOK, EveryMessageHasOneFate, NEW f \in Flushers,
         sending' = [sending EXCEPT ![f] = <<>>],
         NEW written \in SUBSET Range(sending[f]),
         delivered' = delivered \cup written,
         lost' = lost \cup (Range(sending[f]) \ written),
         refused' \cap Range(accepted) = {}, ListsAreFresh',
         UNCHANGED <<currentBatch, accepted>>
  PROVE  /\ EveryMessageHasOneFate'
         /\ Range(sending[f]) \subseteq Outstanding
         /\ Outstanding' = Outstanding \ Range(sending[f])
<1>1. /\ Range(sending[f]) \subseteq Outstanding
      /\ Outstanding' = Outstanding \ Range(sending[f]) /\ OneFlusherPerMessage'
  BY OutstandingAfterSettle DEF EveryMessageHasOneFate
<1>2. Range(accepted') = Range(accepted) /\ Range(currentBatch') = Range(currentBatch)
  OBVIOUS
<1> QED
  BY <1>1, <1>2 DEF EveryMessageHasOneFate

LEMMA StepFate == TypeOK /\ EveryMessageHasOneFate /\ [Next]_vars => EveryMessageHasOneFate'
<1> SUFFICES ASSUME TypeOK, EveryMessageHasOneFate, [Next]_vars PROVE EveryMessageHasOneFate'
  OBVIOUS
<1>a. Callers \subseteq Flushers /\ Ticks \subseteq Flushers /\ Closer \in Flushers
  BY DEF Flushers
<1>1. ASSUME NEW c \in Callers, NEW list \in Lists, StartList(c, list) PROVE EveryMessageHasOneFate'
  <2>1. IsInjective(list) /\ Range(list) \cap Known = {}
    BY <1>1, ListsAreSeqs DEF StartList
  <2>2. todo'[c] = list /\ \A d \in Callers : d # c => todo'[d] = todo[d]
    BY <1>1 DEF StartList, TypeOK
  <2>3. \A d \in Callers : Range(todo[d]) \subseteq Known
    BY DEF Known, Unqueued
  <2>4. Range(accepted) \cup refused \subseteq Known
    BY DEF Known
  <2>5. accepted' = accepted /\ refused' = refused
    BY <1>1 DEF StartList
  <2>6. ListsAreFresh'
    <3>1. ASSUME NEW d \in Callers
          PROVE  IsInjective(todo'[d]) /\ Range(todo'[d]) \cap (Range(accepted) \cup refused) = {}
      BY <2>1, <2>2, <2>4 DEF EveryMessageHasOneFate, ListsAreFresh
    <3>2. ASSUME NEW d \in Callers, NEW e \in Callers, d # e
          PROVE  Range(todo'[d]) \cap Range(todo'[e]) = {}
      BY <2>1, <2>2, <2>3, <3>2 DEF EveryMessageHasOneFate, ListsAreFresh
    <3> QED
      BY <2>5, <3>1, <3>2 DEF ListsAreFresh
  <2>7. UNCHANGED <<sending, currentBatch, delivered, lost>>
    BY <1>1 DEF StartList, buffer, outcome
  <2>8. Outstanding' = Outstanding /\ OneFlusherPerMessage'
    BY <2>7 DEF Outstanding, EveryMessageHasOneFate, OneFlusherPerMessage
  <2> QED
    BY <2>5, <2>6, <2>7, <2>8 DEF EveryMessageHasOneFate
<1>2. ASSUME NEW c \in Callers, QueueMessage(c) PROVE EveryMessageHasOneFate'
  <2>1. ListsAreFresh'
    BY <1>2, ListsAfterQueueMessage
  <2>2. UNCHANGED <<delivered, lost, refused>>
    BY <1>2 DEF QueueMessage, outcome
  <2> QED
    BY <1>2, <2>1, <2>2, QueueMessageMoves DEF EveryMessageHasOneFate
<1>3. ASSUME NEW t \in Ticks, IntervalFlush(t) PROVE EveryMessageHasOneFate'
  BY <1>a, <1>3, PlainFlushFate DEF IntervalFlush, outcome
<1>4. CASE Disconnect /\ currentBatch = <<>>
  <2>1. UNCHANGED <<sending, currentBatch, delivered, lost, todo, accepted, refused>>
    BY <1>4, RangeOfEmpty DEF Disconnect, Flush, buffer, outcome
  <2> QED
    BY <2>1 DEF EveryMessageHasOneFate, Outstanding, OneFlusherPerMessage, ListsAreFresh
<1>5. CASE Disconnect /\ currentBatch # <<>>
  BY <1>5, <1>a, PlainFlushFate DEF Disconnect, outcome
<1>6. CASE Kill
  <2>1. Range(currentBatch') = {} /\ Outstanding' = {} /\ OneFlusherPerMessage'
    BY <1>6, RangeOfEmpty DEF Kill, Outstanding, OneFlusherPerMessage
  <2>3. \A c \in Callers : todo'[c] = <<>>
    BY <1>6 DEF Kill
  <2>4. ListsAreFresh'
    BY <2>3, RangeOfEmpty DEF ListsAreFresh, IsInjective
  <2>5. refused' = refused \cup Unqueued /\ accepted' = accepted
    BY <1>6 DEF Kill
  <2>6. Unqueued \cap Range(accepted) = {}
    BY DEF Unqueued, EveryMessageHasOneFate, ListsAreFresh
  <2> QED
    BY <1>6, <2>1, <2>4, <2>5, <2>6 DEF Kill, EveryMessageHasOneFate
<1>7. ASSUME NEW f \in Flushers, SendSucceeds(f) PROVE EveryMessageHasOneFate'
  <2>1. /\ sending' = [sending EXCEPT ![f] = <<>>] /\ delivered' = delivered \cup Range(sending[f])
        /\ lost' = lost \cup (Range(sending[f]) \ Range(sending[f]))
        /\ UNCHANGED <<todo, accepted, refused, currentBatch>>
    BY <1>7 DEF SendSucceeds, buffer
  <2>2. refused' \cap Range(accepted) = {} /\ ListsAreFresh'
    BY <2>1 DEF EveryMessageHasOneFate, ListsAreFresh
  <2> QED
    BY <2>1, <2>2, SettleFate
<1>8. ASSUME NEW f \in Flushers, SendFails(f) PROVE EveryMessageHasOneFate'
  <2>1. PICK written \in SUBSET Range(sending[f]) :
          /\ delivered' = delivered \cup written
          /\ lost' = lost \cup (Range(sending[f]) \ written)
    BY <1>8 DEF SendFails
  <2>2. sending' = [sending EXCEPT ![f] = <<>>] /\ UNCHANGED <<accepted, currentBatch>>
    BY <1>8 DEF SendFails, buffer
  <2>3. refused' \cap Range(accepted) = {} /\ ListsAreFresh'
    <3>1. CASE UNCHANGED <<todo, refused>>
      BY <2>2, <3>1 DEF EveryMessageHasOneFate, ListsAreFresh
    <3>2. CASE f \in Callers /\ refused' = refused \cup Range(todo[f])
               /\ todo' = [todo EXCEPT ![f] = <<>>]
      <4>1. todo'[f] = <<>> /\ \A d \in Callers : d # f => todo'[d] = todo[d]
        BY <3>2 DEF TypeOK
      <4>2. \A d \in Callers : IsInjective(todo'[d])
        BY <4>1 DEF EveryMessageHasOneFate, ListsAreFresh, IsInjective
      <4>3. \A d \in Callers : Range(todo'[d]) \cap (Range(accepted') \cup refused') = {}
        BY <3>2, <4>1, <2>2, RangeOfEmpty DEF EveryMessageHasOneFate, ListsAreFresh
      <4>4. \A d, e \in Callers : d # e => Range(todo'[d]) \cap Range(todo'[e]) = {}
        BY <4>1, RangeOfEmpty DEF EveryMessageHasOneFate, ListsAreFresh
      <4>5. refused' \cap Range(accepted) = {}
        BY <3>2 DEF EveryMessageHasOneFate, ListsAreFresh
      <4> QED
        BY <4>2, <4>3, <4>4, <4>5 DEF ListsAreFresh
    <3> QED
      BY <1>8, <3>1, <3>2 DEF SendFails
  <2> QED
    BY <2>1, <2>2, <2>3, SettleFate
<1>9. CASE TimePasses \/ ProducerDisconnected \/ UNCHANGED vars
  <2>1. UNCHANGED <<sending, currentBatch, delivered, lost, todo, accepted, refused>>
    BY <1>9 DEF TimePasses, ProducerDisconnected, vars, buffer, outcome
  <2> QED
    BY <2>1 DEF EveryMessageHasOneFate, Outstanding, OneFlusherPerMessage, ListsAreFresh
<1> QED
  BY <1>1, <1>2, <1>3, <1>4, <1>5, <1>6, <1>7, <1>8, <1>9 DEF Next

(* Whatever the callers, the interval, disconnect and failures do, no message *)
(* is sent twice, forgotten, or both delivered and lost.                      *)
THEOREM ProducerOneFate == Spec => []EveryMessageHasOneFate
<1>1. Init => EveryMessageHasOneFate
  <2> SUFFICES ASSUME Init PROVE EveryMessageHasOneFate
    OBVIOUS
  <2>1. Outstanding = {} /\ OneFlusherPerMessage
    BY RangeOfEmpty DEF Init, Outstanding, OneFlusherPerMessage
  <2>2. ListsAreFresh
    BY RangeOfEmpty DEF Init, ListsAreFresh, IsInjective
  <2> QED
    BY <2>1, <2>2, RangeOfEmpty DEF Init, EveryMessageHasOneFate
<1> QED
  BY <1>1, StepFate, ProducerTypeCorrect, PTL DEF Spec

-----------------------------------------------------------------------------
(* The limits of the buffer are inductive with the type invariant alone.      *)
LEMMA StepLimits == TypeOK /\ BufferWithinLimits /\ [Next]_vars => BufferWithinLimits'
<1> SUFFICES ASSUME TypeOK, BufferWithinLimits, [Next]_vars PROVE BufferWithinLimits'
  OBVIOUS
<1>a. MaxQueueSize \in Nat /\ MaxQueueSize >= 2 /\ MaxBatchSize \in Nat
  BY ProducerAssumption DEF ProducerAssumption
<1>b. Len(<<>>) = 0 /\ currentBatch \in Seq(Msgs) /\ currentBatchSize \in Nat
  BY DEF TypeOK
<1>1. ASSUME NEW c \in Callers, QueueMessage(c) PROVE BufferWithinLimits'
  <2> DEFINE msg == Head(todo[c])
  <2>1. msg \in Msgs /\ SizeOf[msg] \in Nat
    BY <1>1, HeadAndTail, ProducerAssumption DEF QueueMessage, TypeOK, ProducerAssumption
  <2>2. CASE Flush(c, currentBatch, <<msg>>)
    <3>1. Len(currentBatch') = 1
      BY <2>1, <2>2 DEF Flush
    <3> QED
      BY <1>a, <3>1 DEF BufferWithinLimits
  <2>3. CASE Flush(c, Append(currentBatch, msg), <<>>)
    BY <1>a, <1>b, <2>3 DEF Flush, BufferWithinLimits
  <2>4. CASE ~FlushDue(msg) /\ currentBatch' = Append(currentBatch, msg)
             /\ currentBatchSize' = currentBatchSize + SizeOf[msg]
    <3>1. Len(currentBatch') = Len(currentBatch) + 1 /\ Len(currentBatch) \in Nat
      BY <1>b, <2>1, <2>4, AppendProperties, LenProperties
    <3> QED
      BY <1>a, <1>b, <2>1, <2>4, <3>1 DEF FlushDue, BufferWithinLimits
  <2> QED
    BY <1>1, <2>2, <2>3, <2>4 DEF QueueMessage
<1>2. ASSUME NEW t \in Ticks, IntervalFlush(t) PROVE BufferWithinLimits'
  BY <1>2, <1>a, <1>b DEF IntervalFlush, Flush, BufferWithinLimits
<1>3. CASE Disconnect
  BY <1>3, <1>a, <1>b DEF Disconnect, Flush, buffer, BufferWithinLimits
<1>4. CASE Kill
  BY <1>4, <1>a, <1>b DEF Kill, BufferWithinLimits
<1>5. CASE UNCHANGED <<currentBatch, currentBatchSize>>
  BY <1>5 DEF BufferWithinLimits
<1> QED
  BY <1>1, <1>2, <1>3, <1>4, <1>5 DEF Next, vars, StartList, TimePasses, ProducerDisconnected,
     SendSucceeds, SendFails, buffer

(* KAFKA_PRODUCER_MAX_QUEUE_SIZE and KAFKA_MAX_MESSAGE_BATCH_SIZE bound the    *)
(* buffer between any two calls, a single oversized record excepted.          *)
THEOREM ProducerBounded == Spec => []BufferWithinLimits
<1>1. Init => BufferWithinLimits
  <2>1. MaxQueueSize \in Nat /\ MaxQueueSize >= 2 /\ MaxBatchSize \in Nat /\ Len(<<>>) = 0
    BY ProducerAssumption DEF ProducerAssumption
  <2> QED
    BY <2>1 DEF Init, BufferWithinLimits
<1> QED
  BY <1>1, StepLimits, ProducerTypeCorrect, PTL DEF Spec

-----------------------------------------------------------------------------
LEMMA SameRange == \A s : Channel!Range(s) = Range(s)
BY DEF Channel!Range, Range

LEMMA RangeOfNonEmpty ==
  ASSUME NEW s \in Seq(Msgs), s # <<>>
  PROVE  Range(s) # {}
<1>1. Range(s) = {Head(s)} \cup Range(Tail(s))
  BY HeadAndTail
<1> QED
  BY <1>1

(* Refinement: every step is a step of AtMostOnceChannel or leaves it alone.  *)
LEMMA StepChannel == TypeOK /\ EveryMessageHasOneFate /\ [Next]_vars => [Channel!Next]_(Channel!vars)
<1> SUFFICES ASSUME TypeOK, EveryMessageHasOneFate, Next PROVE [Channel!Next]_(Channel!vars)
  <2>1. UNCHANGED vars => UNCHANGED Channel!vars
    BY DEF vars, Channel!vars, Outstanding, Alive
  <2> QED
    BY <2>1
<1> USE DEF Channel!vars
<1>a. Callers \subseteq Flushers /\ Ticks \subseteq Flushers /\ Closer \in Flushers
  BY DEF Flushers
<1>1. ASSUME NEW c \in Callers, QueueMessage(c) PROVE \E m \in Msgs : Channel!Accept(m)
  <2> DEFINE msg == Head(todo[c])
  <2>1. msg \in Msgs /\ msg \notin Range(accepted)
    BY <1>1, QueueMessageMoves
  <2>2. Channel!Fresh(msg)
    BY <2>1, SameRange DEF Channel!Fresh, EveryMessageHasOneFate
  <2>3. Alive /\ Alive' = Alive /\ UNCHANGED <<delivered, lost>>
    BY <1>1 DEF QueueMessage, outcome, Alive
  <2>4. \/ currentBatch' = Append(currentBatch, msg) /\ UNCHANGED Outstanding
        \/ /\ currentBatch # <<>> /\ currentBatch' = <<msg>>
           /\ Outstanding' = Outstanding \cup Range(currentBatch)
        \/ /\ currentBatch' = <<>>
           /\ Outstanding' = Outstanding \cup Range(currentBatch) \cup {msg}
    BY <1>1, QueueMessageMoves
  <2>5. Channel!Accept(msg)
    BY <2>2, <2>3, <2>4, SameRange DEF Channel!Accept
  <2> QED
    BY <2>1, <2>5
<1>2. ASSUME NEW t \in Ticks, IntervalFlush(t) PROVE Channel!HandOver
  <2>1. /\ sending[t] = <<>> /\ Flush(t, currentBatch, <<>>) /\ Alive /\ Alive' = Alive
        /\ currentBatch # <<>> /\ UNCHANGED <<todo, accepted, delivered, lost, refused>>
    BY <1>2 DEF IntervalFlush, outcome, Alive
  <2> QED
    BY <1>a, <2>1, PlainFlushFate, SameRange DEF Channel!HandOver
<1>3. CASE Disconnect /\ currentBatch # <<>>
  <2>1. /\ sending[Closer] = <<>> /\ Flush(Closer, currentBatch, <<>>) /\ Alive /\ Alive' = Alive
        /\ currentBatch # <<>> /\ UNCHANGED <<todo, accepted, delivered, lost, refused>>
    BY <1>3 DEF Disconnect, outcome, Alive
  <2>2. Channel!HandOver
    BY <1>a, <2>1, PlainFlushFate, SameRange DEF Channel!HandOver
  <2> QED
    BY <2>2 DEF Channel!Next
<1>4. CASE Kill
  <2>1. Outstanding' = {}
    BY <1>4, RangeOfEmpty DEF Kill, Outstanding
  <2>2. Channel!Crash
    BY <1>4, <2>1, SameRange DEF Kill, Alive, Channel!Crash
  <2> QED
    BY <2>2 DEF Channel!Next
<1>5. ASSUME NEW f \in Flushers, SendSucceeds(f) PROVE Channel!Settle
  <2>1. /\ Range(sending[f]) \subseteq Outstanding
        /\ Outstanding' = Outstanding \ Range(sending[f])
    BY <1>5, OutstandingAfterSettle DEF SendSucceeds, EveryMessageHasOneFate
  <2>2. Range(sending[f]) # {}
    BY <1>5, RangeOfNonEmpty DEF SendSucceeds, TypeOK
  <2>3. /\ delivered' = delivered \cup Range(sending[f])
        /\ lost' = lost \cup (Range(sending[f]) \ Range(sending[f]))
        /\ Alive /\ Alive' = Alive /\ UNCHANGED currentBatch
    BY <1>5 DEF SendSucceeds, buffer, Alive
  <2> QED
    BY <2>1, <2>2, <2>3 DEF Channel!Settle
<1>6. ASSUME NEW f \in Flushers, SendFails(f) PROVE Channel!Settle
  <2>1. /\ Range(sending[f]) \subseteq Outstanding
        /\ Outstanding' = Outstanding \ Range(sending[f])
    BY <1>6, OutstandingAfterSettle DEF SendFails, EveryMessageHasOneFate
  <2>2. Range(sending[f]) # {}
    BY <1>6, RangeOfNonEmpty DEF SendFails, TypeOK
  <2>3. PICK written \in SUBSET Range(sending[f]) :
          /\ delivered' = delivered \cup written
          /\ lost' = lost \cup (Range(sending[f]) \ written)
    BY <1>6 DEF SendFails
  <2>4. Alive /\ Alive' = Alive /\ UNCHANGED currentBatch
    BY <1>6 DEF SendFails, buffer, Alive
  <2> QED
    BY <2>1, <2>2, <2>3, <2>4 DEF Channel!Settle
<1>7. CASE TimePasses \/ ProducerDisconnected \/ (Disconnect /\ currentBatch = <<>>)
           \/ \E c \in Callers, list \in Lists : StartList(c, list)
  <2>1. UNCHANGED <<sending, currentBatch, delivered, lost>> /\ Alive' = Alive
    BY <1>7 DEF TimePasses, ProducerDisconnected, Disconnect, StartList, buffer, outcome, Alive
  <2> QED
    BY <2>1 DEF Outstanding
<1> QED
  BY <1>1, <1>2, <1>3, <1>4, <1>5, <1>6, <1>7 DEF Next, Channel!Next

(* The wrapper implements the at-most-once FIFO channel, for every instance.  *)
THEOREM ProducerImplementsChannel == Spec => ImplementsChannel
<1>1. Init => Channel!Init
  BY RangeOfEmpty DEF Init, Channel!Init, Outstanding, Alive
<1> QED
  BY <1>1, StepChannel, ProducerTypeCorrect, ProducerOneFate, PTL
     DEF Spec, ImplementsChannel, Channel!Spec

=============================================================================
