------------------------ MODULE KafkaProducerWrapper ------------------------
(***************************************************************************)
(* The batching producer every Kafka write of the plugin server goes       *)
(* through (src/plugin-server/src/utils/db/kafka-producer-wrapper.ts).     *)
(*                                                                         *)
(* JavaScript is single threaded: everything between two awaits is one     *)
(* action.  queueMessage never awaits before it has decided where the      *)
(* message goes, so the decision, the push and the exchange of             *)
(* currentBatch are atomic; the send itself is a separate step.  Each      *)
(* flush is awaited by whoever called it: a caller of queueMessage(s), a   *)
(* firing of the flush interval, or disconnect().                          *)
(***************************************************************************)
EXTENDS Naturals, Sequences, FiniteSets, SequencesExt

CONSTANTS
  Msgs,          \* the ProducerRecords, each queued at most once
  SizeOf,        \* estimateMessageSize, as a function on Msgs
  Callers,       \* async functions that call queueMessages
  Ticks,         \* firings of the flush interval that may be outstanding at once
  Closer,        \* the one caller of disconnect()
  MaxBatchSize,  \* KAFKA_MAX_MESSAGE_BATCH_SIZE
  MaxQueueSize,  \* KAFKA_PRODUCER_MAX_QUEUE_SIZE
  MaxList        \* bound: longest list handed to one queueMessages call

ASSUME ProducerAssumption ==
  /\ SizeOf \in [Msgs -> Nat \ {0}]
  /\ MaxBatchSize \in Nat /\ MaxQueueSize \in Nat /\ MaxList \in Nat
  /\ MaxQueueSize >= 2
  /\ Closer \notin Callers \cup Ticks
  /\ Callers \cap Ticks = {}

Flushers == Callers \cup Ticks \cup {Closer}

VARIABLES
  currentBatch,      \* messages waiting for the next flush
  currentBatchSize,  \* their estimated size, as the code keeps it
  overdue,           \* Date.now() - lastFlushTime > flushFrequencyMs
  todo,              \* per caller: what its queueMessages loop still has to queue
  sending,           \* per flusher: the batch whose sendBatch it awaits, <<>> if none
  phase,             \* "up", then "disconnecting", "disconnected"; "dead" if killed
  accepted,          \* history: messages in the order queueMessage took them
  flushed,           \* history: messages in the order they were handed to sendBatch
  delivered,         \* messages Kafka has
  lost,              \* messages of a failed send, or in memory when the process died
  rejected,          \* callers whose queueMessages threw
  refused            \* messages never queued because an earlier one of their list threw

vars == <<currentBatch, currentBatchSize, overdue, todo, sending, phase,
          accepted, flushed, delivered, lost, rejected, refused>>

buffer  == <<currentBatch, currentBatchSize, overdue, flushed>>
outcome == <<delivered, lost>>

Init ==
  /\ currentBatch = <<>> /\ currentBatchSize = 0 /\ overdue = FALSE
  /\ todo = [c \in Callers |-> <<>>]
  /\ sending = [f \in Flushers |-> <<>>]
  /\ phase = "up"
  /\ accepted = <<>> /\ flushed = <<>>
  /\ delivered = {} /\ lost = {} /\ rejected = {} /\ refused = {}

Alive == phase # "dead"

(* Messages some flusher's sendBatch has not settled. *)
Outstanding == UNION {Range(sending[f]) : f \in Flushers}

Unqueued == UNION {Range(todo[c]) : c \in Callers}

Known == Range(accepted) \cup refused \cup Unqueued

-----------------------------------------------------------------------------
(* Mutants of Flush: the appended record kept where its size belongs; the     *)
(* append forgotten; the buffer not exchanged.                                *)
Flush_appendUnmeasured(f, batch, append) ==
  /\ sending' = [sending EXCEPT ![f] = batch]
  /\ currentBatch' = append
  /\ currentBatchSize' = IF append = <<>> THEN 0 ELSE Head(append)
  /\ overdue' = FALSE
  /\ flushed' = flushed \o batch

Flush_dropsAppend(f, batch, append) ==
  /\ sending' = [sending EXCEPT ![f] = batch]
  /\ currentBatch' = <<>> /\ currentBatchSize' = 0
  /\ overdue' = FALSE
  /\ flushed' = flushed \o batch

Flush_keepsBatch(f, batch, append) ==
  /\ sending' = [sending EXCEPT ![f] = batch]
  /\ currentBatch' = batch \o append
  /\ UNCHANGED currentBatchSize
  /\ overdue' = FALSE
  /\ flushed' = flushed \o batch

(* flush(append): the non-empty batch is exchanged for a new one and sendBatch *)
(* is started on the old one, without an await in between.  batch is the      *)
(* buffer at that point, which may already hold the message being queued.     *)
Flush(f, batch, append) ==
  /\ sending' = [sending EXCEPT ![f] = batch]
  /\ currentBatch' = append
  /\ currentBatchSize' = IF append = <<>> THEN 0 ELSE SizeOf[Head(append)]
  /\ overdue' = FALSE
  /\ flushed' = flushed \o batch

(* queueMessages(list): the loop is entered. *)
StartList(c, list) ==
  /\ Alive /\ todo[c] = <<>> /\ sending[c] = <<>> /\ c \notin rejected
  /\ Range(list) \cap Known = {}
  /\ todo' = [todo EXCEPT ![c] = list]
  /\ UNCHANGED <<buffer, sending, phase, accepted, outcome, rejected, refused>>

OverBatchSize(m) ==
  currentBatch # <<>> /\ currentBatchSize + SizeOf[m] > MaxBatchSize

FlushDue(m) ==
  \/ currentBatchSize + SizeOf[m] > MaxBatchSize
  \/ overdue
  \/ Len(currentBatch) + 1 >= MaxQueueSize

(* One queueMessage call, up to its first await. *)
QueueMessage(c) ==
  /\ Alive /\ todo[c] # <<>> /\ sending[c] = <<>>
  /\ LET m == Head(todo[c]) IN
       /\ accepted' = Append(accepted, m)
       /\ \/ /\ OverBatchSize(m)
             /\ Flush(c, currentBatch, <<m>>)
          \/ /\ ~OverBatchSize(m) /\ FlushDue(m)
             /\ Flush(c, Append(currentBatch, m), <<>>)
          \/ /\ ~OverBatchSize(m) /\ ~FlushDue(m)
             /\ currentBatch' = Append(currentBatch, m)
             /\ currentBatchSize' = currentBatchSize + SizeOf[m]
             /\ UNCHANGED <<overdue, flushed, sending>>
  /\ todo' = [todo EXCEPT ![c] = Tail(todo[c])]
  /\ UNCHANGED <<phase, outcome, rejected, refused>>

(* Mutant of IntervalFlush: the interval leaves small batches alone. *)
IntervalFlush_onlyLarge(t) ==
  /\ phase = "up" /\ sending[t] = <<>> /\ Len(currentBatch) >= MaxQueueSize
  /\ Flush(t, currentBatch, <<>>)
  /\ UNCHANGED <<todo, phase, accepted, outcome, rejected, refused>>

(* The interval fires; an earlier firing may still be awaiting its send. *)
IntervalFlush(t) ==
  /\ phase = "up" /\ sending[t] = <<>> /\ currentBatch # <<>>
  /\ Flush(t, currentBatch, <<>>)
  /\ UNCHANGED <<todo, phase, accepted, outcome, rejected, refused>>

TimePasses ==
  /\ Alive /\ ~overdue
  /\ overdue' = TRUE
  /\ UNCHANGED <<currentBatch, currentBatchSize, flushed, todo, sending, phase,
                 accepted, outcome, rejected, refused>>

(* disconnect(): clearInterval, then flush(). *)
Disconnect ==
  /\ phase = "up" /\ sending[Closer] = <<>>
  /\ phase' = "disconnecting"
  /\ \/ /\ currentBatch # <<>>
        /\ Flush(Closer, currentBatch, <<>>)
     \/ /\ currentBatch = <<>>
        /\ UNCHANGED <<buffer, sending>>
  /\ UNCHANGED <<todo, accepted, outcome, rejected, refused>>

(* producer.disconnect(), once disconnect()'s own flush has resolved. *)
ProducerDisconnected ==
  /\ phase = "disconnecting" /\ sending[Closer] = <<>> /\ Closer \notin rejected
  /\ phase' = "disconnected"
  /\ UNCHANGED <<buffer, todo, sending, accepted, outcome, rejected, refused>>

-----------------------------------------------------------------------------
(* The kafkajs producer: sendBatch resolves when every record is written.     *)
SendSucceeds(f) ==
  /\ phase \in {"up", "disconnecting"} /\ sending[f] # <<>>
  /\ delivered' = delivered \cup Range(sending[f])
  /\ sending' = [sending EXCEPT ![f] = <<>>]
  /\ UNCHANGED <<buffer, todo, phase, accepted, lost, rejected, refused>>

(* sendBatch rejects after kafkajs' own retries, some partitions possibly     *)
(* written.  The batch is not put back.  A queueMessages loop rethrows, and   *)
(* the rest of its list is never queued; the interval swallows the error.     *)
SendFails(f) ==
  /\ Alive /\ sending[f] # <<>>
  /\ \E written \in SUBSET Range(sending[f]) :
       /\ phase = "disconnected" => written = {}
       /\ delivered' = delivered \cup written
       /\ lost' = lost \cup (Range(sending[f]) \ written)
  /\ sending' = [sending EXCEPT ![f] = <<>>]
  /\ \/ /\ f \in Callers
        /\ refused' = refused \cup Range(todo[f])
        /\ todo' = [todo EXCEPT ![f] = <<>>]
        /\ rejected' = rejected \cup {f}
     \/ /\ f \in Ticks
        /\ UNCHANGED <<todo, refused, rejected>>
     \/ /\ f = Closer
        /\ rejected' = rejected \cup {f}
        /\ UNCHANGED <<todo, refused>>
  /\ UNCHANGED <<buffer, phase, accepted>>

(* piscina.destroy() or process.exit(): memory is gone, each outstanding send *)
(* may or may not have reached Kafka.                                         *)
Kill ==
  /\ Alive
  /\ phase' = "dead"
  /\ \E written \in SUBSET Outstanding :
       /\ delivered' = delivered \cup written
       /\ lost' = lost \cup Range(currentBatch) \cup (Outstanding \ written)
  /\ sending' = [f \in Flushers |-> <<>>]
  /\ currentBatch' = <<>> /\ currentBatchSize' = 0
  /\ todo' = [c \in Callers |-> <<>>]
  /\ refused' = refused \cup Unqueued
  /\ UNCHANGED <<overdue, flushed, accepted, rejected>>

Lists == {s \in UNION {[1..n -> Msgs] : n \in 1..MaxList} : IsInjective(s)}

Next ==
  \/ \E c \in Callers : \/ \E list \in Lists : StartList(c, list)
                        \/ QueueMessage(c)
  \/ \E t \in Ticks : IntervalFlush(t)
  \/ TimePasses \/ Disconnect \/ ProducerDisconnected \/ Kill
  \/ \E f \in Flushers : SendSucceeds(f) \/ SendFails(f)

Spec == Init /\ [][Next]_vars

(* setInterval keeps firing while the process is up, and kafkajs settles     *)
(* every sendBatch (its retries are finite).  A killed process does nothing. *)
Fairness ==
  /\ WF_vars(\E t \in Ticks : IntervalFlush(t))
  /\ \A f \in Flushers : WF_vars(SendSucceeds(f) \/ SendFails(f))

FairSpec == Spec /\ Fairness

-----------------------------------------------------------------------------
TypeOK ==
  /\ currentBatch \in Seq(Msgs) /\ currentBatchSize \in Nat /\ overdue \in BOOLEAN
  /\ todo \in [Callers -> Seq(Msgs)]
  /\ sending \in [Flushers -> Seq(Msgs)]
  /\ phase \in {"up", "disconnecting", "disconnected", "dead"}
  /\ accepted \in Seq(Msgs) /\ flushed \in Seq(Msgs)
  /\ delivered \subseteq Msgs /\ lost \subseteq Msgs /\ refused \subseteq Msgs
  /\ rejected \subseteq Flushers

(* Messages reach sendBatch in exactly the order queueMessage took them, with *)
(* nothing dropped or repeated in between: the ":TRICKY:" flush-with-append   *)
(* neither overtakes the batch it displaces nor loses the message it carries. *)
HandedOverInOrder == Alive => accepted = flushed \o currentBatch

(* Every accepted message is in exactly one place: in the buffer, awaited by  *)
(* one flusher, in Kafka, or lost; concurrent flushes never share a message;  *)
(* and a message still in a caller's list, or refused, is in none of them.    *)
OneFlusherPerMessage ==
  \A f, g \in Flushers : f # g => Range(sending[f]) \cap Range(sending[g]) = {}

ListsAreFresh ==
  \A c \in Callers :
    /\ IsInjective(todo[c])
    /\ Range(todo[c]) \cap (Range(accepted) \cup refused) = {}
    /\ \A d \in Callers : c # d => Range(todo[c]) \cap Range(todo[d]) = {}

EveryMessageHasOneFate ==
  /\ Range(accepted) = Range(currentBatch) \cup Outstanding \cup delivered \cup lost
  /\ Range(currentBatch) \cap (Outstanding \cup delivered \cup lost) = {}
  /\ Outstanding \cap (delivered \cup lost) = {} /\ delivered \cap lost = {}
  /\ refused \cap Range(accepted) = {}
  /\ OneFlusherPerMessage
  /\ ListsAreFresh

(* What the three flush conditions buy: the buffer stays under the queue      *)
(* length and, unless a single record alone is larger, under the byte limit.  *)
BufferWithinLimits ==
  /\ Len(currentBatch) < MaxQueueSize
  /\ currentBatchSize <= MaxBatchSize \/ Len(currentBatch) = 1

(* A message leaves the buffer without any further queueMessage call, because *)
(* of the interval, as long as the producer is not disconnected or killed.    *)
BufferDrains ==
  \A m \in Msgs : m \in Range(currentBatch) ~>
                    (m \notin Range(currentBatch) \/ phase # "up")

-----------------------------------------------------------------------------
(* The abstract promise: a FIFO hand-off with at-most-once delivery.          *)
Channel == INSTANCE AtMostOnceChannel WITH
  queue <- currentBatch, outstanding <- Outstanding, up <- Alive

ImplementsChannel == Channel!Spec

=============================================================================
