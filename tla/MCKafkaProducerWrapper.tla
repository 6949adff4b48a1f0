----------------------- MODULE MCKafkaProducerWrapper -----------------------
(* A small instance of KafkaProducerWrapper: two callers, two interval       *)
(* flushes, three messages of which the first alone exceeds the byte limit.  *)
EXTENDS KafkaProducerWrapper

CONSTANTS m1, m2, m3, c1, c2

MCSizeOf == [m \in Msgs |-> CASE m = m1 -> 5 [] m = m2 -> 2 [] OTHER -> 1]

=============================================================================
