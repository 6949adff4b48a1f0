--------------------------- MODULE MCPersonState ---------------------------
(***************************************************************************)
(* Instances of PersonState for TLC: three events over three distinct ids. *)
(***************************************************************************)
EXTENDS PersonState, TLC

CONSTANTS a, b, c, p1, p2, p3, w1, w2

OneWorker  == [p \in Events |-> w1]
TwoWorkers == [p \in Events |-> IF p = p1 THEN w1 ELSE w2]

Payload(kind, did, prev, sets) == [kind |-> kind, did |-> did, prev |-> prev, sets |-> sets]

SetProps(d)    == Payload("event", d, d, TRUE)
Identify(d, e) == Payload("identify", d, e, FALSE)
Alias(d, e)    == Payload("alias", d, e, FALSE)

Owner3(x, y, z) == (a :> x) @@ (b :> y) @@ (c :> z)

(* Nobody known; two known; all three known. *)
AllStarts   == {Owner3(0, 0, 0), Owner3(1, 2, 0), Owner3(1, 2, 3)}
Acquainted  == {Owner3(1, 2, 3)}

Mixed       == {SetProps(b), Identify(a, b), Alias(b, a), Identify(c, b)}
Handover    == {Identify(a, b), Identify(b, c)}

Symmetric == Permutations(Events)
=============================================================================
