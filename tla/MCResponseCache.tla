--------------------------- MODULE MCResponseCache --------------------------
(* Bounded instances of ResponseCache for TLC: two processes, the first    *)
(* with a reader and a writer, the second with the others.                 *)
EXTENDS ResponseCache, TLC

CONSTANTS p1, p2, r1, r2, w1, w2, w3

MCHome == [x \in Readers \cup Writers |-> IF x \in {r1, w1} THEN p1 ELSE p2]
=============================================================================
