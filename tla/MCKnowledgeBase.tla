--------------------------- MODULE MCKnowledgeBase ---------------------------
(* Bounded instances of KnowledgeBase for TLC: threads are interchangeable. *)
EXTENDS KnowledgeBase, TLC

KnowledgeBaseSymmetry == Permutations(Threads)

\* Two vectors of one document and one of the other are enough.  FAISS knows no
\* universes and its searches no file: there everything is of one universe, and
\* retrieval is looked at before the first file.  After a change of its dimension
\* one thread at a time is enough to lose the vectors and to get them back.
Bounds ==
    /\ Cardinality(index) <= 3
    /\ backend = "faiss" =>
          /\ universe = [d \in Ids |-> Someone]
          /\ (\E t \in Threads : pc[t] \in {"search", "answered"}) => disk = {} /\ ~torn
          /\ dim # 1 => Cardinality({t \in Threads : pc[t] # "idle"}) <= 1
=============================================================================
