----------------------------- MODULE MCReports ------------------------------
(* Bounded instances of Reports for TLC.  Editors are interchangeable; no  *)
(* property below is a liveness property.                                  *)
EXTENDS Reports, TLC

EditorSymmetry == Permutations(Editors)

\* Packs and review decisions read nothing an editor writes, and an editor nothing
\* of theirs: a run has the ones or the other, and loses no outcome of either.
PacksOrEdits ==
    \/ /\ \A p \in Packs : pack[p].pc = "idle"
       /\ \A i \in DOMAIN reports : reports[i].status = "none"
    \/ \A e \in Editors : ed[e].pc = "idle"
=============================================================================
