----------------------------- MODULE MCAuditLog -----------------------------
(* Bounded instances of AuditLog for TLC.  Recorders, bodies and e-mails   *)
(* are interchangeable; no property below is a liveness property.          *)
EXTENDS AuditLog, TLC

AuditSymmetry ==
    Permutations(Recorders) \cup Permutations(Bodies) \cup Permutations(Emails)
=============================================================================
