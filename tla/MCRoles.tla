------------------------------ MODULE MCRoles -------------------------------
(* Bounded instances of Roles for TLC.  Threads are interchangeable, and   *)
(* so are the users outside the allowlist; no property is one of liveness. *)
EXTENDS Roles, TLC

RolesSymmetry == Permutations(Threads) \cup Permutations(Users \ Allowlist)
=============================================================================
