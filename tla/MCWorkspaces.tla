---------------------------- MODULE MCWorkspaces ----------------------------
(* Bounded instances of Workspaces for TLC.  Threads, tokens and users are *)
(* interchangeable; the refinement is checked as one of safety.            *)
EXTENDS Workspaces, TLC

WorkspacesSymmetry ==
    Permutations(Threads) \cup Permutations(Tokens) \cup Permutations(Users)
=============================================================================
