----------------------------- MODULE MCRequests -----------------------------
(* Bounded instances of Requests for TLC: one plan with a limit of 1.      *)
EXTENDS Requests

MCTierBudgets == [p \in Plans |-> 1]
MCBudgets == {None, 2}
=============================================================================
