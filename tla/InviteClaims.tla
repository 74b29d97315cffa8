---------------------------- MODULE InviteClaims ----------------------------
(***************************************************************************)
(* What a workspace invite promises (app/workspaces.py): a token is issued *)
(* for one address or for anyone, and lets at most one user in, once.      *)
(***************************************************************************)
CONSTANTS Users, Tokens, None

VARIABLES
    bound,   \* bound[k]: the user token k is meant for, or None for anyone
    issued,  \* tokens handed out
    by       \* by[k]: the user token k let in, or None

Init ==
    /\ bound = [k \in Tokens |-> None]
    /\ issued = {}
    /\ by = [k \in Tokens |-> None]

Issue(k, u) ==
    /\ k \notin issued
    /\ issued' = issued \cup {k}
    /\ bound' = [bound EXCEPT ![k] = u]
    /\ UNCHANGED by

Claim(k, u) ==
    /\ k \in issued
    /\ by[k] = None
    /\ bound[k] \in {None, u}
    /\ by' = [by EXCEPT ![k] = u]
    /\ UNCHANGED <<bound, issued>>

Next ==
    \E k \in Tokens :
        \/ \E u \in Users \cup {None} : Issue(k, u)
        \/ \E u \in Users : Claim(k, u)

Spec == Init /\ [][Next]_<<bound, issued, by>>

=============================================================================
