---------------------------- MODULE Workspaces ------------------------------
(***************************************************************************)
(* Workspaces, their members and their invites (app/workspaces.py), with   *)
(* the middleware that resolves the caller's workspace on every request    *)
(* and the endpoints that create workspaces and invites and accept them    *)
(* (app/main.py).  Each thread serves one request at a time; each step of  *)
(* a request is one statement or one transaction, except that the check of *)
(* the inviting admin and the insert of his invite are one step.  The      *)
(* middleware runs on the event loop without awaiting, one request after   *)
(* the other; the endpoints run in a pool of threads.  A user is known by  *)
(* his verified address.                                                   *)
(***************************************************************************)
EXTENDS Naturals, FiniteSets

CONSTANTS
    Users, Threads, Tokens,
    MaxWorkspaces,  \* bound: workspaces are numbered 1 .. MaxWorkspaces
    Crashes,        \* TRUE: a request may die inside a transaction
    None

WS_ROLES == {"admin", "analyst", "executive"}

ASSUME WorkspacesAssumption ==
    /\ MaxWorkspaces \in Nat
    /\ Crashes \in BOOLEAN
    /\ None \notin Users \cup WS_ROLES

WsIds == 1 .. MaxWorkspaces

VARIABLES
    created,    \* workspaces made so far
    member,     \* member[w][u]: u's role in workspace w, or None
    invites,    \* workspace_invites: token, workspace, role, address, accepted
    by,         \* history, by[k]: who joined with token k
    personal,   \* history, personal[u]: workspaces provisioned for u
    pc,         \* where thread t's request is
    user,       \* its caller
    ws,         \* the workspace it runs in, and the caller's role there
    role,
    tok         \* the token it wants to accept

inviteVars == <<invites, by>>
threadVars == <<pc, user, ws, role, tok>>
vars == <<created, member, inviteVars, personal, threadVars>>

Init ==
    /\ created = 0
    /\ member = [w \in WsIds |-> [u \in Users |-> None]]
    /\ invites = {}
    /\ by = [k \in Tokens |-> None]
    /\ personal = [u \in Users |-> {}]
    /\ pc = [t \in Threads |-> "idle"]
    /\ user = [t \in Threads |-> None]
    /\ ws = [t \in Threads |-> 0]
    /\ role = [t \in Threads |-> None]
    /\ tok = [t \in Threads |-> None]

\* A middleware that resolves in the thread pool.
ResolvesInThreads == TRUE

\* The middleware ends what it does before it looks at another request.
EventLoopIsFree == \A s \in Threads : pc[s] # "provision"

Mine(u) == {w \in WsIds : member[w][u] # None}

Lowest(S) == CHOOSE w \in S : \A v \in S : w <= v

Goes(t, where) == pc' = [pc EXCEPT ![t] = where]

Enters(t, w, r) ==
    /\ Goes(t, "in")
    /\ ws' = [ws EXCEPT ![t] = w]
    /\ role' = [role EXCEPT ![t] = r]

\* The request ends and its locals are gone.
Finish(t) ==
    /\ Goes(t, "idle")
    /\ user' = [user EXCEPT ![t] = None]
    /\ ws' = [ws EXCEPT ![t] = 0]
    /\ role' = [role EXCEPT ![t] = None]
    /\ tok' = [tok EXCEPT ![t] = None]

-----------------------------------------------------------------------------
(* resolve_workspace.                                                      *)

\* The workspace the header asks for, whoever asks.
ChosenUnchecked(u, asked) ==
    IF asked \in 1 .. created THEN asked ELSE Lowest(Mine(u))

Chosen(u, asked) == IF asked \in Mine(u) THEN asked ELSE Lowest(Mine(u))

NeedsWorkspace(u) == Mine(u) = {}

\* asked = 0: no workspace header.
Request(t, u, asked) ==
    /\ pc[t] = "idle" /\ EventLoopIsFree
    /\ user' = [user EXCEPT ![t] = u]
    /\ IF NeedsWorkspace(u)
       THEN /\ Goes(t, "provision")
            /\ UNCHANGED <<ws, role>>
       ELSE Enters(t, Chosen(u, asked), member[Chosen(u, asked)][u])
    /\ UNCHANGED <<created, member, inviteVars, personal, tok>>

\* create_workspace: the row and its admin are one transaction.
NewWorkspace(u) ==
    /\ created < MaxWorkspaces
    /\ created' = created + 1
    /\ member' = [member EXCEPT ![created'][u] = "admin"]

Provision(t) ==
    /\ pc[t] = "provision"
    /\ NewWorkspace(user[t])
    /\ personal' = [personal EXCEPT ![user[t]] = @ \cup {created'}]
    /\ Enters(t, created', "admin")
    /\ UNCHANGED <<inviteVars, user, tok>>

-----------------------------------------------------------------------------
(* The endpoints.                                                          *)

CreateWorkspace(t) ==
    /\ pc[t] = "in"
    /\ NewWorkspace(user[t])
    /\ Finish(t)
    /\ UNCHANGED <<inviteVars, personal>>

Leave(t) ==
    /\ pc[t] = "in"
    /\ Finish(t)
    /\ UNCHANGED <<created, member, inviteVars, personal>>

MayInvite(u, w) == member[w][u] = "admin"

ValidRole(r) == r \in WS_ROLES

\* to = None: anyone who holds the link.
CreateInvite(t, k, w, r, to) ==
    /\ pc[t] = "in"
    /\ ValidRole(r)
    /\ MayInvite(user[t], w)
    /\ \A i \in invites : i.token # k
    /\ invites' = invites \cup {[token |-> k, workspace |-> w, role |-> r,
                                 email |-> to, accepted |-> FALSE]}
    /\ Finish(t)
    /\ UNCHANGED <<created, member, by, personal>>

\* An invite that does not look at the address.
ForMeUnchecked(i, u) == TRUE

ForMe(i, u) == i.email \in {None, u}

\* accept_invite reads the invite before it claims it.
ReadInvite(t, k) ==
    /\ pc[t] = "in"
    /\ \E i \in invites :
          /\ i.token = k
          /\ ~i.accepted
          /\ ForMe(i, user[t])
    /\ Goes(t, "claim")
    /\ tok' = [tok EXCEPT ![t] = k]
    /\ UNCHANGED <<created, member, inviteVars, personal, user, ws, role>>

\* A claim that trusts what was read before.
ClaimableAsRead(i) == TRUE

Claimable(i) == ~i.accepted

\* The claim and the membership are one transaction; a claim that matches no
\* row is rolled back.
ClaimInvite(t) ==
    /\ pc[t] = "claim"
    /\ \E i \in invites :
          /\ i.token = tok[t]
          /\ IF Claimable(i)
             THEN /\ invites' = (invites \ {i}) \cup {[i EXCEPT !.accepted = TRUE]}
                  /\ member' = [member EXCEPT ![i.workspace][user[t]] = i.role]
                  /\ by' = [by EXCEPT ![tok[t]] = user[t]]
             ELSE UNCHANGED <<invites, member, by>>
    /\ Finish(t)
    /\ UNCHANGED <<created, personal>>

\* The request, or its process, dies before the commit: the database undoes the transaction.
Crash(t) ==
    /\ Crashes
    /\ pc[t] # "idle"
    /\ Finish(t)
    /\ UNCHANGED <<created, member, inviteVars, personal>>

Endpoint(t) ==
    \/ CreateWorkspace(t)
    \/ Leave(t)
    \/ \E k \in Tokens, w \in WsIds, r \in WS_ROLES \cup {"viewer"},
         to \in Users \cup {None} : CreateInvite(t, k, w, r, to)
    \/ \E k \in Tokens : ReadInvite(t, k)
    \/ ClaimInvite(t)

Next ==
    \E t \in Threads :
        \/ \E u \in Users, asked \in WsIds \cup {0} : Request(t, u, asked)
        \/ Provision(t)
        \/ Endpoint(t)
        \/ Crash(t)

Spec == Init /\ [][Next]_vars

-----------------------------------------------------------------------------
(* Properties.                                                             *)

\* Type invariant of the tables and the requests' locals.
TypeOK ==
    /\ created \in 0 .. MaxWorkspaces
    /\ member \in [WsIds -> [Users -> WS_ROLES \cup {None}]]
    /\ invites \subseteq [token : Tokens, workspace : 1 .. created,
                          role : WS_ROLES, email : Users \cup {None},
                          accepted : BOOLEAN]
    /\ by \in [Tokens -> Users \cup {None}]
    /\ personal \in [Users -> SUBSET WsIds]
    /\ pc \in [Threads -> {"idle", "provision", "in", "claim"}]
    /\ user \in [Threads -> Users \cup {None}]
    /\ ws \in [Threads -> 0 .. created]
    /\ role \in [Threads -> WS_ROLES \cup {None}]
    /\ tok \in [Threads -> Tokens \cup {None}]

\* workspaces.py:4-6 "resolved server-side from verified membership (never
\* trusted from the client)": a request only ever runs in a workspace its
\* caller belongs to.
RunsInOwnWorkspace ==
    \A t \in Threads :
        pc[t] \in {"in", "claim"} => member[ws[t]][user[t]] # None

\* Every member who is not an admin came in by an invite to that workspace
\* that he alone used, and has the role that invite gave him.
MembersWereLetIn ==
    \A w \in 1 .. created, u \in Users :
        member[w][u] # None =>
            \/ member[w][u] = "admin"
            \/ \E i \in invites : /\ i.workspace = w
                                  /\ i.role = member[w][u]
                                  /\ by[i.token] = u

\* workspaces.py:73-74 "provisioning one if they have none": nobody is given
\* two personal workspaces, although the look and the insert are two
\* statements, requests die between them and the endpoints of other threads
\* add members meanwhile.
OnePersonalWorkspace == \A u \in Users : Cardinality(personal[u]) <= 1

\* The invites as tokens: whom each is meant for, and which are handed out.
Bound == [k \in Tokens |-> IF \E i \in invites : i.token = k
                           THEN (CHOOSE i \in invites : i.token = k).email
                           ELSE None]
Issued == {i.token : i \in invites}

\* Invites implement the abstract promise: each lets one user in, once, and
\* only the one it is meant for, however requests interleave or die.
Claims == INSTANCE InviteClaims WITH bound <- Bound, issued <- Issued

ClaimsSpec == Claims!Spec

=============================================================================
