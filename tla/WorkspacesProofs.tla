-------------------------- MODULE WorkspacesProofs --------------------------
(* Theorems about Workspaces, for any users, threads, tokens and number of *)
(* workspaces, with overlapping requests, with and without crashes.        *)
EXTENDS Workspaces, FiniteSetTheorems, WellFoundedInduction, TLAPS

-----------------------------------------------------------------------------
(* A request knows its caller, who is a member of the workspace it runs    *)
(* in.  A lookup of the oldest workspace needs the members to be of        *)
(* workspaces that exist, so the types are proved with it.                 *)

Places == {"idle", "provision", "in", "claim"}

MembersExist == \A w \in WsIds, u \in Users : member[w][u] # None => w <= created

CallersKnown ==
    \A t \in Threads : /\ pc[t] # "idle" => user[t] \in Users
                       /\ pc[t] \in {"in", "claim"} => ws[t] # 0
                       /\ pc[t] = "claim" => tok[t] \in Tokens

Rows(n) == [token : Tokens, workspace : 1 .. n, role : WS_ROLES,
            email : Users \cup {None}, accepted : BOOLEAN]

AccessInv == TypeOK /\ MembersExist /\ CallersKnown /\ RunsInOwnWorkspace

\* What the tables may become under a running request.
TablesGrow ==
    /\ created' \in 0 .. MaxWorkspaces /\ created <= created'
    /\ member' \in [WsIds -> [Users -> WS_ROLES \cup {None}]]
    /\ MembersExist'
    /\ \A w \in WsIds, u \in Users : member[w][u] # None => member'[w][u] # None
    /\ invites' \subseteq Rows(created')
    /\ by' \in [Tokens -> Users \cup {None}]
    /\ personal' \in [Users -> SUBSET WsIds]

\* The oldest of a user's workspaces is one of them.
LEMMA LowestIsIn == ASSUME NEW S \in SUBSET Nat, S # {} PROVE Lowest(S) \in S
<1>1. PICK w \in S : \A v \in S : <<v, w>> \notin OpToRel(<, Nat)
  BY WFMin, NatLessThanWellFounded, Zenon
<1>2. \A v \in S : ~(v < w)
  BY <1>1, Zenon DEF OpToRel
<1>3. \A v \in S : w <= v
  BY <1>2
<1>4. QED
  BY <1>3 DEF Lowest

\* A request is sent to a workspace of its caller, whatever the header asks for.
LEMMA ChosenIsMine ==
    ASSUME TypeOK, MembersExist, NEW u \in Users, NEW asked, ~NeedsWorkspace(u)
    PROVE  Chosen(u, asked) \in Mine(u) /\ Chosen(u, asked) \in 1 .. created
<1>1. Mine(u) \in SUBSET Nat /\ Mine(u) # {}
  BY WorkspacesAssumption DEF Mine, WsIds, NeedsWorkspace
<1>2. Chosen(u, asked) \in Mine(u)
  BY <1>1, LowestIsIn DEF Chosen
<1>3. QED
  BY <1>2, WorkspacesAssumption DEF Mine, MembersExist, WsIds, TypeOK

LEMMA InitAccessInv == Init => AccessInv
BY WorkspacesAssumption DEF Init, AccessInv, TypeOK, MembersExist, CallersKnown,
   RunsInOwnWorkspace, WsIds

\* A request that ends leaves nothing behind but the tables.
LEMMA FinishKeepsAccess ==
    ASSUME AccessInv, NEW t \in Threads, Finish(t), TablesGrow
    PROVE  AccessInv'
<1>1. TypeOK'
  BY DEF AccessInv, Finish, Goes, TablesGrow, TypeOK, Rows
<1>2. CallersKnown' /\ RunsInOwnWorkspace'
  BY WorkspacesAssumption DEF AccessInv, Finish, Goes, TablesGrow, TypeOK,
     CallersKnown, RunsInOwnWorkspace, WsIds
<1>3. QED
  BY <1>1, <1>2 DEF AccessInv, TablesGrow

\* Entering a workspace of the caller.
LEMMA EntersKeepsAccess ==
    ASSUME AccessInv, NEW t \in Threads, NEW w \in 1 .. created', NEW r \in WS_ROLES,
           Enters(t, w, r), TablesGrow, UNCHANGED tok,
           user' \in [Threads -> Users \cup {None}], user'[t] \in Users,
           \A s \in Threads \ {t} : user'[s] = user[s],
           member'[w][user'[t]] # None
    PROVE  AccessInv'
<1>1. TypeOK'
  <2>1. /\ ws \in [Threads -> 0 .. created'] /\ w \in 0 .. created'
        /\ role \in [Threads -> WS_ROLES \cup {None}]
        /\ pc \in [Threads -> Places]
    BY DEF AccessInv, TypeOK, TablesGrow, Places
  <2>2. /\ ws' \in [Threads -> 0 .. created']
        /\ role' \in [Threads -> WS_ROLES \cup {None}]
        /\ pc' \in [Threads -> Places]
    BY <2>1 DEF Enters, Goes, Places
  <2>3. QED
    BY <2>2 DEF AccessInv, TablesGrow, TypeOK, Places, Rows
<1>2. CallersKnown' /\ RunsInOwnWorkspace'
  BY WorkspacesAssumption DEF AccessInv, Enters, Goes, TablesGrow, TypeOK,
     CallersKnown, RunsInOwnWorkspace, WsIds
<1>3. QED
  BY <1>1, <1>2 DEF AccessInv, TablesGrow

\* A new workspace has its creator as its admin.
LEMMA NewWorkspaceGrows ==
    ASSUME AccessInv, NEW u \in Users, NewWorkspace(u), UNCHANGED inviteVars,
           personal' \in [Users -> SUBSET WsIds]
    PROVE  /\ TablesGrow
           /\ created' \in 1 .. MaxWorkspaces
           /\ member'[created'][u] = "admin"
<1>1. /\ created' = created + 1 /\ created' \in 1 .. MaxWorkspaces
      /\ created \in 0 .. MaxWorkspaces /\ created' \in WsIds
  BY WorkspacesAssumption DEF AccessInv, TypeOK, NewWorkspace, WsIds
<1>2. "admin" \in WS_ROLES /\ None # "admin"
  BY WorkspacesAssumption DEF WS_ROLES
<1>3. /\ member' \in [WsIds -> [Users -> WS_ROLES \cup {None}]]
      /\ member'[created'][u] = "admin"
      /\ \A w \in WsIds, v \in Users :
             member'[w][v] = IF w = created' /\ v = u THEN "admin" ELSE member[w][v]
  BY <1>1, <1>2 DEF AccessInv, TypeOK, NewWorkspace
<1>4. MembersExist'
  BY <1>1, <1>3 DEF AccessInv, MembersExist, WsIds
<1>5. invites' \subseteq Rows(created')
  <2>1. 1 .. created \subseteq 1 .. created'
    BY <1>1
  <2>2. QED
    BY <2>1 DEF AccessInv, TypeOK, inviteVars, Rows
<1>6. by' \in [Tokens -> Users \cup {None}]
  BY DEF AccessInv, TypeOK, inviteVars
<1>7. QED
  BY <1>1, <1>2, <1>3, <1>4, <1>5, <1>6 DEF TablesGrow

LEMMA TablesStay ==
    ASSUME AccessInv, UNCHANGED <<created, member, inviteVars, personal>>
    PROVE  TablesGrow
BY WorkspacesAssumption DEF AccessInv, TypeOK, MembersExist, TablesGrow, inviteVars, WsIds, Rows

LEMMA NextAccessInv == AccessInv /\ [Next]_vars => AccessInv'
<1> SUFFICES ASSUME AccessInv, [Next]_vars PROVE AccessInv'
  OBVIOUS
<1>1. CASE UNCHANGED vars
  BY <1>1 DEF vars, inviteVars, threadVars, AccessInv, TypeOK, MembersExist, CallersKnown,
     RunsInOwnWorkspace
<1>2. ASSUME NEW t \in Threads, NEW u \in Users, NEW asked, Request(t, u, asked)
      PROVE  AccessInv'
  <2>1. TablesGrow
    BY <1>2, TablesStay DEF Request
  <2>2. user' \in [Threads -> Users \cup {None}] /\ user'[t] = u
        /\ \A s \in Threads \ {t} : user'[s] = user[s]
    BY <1>2 DEF Request, AccessInv, TypeOK
  <2>3. CASE NeedsWorkspace(u)
    <3>1. Goes(t, "provision") /\ UNCHANGED <<ws, role, tok>>
      BY <1>2, <2>3 DEF Request
    <3>2. TypeOK'
      BY <1>2, <2>1, <2>2, <3>1 DEF AccessInv, Goes, TablesGrow, TypeOK, Request, Rows
    <3>3. CallersKnown' /\ RunsInOwnWorkspace'
      BY <1>2, <2>2, <3>1 DEF AccessInv, Goes, TypeOK, Request, CallersKnown,
         RunsInOwnWorkspace
    <3>4. QED
      BY <2>1, <3>2, <3>3 DEF AccessInv, TablesGrow
  <2>4. CASE ~NeedsWorkspace(u)
    <3> DEFINE w == Chosen(u, asked)
    <3>1. w \in Mine(u) /\ w \in 1 .. created
      BY <2>4, ChosenIsMine DEF AccessInv
    <3>2. w \in WsIds /\ member[w][u] # None
      BY <3>1 DEF Mine
    <3>3. member[w][u] \in WS_ROLES
      BY <3>2 DEF AccessInv, TypeOK
    <3>4. Enters(t, w, member[w][u]) /\ UNCHANGED <<created, member, tok>>
      BY <1>2, <2>4 DEF Request
    <3>5. QED
      BY <1>2, <2>1, <2>2, <3>1, <3>2, <3>3, <3>4, EntersKeepsAccess
  <2>5. QED
    BY <2>3, <2>4
<1>3. ASSUME NEW t \in Threads, Provision(t)
      PROVE  AccessInv'
  <2>1. user[t] \in Users /\ UNCHANGED <<inviteVars, user, tok>>
    BY <1>3 DEF Provision, AccessInv, CallersKnown
  <2>2. created' \in WsIds
    BY <1>3, WorkspacesAssumption DEF Provision, NewWorkspace, AccessInv, TypeOK, WsIds
  <2>3. personal' \in [Users -> SUBSET WsIds]
    BY <1>3, <2>2 DEF Provision, AccessInv, TypeOK
  <2>4. /\ TablesGrow /\ created' \in 1 .. MaxWorkspaces
        /\ member'[created'][user[t]] = "admin"
    BY <1>3, <2>1, <2>3, NewWorkspaceGrows DEF Provision
  <2>5. "admin" \in WS_ROLES /\ None # "admin"
    BY WorkspacesAssumption DEF WS_ROLES
  <2>6. QED
    BY <1>3, <2>1, <2>4, <2>5, EntersKeepsAccess DEF Provision, AccessInv, TypeOK
<1>4. ASSUME NEW t \in Threads, Endpoint(t)
      PROVE  AccessInv'
  <2>1. CASE CreateWorkspace(t)
    <3>1. user[t] \in Users /\ personal' \in [Users -> SUBSET WsIds]
      BY <2>1 DEF CreateWorkspace, AccessInv, CallersKnown, TypeOK
    <3>2. QED
      BY <1>4, <2>1, <3>1, NewWorkspaceGrows, FinishKeepsAccess DEF CreateWorkspace
  <2>2. CASE Leave(t)
    BY <1>4, <2>2, TablesStay, FinishKeepsAccess DEF Leave
  <2>3. ASSUME NEW k \in Tokens, NEW w \in WsIds, NEW r, NEW to \in Users \cup {None},
               CreateInvite(t, k, w, r, to)
        PROVE  AccessInv'
    <3>1. user[t] \in Users /\ r \in WS_ROLES /\ member[w][user[t]] # None
      BY <2>3, WorkspacesAssumption DEF CreateInvite, AccessInv, CallersKnown, ValidRole,
         MayInvite, WS_ROLES
    <3>2. w \in 1 .. created
      BY <3>1, WorkspacesAssumption DEF AccessInv, MembersExist, WsIds, TypeOK
    <3>3. [token |-> k, workspace |-> w, role |-> r, email |-> to, accepted |-> FALSE]
              \in Rows(created)
      BY <3>1, <3>2 DEF Rows
    <3>4. invites \subseteq Rows(created) /\ created' = created
      BY <2>3 DEF CreateInvite, AccessInv, TypeOK, Rows
    <3>5. invites' \subseteq Rows(created')
      BY <2>3, <3>3, <3>4 DEF CreateInvite
    <3>6. TablesGrow
      BY <2>3, <3>5 DEF CreateInvite, AccessInv, TypeOK, MembersExist, TablesGrow, WsIds
    <3>7. QED
      BY <1>4, <2>3, <3>6, FinishKeepsAccess DEF CreateInvite
  <2>4. ASSUME NEW k \in Tokens, ReadInvite(t, k) PROVE AccessInv'
    BY <1>4, <2>4 DEF ReadInvite, Goes, AccessInv, TypeOK, MembersExist, CallersKnown,
       RunsInOwnWorkspace, inviteVars
  <2>5. CASE ClaimInvite(t)
    <3>1. user[t] \in Users /\ tok[t] \in Tokens /\ UNCHANGED <<created, personal>>
      BY <2>5 DEF ClaimInvite, AccessInv, CallersKnown
    <3>2. PICK i \in invites :
              IF Claimable(i)
              THEN /\ invites' = (invites \ {i}) \cup {[i EXCEPT !.accepted = TRUE]}
                   /\ member' = [member EXCEPT ![i.workspace][user[t]] = i.role]
                   /\ by' = [by EXCEPT ![tok[t]] = user[t]]
              ELSE UNCHANGED <<invites, member, by>>
      BY <2>5 DEF ClaimInvite
    <3>3. CASE Claimable(i)
      <4>1. invites \subseteq Rows(created)
        BY DEF AccessInv, TypeOK, Rows
      <4>2. PICK w \in 1 .. created, r \in WS_ROLES : i.workspace = w /\ i.role = r
        BY <4>1 DEF Rows
      <4>3. w \in WsIds /\ r # None
        BY <4>2, WorkspacesAssumption DEF AccessInv, TypeOK, WsIds
      <4>4. [i EXCEPT !.accepted = TRUE] \in Rows(created)
        BY <4>1 DEF Rows
      <4>5. invites' \subseteq Rows(created')
        BY <3>1, <3>2, <3>3, <4>1, <4>4
      <4>6. member' = [member EXCEPT ![w][user[t]] = r]
        BY <3>2, <3>3, <4>2
      <4>7. member \in [WsIds -> [Users -> WS_ROLES \cup {None}]]
        BY DEF AccessInv, TypeOK
      <4>8. /\ member' \in [WsIds -> [Users -> WS_ROLES \cup {None}]]
            /\ \A x \in WsIds, v \in Users :
                   member'[x][v] = IF x = w /\ v = user[t] THEN r ELSE member[x][v]
        BY <3>1, <4>3, <4>6, <4>7
      <4>9. MembersExist'
        BY <3>1, <4>2, <4>8 DEF AccessInv, MembersExist
      <4>10. by' \in [Tokens -> Users \cup {None}]
        BY <3>1, <3>2, <3>3 DEF AccessInv, TypeOK
      <4>11. TablesGrow
        BY <3>1, <4>3, <4>5, <4>8, <4>9, <4>10 DEF AccessInv, TypeOK, TablesGrow
      <4>12. QED
        BY <1>4, <2>5, <4>11, FinishKeepsAccess DEF ClaimInvite
    <3>4. CASE ~Claimable(i)
      <4>1. UNCHANGED <<created, member, inviteVars, personal>>
        BY <3>1, <3>2, <3>4 DEF inviteVars
      <4>2. QED
        BY <1>4, <2>5, <4>1, TablesStay, FinishKeepsAccess DEF ClaimInvite
    <3>5. QED
      BY <3>3, <3>4
  <2>6. QED
    BY <1>4, <2>1, <2>2, <2>3, <2>4, <2>5 DEF Endpoint
<1>5. ASSUME NEW t \in Threads, Crash(t)
      PROVE  AccessInv'
  BY <1>5, TablesStay, FinishKeepsAccess DEF Crash
<1>6. QED
  BY <1>1, <1>2, <1>3, <1>4, <1>5 DEF Next

\* The tables and the requests' locals keep their types.
THEOREM TypeCorrect == Spec => []TypeOK
<1>1. AccessInv => TypeOK
  BY DEF AccessInv
<1>2. QED
  BY <1>1, InitAccessInv, NextAccessInv, PTL DEF Spec

\* Whatever workspace a client asks for, its request runs in one its caller
\* belongs to, and an invite accepted or a workspace made meanwhile keeps it so.
THEOREM ResolvedByMembership == Spec => []RunsInOwnWorkspace
<1>1. AccessInv => RunsInOwnWorkspace
  BY DEF AccessInv
<1>2. QED
  BY <1>1, InitAccessInv, NextAccessInv, PTL DEF Spec

-----------------------------------------------------------------------------
(* Invites.  Tokens are not reused, an invite is accepted exactly when its *)
(* token let someone in, and a request that is about to claim has found an *)
(* invite that is meant for its caller: nothing more is needed for the     *)
(* claim, which looks at the invite again, to let in at most one user.     *)

Unique(S) == \A i, j \in S : i.token = j.token => i = j

InviteInv ==
    /\ Unique(invites)
    /\ \A k \in Tokens : by[k] # None => \E i \in invites : i.token = k
    /\ \A i \in invites : i.accepted <=> by[i.token] # None
    /\ \A t \in Threads : pc[t] = "claim" =>
           \E i \in invites : i.token = tok[t] /\ ForMe(i, user[t])
    /\ MembersWereLetIn

LEMMA InitInviteInv == Init => InviteInv
BY DEF Init, InviteInv, Unique, MembersWereLetIn

\* What a claim that succeeds does to the tables.
Accepts(t, i) ==
    /\ i.token = tok[t]
    /\ ~i.accepted
    /\ invites' = (invites \ {i}) \cup {[i EXCEPT !.accepted = TRUE]}
    /\ member' = [member EXCEPT ![i.workspace][user[t]] = i.role]
    /\ by' = [by EXCEPT ![tok[t]] = user[t]]

LEMMA ClaimAccepts ==
    ASSUME NEW t \in Threads, ClaimInvite(t)
    PROVE  \/ \E i \in invites : Accepts(t, i)
           \/ UNCHANGED <<invites, member, by>>
BY DEF ClaimInvite, Accepts, Claimable

\* The accepted invite is the old one but for the mark.
LEMMA AcceptedRow ==
    ASSUME AccessInv, NEW i \in invites
    PROVE  LET j == [i EXCEPT !.accepted = TRUE] IN
           /\ j.token = i.token /\ j.workspace = i.workspace /\ j.role = i.role
           /\ j.email = i.email /\ j.accepted
<1>1. i \in Rows(created)
  BY DEF AccessInv, TypeOK, Rows
<1>2. QED
  BY <1>1 DEF Rows

LEMMA AcceptKeepsInvites ==
    ASSUME AccessInv, InviteInv, NEW t \in Threads, NEW i \in invites, Accepts(t, i),
           user[t] \in Users, UNCHANGED created,
           \A s \in Threads : pc'[s] = "claim" =>
               pc[s] = "claim" /\ tok'[s] = tok[s] /\ user'[s] = user[s]
    PROVE  InviteInv'
<1> DEFINE j == [i EXCEPT !.accepted = TRUE]
<1>1. /\ j.token = i.token /\ j.workspace = i.workspace /\ j.role = i.role
      /\ j.email = i.email /\ j.accepted
  BY AcceptedRow
<1>2. invites' = (invites \ {i}) \cup {j} /\ ~i.accepted /\ i.token = tok[t]
  BY DEF Accepts
<1>3. /\ i.token \in Tokens /\ i.workspace \in WsIds /\ i.role \in WS_ROLES
      /\ created \in 0 .. MaxWorkspaces
  <2>1. i \in Rows(created) /\ created \in 0 .. MaxWorkspaces
    BY DEF AccessInv, TypeOK, Rows
  <2>2. QED
    BY <2>1, WorkspacesAssumption DEF Rows, WsIds
<1>4. by[i.token] = None
  BY <1>2 DEF InviteInv
<1>5. /\ by'[i.token] = user[t]
      /\ \A k \in Tokens \ {i.token} : by'[k] = by[k]
      /\ user[t] # None
  <2>1. by \in [Tokens -> Users \cup {None}] /\ by' = [by EXCEPT ![i.token] = user[t]]
    BY <1>2 DEF Accepts, AccessInv, TypeOK
  <2>2. QED
    BY <1>3, <2>1, WorkspacesAssumption
<1>6. j \in invites' /\ \A x \in invites' : x = j \/ (x \in invites /\ x # i)
  BY <1>2
<1>7. \A x \in invites : x.token \in Tokens /\ (x.token = i.token => x = i)
  BY DEF AccessInv, TypeOK, InviteInv, Unique
<1>8. Unique(invites')
  <2>1. SUFFICES ASSUME NEW x \in invites', NEW y \in invites', x.token = y.token
                 PROVE  x = y
    BY DEF Unique
  <2>2. CASE x = j \/ y = j
    BY <1>1, <1>6, <1>7, <2>1, <2>2
  <2>3. CASE x # j /\ y # j
    BY <1>6, <2>1, <2>3 DEF InviteInv, Unique
  <2>4. QED
    BY <2>2, <2>3
<1>9. \A k \in Tokens : by'[k] # None => \E x \in invites' : x.token = k
  <2>1. SUFFICES ASSUME NEW k \in Tokens, by'[k] # None
                 PROVE  \E x \in invites' : x.token = k
    OBVIOUS
  <2>2. CASE k = i.token
    BY <1>1, <1>6, <2>2
  <2>3. CASE k # i.token
    <3>1. PICK x \in invites : x.token = k
      BY <1>5, <2>1, <2>3 DEF InviteInv
    <3>2. QED
      BY <1>2, <2>3, <3>1
  <2>4. QED
    BY <2>2, <2>3
<1>10. \A x \in invites' : x.accepted <=> by'[x.token] # None
  <2>1. SUFFICES ASSUME NEW x \in invites' PROVE x.accepted <=> by'[x.token] # None
    OBVIOUS
  <2>2. CASE x = j
    BY <1>1, <1>5, <2>2
  <2>3. CASE x # j
    <3>1. x \in invites /\ x # i
      BY <1>2, <2>3
    <3>2. by'[x.token] = by[x.token]
      BY <1>5, <1>7, <3>1
    <3>3. QED
      BY <3>1, <3>2 DEF InviteInv
  <2>4. QED
    BY <2>2, <2>3
<1>11. \A s \in Threads : pc'[s] = "claim" =>
           \E x \in invites' : x.token = tok'[s] /\ ForMe(x, user'[s])
  <2>1. SUFFICES ASSUME NEW s \in Threads, pc'[s] = "claim"
                 PROVE  \E x \in invites' : x.token = tok'[s] /\ ForMe(x, user'[s])
    OBVIOUS
  <2>2. PICK x \in invites : x.token = tok[s] /\ ForMe(x, user[s])
    BY <2>1 DEF InviteInv
  <2>3. CASE x = i
    BY <1>1, <1>2, <2>1, <2>2, <2>3 DEF ForMe
  <2>4. CASE x # i
    BY <1>2, <2>1, <2>2, <2>4
  <2>5. QED
    BY <2>3, <2>4
<1>12. MembersWereLetIn'
  <2>1. SUFFICES ASSUME NEW w \in 1 .. created, NEW u \in Users, member'[w][u] # None
                 PROVE  \/ member'[w][u] = "admin"
                        \/ \E x \in invites' : /\ x.workspace = w
                                               /\ x.role = member'[w][u]
                                               /\ by'[x.token] = u
    BY DEF MembersWereLetIn
  <2>2. w \in WsIds
    BY <1>3, WorkspacesAssumption DEF WsIds
  <2>3. CASE w = i.workspace /\ u = user[t]
    <3>1. member \in [WsIds -> [Users -> WS_ROLES \cup {None}]]
      BY DEF AccessInv, TypeOK
    <3>2. member'[w][u] = i.role
      BY <1>3, <2>3, <3>1 DEF Accepts
    <3>3. j \in invites' /\ j.workspace = w /\ j.role = member'[w][u] /\ by'[j.token] = u
      BY <1>1, <1>5, <1>6, <2>3, <3>2
    <3>4. QED
      BY <3>3
  <2>4. CASE ~(w = i.workspace /\ u = user[t])
    <3>1. member \in [WsIds -> [Users -> WS_ROLES \cup {None}]]
      BY DEF AccessInv, TypeOK
    <3>2. PICK v \in WsIds, r \in WS_ROLES : v = i.workspace /\ r = i.role
      BY <1>3
    <3>3. member' = [member EXCEPT ![v][user[t]] = r]
      BY <3>2 DEF Accepts
    <3>4. member'[w][u] = member[w][u]
      BY <2>2, <2>4, <3>1, <3>2, <3>3
    <3>5. CASE member[w][u] = "admin"
      BY <3>4, <3>5
    <3>6. CASE member[w][u] # "admin"
      <4>1. PICK x \in invites : x.workspace = w /\ x.role = member[w][u] /\ by[x.token] = u
        BY <2>1, <3>4, <3>6 DEF InviteInv, MembersWereLetIn
      <4>2. x # i /\ by'[x.token] = by[x.token]
        BY <1>4, <1>5, <1>7, <4>1, WorkspacesAssumption
      <4>3. QED
        BY <1>2, <3>4, <4>1, <4>2
    <3>7. QED
      BY <3>5, <3>6
  <2>5. QED
    BY <2>3, <2>4
<1>13. QED
  BY <1>8, <1>9, <1>10, <1>11, <1>12 DEF InviteInv

\* A step that leaves the invites alone and whose request is not about to
\* claim keeps all of this, if the members it adds are admins.
LEMMA QuietKeepsInvites ==
    ASSUME AccessInv, InviteInv, UNCHANGED inviteVars,
           \A s \in Threads : pc'[s] = "claim" =>
               pc[s] = "claim" /\ tok'[s] = tok[s] /\ user'[s] = user[s],
           \A w \in 1 .. created', u \in Users :
               member'[w][u] \notin {None, "admin"} =>
                   w \in 1 .. created /\ member'[w][u] = member[w][u]
    PROVE  InviteInv'
<1>1. MembersWereLetIn'
  BY DEF InviteInv, MembersWereLetIn, inviteVars
<1>2. QED
  BY <1>1 DEF InviteInv, inviteVars

LEMMA NextInviteInv == AccessInv /\ InviteInv /\ [Next]_vars => InviteInv'
<1> SUFFICES ASSUME AccessInv, InviteInv, [Next]_vars PROVE InviteInv'
  OBVIOUS
<1>0. \A t \in Threads : Finish(t) =>
          \A s \in Threads : pc'[s] = "claim" =>
              pc[s] = "claim" /\ tok'[s] = tok[s] /\ user'[s] = user[s]
  BY DEF Finish, Goes, AccessInv, TypeOK
<1>1. UNCHANGED <<created, member>> =>
          \A w \in 1 .. created', u \in Users :
              member'[w][u] \notin {None, "admin"} =>
                  w \in 1 .. created /\ member'[w][u] = member[w][u]
  OBVIOUS
<1>2. ASSUME NEW u \in Users, NewWorkspace(u)
      PROVE  \A w \in 1 .. created', v \in Users :
                 member'[w][v] \notin {None, "admin"} =>
                     w \in 1 .. created /\ member'[w][v] = member[w][v]
  <2>1. /\ created' = created + 1 /\ created' \in WsIds /\ created \in Nat
        /\ member \in [WsIds -> [Users -> WS_ROLES \cup {None}]]
    BY <1>2, WorkspacesAssumption DEF AccessInv, TypeOK, NewWorkspace, WsIds
  <2>2. \A w \in WsIds, v \in Users :
            member'[w][v] = IF w = created' /\ v = u THEN "admin" ELSE member[w][v]
    BY <1>2, <2>1 DEF NewWorkspace
  <2>3. \A w \in WsIds, v \in Users : member[w][v] # None => w <= created
    BY DEF AccessInv, MembersExist
  <2>4. \A w \in 1 .. created' : w \in WsIds
    BY <2>1, WorkspacesAssumption DEF WsIds
  <2>5. QED
    BY <2>1, <2>2, <2>3, <2>4
<1>3. CASE UNCHANGED vars
  BY <1>1, <1>3, QuietKeepsInvites DEF vars, threadVars
<1>4. ASSUME NEW t \in Threads, NEW u \in Users, NEW asked, Request(t, u, asked)
      PROVE  InviteInv'
  <2>1. \A s \in Threads : pc'[s] = "claim" =>
            pc[s] = "claim" /\ tok'[s] = tok[s] /\ user'[s] = user[s]
    BY <1>4 DEF Request, Goes, Enters, AccessInv, TypeOK
  <2>2. QED
    BY <1>1, <1>4, <2>1, QuietKeepsInvites DEF Request
<1>5. ASSUME NEW t \in Threads, Provision(t) PROVE InviteInv'
  <2>1. user[t] \in Users /\ NewWorkspace(user[t]) /\ UNCHANGED inviteVars
    BY <1>5 DEF Provision, AccessInv, CallersKnown
  <2>2. \A s \in Threads : pc'[s] = "claim" =>
            pc[s] = "claim" /\ tok'[s] = tok[s] /\ user'[s] = user[s]
    BY <1>5 DEF Provision, Goes, Enters, AccessInv, TypeOK
  <2>3. QED
    BY <1>2, <2>1, <2>2, QuietKeepsInvites
<1>6. ASSUME NEW t \in Threads, CreateWorkspace(t) PROVE InviteInv'
  <2>1. user[t] \in Users /\ NewWorkspace(user[t]) /\ Finish(t) /\ UNCHANGED inviteVars
    BY <1>6 DEF CreateWorkspace, AccessInv, CallersKnown
  <2>2. QED
    BY <1>0, <1>2, <2>1, QuietKeepsInvites
<1>7. ASSUME NEW t \in Threads, Leave(t) \/ Crash(t) PROVE InviteInv'
  <2>1. Finish(t) /\ UNCHANGED <<created, member, inviteVars>>
    BY <1>7 DEF Leave, Crash
  <2>2. QED
    BY <1>0, <1>1, <2>1, QuietKeepsInvites
<1>8. ASSUME NEW t \in Threads, NEW k \in Tokens, NEW w, NEW r, NEW to,
             CreateInvite(t, k, w, r, to)
      PROVE  InviteInv'
  <2> DEFINE new == [token |-> k, workspace |-> w, role |-> r, email |-> to,
                     accepted |-> FALSE]
  <2>1. /\ invites' = invites \cup {new} /\ UNCHANGED <<created, member, by>>
        /\ (\A i \in invites : i.token # k) /\ Finish(t)
    BY <1>8 DEF CreateInvite
  <2>2. by[k] = None
    BY <2>1 DEF InviteInv
  <2>3. new.token = k /\ ~new.accepted
    OBVIOUS
  <2>4. Unique(invites')
    BY <2>1, <2>3 DEF InviteInv, Unique
  <2>5. \A i \in invites' : i.accepted <=> by'[i.token] # None
    BY <2>1, <2>2, <2>3 DEF InviteInv
  <2>6. \A x \in Tokens : by'[x] # None => \E i \in invites' : i.token = x
    BY <2>1 DEF InviteInv
  <2>7. \A s \in Threads : pc'[s] = "claim" =>
            \E i \in invites' : i.token = tok'[s] /\ ForMe(i, user'[s])
    BY <1>0, <2>1 DEF InviteInv
  <2>8. MembersWereLetIn'
    BY <2>1 DEF InviteInv, MembersWereLetIn
  <2>9. QED
    BY <2>4, <2>5, <2>6, <2>7, <2>8 DEF InviteInv
<1>9. ASSUME NEW t \in Threads, NEW k \in Tokens, ReadInvite(t, k) PROVE InviteInv'
  <2>1. /\ UNCHANGED <<created, member, invites, by, user>>
        /\ \E i \in invites : i.token = k /\ ForMe(i, user[t])
        /\ tok' = [tok EXCEPT ![t] = k] /\ pc' = [pc EXCEPT ![t] = "claim"]
    BY <1>9 DEF ReadInvite, Goes, inviteVars
  <2>2. \A s \in Threads : pc'[s] = "claim" =>
            \E i \in invites : i.token = tok'[s] /\ ForMe(i, user[s])
    BY <2>1 DEF InviteInv, AccessInv, TypeOK
  <2>3. QED
    BY <2>1, <2>2 DEF InviteInv, MembersWereLetIn
<1>10. ASSUME NEW t \in Threads, ClaimInvite(t) PROVE InviteInv'
  <2>1. user[t] \in Users /\ Finish(t) /\ UNCHANGED created
    BY <1>10 DEF ClaimInvite, AccessInv, CallersKnown
  <2>2. CASE \E i \in invites : Accepts(t, i)
    BY <1>0, <2>1, <2>2, AcceptKeepsInvites
  <2>3. CASE UNCHANGED <<invites, member, by>>
    BY <1>0, <1>1, <2>1, <2>3, QuietKeepsInvites DEF inviteVars
  <2>4. QED
    BY <1>10, <2>2, <2>3, ClaimAccepts
<1>11. QED
  BY <1>3, <1>4, <1>5, <1>6, <1>7, <1>8, <1>9, <1>10 DEF Next, Endpoint

\* Every member who is not an admin came in by an invite that he alone used.
THEOREM MembersHadInvites == Spec => []MembersWereLetIn
<1>1. InviteInv => MembersWereLetIn
  BY DEF InviteInv
<1>2. QED
  BY <1>1, InitAccessInv, NextAccessInv, InitInviteInv, NextInviteInv, PTL DEF Spec

-----------------------------------------------------------------------------
(* The refinement: creating an invite issues its token, a claim that finds *)
(* it open claims the token, and every other step is a stutter.            *)

\* Whom a token is meant for, by the invites in S that have it.
BoundIn(S, k) ==
    IF \E i \in S : i.token = k THEN (CHOOSE i \in S : i.token = k).email ELSE None

LEMMA BoundIsEmail ==
    ASSUME NEW S, Unique(S), NEW k, NEW i \in S, i.token = k
    PROVE  BoundIn(S, k) = i.email
BY DEF Unique, BoundIn

LEMMA UnissuedIsUnbound ==
    ASSUME NEW S, NEW k, \A i \in S : i.token # k
    PROVE  BoundIn(S, k) = None
BY DEF BoundIn

LEMMA BoundByInvites ==
    /\ Bound = [k \in Tokens |-> BoundIn(invites, k)]
    /\ Bound' = [k \in Tokens |-> BoundIn(invites', k)]
BY DEF Bound, BoundIn

LEMMA InitClaims == Init => Claims!Init
BY DEF Init, Claims!Init, Bound, Issued

LEMMA IssuesToken ==
    ASSUME AccessInv, InviteInv, InviteInv', NEW k \in Tokens, NEW w, NEW r,
           NEW to \in Users \cup {None}, NEW t, CreateInvite(t, k, w, r, to)
    PROVE  Claims!Issue(k, to)
<1> DEFINE new == [token |-> k, workspace |-> w, role |-> r, email |-> to,
                   accepted |-> FALSE]
<1>1. /\ invites' = invites \cup {new} /\ UNCHANGED by
      /\ \A i \in invites : i.token # k
  BY DEF CreateInvite
<1>2. new.token = k /\ new.email = to
  OBVIOUS
<1>3. k \notin Issued
  BY <1>1 DEF Issued
<1>4. Issued' = Issued \cup {k}
  <2>1. ASSUME NEW i \in invites' PROVE i.token \in Issued \cup {k}
    BY <1>1, <1>2 DEF Issued
  <2>2. ASSUME NEW i \in invites PROVE i.token \in Issued'
    <3>1. i \in invites'
      BY <1>1
    <3>2. QED
      BY <3>1 DEF Issued
  <2>3. k \in Issued'
    <3>1. new \in invites'
      BY <1>1
    <3>2. QED
      BY <1>2, <3>1 DEF Issued
  <2>4. Issued' \subseteq Issued \cup {k} /\ Issued \subseteq Issued'
    BY <2>1, <2>2 DEF Issued
  <2>5. QED
    BY <2>3, <2>4
<1>5. Bound' = [Bound EXCEPT ![k] = to]
  <2>1. \A x \in Tokens : BoundIn(invites', x) = IF x = k THEN to ELSE BoundIn(invites, x)
    <3>1. SUFFICES ASSUME NEW x \in Tokens
                   PROVE  BoundIn(invites', x) = IF x = k THEN to ELSE BoundIn(invites, x)
      OBVIOUS
    <3>2. CASE x = k
      <4>1. new \in invites' /\ new.token = x
        BY <1>1, <1>2, <3>2
      <4>2. BoundIn(invites', x) = new.email
        BY <4>1, BoundIsEmail DEF InviteInv
      <4>3. QED
        BY <1>2, <3>2, <4>2
    <3>3. CASE x # k /\ \E i \in invites : i.token = x
      <4>1. PICK i \in invites : i.token = x
        BY <3>3
      <4>2. i \in invites'
        BY <1>1
      <4>3. BoundIn(invites, x) = i.email
        BY <4>1, BoundIsEmail DEF InviteInv
      <4>4. BoundIn(invites', x) = i.email
        BY <4>1, <4>2, BoundIsEmail DEF InviteInv
      <4>5. QED
        BY <3>3, <4>3, <4>4
    <3>4. CASE x # k /\ \A i \in invites : i.token # x
      <4>1. \A i \in invites' : i.token # x
        BY <1>1, <1>2, <3>4
      <4>2. BoundIn(invites, x) = None /\ BoundIn(invites', x) = None
        BY <3>4, <4>1, UnissuedIsUnbound
      <4>3. QED
        BY <3>4, <4>2
    <3>5. QED
      BY <3>2, <3>3, <3>4
  <2>2. QED
    BY <2>1, BoundByInvites
<1>6. QED
  BY <1>1, <1>3, <1>4, <1>5 DEF Claims!Issue

LEMMA ClaimsToken ==
    ASSUME AccessInv, InviteInv, InviteInv', NEW t \in Threads, NEW i \in invites,
           Accepts(t, i), pc[t] = "claim"
    PROVE  Claims!Claim(i.token, user[t])
<1> DEFINE j == [i EXCEPT !.accepted = TRUE]
<1>1. j.token = i.token /\ j.email = i.email
  BY AcceptedRow
<1>2. invites' = (invites \ {i}) \cup {j} /\ i.token = tok[t] /\ ~i.accepted
  BY DEF Accepts
<1>3. i.token \in Tokens
  BY DEF AccessInv, TypeOK
<1>4. by[i.token] = None
  BY <1>2 DEF InviteInv
<1>5. Bound[i.token] \in {None, user[t]}
  <2>1. BoundIn(invites, i.token) = i.email
    BY BoundIsEmail DEF InviteInv
  <2>2. PICK x \in invites : x.token = tok[t] /\ ForMe(x, user[t])
    BY DEF InviteInv
  <2>3. x = i
    BY <1>2, <2>2 DEF InviteInv, Unique
  <2>4. QED
    BY <1>3, <2>1, <2>2, <2>3, BoundByInvites DEF ForMe
<1>6. i.token \in Issued /\ Issued' = Issued
  <2>1. ASSUME NEW y \in invites' PROVE y.token \in Issued
    BY <1>1, <1>2 DEF Issued
  <2>2. ASSUME NEW y \in invites PROVE y.token \in Issued'
    <3>1. CASE y = i
      <4>1. j \in invites'
        BY <1>2
      <4>2. QED
        BY <1>1, <3>1, <4>1 DEF Issued
    <3>2. CASE y # i
      <4>1. y \in invites'
        BY <1>2, <3>2
      <4>2. QED
        BY <4>1 DEF Issued
    <3>3. QED
      BY <3>1, <3>2
  <2>3. Issued' \subseteq Issued /\ Issued \subseteq Issued'
    BY <2>1, <2>2 DEF Issued
  <2>4. i.token \in Issued
    BY DEF Issued
  <2>5. QED
    BY <2>3, <2>4
<1>7. Bound' = Bound
  <2>1. \A x \in Tokens : BoundIn(invites', x) = BoundIn(invites, x)
    <3>1. SUFFICES ASSUME NEW x \in Tokens PROVE BoundIn(invites', x) = BoundIn(invites, x)
      OBVIOUS
    <3>2. CASE x = i.token
      <4>1. j \in invites' /\ j.token = x
        BY <1>1, <1>2, <3>2
      <4>2. BoundIn(invites, x) = i.email
        BY <3>2, BoundIsEmail DEF InviteInv
      <4>3. Unique(invites')
        BY DEF InviteInv
      <4>4. BoundIn(invites', x) = j.email
        <5> HIDE DEF j
        <5> QED
          BY <4>1, <4>3, BoundIsEmail
      <4>5. QED
        BY <1>1, <4>2, <4>4
    <3>3. CASE x # i.token /\ \E y \in invites : y.token = x
      <4>1. PICK y \in invites : y.token = x
        BY <3>3
      <4>2. y \in invites'
        BY <1>2, <3>3, <4>1
      <4>3. BoundIn(invites, x) = y.email
        BY <4>1, BoundIsEmail DEF InviteInv
      <4>4. BoundIn(invites', x) = y.email
        BY <4>1, <4>2, BoundIsEmail DEF InviteInv
      <4>5. QED
        BY <4>3, <4>4
    <3>4. CASE \A y \in invites : y.token # x
      <4>1. \A y \in invites' : y.token # x
        BY <1>1, <1>2, <3>4
      <4>2. QED
        BY <3>4, <4>1, UnissuedIsUnbound
    <3>5. QED
      BY <3>2, <3>3, <3>4
  <2>2. QED
    BY <2>1, BoundByInvites
<1>8. by' = [by EXCEPT ![i.token] = user[t]]
  BY <1>2 DEF Accepts
<1>9. QED
  BY <1>4, <1>5, <1>6, <1>7, <1>8 DEF Claims!Claim

LEMMA NextClaims ==
    AccessInv /\ InviteInv /\ InviteInv' /\ [Next]_vars
        => [Claims!Next]_<<Bound, Issued, by>>
<1> SUFFICES ASSUME AccessInv, InviteInv, InviteInv', [Next]_vars
             PROVE  Claims!Next \/ UNCHANGED <<Bound, Issued, by>>
  OBVIOUS
<1>1. UNCHANGED <<invites, by>> => UNCHANGED <<Bound, Issued, by>>
  BY DEF Bound, Issued
<1>2. CASE UNCHANGED vars
  BY <1>1, <1>2 DEF vars, inviteVars
<1>3. ASSUME NEW t \in Threads, NEW u, NEW asked, Request(t, u, asked)
      PROVE  UNCHANGED <<Bound, Issued, by>>
  BY <1>1, <1>3 DEF Request, inviteVars
<1>4. ASSUME NEW t \in Threads,
             Provision(t) \/ CreateWorkspace(t) \/ Leave(t) \/ Crash(t)
      PROVE  UNCHANGED <<Bound, Issued, by>>
  BY <1>1, <1>4 DEF Provision, CreateWorkspace, Leave, Crash, inviteVars
<1>5. ASSUME NEW t \in Threads, NEW k \in Tokens, NEW w, NEW r,
             NEW to \in Users \cup {None}, CreateInvite(t, k, w, r, to)
      PROVE  Claims!Next
  <2>1. Claims!Issue(k, to)
    BY <1>5, IssuesToken
  <2>2. QED
    BY <2>1 DEF Claims!Next
<1>6. ASSUME NEW t \in Threads, NEW k \in Tokens, ReadInvite(t, k)
      PROVE  UNCHANGED <<Bound, Issued, by>>
  BY <1>1, <1>6 DEF ReadInvite, inviteVars
<1>7. ASSUME NEW t \in Threads, ClaimInvite(t)
      PROVE  Claims!Next \/ UNCHANGED <<Bound, Issued, by>>
  <2>1. ASSUME NEW i \in invites, Accepts(t, i) PROVE Claims!Next
    <3>1. i.token \in Tokens /\ user[t] \in Users /\ pc[t] = "claim"
      BY <1>7 DEF ClaimInvite, AccessInv, TypeOK, CallersKnown
    <3>2. Claims!Claim(i.token, user[t])
      BY <2>1, <3>1, ClaimsToken
    <3>3. QED
      BY <3>1, <3>2 DEF Claims!Next
  <2>2. QED
    BY <1>1, <1>7, <2>1, ClaimAccepts
<1>8. QED
  BY <1>2, <1>3, <1>4, <1>5, <1>6, <1>7 DEF Next, Endpoint

\* Each invite lets one user in, once, and only the one it is meant for.
THEOREM InvitesAreClaims == Spec => ClaimsSpec
BY InitAccessInv, NextAccessInv, InitInviteInv, NextInviteInv, InitClaims, NextClaims, PTL
   DEF Spec, ClaimsSpec, Claims!Spec

-----------------------------------------------------------------------------
(* Personal workspaces: one request at a time is about to provision, and   *)
(* its caller has none.                                                    *)

PersonalInv ==
    /\ \A u \in Users : \A w \in personal[u] : member[w][u] # None
    /\ \A s, t \in Threads : pc[s] = "provision" /\ pc[t] = "provision" => s = t
    /\ \A t \in Threads : pc[t] = "provision" => personal[user[t]] = {}
    /\ \A u \in Users : \E w \in WsIds \cup {0} : personal[u] \subseteq {w}

LEMMA InitPersonalInv == Init => PersonalInv
BY DEF Init, PersonalInv

LEMMA FinishKeepsPersonal ==
    ASSUME AccessInv, PersonalInv, NEW t \in Threads, Finish(t), UNCHANGED personal,
           \A w \in WsIds, u \in Users : member[w][u] # None => member'[w][u] # None
    PROVE  PersonalInv'
BY DEF AccessInv, TypeOK, PersonalInv, Finish, Goes

\* No step takes a member away.
LEMMA NextKeepsMembers ==
    AccessInv /\ [Next]_vars =>
        \A w \in WsIds, u \in Users : member[w][u] # None => member'[w][u] # None
<1> SUFFICES ASSUME AccessInv, [Next]_vars
             PROVE  \A w \in WsIds, u \in Users : member[w][u] # None => member'[w][u] # None
  OBVIOUS
<1>1. member \in [WsIds -> [Users -> WS_ROLES \cup {None}]]
  BY DEF AccessInv, TypeOK
<1>2. ASSUME NEW v, NEW x, NEW r \in WS_ROLES, member' = [member EXCEPT ![v][x] = r]
      PROVE  \A w \in WsIds, u \in Users : member[w][u] # None => member'[w][u] # None
  BY <1>1, <1>2, WorkspacesAssumption
<1>3. ASSUME NEW u, NewWorkspace(u)
      PROVE  \E v : member' = [member EXCEPT ![v][u] = "admin"]
  BY <1>3 DEF NewWorkspace
<1>4. ASSUME NEW t \in Threads, ClaimInvite(t)
      PROVE  \A w \in WsIds, u \in Users : member[w][u] # None => member'[w][u] # None
  <2>1. ASSUME NEW i \in invites, Accepts(t, i)
        PROVE  \E v : \E r \in WS_ROLES : member' = [member EXCEPT ![v][user[t]] = r]
    <3>1. i.role \in WS_ROLES
      BY DEF AccessInv, TypeOK
    <3>2. QED
      BY <2>1, <3>1 DEF Accepts
  <2>2. QED
    BY <1>2, <1>4, <2>1, ClaimAccepts
<1>5. "admin" \in WS_ROLES
  BY DEF WS_ROLES
<1>6. ASSUME NEW t \in Threads, Provision(t) \/ CreateWorkspace(t)
      PROVE  \A w \in WsIds, u \in Users : member[w][u] # None => member'[w][u] # None
  <2>1. NewWorkspace(user[t])
    BY <1>6 DEF Provision, CreateWorkspace
  <2>2. PICK v : member' = [member EXCEPT ![v][user[t]] = "admin"]
    BY <1>3, <2>1
  <2>3. QED
    BY <1>2, <1>5, <2>2
<1>7. CASE UNCHANGED member
  BY <1>7
<1>8. QED
  BY <1>4, <1>6, <1>7 DEF Next, vars, Endpoint, Request, Leave, CreateInvite, ReadInvite, Crash

LEMMA NextPersonalInv == AccessInv /\ PersonalInv /\ [Next]_vars => PersonalInv'
<1> SUFFICES ASSUME AccessInv, PersonalInv, [Next]_vars PROVE PersonalInv'
  OBVIOUS
<1>1. \A w \in WsIds, u \in Users : member[w][u] # None => member'[w][u] # None
  BY NextKeepsMembers
<1>2. CASE UNCHANGED vars
  BY <1>2 DEF vars, threadVars, PersonalInv
<1>3. ASSUME NEW t \in Threads, NEW u \in Users, NEW asked, Request(t, u, asked)
      PROVE  PersonalInv'
  <2>1. /\ \A s \in Threads : pc[s] # "provision"
        /\ user' = [user EXCEPT ![t] = u] /\ UNCHANGED <<personal, member>>
        /\ IF NeedsWorkspace(u) THEN pc' = [pc EXCEPT ![t] = "provision"]
           ELSE pc' = [pc EXCEPT ![t] = "in"]
    BY <1>3 DEF Request, EventLoopIsFree, Goes, Enters
  <2>2. NeedsWorkspace(u) => personal[u] = {}
    BY DEF NeedsWorkspace, Mine, PersonalInv, AccessInv, TypeOK
  <2>3. QED
    BY <1>3, <2>1, <2>2 DEF PersonalInv, AccessInv, TypeOK
<1>4. ASSUME NEW t \in Threads, Provision(t)
      PROVE  PersonalInv'
  <2> DEFINE u == user[t]
  <2>1. /\ pc[t] = "provision" /\ u \in Users /\ pc' = [pc EXCEPT ![t] = "in"]
        /\ personal' = [personal EXCEPT ![u] = @ \cup {created'}] /\ UNCHANGED user
    BY <1>4 DEF Provision, Goes, Enters, AccessInv, CallersKnown
  <2>2. created' \in WsIds /\ member'[created'][u] # None
    <3>1. created' \in WsIds /\ member \in [WsIds -> [Users -> WS_ROLES \cup {None}]]
      BY <1>4, WorkspacesAssumption DEF Provision, NewWorkspace, AccessInv, TypeOK, WsIds
    <3>2. member' = [member EXCEPT ![created'][u] = "admin"] /\ None # "admin"
      BY <1>4, WorkspacesAssumption DEF Provision, NewWorkspace, WS_ROLES
    <3>3. QED
      BY <2>1, <3>1, <3>2
  <2>3. \A v \in Users : \A w \in personal'[v] : member'[w][v] # None
    BY <1>1, <2>1, <2>2 DEF PersonalInv, AccessInv, TypeOK
  <2>4. \A s \in Threads : pc'[s] # "provision"
    BY <2>1 DEF PersonalInv, AccessInv, TypeOK
  <2>5. \A v \in Users : \E w \in WsIds \cup {0} : personal'[v] \subseteq {w}
    <3>1. personal[u] = {}
      BY <2>1 DEF PersonalInv
    <3>2. \A v \in Users : personal'[v] = IF v = u THEN {created'} ELSE personal[v]
      BY <2>1, <3>1 DEF AccessInv, TypeOK
    <3>3. QED
      BY <2>2, <3>2 DEF PersonalInv
  <2>6. QED
    BY <2>3, <2>4, <2>5 DEF PersonalInv
<1>5. ASSUME NEW t \in Threads, Finish(t), UNCHANGED personal
      PROVE  PersonalInv'
  BY <1>1, <1>5, FinishKeepsPersonal
<1>6. ASSUME NEW t \in Threads, NEW k \in Tokens, ReadInvite(t, k)
      PROVE  PersonalInv'
  BY <1>6 DEF ReadInvite, Goes, PersonalInv, AccessInv, TypeOK
<1>7. QED
  BY <1>2, <1>3, <1>4, <1>5, <1>6 DEF Next, Endpoint, CreateWorkspace, Leave, CreateInvite,
     ClaimInvite, Crash

\* However requests overlap and die, nobody is given two personal workspaces.
THEOREM PersonalIsOne == Spec => []OnePersonalWorkspace
<1>1. Spec => []PersonalInv
  BY InitAccessInv, NextAccessInv, InitPersonalInv, NextPersonalInv, PTL DEF Spec
<1>2. PersonalInv => OnePersonalWorkspace
  <2>1. SUFFICES ASSUME PersonalInv, NEW u \in Users
                 PROVE  Cardinality(personal[u]) <= 1
    BY DEF OnePersonalWorkspace
  <2>2. PICK w \in WsIds \cup {0} : personal[u] \subseteq {w}
    BY <2>1 DEF PersonalInv
  <2>3. personal[u] = {} \/ personal[u] = {w}
    BY <2>2
  <2>4. QED
    BY <2>3, FS_EmptySet, FS_Singleton
<1>3. QED
  BY <1>1, <1>2, PTL

=============================================================================
