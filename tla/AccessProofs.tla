---------------------------- MODULE AccessProofs ----------------------------
(***************************************************************************)
(* Theorems about who may do what and the trail of what was done: Roles    *)
(* for any users, threads, allowlist and default role, and AuditLog for    *)
(* any workspaces, recorders, bodies and e-mails and any number of rows.   *)
(***************************************************************************)
EXTENDS Roles, AuditLog, FiniteSetTheorems, SequenceTheorems, WellFoundedInduction, TLAPS

-----------------------------------------------------------------------------
(* Types.  A request that is under way has a user, and the role it goes on *)
(* with is a role.                                                         *)

Stages == {"idle", "lookup", "count", "insert", "cache", "in", "invalidate", "google"}

RequestInv ==
    \A t \in Threads :
        /\ pc[t] # "idle" => user[t] \in Users
        /\ pc[t] \in {"insert", "cache", "in"} => got[t] \in VALID_ROLES

Types == TypeOK /\ RequestInv

LEMMA BecomesTypes ==
    ASSUME Types, NEW t \in Threads, NEW where \in Stages, NEW who \in Users \cup {None},
           NEW what \in VALID_ROLES \cup {None}, Becomes(t, where, who, what),
           where # "idle" => who \in Users,
           where \in {"insert", "cache", "in"} => what \in VALID_ROLES
    PROVE  /\ pc' \in [Threads -> Stages] /\ user' \in [Threads -> Users \cup {None}]
           /\ got' \in [Threads -> VALID_ROLES \cup {None}]
           /\ RequestInv'
<1>1. /\ pc' \in [Threads -> Stages] /\ user' \in [Threads -> Users \cup {None}]
      /\ got' \in [Threads -> VALID_ROLES \cup {None}]
  BY DEF Types, TypeOK, Becomes, Stages
<1>2. RequestInv'
  <2>1. /\ pc'[t] = where /\ user'[t] = who /\ got'[t] = what
        /\ \A s \in Threads \ {t} : pc'[s] = pc[s] /\ user'[s] = user[s] /\ got'[s] = got[s]
    BY DEF Types, TypeOK, Becomes
  <2>2. QED
    BY <2>1 DEF Types, RequestInv
<1>3. QED
  BY <1>1, <1>2

LEMMA InitTypes == Init => Types
BY DEF Init, Types, TypeOK, RequestInv

LEMMA NextTypes == Types /\ [Next]_vars => Types'
<1> SUFFICES ASSUME Types, [Next]_vars PROVE Types'
  OBVIOUS
<1>0. /\ \A u \in Users : TargetRole(u) \in VALID_ROLES
      /\ FirstRole \in VALID_ROLES /\ Assignable \subseteq VALID_ROLES
  BY RolesAssumption DEF TargetRole, FirstRole, Assignable, VALID_ROLES
<1>1. CASE UNCHANGED vars
  BY <1>1 DEF vars, Types, TypeOK, RequestInv
<1>2. ASSUME NEW t \in Threads, NEW u \in Users, Request(t, u) \/ GoogleSignIn(t, u),
             UNCHANGED overlap
      PROVE  Types'
  <2>1. cache[u] \in VALID_ROLES \cup {None} /\ role[u] \in VALID_ROLES \cup {None}
    BY DEF Types, TypeOK
  <2>2. QED
    BY <1>2, <2>1, BecomesTypes DEF Request, GoogleSignIn, Types, TypeOK, Stages
<1>3. ASSUME NEW t \in Threads, Lookup(t) \/ CountRoles(t) \/ Leave(t), UNCHANGED overlap
      PROVE  Types'
  <2>1. user[t] \in Users /\ role[user[t]] \in VALID_ROLES \cup {None}
    BY <1>3 DEF Types, TypeOK, RequestInv, Lookup, CountRoles, Leave
  <2>2. QED
    BY <1>0, <1>3, <2>1, BecomesTypes, ZenonT(60)
       DEF Lookup, CountRoles, Leave, Finish, Types, TypeOK, Stages
<1>4. ASSUME NEW t \in Threads, InsertRole(t) \/ CacheRole(t), UNCHANGED overlap
      PROVE  Types'
  <2>1. user[t] \in Users /\ got[t] \in VALID_ROLES
    BY <1>4 DEF Types, RequestInv, InsertRole, CacheRole
  <2>2. \/ Becomes(t, "cache", user[t], got[t])
        \/ Becomes(t, "idle", None, None)
        \/ Becomes(t, "in", user[t], got[t])
    BY <1>4 DEF InsertRole, CacheRole, Finish
  <2>3. /\ pc' \in [Threads -> Stages] /\ user' \in [Threads -> Users \cup {None}]
        /\ got' \in [Threads -> VALID_ROLES \cup {None}]
        /\ RequestInv'
    BY <2>1, <2>2, BecomesTypes DEF Stages
  <2>4. /\ role' \in [Users -> VALID_ROLES \cup {None}]
        /\ cache' \in [Users -> VALID_ROLES \cup {None}]
        /\ first' \subseteq Users
    BY <1>4, <2>1 DEF InsertRole, CacheRole, Types, TypeOK
  <2>5. QED
    BY <1>4, <2>3, <2>4 DEF Types, TypeOK, Stages
<1>5. ASSUME NEW t \in Threads, NEW v \in Users, NEW r \in Assignable, SetRole(t, v, r),
             UNCHANGED overlap
      PROVE  Types'
  <2>1. role' \in [Users -> VALID_ROLES \cup {None}]
    BY <1>0, <1>5 DEF SetRole, Types, TypeOK
  <2>2. QED
    BY <1>5, <2>1, BecomesTypes DEF SetRole, Types, TypeOK, Stages
<1>6. ASSUME NEW t \in Threads, InvalidateRoleCache(t), UNCHANGED overlap PROVE Types'
  <2>1. cache' \in [Users -> VALID_ROLES \cup {None}]
    BY <1>6 DEF InvalidateRoleCache, CacheWithout, Types, TypeOK
  <2>2. QED
    BY <1>6, <2>1, BecomesTypes DEF InvalidateRoleCache, Finish, Types, TypeOK, Stages
<1>7. ASSUME NEW t \in Threads, RaiseOrCreate(t), UNCHANGED overlap PROVE Types'
  <2>1. user[t] \in Users
    BY <1>7 DEF Types, RequestInv, RaiseOrCreate
  <2>2. role' \in [Users -> VALID_ROLES \cup {None}]
    BY <1>0, <1>7, <2>1 DEF RaiseOrCreate, Types, TypeOK
  <2>3. QED
    BY <1>7, <2>1, <2>2, BecomesTypes DEF RaiseOrCreate, Finish, Types, TypeOK, Stages
<1>8. ASSUME NEW u \in Users, Expire(u), UNCHANGED overlap PROVE Types'
  BY <1>8 DEF Expire, Types, TypeOK, RequestInv
<1>9. QED
  BY <1>1, <1>2, <1>3, <1>4, <1>5, <1>6, <1>7, <1>8 DEF Next, Step

\* Every reachable role, cached role and request is well formed.
THEOREM TypeCorrect == Spec => []TypeOK
<1>1. Types => TypeOK
  BY DEF Types
<1>2. QED
  BY <1>1, InitTypes, NextTypes, PTL DEF Spec

-----------------------------------------------------------------------------
(* The first user, however requests overlap.  The middleware resolves one  *)
(* role at a time, and no step deletes a row: a request that counted none  *)
(* inserts before anybody else is made admin for being the first.          *)

FirstInv ==
    /\ \A s, t \in Threads : pc[s] \in Resolving /\ pc[t] \in Resolving => s = t
    /\ \A t \in Threads : pc[t] = "insert" /\ got[t] = "admin" => first = {}
    /\ first = {} \/ \E u \in Users : first = {u}
    /\ \A u \in first : role[u] # None

LEMMA InitFirst == Init => FirstInv
BY DEF Init, FirstInv, Resolving

\* A row of app_roles stays.
LEMMA RowsStay ==
    Types /\ [Next]_vars => \A u \in Users : role[u] # None => role'[u] # None
<1> SUFFICES ASSUME Types, [Next]_vars, NEW u \in Users, role[u] # None
             PROVE  role'[u] # None
  OBVIOUS
<1>1. ASSUME NEW v, NEW r \in VALID_ROLES, role' = [role EXCEPT ![v] = r]
      PROVE  role'[u] # None
  BY <1>1, RolesAssumption DEF Types, TypeOK
<1>2. ASSUME NEW t \in Threads, InsertRole(t) PROVE role'[u] # None
  <2>1. got[t] \in VALID_ROLES
    BY <1>2 DEF Types, RequestInv, InsertRole
  <2>2. QED
    BY <1>1, <1>2, <2>1 DEF InsertRole
<1>3. ASSUME NEW t \in Threads, NEW v \in Users, NEW r \in Assignable, SetRole(t, v, r)
      PROVE  role'[u] # None
  <2>1. r \in VALID_ROLES /\ role' = [role EXCEPT ![v] = r]
    BY <1>3 DEF SetRole, Assignable, VALID_ROLES
  <2>2. QED
    BY <1>1, <2>1
<1>4. ASSUME NEW t \in Threads, RaiseOrCreate(t) PROVE role'[u] # None
  <2>1. TargetRole(user[t]) \in VALID_ROLES
    BY RolesAssumption DEF TargetRole, VALID_ROLES
  <2>2. role' = role \/ role' = [role EXCEPT ![user[t]] = TargetRole(user[t])]
    BY <1>4 DEF RaiseOrCreate
  <2>3. QED
    BY <1>1, <2>1, <2>2
<1>5. CASE UNCHANGED role
  BY <1>5
<1>6. QED
  BY <1>2, <1>3, <1>4, <1>5
     DEF Next, Step, vars, Request, GoogleSignIn, Lookup, CountRoles, CacheRole, Leave,
         InvalidateRoleCache, Expire

\* A request moves on, and enters the middleware only if nobody is in it.
LEMMA MovesOn ==
    ASSUME Types, FirstInv, NEW t \in Threads, NEW where, NEW who, NEW what,
           Becomes(t, where, who, what), UNCHANGED first,
           \A u \in Users : role[u] # None => role'[u] # None,
           where \in Resolving => pc[t] \in Resolving \/ EventLoopIsFree,
           where = "insert" /\ what = "admin" => first = {}
    PROVE  FirstInv'
<1>1. /\ pc'[t] = where /\ got'[t] = what
      /\ \A s \in Threads \ {t} : pc'[s] = pc[s] /\ got'[s] = got[s]
  BY DEF Becomes, Types, TypeOK
<1>2. \A s, r \in Threads : pc'[s] \in Resolving /\ pc'[r] \in Resolving => s = r
  BY <1>1 DEF FirstInv, EventLoopIsFree
<1>3. \A s \in Threads : pc'[s] = "insert" /\ got'[s] = "admin" => first = {}
  BY <1>1 DEF FirstInv
<1>4. \A u \in first : role'[u] # None
  BY DEF FirstInv, Types, TypeOK
<1>5. QED
  BY <1>2, <1>3, <1>4 DEF FirstInv

LEMMA NextFirst == Types /\ FirstInv /\ [Next]_vars => FirstInv'
<1> SUFFICES ASSUME Types, FirstInv, [Next]_vars PROVE FirstInv'
  OBVIOUS
<1>0. \A u \in Users : role[u] # None => role'[u] # None
  BY RowsStay
<1>1. CASE UNCHANGED vars
  BY <1>1 DEF vars, FirstInv
<1>2. ASSUME NEW t \in Threads, NEW u \in Users, Request(t, u) PROVE FirstInv'
  <2>1. PICK where, what : where \in {"in", "lookup"} /\ Becomes(t, where, u, what)
    BY <1>2 DEF Request
  <2>2. QED
    BY <1>0, <1>2, <2>1, MovesOn DEF Request
<1>3. ASSUME NEW t \in Threads, NEW u \in Users, GoogleSignIn(t, u) PROVE FirstInv'
  BY <1>0, <1>3, MovesOn DEF GoogleSignIn, Resolving
<1>4. ASSUME NEW t \in Threads, Lookup(t) PROVE FirstInv'
  BY <1>0, <1>4, MovesOn DEF Lookup, Resolving
<1>5. ASSUME NEW t \in Threads, CountRoles(t) PROVE FirstInv'
  <2>1. FirstRole = "admin" => first = {}
    BY DEF FirstRole, FirstInv, Types, TypeOK
  <2>2. QED
    BY <1>0, <1>5, <2>1, MovesOn DEF CountRoles, Resolving
<1>6. ASSUME NEW t \in Threads, InsertRole(t) PROVE FirstInv'
  <2>1. user[t] \in Users /\ got[t] \in VALID_ROLES /\ pc[t] = "insert" /\ pc[t] \in Resolving
    BY <1>6 DEF Types, RequestInv, InsertRole, Resolving
  <2>2. CASE UNCHANGED first
    <3>1. PICK where, who, what : where \in {"cache", "idle"} /\ Becomes(t, where, who, what)
      BY <1>6 DEF InsertRole, Finish
    <3>2. QED
      BY <1>0, <2>1, <2>2, <3>1, MovesOn
  <2>3. CASE role[user[t]] = None /\ got[t] = "admin"
    <3>1. /\ role' = [role EXCEPT ![user[t]] = got[t]]
          /\ first' = first \cup {user[t]}
          /\ Becomes(t, "cache", user[t], got[t])
      BY <1>6, <2>3 DEF InsertRole
    <3>2. first' = {user[t]}
      BY <2>1, <2>3, <3>1 DEF FirstInv
    <3>3. role'[user[t]] # None
      BY <2>1, <3>1, RolesAssumption DEF Types, TypeOK
    <3>4. pc'[t] = "cache" /\ \A s \in Threads \ {t} : pc'[s] = pc[s] /\ pc[s] \notin Resolving
      BY <2>1, <3>1 DEF Becomes, FirstInv, Types, TypeOK
    <3>5. \A s \in Threads : pc'[s] # "insert"
      BY <3>4 DEF Resolving
    <3>6. QED
      BY <2>1, <3>2, <3>3, <3>4, <3>5 DEF FirstInv
  <2>4. QED
    BY <1>6, <2>2, <2>3 DEF InsertRole
<1>7. ASSUME NEW t \in Threads, CacheRole(t) \/ Leave(t) \/ InvalidateRoleCache(t)
      PROVE  FirstInv'
  <2>1. PICK where, who, what : where \in {"in", "idle"} /\ Becomes(t, where, who, what)
    BY <1>7 DEF CacheRole, Leave, InvalidateRoleCache, Finish
  <2>2. QED
    BY <1>0, <1>7, <2>1, MovesOn DEF CacheRole, Leave, InvalidateRoleCache, Resolving
<1>8. ASSUME NEW t \in Threads, NEW v \in Users, NEW r \in Assignable, SetRole(t, v, r)
      PROVE  FirstInv'
  BY <1>0, <1>8, MovesOn DEF SetRole, Resolving
<1>9. ASSUME NEW t \in Threads, RaiseOrCreate(t) PROVE FirstInv'
  <2>1. PICK where, who, what : where \in {"invalidate", "idle"} /\ Becomes(t, where, who, what)
    BY <1>9 DEF RaiseOrCreate, Finish
  <2>2. QED
    BY <1>0, <1>9, <2>1, MovesOn DEF RaiseOrCreate, Resolving
<1>10. ASSUME NEW u \in Users, Expire(u) PROVE FirstInv'
  BY <1>10 DEF Expire, FirstInv
<1>11. QED
  BY <1>1, <1>2, <1>3, <1>4, <1>5, <1>6, <1>7, <1>8, <1>9, <1>10 DEF Next, Step

\* However requests overlap, at most one user is made admin for being the first.
THEOREM FirstAdminIsAlone == Spec => []OneBootstrapAdmin
<1>1. FirstInv => OneBootstrapAdmin
  <2>1. Cardinality({}) <= 1 /\ \A u \in Users : Cardinality({u}) <= 1
    BY FS_EmptySet, FS_Singleton
  <2>2. QED
    BY <2>1 DEF FirstInv, OneBootstrapAdmin
<1>2. QED
  BY <1>1, InitTypes, NextTypes, InitFirst, NextFirst, PTL DEF Spec

-----------------------------------------------------------------------------
(* One request at a time.  What a request has read is then still so.       *)

SerialInv ==
    \A s, t \in Threads : s # t => pc[s] = "idle" \/ pc[t] = "idle"

HeldInv ==
    \A t \in Threads : pc[t] \in {"cache", "google"} => got[t] = role[user[t]]

CacheInv ==
    \A u \in Users :
        \/ cache[u] \in {None, role[u]}
        \/ \E t \in Threads : pc[t] = "invalidate" /\ user[t] = u

OneAtATime == SerialInv /\ HeldInv /\ CacheInv

SerialRoles == ~overlap => OneAtATime

LEMMA InitSerialRoles == Init => SerialRoles
BY DEF Init, SerialRoles, OneAtATime, SerialInv, HeldInv, CacheInv

\* What the request of t may do to the others while it is the only one.
LEMMA OneBecomes ==
    ASSUME Types, SerialInv, NEW t \in Threads, NEW where, NEW who, NEW what,
           Becomes(t, where, who, what),
           pc[t] # "idle" \/ \A s \in Threads : pc[s] = "idle"
    PROVE  /\ SerialInv'
           /\ pc'[t] = where /\ user'[t] = who /\ got'[t] = what
           /\ \A s \in Threads \ {t} : pc[s] = "idle" /\ pc'[s] = "idle"
<1>1. /\ pc'[t] = where /\ user'[t] = who /\ got'[t] = what
      /\ \A s \in Threads \ {t} : pc'[s] = pc[s]
  BY DEF Becomes, Types, TypeOK
<1>2. \A s \in Threads \ {t} : pc[s] = "idle"
  BY DEF SerialInv
<1>3. QED
  BY <1>1, <1>2 DEF SerialInv

\* A step of a request that leaves the table and the cache alone.
LEMMA OnlyTheRequest ==
    ASSUME Types, OneAtATime, NEW t \in Threads, NEW where, NEW who, NEW what,
           Becomes(t, where, who, what),
           pc[t] # "idle" \/ \A s \in Threads : pc[s] = "idle",
           pc[t] # "invalidate", UNCHANGED <<role, cache, first>>,
           where \in {"cache", "google"} => what = role[who]
    PROVE  OneAtATime'
<1>1. /\ SerialInv'
      /\ pc'[t] = where /\ user'[t] = who /\ got'[t] = what
      /\ \A s \in Threads \ {t} : pc[s] = "idle" /\ pc'[s] = "idle"
  BY OneBecomes DEF OneAtATime
<1>2. HeldInv'
  BY <1>1 DEF HeldInv
<1>3. CacheInv'
  BY <1>1 DEF OneAtATime, CacheInv
<1>4. QED
  BY <1>1, <1>2, <1>3 DEF OneAtATime

LEMMA NextSerialRoles == Types /\ SerialRoles /\ [Next]_vars => SerialRoles'
<1> SUFFICES ASSUME Types, SerialRoles, [Next]_vars, ~overlap PROVE OneAtATime'
  BY DEF SerialRoles, Next, vars
<1>0. OneAtATime /\ None \notin VALID_ROLES
  BY RolesAssumption DEF SerialRoles
<1>1. CASE UNCHANGED vars
  BY <1>0, <1>1 DEF vars, OneAtATime, SerialInv, HeldInv, CacheInv
<1>2. ASSUME NEW t \in Threads, NEW u \in Users, Request(t, u) \/ GoogleSignIn(t, u)
      PROVE  OneAtATime'
  BY <1>0, <1>2, OnlyTheRequest DEF Request, GoogleSignIn, MayStart
<1>3. ASSUME NEW t \in Threads, Lookup(t) \/ CountRoles(t) \/ Leave(t)
      PROVE  OneAtATime'
  BY <1>0, <1>3, OnlyTheRequest DEF Lookup, CountRoles, Leave, Finish
<1>4. ASSUME NEW t \in Threads, InsertRole(t) PROVE OneAtATime'
  <2>1. user[t] \in Users /\ got[t] \in VALID_ROLES /\ pc[t] = "insert"
    BY <1>4 DEF Types, RequestInv, InsertRole
  <2>2. CASE role[user[t]] # None
    BY <1>0, <1>4, <2>1, <2>2, OnlyTheRequest DEF InsertRole, Finish
  <2>3. CASE role[user[t]] = None
    <3>1. /\ role' = [role EXCEPT ![user[t]] = got[t]] /\ cache' = cache
          /\ Becomes(t, "cache", user[t], got[t])
      BY <1>4, <2>3 DEF InsertRole
    <3>2. /\ SerialInv'
          /\ pc'[t] = "cache" /\ user'[t] = user[t] /\ got'[t] = got[t]
          /\ \A s \in Threads \ {t} : pc[s] = "idle" /\ pc'[s] = "idle"
      BY <1>0, <2>1, <3>1, OneBecomes DEF OneAtATime
    <3>3. \A u \in Users : role'[u] = IF u = user[t] THEN got[t] ELSE role[u]
      BY <2>1, <3>1 DEF Types, TypeOK
    <3>4. HeldInv'
      BY <2>1, <3>2, <3>3 DEF HeldInv
    <3>5. CacheInv'
      <4>1. ASSUME NEW u \in Users PROVE cache'[u] \in {None, role'[u]}
        <5>1. cache[u] \in {None, role[u]}
          BY <1>0, <2>1, <3>2 DEF OneAtATime, CacheInv
        <5>2. QED
          BY <2>3, <3>1, <3>3, <5>1
      <4>2. QED
        BY <4>1 DEF CacheInv
    <3>6. QED
      BY <3>2, <3>4, <3>5 DEF OneAtATime
  <2>4. QED
    BY <2>2, <2>3
<1>5. ASSUME NEW t \in Threads, CacheRole(t) PROVE OneAtATime'
  <2>1. user[t] \in Users /\ pc[t] = "cache" /\ got[t] = role[user[t]]
    BY <1>0, <1>5 DEF Types, RequestInv, CacheRole, OneAtATime, HeldInv
  <2>2. /\ UNCHANGED <<role, first>> /\ cache' = [cache EXCEPT ![user[t]] = got[t]]
        /\ Becomes(t, "in", user[t], got[t])
    BY <1>5 DEF CacheRole
  <2>3. /\ SerialInv' /\ pc'[t] = "in"
        /\ \A s \in Threads \ {t} : pc[s] = "idle" /\ pc'[s] = "idle"
    BY <1>0, <2>1, <2>2, OneBecomes DEF OneAtATime
  <2>4. HeldInv'
    BY <2>3 DEF HeldInv
  <2>5. CacheInv'
    <3>1. ASSUME NEW u \in Users PROVE cache'[u] \in {None, role'[u]}
      <4>1. cache[u] \in {None, role[u]}
        BY <1>0, <2>1, <2>3 DEF OneAtATime, CacheInv
      <4>2. cache'[u] = IF u = user[t] THEN got[t] ELSE cache[u]
        BY <2>2 DEF Types, TypeOK
      <4>3. QED
        BY <2>1, <2>2, <4>1, <4>2
    <3>2. QED
      BY <3>1 DEF CacheInv
  <2>6. QED
    BY <2>3, <2>4, <2>5 DEF OneAtATime
<1>6. ASSUME NEW t \in Threads, NEW v \in Users, NEW r \in VALID_ROLES, pc[t] # "idle",
             pc[t] # "invalidate", role' = [role EXCEPT ![v] = r],
             Becomes(t, "invalidate", v, None), UNCHANGED <<cache, first>>
      PROVE  OneAtATime'
  <2>1. /\ SerialInv' /\ pc'[t] = "invalidate" /\ user'[t] = v
        /\ \A s \in Threads \ {t} : pc[s] = "idle" /\ pc'[s] = "idle"
    BY <1>0, <1>6, OneBecomes DEF OneAtATime
  <2>2. \A u \in Users : role'[u] = IF u = v THEN r ELSE role[u]
    BY <1>6 DEF Types, TypeOK
  <2>3. HeldInv'
    BY <2>1 DEF HeldInv
  <2>4. CacheInv'
    <3>1. ASSUME NEW u \in Users, u # v PROVE cache'[u] \in {None, role'[u]}
      <4>1. cache[u] \in {None, role[u]}
        BY <1>0, <1>6, <2>1 DEF OneAtATime, CacheInv
      <4>2. QED
        BY <1>6, <2>2, <3>1, <4>1
    <3>2. QED
      BY <2>1, <3>1 DEF CacheInv
  <2>5. QED
    BY <2>1, <2>3, <2>4 DEF OneAtATime
<1>7. ASSUME NEW t \in Threads, NEW v \in Users, NEW r \in Assignable, SetRole(t, v, r)
      PROVE  OneAtATime'
  BY <1>6, <1>7 DEF SetRole, Assignable, VALID_ROLES
<1>8. ASSUME NEW t \in Threads, InvalidateRoleCache(t) PROVE OneAtATime'
  <2>1. /\ pc[t] = "invalidate" /\ Becomes(t, "idle", None, None)
        /\ cache' = [cache EXCEPT ![user[t]] = None] /\ UNCHANGED <<role, first>>
    BY <1>8 DEF InvalidateRoleCache, CacheWithout, Finish
  <2>2. /\ SerialInv' /\ pc'[t] = "idle"
        /\ \A s \in Threads \ {t} : pc[s] = "idle" /\ pc'[s] = "idle"
    BY <1>0, <2>1, OneBecomes DEF OneAtATime
  <2>3. HeldInv'
    BY <2>2 DEF HeldInv
  <2>4. CacheInv'
    <3>1. ASSUME NEW u \in Users PROVE cache'[u] \in {None, role'[u]}
      <4>1. CASE u = user[t]
        BY <2>1, <4>1 DEF Types, TypeOK
      <4>2. CASE u # user[t]
        BY <1>0, <2>1, <2>2, <4>2 DEF OneAtATime, CacheInv, Types, TypeOK
      <4>3. QED
        BY <4>1, <4>2
    <3>2. QED
      BY <3>1 DEF CacheInv
  <2>5. QED
    BY <2>2, <2>3, <2>4 DEF OneAtATime
<1>9. ASSUME NEW t \in Threads, RaiseOrCreate(t) PROVE OneAtATime'
  <2>1. /\ user[t] \in Users /\ pc[t] = "google" /\ got[t] = role[user[t]]
        /\ TargetRole(user[t]) \in VALID_ROLES
    <3>1. user[t] \in Users /\ pc[t] = "google"
      BY <1>9 DEF Types, RequestInv, RaiseOrCreate
    <3>2. QED
      BY <1>0, <3>1, RolesAssumption
         DEF OneAtATime, HeldInv, TargetRole, VALID_ROLES
  <2>2. CASE got[t] # None /\ NeedsRaise(t)
    BY <1>6, <1>9, <2>1, <2>2 DEF RaiseOrCreate
  <2>3. CASE got[t] # None /\ ~NeedsRaise(t)
    BY <1>0, <1>9, <2>1, <2>3, OnlyTheRequest DEF RaiseOrCreate, Finish
  <2>4. CASE got[t] = None
    <3>1. /\ role' = [role EXCEPT ![user[t]] = TargetRole(user[t])]
          /\ Becomes(t, "idle", None, None) /\ UNCHANGED <<cache, first>>
      BY <1>9, <2>1, <2>4 DEF RaiseOrCreate, Finish
    <3>2. /\ SerialInv' /\ pc'[t] = "idle"
          /\ \A s \in Threads \ {t} : pc[s] = "idle" /\ pc'[s] = "idle"
      BY <1>0, <2>1, <3>1, OneBecomes DEF OneAtATime
    <3>3. \A u \in Users : role'[u] = IF u = user[t] THEN TargetRole(user[t]) ELSE role[u]
      BY <3>1 DEF Types, TypeOK
    <3>4. HeldInv'
      BY <3>2 DEF HeldInv
    <3>5. CacheInv'
      <4>1. ASSUME NEW u \in Users PROVE cache'[u] \in {None, role'[u]}
        <5>1. cache[u] \in {None, role[u]}
          BY <1>0, <2>1, <3>2 DEF OneAtATime, CacheInv
        <5>2. QED
          BY <2>1, <2>4, <3>1, <3>3, <5>1
      <4>2. QED
        BY <4>1 DEF CacheInv
    <3>6. QED
      BY <3>2, <3>4, <3>5 DEF OneAtATime
  <2>5. QED
    BY <2>2, <2>3, <2>4
<1>10. ASSUME NEW u \in Users, Expire(u) PROVE OneAtATime'
  <2>1. \A v \in Users : cache'[v] \in {None, cache[v]}
    BY <1>10 DEF Expire, Types, TypeOK
  <2>2. CacheInv'
    BY <1>0, <1>10, <2>1 DEF Expire, OneAtATime, CacheInv
  <2>3. QED
    BY <1>0, <1>10, <2>2 DEF Expire, OneAtATime, SerialInv, HeldInv
<1>11. QED
  BY <1>1, <1>2, <1>3, <1>4, <1>5, <1>7, <1>8, <1>9, <1>10 DEF Next, Step

\* No cached role outlives a change of role, if requests do not overlap.
THEOREM CacheFollowsTable == Spec => []CachedRoleIsCurrent
<1>1. SerialRoles => CachedRoleIsCurrent
  BY DEF SerialRoles, OneAtATime, CacheInv, CachedRoleIsCurrent
<1>2. QED
  BY <1>1, InitTypes, NextTypes, InitSerialRoles, NextSerialRoles, PTL DEF Spec

\* A Google sign-in lowers no role, if requests do not overlap.
THEOREM SignInRaises == Spec => GoogleOnlyRaises
<1> DEFINE Raises == \A t \in Threads :
          ~overlap /\ pc[t] = "google" /\ RaiseOrCreate(t) /\ role[user[t]] # None
          => Rank[role'[user[t]]] >= Rank[role[user[t]]]
<1>1. ASSUME Types, SerialRoles, [Next]_vars PROVE [Raises]_vars
  <2>1. SUFFICES ASSUME NEW t \in Threads, ~overlap, pc[t] = "google", RaiseOrCreate(t),
                        role[user[t]] # None
                 PROVE  Rank[role'[user[t]]] >= Rank[role[user[t]]]
    OBVIOUS
  <2>2. user[t] \in Users /\ got[t] = role[user[t]]
    BY <1>1, <2>1 DEF Types, RequestInv, SerialRoles, OneAtATime, HeldInv
  <2>3. role[user[t]] \in VALID_ROLES /\ TargetRole(user[t]) \in VALID_ROLES
    BY <1>1, <2>1, <2>2, RolesAssumption DEF Types, TypeOK, TargetRole, VALID_ROLES
  <2>4. \A r \in VALID_ROLES : Rank[r] \in Nat
    BY DEF Rank, VALID_ROLES
  <2>5. CASE NeedsRaise(t)
    <3>1. role'[user[t]] = TargetRole(user[t])
      BY <1>1, <2>1, <2>2, <2>5 DEF RaiseOrCreate, Types, TypeOK
    <3>2. QED
      BY <2>2, <2>3, <2>4, <2>5, <3>1 DEF NeedsRaise
  <2>6. CASE ~NeedsRaise(t)
    <3>1. role' = role
      BY <2>1, <2>2, <2>6 DEF RaiseOrCreate
    <3>2. QED
      BY <2>3, <2>4, <3>1
  <2>7. QED
    BY <2>5, <2>6
<1>2. QED
  BY <1>1, InitTypes, NextTypes, InitSerialRoles, NextSerialRoles, PTL
     DEF Spec, GoogleOnlyRaises

\* However requests overlap, the last admin goes only through a request that acts
\* on a role its user no longer has.
THEOREM LastAdminIsSafe == Spec => LastAdminGoesOnlyByStaleRole
<1> DEFINE Safe == (\E u \in Users : role[u] = "admin")
                      /\ (\A u \in Users : role'[u] # "admin")
                      => \E t \in Threads : /\ pc[t] \in {"in", "google"}
                                            /\ pc'[t] # pc[t]
                                            /\ got[t] # role[user[t]]
<1>1. ASSUME Types, [Next]_vars PROVE [Safe]_vars
  <2>1. SUFFICES ASSUME Next, NEW u \in Users, role[u] = "admin",
                        \A v \in Users : role'[v] # "admin"
                 PROVE  \E t \in Threads : /\ pc[t] \in {"in", "google"}
                                           /\ pc'[t] # pc[t]
                                           /\ got[t] # role[user[t]]
    BY <1>1
  <2>2. role' # role
    BY <2>1
  <2>3. None # "admin"
    BY RolesAssumption DEF VALID_ROLES
  <2>4. ASSUME NEW t \in Threads, InsertRole(t) PROVE FALSE
    BY <1>1, <2>1, <2>2, <2>3, <2>4 DEF InsertRole, Types, TypeOK, RequestInv
  <2>5. ASSUME NEW t \in Threads, NEW v \in Users, NEW r \in Assignable, SetRole(t, v, r)
        PROVE  pc[t] = "in" /\ pc'[t] # pc[t] /\ got[t] # role[user[t]]
    <3>1. pc[t] = "in" /\ pc'[t] = "invalidate" /\ user[t] \in Users
      BY <1>1, <2>5 DEF SetRole, Becomes, Types, TypeOK, RequestInv
    <3>2. \A w \in Users : role'[w] = IF w = v THEN r ELSE role[w]
      BY <1>1, <2>5 DEF SetRole, Types, TypeOK
    <3>3. got[t] = "admin" /\ user[t] # v
      BY <2>1, <2>5, <3>1, <3>2 DEF SetRole, MayAssign
    <3>4. QED
      BY <2>1, <3>1, <3>2, <3>3
  <2>6. ASSUME NEW t \in Threads, RaiseOrCreate(t)
        PROVE  pc[t] = "google" /\ pc'[t] # pc[t] /\ got[t] # role[user[t]]
    <3>1. pc[t] = "google" /\ user[t] \in Users
      BY <1>1, <2>6 DEF RaiseOrCreate, Types, RequestInv
    <3>2. got[t] # None
      BY <1>1, <2>1, <2>2, <2>3, <2>6, <3>1 DEF RaiseOrCreate, Types, TypeOK
    <3>3. /\ NeedsRaise(t) /\ Becomes(t, "invalidate", user[t], None)
          /\ role' = [role EXCEPT ![user[t]] = TargetRole(user[t])]
      BY <2>2, <2>6, <3>2 DEF RaiseOrCreate
    <3>4. u = user[t]
      BY <1>1, <2>1, <3>1, <3>3 DEF Types, TypeOK
    <3>5. ~(Rank[TargetRole(u)] > Rank["admin"])
      BY RolesAssumption DEF Rank, TargetRole, VALID_ROLES
    <3>6. pc'[t] = "invalidate"
      BY <1>1, <3>3 DEF Becomes, Types, TypeOK
    <3>7. QED
      BY <2>1, <3>1, <3>3, <3>4, <3>5, <3>6 DEF NeedsRaise
  <2>7. QED
    BY <2>1, <2>2, <2>4, <2>5, <2>6
       DEF Next, Step, Request, GoogleSignIn, Lookup, CountRoles, CacheRole, Leave,
           InvalidateRoleCache, Expire
<1>2. QED
  BY <1>1, InitTypes, NextTypes, PTL DEF Spec, LastAdminGoesOnlyByStaleRole

-----------------------------------------------------------------------------
(* The audit trail.                                                        *)

(***************************************************************************)
(* Appending a well-formed row keeps the table well formed and adds the    *)
(* row at the end.                                                         *)
(***************************************************************************)
LEMMA AppendRow ==
    ASSUME NEW rows \in Seq(Row), NEW row \in Row
    PROVE  /\ Append(rows, row) \in Seq(Row)
           /\ Len(Append(rows, row)) = Len(rows) + 1
           /\ \A i \in 1 .. Len(rows) : Append(rows, row)[i] = rows[i]
           /\ Append(rows, row)[Len(rows) + 1] = row
           /\ Len(rows) \in Nat
BY AppendProperties, LenProperties

(***************************************************************************)
(* Dropping row i keeps the rows before it in place and moves the rows     *)
(* after it one place down.                                                *)
(***************************************************************************)
LEMMA WithoutRow ==
    ASSUME NEW rows \in Seq(Row), NEW i \in 1 .. Len(rows)
    PROVE  /\ Without(rows, i) \in Seq(Row)
           /\ Len(Without(rows, i)) = Len(rows) - 1
           /\ \A j \in 1 .. i - 1 : Without(rows, i)[j] = rows[j]
           /\ \A j \in i .. Len(rows) - 1 : Without(rows, i)[j] = rows[j + 1]
<1> DEFINE before == SubSeq(rows, 1, i - 1)
           after == SubSeq(rows, i + 1, Len(rows))
<1>1. /\ Len(rows) \in Nat
      /\ \A j \in 1 .. Len(rows) : rows[j] \in Row
  BY LenProperties, ElementOfSeq
<1>2. /\ before \in Seq(Row)
      /\ Len(before) = i - 1
      /\ \A j \in 1 .. i - 1 : before[j] = rows[j]
  <2>1. \A j \in 1 .. i - 1 : rows[j] \in Row
    BY <1>1
  <2>2. /\ SubSeq(rows, 1, i - 1) \in Seq(Row)
        /\ Len(SubSeq(rows, 1, i - 1))
             = IF 1 <= i - 1 THEN (i - 1) - 1 + 1 ELSE 0
        /\ \A j \in 1 .. (i - 1) - 1 + 1 :
              SubSeq(rows, 1, i - 1)[j] = rows[1 + j - 1]
    BY <2>1, <1>1, SubSeqProperties
  <2>3. QED BY <2>2, <1>1
<1>3. /\ after \in Seq(Row)
      /\ Len(after) = Len(rows) - i
      /\ \A j \in 1 .. Len(rows) - i : after[j] = rows[i + j]
  <2>1. \A j \in i + 1 .. Len(rows) : rows[j] \in Row
    BY <1>1
  <2>2. /\ SubSeq(rows, i + 1, Len(rows)) \in Seq(Row)
        /\ Len(SubSeq(rows, i + 1, Len(rows)))
             = IF i + 1 <= Len(rows) THEN Len(rows) - (i + 1) + 1 ELSE 0
        /\ \A j \in 1 .. Len(rows) - (i + 1) + 1 :
              SubSeq(rows, i + 1, Len(rows))[j] = rows[i + 1 + j - 1]
    BY <2>1, <1>1, SubSeqProperties
  <2>3. QED BY <2>2, <1>1
<1>4. /\ before \o after \in Seq(Row)
      /\ Len(before \o after) = Len(before) + Len(after)
      /\ \A j \in 1 .. Len(before) + Len(after) :
            (before \o after)[j] = IF j <= Len(before) THEN before[j]
                                   ELSE after[j - Len(before)]
  BY <1>2, <1>3, ConcatProperties
<1> HIDE DEF before, after
<1>5. Without(rows, i) = before \o after
  BY DEF Without, before, after
<1>6. Len(before \o after) = Len(rows) - 1
  BY <1>1, <1>2, <1>3, <1>4
<1>7. ASSUME NEW j \in 1 .. i - 1 PROVE (before \o after)[j] = rows[j]
  BY <1>1, <1>2, <1>3, <1>4
<1>8. ASSUME NEW j \in i .. Len(rows) - 1
      PROVE  (before \o after)[j] = rows[j + 1]
  <2>1. /\ j \in 1 .. Len(before) + Len(after)
        /\ ~(j <= Len(before))
        /\ j - Len(before) = j - (i - 1)
    BY <1>1, <1>2, <1>3
  <2>2. (before \o after)[j] = after[j - (i - 1)]
    BY <2>1, <1>4
  <2>3. j - (i - 1) \in 1 .. Len(rows) - i /\ i + (j - (i - 1)) = j + 1
    BY <1>1
  <2>4. QED BY <2>2, <2>3, <1>3
<1>9. QED BY <1>4, <1>5, <1>6, <1>7, <1>8

(***************************************************************************)
(* The hash that a new row chains to, and the hash it gets, are hashes.    *)
(***************************************************************************)
LEMMA HashTypes ==
    /\ \A rows \in Seq(Row) : LastHash(rows) \in Hash
    /\ \A h \in Hash, b \in Bodies :
          RowHash(h, b) \in Hash /\ RowHash(h, b) # h
<1>1. ASSUME NEW rows \in Seq(Row) PROVE LastHash(rows) \in Hash
  <2>1. CASE rows = <<>>
    BY <2>1, EmptySeq DEF LastHash, Hash
  <2>2. CASE rows # <<>>
    <3>1. Len(rows) \in 1 .. Len(rows)
      BY <2>2, EmptySeq
    <3>2. rows[Len(rows)] \in Row
      BY <3>1, ElementOfSeq
    <3>3. QED BY <2>2, <3>2 DEF LastHash, Row
  <2>3. QED BY <2>1, <2>2
<1>2. ASSUME NEW h \in Hash, NEW b \in Bodies
      PROVE  RowHash(h, b) \in Hash /\ RowHash(h, b) # h
  <2>1. /\ Append(h, b) \in Seq(Bodies)
        /\ Len(Append(h, b)) = Len(h) + 1
        /\ Len(h) \in Nat
    BY AppendProperties, LenProperties DEF Hash
  <2>2. QED BY <2>1 DEF RowHash, Hash
<1>3. QED BY <1>1, <1>2

(***************************************************************************)
(* The table and the calls in flight are well formed in every mode.        *)
(***************************************************************************)
THEOREM LogTypeCorrect == LogSpec => []LogTypeOK
<1>1. LogInit => LogTypeOK
  BY EmptySeq, RowBoundAssumption DEF LogInit, LogTypeOK, NoCall
<1>2. LogTypeOK /\ [LogNext]_logVars => LogTypeOK'
  <2> SUFFICES ASSUME LogTypeOK, [LogNext]_logVars PROVE LogTypeOK'
    OBVIOUS
  <2> USE DEF LogTypeOK
  <2>1. ASSUME NEW r \in Recorders, NEW w \in Workspaces, NEW b \in Bodies,
               NEW e \in Emails, Begin(r, w, b, e)
        PROVE  LogTypeOK'
    <3>1. LastHash(log[w]) \in Hash
      BY HashTypes
    <3>2. [ws |-> w, body |-> b, actor_email |-> e, prev_hash |-> LastHash(log[w])]
            \in Call
      BY <3>1 DEF Call
    <3>3. QED BY <2>1, <3>2 DEF Begin
  <2>2. ASSUME NEW r \in Recorders, Insert(r) PROVE LogTypeOK'
    <3>1. call[r] \in Call
      BY <2>2 DEF Insert, Idle
    <3>2. NewRow(call[r]) \in Row
      BY <3>1, HashTypes DEF NewRow, Row, Call
    <3>3. call[r].ws \in Workspaces
      BY <3>1 DEF Call
    <3>4. Append(log[call[r].ws], NewRow(call[r])) \in Seq(Row)
      BY <3>2, <3>3, AppendRow
    <3>5. inserted[call[r].ws] + 1 \in 0 .. MaxRows
      BY <2>2, <3>3, RowBoundAssumption DEF Insert
    <3>6. QED BY <2>2, <3>3, <3>4, <3>5 DEF Insert
  <2>3. ASSUME NEW r \in Recorders, Abandon(r) PROVE LogTypeOK'
    BY <2>3 DEF Abandon
  <2>4. ASSUME NEW w \in Workspaces, Tamper(w) PROVE LogTypeOK'
    <3> PICK i \in 1 .. Len(log[w]) :
           \/ \E b \in Bodies : EditBody(w, i, b)
           \/ \E e \in Emails : EditEmail(w, i, e)
           \/ Remove(w, i)
      BY <2>4 DEF Tamper
    <3>0. log[w] \in Seq(Row) /\ log[w][i] \in Row
      BY ElementOfSeq
    <3>1. ASSUME NEW b \in Bodies, EditBody(w, i, b) PROVE LogTypeOK'
      <4>1. [log[w][i] EXCEPT !.body = b] \in Row
        BY <3>0 DEF Row
      <4>2. [log[w] EXCEPT ![i] = [log[w][i] EXCEPT !.body = b]] \in Seq(Row)
        BY <3>0, <4>1, ExceptSeq
      <4>3. log' = [log EXCEPT ![w] =
                [log[w] EXCEPT ![i] = [log[w][i] EXCEPT !.body = b]]]
        BY <3>1 DEF EditBody
      <4>4. QED BY <3>1, <4>2, <4>3 DEF EditBody
    <3>2. ASSUME NEW e \in Emails, EditEmail(w, i, e) PROVE LogTypeOK'
      <4>1. [log[w][i] EXCEPT !.actor_email = e] \in Row
        BY <3>0 DEF Row
      <4>2. [log[w] EXCEPT ![i] = [log[w][i] EXCEPT !.actor_email = e]]
              \in Seq(Row)
        BY <3>0, <4>1, ExceptSeq
      <4>3. log' = [log EXCEPT ![w] =
                [log[w] EXCEPT ![i] = [log[w][i] EXCEPT !.actor_email = e]]]
        BY <3>2 DEF EditEmail
      <4>4. QED BY <3>2, <4>2, <4>3 DEF EditEmail
    <3>3. CASE Remove(w, i)
      <4>1. Without(log[w], i) \in Seq(Row)
        BY WithoutRow
      <4>2. QED BY <3>3, <4>1 DEF Remove
    <3>4. QED BY <3>1, <3>2, <3>3
  <2>5. CASE UNCHANGED logVars
    BY <2>5 DEF logVars
  <2>6. QED BY <2>1, <2>2, <2>3, <2>4, <2>5 DEF LogNext, Record
<1>3. QED BY <1>1, <1>2, PTL DEF LogSpec

-----------------------------------------------------------------------------
(***************************************************************************)
(* Verification only looks at a row and the one before it, so a chain that *)
(* keeps its rows and gains one at the end keeps every link it had.        *)
(***************************************************************************)
LEMMA AppendKeepsLinks ==
    ASSUME NEW rows \in Seq(Row), NEW row \in Row
    PROVE  \A i \in 1 .. Len(rows) :
               GoodLink(Append(rows, row), i) <=> GoodLink(rows, i)
<1> SUFFICES ASSUME NEW i \in 1 .. Len(rows)
             PROVE  GoodLink(Append(rows, row), i) <=> GoodLink(rows, i)
  OBVIOUS
<1>1. Append(rows, row)[i] = rows[i]
  BY AppendRow
<1>2. PrevHash(Append(rows, row), i) = PrevHash(rows, i)
  <2>1. CASE i = 1
    BY <2>1 DEF PrevHash
  <2>2. CASE i # 1
    <3>1. i - 1 \in 1 .. Len(rows)
      BY <2>2, AppendRow
    <3>2. QED BY <2>2, <3>1, AppendRow DEF PrevHash
  <2>3. QED BY <2>1, <2>2
<1>3. QED BY <1>1, <1>2 DEF GoodLink

(***************************************************************************)
(* A row chained to the newest one extends a verified chain.               *)
(***************************************************************************)
LEMMA AppendExtendsChain ==
    ASSUME NEW rows \in Seq(Row), NEW row \in Row, VerifyOk(rows),
           row.prev_hash = LastHash(rows),
           row.row_hash = RowHash(row.prev_hash, row.body)
    PROVE  VerifyOk(Append(rows, row))
<1>1. ASSUME NEW i \in 1 .. Len(rows) PROVE GoodLink(Append(rows, row), i)
  BY AppendKeepsLinks DEF VerifyOk
<1>2. GoodLink(Append(rows, row), Len(rows) + 1)
  <2>1. PrevHash(Append(rows, row), Len(rows) + 1) = LastHash(rows)
    <3>1. CASE rows = <<>>
      BY <3>1, EmptySeq DEF PrevHash, LastHash
    <3>2. CASE rows # <<>>
      <4>1. Len(rows) \in Nat \ {0}
        BY <3>2, EmptySeq
      <4>2. /\ Len(rows) \in 1 .. Len(rows)
            /\ Len(rows) + 1 # 1
            /\ (Len(rows) + 1) - 1 = Len(rows)
        BY <4>1
      <4>3. Append(rows, row)[Len(rows)] = rows[Len(rows)]
        BY <4>2, AppendRow
      <4>4. QED BY <3>2, <4>2, <4>3 DEF PrevHash, LastHash
    <3>3. QED BY <3>1, <3>2
  <2>2. QED BY <2>1, AppendRow DEF GoodLink
<1>3. QED
  <2>1. Len(Append(rows, row)) = Len(rows) + 1 /\ Len(rows) \in Nat
    BY AppendRow
  <2>2. QED BY <1>1, <1>2, <2>1 DEF VerifyOk

(***************************************************************************)
(* Why a chain nobody touches stays whole when calls of record() do not    *)
(* overlap: whoever is inside record() is alone there, so the hash it read *)
(* is still that of the newest row when it inserts.                        *)
(***************************************************************************)
FreshRead ==
    /\ \A q, r \in Recorders : ~Idle(q) /\ ~Idle(r) => q = r
    /\ \A r \in Recorders :
          ~Idle(r) => \/ call[r].ws \in touched
                     \/ call[r].prev_hash = LastHash(log[call[r].ws])

(***************************************************************************)
(* audit.py:84-85 without overlapping calls: verify() answers ok for every *)
(* workspace whose rows nobody changed from outside.                       *)
(***************************************************************************)
THEOREM SerialChainIntact ==
    ASSUME Overlap = FALSE
    PROVE  LogSpec => []ChainIntact
<1>1. LogInit => FreshRead /\ ChainIntact
  BY EmptySeq DEF LogInit, FreshRead, ChainIntact, VerifyOk, Idle
<1>2. LogTypeOK /\ FreshRead /\ ChainIntact /\ [LogNext]_logVars
        => FreshRead' /\ ChainIntact'
  <2> SUFFICES ASSUME LogTypeOK, FreshRead, ChainIntact, [LogNext]_logVars
               PROVE  FreshRead' /\ ChainIntact'
    OBVIOUS
  <2>1. ASSUME NEW r \in Recorders, NEW w \in Workspaces, NEW b \in Bodies,
               NEW e \in Emails, Begin(r, w, b, e)
        PROVE  FreshRead' /\ ChainIntact'
    <3>1. ChainIntact'
      BY <2>1 DEF Begin, ChainIntact
    <3>2. \A q \in Recorders : Idle(q)
      BY <2>1 DEF Begin
    <3>3. \A q \in Recorders : ~Idle(q)' => q = r
      BY <2>1, <3>2 DEF Begin, LogTypeOK, Idle
    <3>4. call'[r].prev_hash = LastHash(log'[call'[r].ws])
      BY <2>1 DEF Begin, LogTypeOK
    <3>5. QED BY <3>1, <3>3, <3>4 DEF FreshRead
  <2>2. ASSUME NEW r \in Recorders, Insert(r)
        PROVE  FreshRead' /\ ChainIntact'
    <3> DEFINE w == call[r].ws
               row == NewRow(call[r])
    <3>1. call[r] \in Call /\ w \in Workspaces
      BY <2>2 DEF Insert, Idle, LogTypeOK, Call
    <3>2. row \in Row /\ row.row_hash = RowHash(row.prev_hash, row.body)
      BY <3>1, HashTypes DEF NewRow, Row, Call
    <3>3. ASSUME w \notin touched PROVE VerifyOk(Append(log[w], row))
      <4>1. row.prev_hash = LastHash(log[w])
        BY <2>2, <3>1, <3>3 DEF NewRow, FreshRead, Insert
      <4>2. log[w] \in Seq(Row) /\ VerifyOk(log[w])
        BY <3>1, <3>3 DEF LogTypeOK, ChainIntact
      <4> HIDE DEF row
      <4>3. QED BY <3>2, <4>1, <4>2, AppendExtendsChain
    <3>4. /\ log' = [log EXCEPT ![w] = Append(@, row)]
          /\ touched' = touched
      BY <2>2 DEF Insert
    <3> HIDE DEF row
    <3>5. ChainIntact'
      BY <3>1, <3>3, <3>4 DEF ChainIntact, LogTypeOK
    <3>6. \A q \in Recorders : Idle(q)'
      BY <2>2 DEF Insert, FreshRead, Idle, LogTypeOK
    <3>7. QED BY <3>5, <3>6 DEF FreshRead
  <2>3. ASSUME NEW r \in Recorders, Abandon(r)
        PROVE  FreshRead' /\ ChainIntact'
    <3>1. \A q \in Recorders : Idle(q)'
      BY <2>3 DEF Abandon, FreshRead, Idle, LogTypeOK
    <3>2. QED BY <2>3, <3>1 DEF Abandon, FreshRead, ChainIntact
  <2>4. ASSUME NEW w \in Workspaces, Tamper(w)
        PROVE  FreshRead' /\ ChainIntact'
    <3>1. /\ call' = call /\ touched' = touched \cup {w}
          /\ \A v \in Workspaces : v # w => log'[v] = log[v]
      BY <2>4 DEF Tamper, EditBody, EditEmail, Remove, LogTypeOK
    <3>2. ChainIntact'
      BY <3>1 DEF ChainIntact
    <3>3. ASSUME NEW r \in Recorders, ~Idle(r)
          PROVE  \/ call[r].ws \in touched'
                 \/ call[r].prev_hash = LastHash(log'[call[r].ws])
      <4>1. call[r].ws \in Workspaces
        BY <3>3 DEF LogTypeOK, Idle, Call
      <4>2. QED BY <3>1, <3>3, <4>1 DEF FreshRead
    <3>4. QED BY <3>1, <3>2, <3>3 DEF FreshRead, Idle
  <2>5. CASE UNCHANGED logVars
    BY <2>5 DEF logVars, FreshRead, ChainIntact, Idle
  <2>6. QED BY <2>1, <2>2, <2>3, <2>4, <2>5 DEF LogNext, Record
<1>3. QED BY <1>1, <1>2, LogTypeCorrect, PTL DEF LogSpec

-----------------------------------------------------------------------------
(***************************************************************************)
(* audit.py:5-7: for any log and any interleaving of recorders, changing   *)
(* the body of a row of a verified chain, or removing a row that is not    *)
(* the newest, is noticed by verify().                                     *)
(***************************************************************************)
THEOREM TamperIsDetected == LogSpec => TamperDetected
<1> DEFINE Detected ==
        \A w \in Workspaces : \A i \in 1 .. Len(log[w]) :
          /\ VerifyOk(log[w])
          /\ \/ \E b \in Bodies : EditBody(w, i, b)
             \/ i < Len(log[w]) /\ Remove(w, i)
          => ~VerifyOk(log'[w])
<1>1. LogTypeOK => Detected
  <2> SUFFICES ASSUME LogTypeOK, NEW w \in Workspaces,
                      NEW i \in 1 .. Len(log[w]), VerifyOk(log[w])
               PROVE  /\ \A b \in Bodies :
                           EditBody(w, i, b) => ~VerifyOk(log'[w])
                      /\ i < Len(log[w]) /\ Remove(w, i) => ~VerifyOk(log'[w])
    OBVIOUS
  <2>0. /\ log[w] \in Seq(Row)
        /\ Len(log[w]) \in Nat
        /\ \A j \in 1 .. Len(log[w]) : log[w][j] \in Row /\ GoodLink(log[w], j)
    BY LenProperties, ElementOfSeq DEF LogTypeOK, VerifyOk
  <2>p. \A j \in 1 .. Len(log[w]) : PrevHash(log[w], j) \in Hash
    <3> SUFFICES ASSUME NEW j \in 1 .. Len(log[w])
                 PROVE  PrevHash(log[w], j) \in Hash
      OBVIOUS
    <3>1. log[w][j].prev_hash = PrevHash(log[w], j)
      BY <2>0 DEF GoodLink
    <3>2. QED BY <2>0, <3>1 DEF Row
  <2>1. ASSUME NEW b \in Bodies, EditBody(w, i, b)
        PROVE  ~VerifyOk(log'[w])
    <3> DEFINE old == log[w]
               edited == [old[i] EXCEPT !.body = b]
    <3>1. log'[w] = [old EXCEPT ![i] = edited]
      BY <2>1 DEF EditBody, LogTypeOK
    <3>2. edited \in Row /\ edited.body = b /\ edited.row_hash = old[i].row_hash
      BY <2>0 DEF Row
    <3>3. /\ Len(log'[w]) = Len(old)
          /\ \A j \in 1 .. Len(old) :
                log'[w][j] = IF j = i THEN edited ELSE old[j]
      BY <3>1, <3>2, <2>0, ExceptSeq
    <3>4. PrevHash(log'[w], i) = PrevHash(old, i)
      <4>1. CASE i = 1
        BY <4>1 DEF PrevHash
      <4>2. CASE i # 1
        <5>1. i - 1 \in 1 .. Len(old) /\ i - 1 # i
          BY <4>2, <2>0
        <5>2. QED BY <4>2, <5>1, <3>3 DEF PrevHash
      <4>3. QED BY <4>1, <4>2
    <3>5. old[i].row_hash = Append(PrevHash(old, i), old[i].body)
      BY <2>0 DEF GoodLink, RowHash
    <3>6. old[i].body # b /\ old[i].body \in Bodies
      BY <2>1, <2>0 DEF EditBody, Row
    <3>7. Append(PrevHash(old, i), old[i].body) # Append(PrevHash(old, i), b)
      BY <2>p, <3>6, AppendInjective DEF Hash
    <3>8. ~GoodLink(log'[w], i)
      BY <3>2, <3>3, <3>4, <3>5, <3>7 DEF GoodLink, RowHash
    <3>9. QED BY <3>3, <3>8 DEF VerifyOk
  <2>2. ASSUME i < Len(log[w]), Remove(w, i)
        PROVE  ~VerifyOk(log'[w])
    <3> DEFINE old == log[w]
    <3>1. log'[w] = Without(old, i)
      BY <2>2 DEF Remove, LogTypeOK
    <3>2. /\ Len(log'[w]) = Len(old) - 1
          /\ \A j \in 1 .. i - 1 : log'[w][j] = old[j]
          /\ \A j \in i .. Len(old) - 1 : log'[w][j] = old[j + 1]
      BY <3>1, <2>0, WithoutRow, ZenonT(60)
    <3>3. i \in 1 .. Len(log'[w]) /\ i \in i .. Len(old) - 1
          /\ i + 1 \in 1 .. Len(old) /\ i + 1 # 1 /\ (i + 1) - 1 = i
      BY <2>2, <3>2, <2>0
    <3>4. log'[w][i] = old[i + 1]
      BY <3>2, <3>3
    <3>5. PrevHash(log'[w], i) = PrevHash(old, i)
      <4>1. CASE i = 1
        BY <4>1 DEF PrevHash
      <4>2. CASE i # 1
        <5>1. i - 1 \in 1 .. i - 1
          BY <4>2, <2>0
        <5>2. QED BY <4>2, <5>1, <3>2 DEF PrevHash
      <4>3. QED BY <4>1, <4>2
    <3>6. old[i + 1].prev_hash = old[i].row_hash
      BY <2>0, <3>3 DEF GoodLink, PrevHash
    <3>7. old[i].row_hash # PrevHash(old, i)
      <4>1. old[i].row_hash = RowHash(PrevHash(old, i), old[i].body)
        BY <2>0 DEF GoodLink
      <4>2. old[i].body \in Bodies
        BY <2>0 DEF Row
      <4>3. QED BY <4>1, <4>2, <2>p, HashTypes
    <3>8. ~GoodLink(log'[w], i)
      BY <3>4, <3>5, <3>6, <3>7 DEF GoodLink
    <3>9. QED BY <3>3, <3>8 DEF VerifyOk
  <2>3. QED BY <2>1, <2>2
<1>2. QED BY <1>1, LogTypeCorrect, PTL DEF TamperDetected

(***************************************************************************)
(* A broken chain stays broken: nothing the application does afterwards    *)
(* makes verify() answer ok again.                                         *)
(***************************************************************************)
THEOREM BrokenForGood == LogSpec => NeverHeals
<1>1. LogTypeOK /\ [LogNext]_logVars
        => \A w \in Workspaces :
              ~VerifyOk(log[w]) /\ VerifyOk(log'[w]) => Tamper(w)
  <2> SUFFICES ASSUME LogTypeOK, [LogNext]_logVars, NEW w \in Workspaces,
                      ~VerifyOk(log[w]), ~Tamper(w)
               PROVE  ~VerifyOk(log'[w])
    OBVIOUS
  <2>1. ASSUME NEW r \in Recorders, Insert(r) PROVE ~VerifyOk(log'[w])
    <3> DEFINE row == NewRow(call[r])
    <3>1. call[r] \in Call
      BY <2>1 DEF Insert, Idle, LogTypeOK
    <3>2. row \in Row
      BY <3>1, HashTypes DEF NewRow, Row, Call
    <3>3. log[w] \in Seq(Row)
      BY DEF LogTypeOK
    <3>4. log'[w] = log[w] \/ log'[w] = Append(log[w], row)
      BY <2>1 DEF Insert, LogTypeOK
    <3> HIDE DEF row
    <3>5. CASE log'[w] = Append(log[w], row)
      <4>1. PICK i \in 1 .. Len(log[w]) : ~GoodLink(log[w], i)
        BY DEF VerifyOk
      <4>2. ~GoodLink(Append(log[w], row), i)
        BY <4>1, <3>2, <3>3, AppendKeepsLinks
      <4>3. i \in 1 .. Len(Append(log[w], row))
        BY <3>2, <3>3, AppendRow
      <4>4. QED BY <3>5, <4>2, <4>3 DEF VerifyOk
    <3>6. QED BY <3>4, <3>5
  <2>2. ASSUME NEW r \in Recorders, NEW v \in Workspaces, NEW b \in Bodies,
               NEW e \in Emails, Begin(r, v, b, e)
        PROVE  ~VerifyOk(log'[w])
    BY <2>2 DEF Begin
  <2>3. ASSUME NEW r \in Recorders, Abandon(r) PROVE ~VerifyOk(log'[w])
    BY <2>3 DEF Abandon
  <2>4. ASSUME NEW v \in Workspaces, Tamper(v) PROVE ~VerifyOk(log'[w])
    <3>1. v # w
      BY <2>4
    <3>2. log'[w] = log[w]
      BY <2>4, <3>1 DEF Tamper, EditBody, EditEmail, Remove, LogTypeOK
    <3>3. QED BY <3>2
  <2>5. CASE UNCHANGED logVars
    BY <2>5 DEF logVars
  <2>6. QED BY <2>1, <2>2, <2>3, <2>4, <2>5 DEF LogNext, Record
<1>2. QED BY <1>1, LogTypeCorrect, PTL DEF LogSpec, NeverHeals

-----------------------------------------------------------------------------
(***************************************************************************)
(* Rows nobody touched hash what they hold, and chain to a row before them *)
(* or to nothing; overlapping calls can do no worse than pick an old row.  *)
(***************************************************************************)
Known(rows, h, n) == h = <<>> \/ \E k \in 1 .. n : h = rows[k].row_hash

Linked(rows) ==
    \A i \in 1 .. Len(rows) :
        /\ rows[i].row_hash = RowHash(rows[i].prev_hash, rows[i].body)
        /\ Known(rows, rows[i].prev_hash, i - 1)

LinkInv ==
    /\ \A w \in Workspaces \ touched : Linked(log[w])
    /\ \A r \in Recorders :
          ~Idle(r) /\ call[r].ws \notin touched
          => Known(log[call[r].ws], call[r].prev_hash, Len(log[call[r].ws]))

\* What a row holds, and what its hash tells.
LEMMA RowOf ==
    ASSUME NEW rows \in Seq(Row), NEW i \in 1 .. Len(rows)
    PROVE  /\ rows[i] \in Row /\ rows[i].body \in Bodies
           /\ rows[i].prev_hash \in Hash /\ rows[i].row_hash \in Hash
<1>1. rows[i] \in Row
  BY ElementOfSeq
<1>2. QED
  BY <1>1 DEF Row

LEMMA HashTells ==
    ASSUME NEW g \in Hash, NEW h \in Hash, NEW a \in Bodies, NEW b \in Bodies
    PROVE  /\ RowHash(g, a) # <<>>
           /\ RowHash(g, a) = RowHash(h, b) => g = h
<1>1. RowHash(g, a) = RowHash(h, b) => g = h
  BY AppendInjective DEF RowHash, Hash
<1>2. Len(Append(g, a)) = Len(g) + 1 /\ Len(g) \in Nat
  BY AppendProperties, LenProperties DEF Hash
<1>3. QED
  BY <1>1, <1>2, EmptySeq DEF RowHash

LEMMA LeastOf ==
    ASSUME NEW S \in SUBSET Nat, S # {}
    PROVE  \E m \in S : \A v \in S : m <= v
<1>1. PICK m \in S : \A v \in S : <<v, m>> \notin OpToRel(<, Nat)
  BY WFMin, NatLessThanWellFounded, Zenon
<1>2. \A v \in S : ~(v < m)
  BY <1>1, Zenon DEF OpToRel
<1>3. QED
  BY <1>2

(***************************************************************************)
(* A verified chain has no fork: two rows with the same predecessor would  *)
(* have verified predecessors with the same hash, hence with the same      *)
(* predecessor, and so on down to the first row, which has none.           *)
(***************************************************************************)
LEMMA VerifiedHasNoFork ==
    ASSUME NEW rows \in Seq(Row), VerifyOk(rows)
    PROVE  ~Forked(rows)
<1> DEFINE S == {i \in 1 .. Len(rows) :
                    \E j \in 1 .. Len(rows) : i # j /\ rows[i].prev_hash = rows[j].prev_hash}
<1>0. Len(rows) \in Nat
  BY LenProperties
<1>1. SUFFICES ASSUME S # {} PROVE FALSE
  BY DEF Forked
<1>2. PICK i \in S : \A v \in S : i <= v
  <2>1. S \in SUBSET Nat
    BY <1>0
  <2> HIDE DEF S
  <2>2. QED
    BY <1>1, <2>1, LeastOf
<1>3. PICK j \in 1 .. Len(rows) : i # j /\ rows[i].prev_hash = rows[j].prev_hash
  BY <1>2
<1>4. j \in S
  BY <1>2, <1>3
<1>5. i \in 1 .. Len(rows) /\ i < j /\ j # 1 /\ j - 1 \in 1 .. Len(rows)
  BY <1>0, <1>2, <1>3, <1>4
<1> HIDE DEF S
<1>6. GoodLink(rows, i) /\ GoodLink(rows, j) /\ GoodLink(rows, j - 1)
  BY <1>3, <1>5 DEF VerifyOk
<1>7. rows[j].prev_hash = rows[j - 1].row_hash
  BY <1>5, <1>6 DEF GoodLink, PrevHash
<1>8. rows[j - 1].row_hash = RowHash(rows[j - 1].prev_hash, rows[j - 1].body)
  BY <1>6 DEF GoodLink
<1>9. CASE i = 1
  <2>1. rows[i].prev_hash = <<>>
    BY <1>6, <1>9 DEF GoodLink, PrevHash
  <2>2. RowHash(rows[j - 1].prev_hash, rows[j - 1].body) # <<>>
    BY <1>5, RowOf, HashTells
  <2>3. QED
    BY <1>3, <1>7, <1>8, <2>1, <2>2
<1>10. CASE i # 1
  <2>1. i - 1 \in 1 .. Len(rows) /\ i - 1 # j - 1 /\ ~(i <= i - 1)
    BY <1>0, <1>5, <1>10
  <2>2. GoodLink(rows, i - 1)
    BY <2>1 DEF VerifyOk
  <2>3. rows[i].prev_hash = RowHash(rows[i - 1].prev_hash, rows[i - 1].body)
    BY <1>6, <1>10, <2>2 DEF GoodLink, PrevHash
  <2>4. rows[i - 1].prev_hash = rows[j - 1].prev_hash
    BY <1>3, <1>5, <1>7, <1>8, <2>1, <2>3, RowOf, HashTells
  <2>5. i - 1 \in S
    BY <1>5, <2>1, <2>4 DEF S
  <2>6. QED
    BY <1>2, <2>1, <2>5
<1>11. QED
  BY <1>9, <1>10

(***************************************************************************)
(* A chain without a fork verifies: the first bad link would lead to an    *)
(* earlier row that has a good successor already.                          *)
(***************************************************************************)
LEMMA UnforkedVerifies ==
    ASSUME NEW rows \in Seq(Row), Linked(rows), ~Forked(rows)
    PROVE  VerifyOk(rows)
<1> DEFINE S == {i \in 1 .. Len(rows) : ~GoodLink(rows, i)}
<1>0. Len(rows) \in Nat
  BY LenProperties
<1>1. SUFFICES ASSUME S # {} PROVE FALSE
  BY DEF VerifyOk
<1>2. PICK i \in S : \A v \in S : i <= v
  <2>1. S \in SUBSET Nat
    BY <1>0
  <2> HIDE DEF S
  <2>2. QED
    BY <1>1, <2>1, LeastOf
<1>3. i \in 1 .. Len(rows) /\ ~GoodLink(rows, i)
  BY <1>2
<1>4. \A j \in 1 .. Len(rows) : j < i => GoodLink(rows, j)
  BY <1>0, <1>2
<1> HIDE DEF S
<1>5. rows[i].prev_hash # PrevHash(rows, i) /\ Known(rows, rows[i].prev_hash, i - 1)
  BY <1>3 DEF Linked, GoodLink
<1>6. \A j \in 1 .. Len(rows) : j # i => rows[j].prev_hash # rows[i].prev_hash
  BY <1>3 DEF Forked
<1>7. CASE rows[i].prev_hash = <<>>
  <2>1. i # 1 /\ 1 \in 1 .. Len(rows) /\ 1 < i
    <3>1. i # 1
      BY <1>5, <1>7 DEF PrevHash
    <3>2. QED
      BY <1>0, <1>3, <3>1
  <2>2. rows[1].prev_hash = <<>>
    BY <1>4, <2>1 DEF GoodLink, PrevHash
  <2>3. QED
    BY <1>6, <1>7, <2>1, <2>2
<1>8. CASE rows[i].prev_hash # <<>>
  <2>1. PICK k \in 1 .. i - 1 : rows[i].prev_hash = rows[k].row_hash
    BY <1>5, <1>8 DEF Known
  <2>2. i # 1 /\ k # i - 1
    <3>1. i # 1
      BY <1>3
    <3>2. QED
      BY <1>5, <2>1, <3>1 DEF PrevHash
  <2>3. k + 1 \in 1 .. Len(rows) /\ k + 1 < i /\ k + 1 # 1 /\ (k + 1) - 1 = k
    BY <1>0, <1>3, <2>1, <2>2
  <2>4. rows[k + 1].prev_hash = rows[k].row_hash
    BY <1>4, <2>3 DEF GoodLink, PrevHash
  <2>5. QED
    BY <1>6, <2>1, <2>3, <2>4
<1>9. QED
  BY <1>7, <1>8

\* A row that is added is known to those that follow, and disturbs no other.
LEMMA AppendKnown ==
    ASSUME NEW rows \in Seq(Row), NEW row \in Row, NEW h, NEW n \in 0 .. Len(rows),
           Known(rows, h, n)
    PROVE  /\ Known(Append(rows, row), h, n)
           /\ Known(Append(rows, row), h, Len(Append(rows, row)))
<1>1. Len(Append(rows, row)) = Len(rows) + 1 /\ Len(rows) \in Nat
  BY AppendRow
<1>2. \A k \in 1 .. n : Append(rows, row)[k] = rows[k] /\ k \in 1 .. Len(rows) + 1
  BY <1>1, AppendRow
<1>3. QED
  BY <1>1, <1>2 DEF Known

LEMMA LastIsKnown ==
    ASSUME NEW rows \in Seq(Row)
    PROVE  Known(rows, LastHash(rows), Len(rows))
<1>1. rows = <<>> \/ Len(rows) \in 1 .. Len(rows)
  BY LenProperties, EmptySeq
<1>2. QED
  BY <1>1 DEF Known, LastHash

LEMMA LinkInvariant == LogSpec => []LinkInv
<1>1. LogInit => LinkInv
  BY EmptySeq DEF LogInit, LinkInv, Linked, Idle
<1>2. LogTypeOK /\ LinkInv /\ [LogNext]_logVars => LinkInv'
  <2> SUFFICES ASSUME LogTypeOK, LinkInv, [LogNext]_logVars PROVE LinkInv'
    OBVIOUS
  <2>1. ASSUME NEW r \in Recorders, NEW w \in Workspaces, NEW b \in Bodies,
               NEW e \in Emails, Begin(r, w, b, e)
        PROVE  LinkInv'
    <3>1. /\ log' = log /\ touched' = touched
          /\ \A q \in Recorders : q # r => call'[q] = call[q]
          /\ call'[r].ws = w /\ call'[r].prev_hash = LastHash(log[w])
      BY <2>1 DEF Begin, LogTypeOK
    <3>2. Known(log[w], LastHash(log[w]), Len(log[w]))
      BY LastIsKnown DEF LogTypeOK
    <3>3. QED BY <3>1, <3>2 DEF LinkInv, Idle
  <2>2. ASSUME NEW r \in Recorders, Insert(r) PROVE LinkInv'
    <3> DEFINE w == call[r].ws
               row == NewRow(call[r])
    <3>1. call[r] \in Call /\ w \in Workspaces /\ ~Idle(r)
      BY <2>2 DEF Insert, Idle, LogTypeOK, Call
    <3>2. /\ row \in Row /\ row.row_hash = RowHash(row.prev_hash, row.body)
          /\ row.prev_hash = call[r].prev_hash
      BY <3>1, HashTypes DEF NewRow, Row, Call
    <3>3. log[w] \in Seq(Row)
      BY <3>1 DEF LogTypeOK
    <3>4. /\ log' = [log EXCEPT ![w] = Append(@, row)]
          /\ call' = [call EXCEPT ![r] = NoCall] /\ touched' = touched
      BY <2>2 DEF Insert
    <3> HIDE DEF row, w
    <3>5. /\ log'[w] = Append(log[w], row)
          /\ \A v \in Workspaces : v # w => log'[v] = log[v]
      BY <3>1, <3>4 DEF LogTypeOK
    <3>6. ASSUME w \notin touched PROVE Linked(Append(log[w], row))
      <4>1. Linked(log[w]) /\ Known(log[w], row.prev_hash, Len(log[w]))
        BY <3>1, <3>2, <3>6 DEF LinkInv, w
      <4>2. ASSUME NEW i \in 1 .. Len(Append(log[w], row))
            PROVE  LET new == Append(log[w], row) IN
                   /\ new[i].row_hash = RowHash(new[i].prev_hash, new[i].body)
                   /\ Known(new, new[i].prev_hash, i - 1)
        <5>1. CASE i = Len(log[w]) + 1
          <6>1. Append(log[w], row)[i] = row /\ i - 1 = Len(log[w]) /\ i - 1 \in 0 .. Len(log[w])
            BY <3>2, <3>3, <5>1, AppendRow
          <6>2. Known(Append(log[w], row), row.prev_hash, i - 1)
            BY <3>2, <3>3, <4>1, <6>1, AppendKnown
          <6>3. QED BY <3>2, <6>1, <6>2
        <5>2. CASE i # Len(log[w]) + 1
          <6>1. i \in 1 .. Len(log[w]) /\ i - 1 \in 0 .. Len(log[w])
            BY <3>2, <3>3, <5>2, AppendRow
          <6>2. Append(log[w], row)[i] = log[w][i]
            BY <3>2, <3>3, <6>1, AppendRow
          <6>3. /\ log[w][i].row_hash = RowHash(log[w][i].prev_hash, log[w][i].body)
                /\ Known(log[w], log[w][i].prev_hash, i - 1)
            BY <4>1, <6>1 DEF Linked
          <6>4. Known(Append(log[w], row), log[w][i].prev_hash, i - 1)
            BY <3>2, <3>3, <6>1, <6>3, AppendKnown
          <6>5. QED BY <6>2, <6>3, <6>4
        <5>3. QED BY <5>1, <5>2
      <4>3. QED BY <4>2 DEF Linked
    <3>7. ASSUME NEW q \in Recorders, ~Idle(q)', call'[q].ws \notin touched'
          PROVE  Known(log'[call'[q].ws], call'[q].prev_hash, Len(log'[call'[q].ws]))
      <4>1. q # r /\ call'[q] = call[q] /\ ~Idle(q)
        BY <3>4, <3>7 DEF Idle, LogTypeOK
      <4>2. call[q].ws \in Workspaces
        BY <4>1 DEF LogTypeOK, Idle, Call
      <4>3. Known(log[call[q].ws], call[q].prev_hash, Len(log[call[q].ws]))
        BY <3>4, <3>7, <4>1 DEF LinkInv
      <4>4. CASE call[q].ws = w
        <5>1. Len(log[w]) \in 0 .. Len(log[w])
          BY <3>2, <3>3, AppendRow
        <5>2. QED BY <3>2, <3>3, <3>5, <4>1, <4>3, <4>4, <5>1, AppendKnown
      <4>5. CASE call[q].ws # w
        BY <3>5, <4>1, <4>2, <4>3, <4>5
      <4>6. QED BY <4>4, <4>5
    <3>8. \A v \in Workspaces \ touched' : Linked(log'[v])
      BY <3>4, <3>5, <3>6 DEF LinkInv
    <3>9. QED BY <3>7, <3>8 DEF LinkInv
  <2>3. ASSUME NEW r \in Recorders, Abandon(r) PROVE LinkInv'
    BY <2>3 DEF Abandon, LinkInv, Idle, LogTypeOK
  <2>4. ASSUME NEW w \in Workspaces, Tamper(w) PROVE LinkInv'
    <3>1. /\ call' = call /\ touched' = touched \cup {w}
          /\ \A v \in Workspaces : v # w => log'[v] = log[v]
      BY <2>4 DEF Tamper, EditBody, EditEmail, Remove, LogTypeOK
    <3>2. \A r \in Recorders : ~Idle(r) => call[r].ws \in Workspaces
      BY DEF LogTypeOK, Idle, Call
    <3>3. \A r \in Recorders :
             ~Idle(r) /\ call[r].ws \notin touched' => log'[call[r].ws] = log[call[r].ws]
      BY <3>1, <3>2
    <3>4. QED BY <3>1, <3>3 DEF LinkInv, Idle
  <2>5. CASE UNCHANGED logVars
    BY <2>5 DEF logVars, LinkInv, Idle
  <2>6. QED BY <2>1, <2>2, <2>3, <2>4, <2>5 DEF LogNext, Record
<1>3. QED BY <1>1, <1>2, LogTypeCorrect, PTL DEF LogSpec

(***************************************************************************)
(* audit.py:84-85, with any number of overlapping calls: the chain of a    *)
(* workspace nobody touched verifies exactly when it has no fork.          *)
(***************************************************************************)
THEOREM OnlyForksBreak == LogSpec => []BrokenOnlyByFork
<1>1. LogTypeOK /\ LinkInv => BrokenOnlyByFork
  BY VerifiedHasNoFork, UnforkedVerifies DEF LogTypeOK, LinkInv, BrokenOnlyByFork
<1>2. QED BY <1>1, LogTypeCorrect, LinkInvariant, PTL

=============================================================================
