------------------------------- MODULE Roles --------------------------------
(***************************************************************************)
(* App roles: the table app_roles, the per-process cache in front of it    *)
(* (app/auth.py), the admin endpoint that changes a role                   *)
(* (app/routers/admin.py) and the Google sign-in that creates or raises    *)
(* one (app/google_auth.py).  Each thread serves one request at a time,    *)
(* and each step of a request is one statement, or one statement with its  *)
(* commit.  The app is one process, as main.py:195-198 says it must be:    *)
(* its middleware resolves a role on the event loop without awaiting, one  *)
(* request after the other, while the endpoints run in a pool of threads.  *)
(***************************************************************************)
EXTENDS Naturals, FiniteSets

CONSTANTS
    Users,
    Threads,
    Allowlist,     \* users on the Google admin allowlist
    DefaultRole,   \* role of a new Google user who is not
    Modes,         \* initial values of overlap
    None

VALID_ROLES == {"viewer", "analyst", "executive", "admin"}

Rank == [r \in VALID_ROLES |->
            CASE r = "viewer" -> 0 [] r = "analyst" -> 1
              [] r = "executive" -> 2 [] r = "admin" -> 3]

ASSUME RolesAssumption ==
    /\ Allowlist \subseteq Users
    /\ DefaultRole \in VALID_ROLES
    /\ Modes \subseteq BOOLEAN
    /\ None \notin VALID_ROLES /\ None \notin Users

VARIABLES
    overlap,   \* may requests interleave?  Chosen once, at the start
    role,      \* app_roles: a user's role, or None without a row
    cache,     \* _role_cache: a user's cached role, or None
    pc,        \* where thread t's request is
    user,      \* its caller; the user whose role it has changed
    got,       \* the role it read, or uses
    first      \* history: users made admin for being the first

vars == <<overlap, role, cache, pc, user, got, first>>

Init ==
    /\ overlap \in Modes
    /\ role = [u \in Users |-> None]
    /\ cache = [u \in Users |-> None]
    /\ pc = [t \in Threads |-> "idle"]
    /\ user = [t \in Threads |-> None]
    /\ got = [t \in Threads |-> None]
    /\ first = {}

MayStart(t) ==
    /\ pc[t] = "idle"
    /\ overlap \/ \A s \in Threads : pc[s] = "idle"

\* What the middleware has begun it ends before it looks at another request.
Resolving == {"lookup", "count", "insert", "cache"}

\* A middleware that resolves in the thread pool.
ResolvesInThreads == TRUE

EventLoopIsFree == \A s \in Threads : pc[s] \notin Resolving

Becomes(t, where, who, what) ==
    /\ pc' = [pc EXCEPT ![t] = where]
    /\ user' = [user EXCEPT ![t] = who]
    /\ got' = [got EXCEPT ![t] = what]

Finish(t) == Becomes(t, "idle", None, None)

-----------------------------------------------------------------------------
(* _resolve_role, on every request of a signed-in user.                    *)

Request(t, u) ==
    /\ MayStart(t)
    /\ EventLoopIsFree
    /\ IF cache[u] # None
       THEN Becomes(t, "in", u, cache[u])
       ELSE Becomes(t, "lookup", u, None)
    /\ UNCHANGED <<role, cache, first>>

Lookup(t) ==
    /\ pc[t] = "lookup"
    /\ IF role[user[t]] # None
       THEN Becomes(t, "cache", user[t], role[user[t]])
       ELSE Becomes(t, "count", user[t], None)
    /\ UNCHANGED <<role, cache, first>>

FirstRole == IF \A u \in Users : role[u] = None THEN "admin" ELSE "analyst"

CountRoles(t) ==
    /\ pc[t] = "count"
    /\ Becomes(t, "insert", user[t], FirstRole)
    /\ UNCHANGED <<role, cache, first>>

\* The primary key refuses a second row: that request ends in a 500.
InsertRole(t) ==
    /\ pc[t] = "insert"
    /\ IF role[user[t]] = None
       THEN /\ role' = [role EXCEPT ![user[t]] = got[t]]
            /\ first' = IF got[t] = "admin" THEN first \cup {user[t]} ELSE first
            /\ Becomes(t, "cache", user[t], got[t])
       ELSE /\ Finish(t)
            /\ UNCHANGED <<role, first>>
    /\ UNCHANGED cache

CacheRole(t) ==
    /\ pc[t] = "cache"
    /\ cache' = [cache EXCEPT ![user[t]] = got[t]]
    /\ Becomes(t, "in", user[t], got[t])
    /\ UNCHANGED <<role, first>>

Leave(t) ==
    /\ pc[t] = "in"
    /\ Finish(t)
    /\ UNCHANGED <<role, cache, first>>

\* Five minutes after it was cached.
Expire(u) ==
    /\ cache[u] # None
    /\ cache' = [cache EXCEPT ![u] = None]
    /\ UNCHANGED <<role, pc, user, got, first>>

-----------------------------------------------------------------------------
(* admin_set_role.                                                         *)

Assignable == {"analyst", "executive", "admin"}

\* No check of who is demoted.
MayAssignAnyone(t, v, r) == got[t] = "admin"

MayAssign(t, v, r) == got[t] = "admin" /\ (v = user[t] => r = "admin")

SetRole(t, v, r) ==
    /\ pc[t] = "in"
    /\ MayAssign(t, v, r)
    /\ role[v] # None
    /\ role' = [role EXCEPT ![v] = r]
    /\ Becomes(t, "invalidate", v, None)
    /\ UNCHANGED <<cache, first>>

\* A change of role that forgets the cache.
CacheUntouched(u) == cache

CacheWithout(u) == [cache EXCEPT ![u] = None]

InvalidateRoleCache(t) ==
    /\ pc[t] = "invalidate"
    /\ cache' = CacheWithout(user[t])
    /\ Finish(t)
    /\ UNCHANGED <<role, first>>

-----------------------------------------------------------------------------
(* find_or_create_user.                                                    *)

TargetRole(u) == IF u \in Allowlist THEN "admin" ELSE DefaultRole

GoogleSignIn(t, u) ==
    /\ MayStart(t)
    /\ Becomes(t, "google", u, role[u])
    /\ UNCHANGED <<role, cache, first>>

\* Sign-in sets the role the allowlist says, up or down.
NeedsOther(t) == TargetRole(user[t]) # got[t]

NeedsRaise(t) == Rank[TargetRole(user[t])] > Rank[got[t]]

RaiseOrCreate(t) ==
    /\ pc[t] = "google"
    /\ IF got[t] = None
       THEN /\ role' = IF role[user[t]] = None
                       THEN [role EXCEPT ![user[t]] = TargetRole(user[t])]
                       ELSE role
            /\ Finish(t)
       ELSE IF NeedsRaise(t)
       THEN /\ role' = [role EXCEPT ![user[t]] = TargetRole(user[t])]
            /\ Becomes(t, "invalidate", user[t], None)
       ELSE /\ Finish(t)
            /\ UNCHANGED role
    /\ UNCHANGED <<cache, first>>

Step(t) ==
    \/ \E u \in Users : Request(t, u) \/ GoogleSignIn(t, u)
    \/ Lookup(t) \/ CountRoles(t) \/ InsertRole(t) \/ CacheRole(t) \/ Leave(t)
    \/ \E v \in Users, r \in Assignable : SetRole(t, v, r)
    \/ InvalidateRoleCache(t)
    \/ RaiseOrCreate(t)

Next ==
    /\ \/ \E t \in Threads : Step(t)
       \/ \E u \in Users : Expire(u)
    /\ UNCHANGED overlap

Spec == Init /\ [][Next]_vars

-----------------------------------------------------------------------------
(* Properties.                                                             *)

\* Type invariant of the table, the cache and the requests.
TypeOK ==
    /\ overlap \in Modes
    /\ role \in [Users -> VALID_ROLES \cup {None}]
    /\ cache \in [Users -> VALID_ROLES \cup {None}]
    /\ pc \in [Threads -> {"idle", "lookup", "count", "insert", "cache", "in",
                           "invalidate", "google"}]
    /\ user \in [Threads -> Users \cup {None}]
    /\ got \in [Threads -> VALID_ROLES \cup {None}]
    /\ first \subseteq Users

\* auth.py:127-128 "The very first user to sign in becomes 'admin'; everyone
\* after defaults to 'analyst'": at most one user is made admin that way,
\* although the count and the insert are two statements and the sign-ins and
\* admins in the pool of threads write the table between them.
OneBootstrapAdmin == Cardinality(first) <= 1

\* admin.py:57 "so the change takes effect immediately": unless a request is
\* about to drop it, a cached role is the role in the table, as long as
\* requests do not interleave.
CachedRoleIsCurrent ==
    ~overlap =>
        \A u \in Users :
            \/ cache[u] \in {None, role[u]}
            \/ \E t \in Threads : pc[t] = "invalidate" /\ user[t] = u

\* admin.py:30 "You cannot demote yourself", since only an admin can make
\* another: the app loses its last admin only through a request that acts on
\* a role its user no longer has.  Without interleaving there is none.
LastAdminGoesOnlyByStaleRole ==
    [][(\E u \in Users : role[u] = "admin")
          /\ (\A u \in Users : role'[u] # "admin")
          => \E t \in Threads : /\ pc[t] \in {"in", "google"}
                                /\ pc'[t] # pc[t]
                                /\ got[t] # role[user[t]]]_vars

\* google_auth.py:175 "Roles are only ever RAISED": no Google sign-in lowers
\* a role, as long as requests do not interleave.
GoogleOnlyRaises ==
    [][\A t \in Threads :
          ~overlap /\ pc[t] = "google" /\ RaiseOrCreate(t) /\ role[user[t]] # None
          => Rank[role'[user[t]]] >= Rank[role[user[t]]]]_vars

=============================================================================
