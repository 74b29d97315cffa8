------------------------------ MODULE AuditLog ------------------------------
(***************************************************************************)
(* The hash-chained audit trail of app/audit.py.  record() reads the hash  *)
(* of the newest row of a workspace and, in a later statement, inserts a   *)
(* row chained to what it read; verify() walks the rows oldest to newest   *)
(* and recomputes every link.  Several request threads may be inside       *)
(* record() at once; somebody with access to the table may also edit or    *)
(* remove rows behind the application's back.                              *)
(*                                                                         *)
(* SHA-256 is idealised as an injective constructor: the hash of a row is  *)
(* the sequence of the bodies chained so far, so equal hashes mean equal   *)
(* histories.  The text "" that starts a chain is the empty sequence.      *)
(***************************************************************************)
EXTENDS Naturals, Sequences

CONSTANTS
    Workspaces,  \* tenant scopes; every chain is per workspace
    Recorders,   \* request threads that may be inside record()
    Bodies,      \* canonical JSON bodies (_canonical), what the hash covers
    Emails,      \* values of actor_email, a column the hash does not cover
    MaxRows,     \* bound: rows ever inserted in one workspace
    Overlap,     \* TRUE: two calls of record() may overlap
    Tampering    \* TRUE: rows may be edited or removed from outside

ASSUME RowBoundAssumption == MaxRows \in Nat
ASSUME ModeAssumption == Overlap \in BOOLEAN /\ Tampering \in BOOLEAN

Hash == Seq(Bodies)
Row == [body: Bodies, actor_email: Emails, prev_hash: Hash, row_hash: Hash]
Call == [ws: Workspaces, body: Bodies, actor_email: Emails, prev_hash: Hash]
NoCall == <<>>

VARIABLES
    log,       \* log[w]: the rows of workspace w in id order
    call,      \* call[r]: what recorder r has read, or NoCall
    inserted,  \* inserted[w]: rows inserted so far, the bounded counter
    touched    \* history: workspaces whose rows were changed from outside

logVars == <<log, call, inserted, touched>>

LogInit ==
    /\ log = [w \in Workspaces |-> <<>>]
    /\ call = [r \in Recorders |-> NoCall]
    /\ inserted = [w \in Workspaces |-> 0]
    /\ touched = {}

-----------------------------------------------------------------------------
(* The pieces of record() and verify().                                    *)

RowHash(prev, body) == Append(prev, body)

LastHash(rows) == IF rows = <<>> THEN <<>> ELSE rows[Len(rows)].row_hash

\* The hash verify() holds in its local variable when it reaches row i.
PrevHash(rows, i) == IF i = 1 THEN <<>> ELSE rows[i - 1].row_hash

\* A verify() that only follows the links and never recomputes a hash.
LinkOnlyGoodLink(rows, i) == rows[i].prev_hash = PrevHash(rows, i)

GoodLink(rows, i) ==
    /\ rows[i].row_hash = RowHash(PrevHash(rows, i), rows[i].body)
    /\ rows[i].prev_hash = PrevHash(rows, i)

\* A verify() whose answer is that of the last iteration of its loop.
NewestLinkOk(rows) == rows = <<>> \/ GoodLink(rows, Len(rows))

VerifyOk(rows) == \A i \in 1 .. Len(rows) : GoodLink(rows, i)

-----------------------------------------------------------------------------
(* record(): the SELECT of the newest hash, then INSERT and COMMIT.        *)

Idle(r) == call[r] = NoCall

Begin(r, w, b, e) ==
    /\ Idle(r)
    /\ Overlap \/ \A q \in Recorders : Idle(q)
    /\ call' = [call EXCEPT ![r] =
                   [ws |-> w, body |-> b, actor_email |-> e,
                    prev_hash |-> LastHash(log[w])]]
    /\ UNCHANGED <<log, inserted, touched>>

\* A row whose hash covers its own body but not the previous hash.
UnchainedRow(c) == [body |-> c.body, actor_email |-> c.actor_email,
                    prev_hash |-> c.prev_hash, row_hash |-> <<c.body>>]

NewRow(c) == [body |-> c.body, actor_email |-> c.actor_email,
              prev_hash |-> c.prev_hash,
              row_hash |-> RowHash(c.prev_hash, c.body)]

Insert(r) ==
    /\ ~Idle(r)
    /\ LET w == call[r].ws IN
        /\ inserted[w] < MaxRows
        /\ log' = [log EXCEPT ![w] = Append(@, NewRow(call[r]))]
        /\ inserted' = [inserted EXCEPT ![w] = @ + 1]
    /\ call' = [call EXCEPT ![r] = NoCall]
    /\ UNCHANGED touched

\* The blanket except of record(), or the end of the process, in between.
Abandon(r) ==
    /\ ~Idle(r)
    /\ call' = [call EXCEPT ![r] = NoCall]
    /\ UNCHANGED <<log, inserted, touched>>

-----------------------------------------------------------------------------
(* The outside world changing committed rows.                              *)

Without(rows, i) == SubSeq(rows, 1, i - 1) \o SubSeq(rows, i + 1, Len(rows))

EditBody(w, i, b) ==
    /\ Tampering
    /\ log[w][i].body # b
    /\ log' = [log EXCEPT ![w][i].body = b]
    /\ touched' = touched \cup {w}
    /\ UNCHANGED <<call, inserted>>

EditEmail(w, i, e) ==
    /\ Tampering
    /\ log[w][i].actor_email # e
    /\ log' = [log EXCEPT ![w][i].actor_email = e]
    /\ touched' = touched \cup {w}
    /\ UNCHANGED <<call, inserted>>

Remove(w, i) ==
    /\ Tampering
    /\ log' = [log EXCEPT ![w] = Without(@, i)]
    /\ touched' = touched \cup {w}
    /\ UNCHANGED <<call, inserted>>

Tamper(w) ==
    \E i \in 1 .. Len(log[w]) :
        \/ \E b \in Bodies : EditBody(w, i, b)
        \/ \E e \in Emails : EditEmail(w, i, e)
        \/ Remove(w, i)

Record(r) ==
    \/ \E w \in Workspaces, b \in Bodies, e \in Emails : Begin(r, w, b, e)
    \/ Insert(r)
    \/ Abandon(r)

LogNext ==
    \/ \E r \in Recorders : Record(r)
    \/ \E w \in Workspaces : Tamper(w)

LogSpec == LogInit /\ [][LogNext]_logVars

-----------------------------------------------------------------------------
(* Properties.                                                             *)

\* Type invariant: every table row and every call in flight is well formed.
LogTypeOK ==
    /\ log \in [Workspaces -> Seq(Row)]
    /\ call \in [Recorders -> Call \cup {NoCall}]
    /\ inserted \in [Workspaces -> 0 .. MaxRows]
    /\ touched \subseteq Workspaces

\* audit.py:84-85 "A broken link means a row was altered or removed": verify()
\* says the chain of a workspace whose rows nobody touched is whole.
ChainIntact == \A w \in Workspaces \ touched : VerifyOk(log[w])

\* audit.py:5-7: changing what an earlier row says, or removing one that is
\* not the newest, turns a chain that verified into one that does not.
TamperDetected ==
    [][\A w \in Workspaces : \A i \in 1 .. Len(log[w]) :
          /\ VerifyOk(log[w])
          /\ \/ \E b \in Bodies : EditBody(w, i, b)
             \/ i < Len(log[w]) /\ Remove(w, i)
          => ~VerifyOk(log'[w])]_logVars

\* Where nobody touched the rows, verify() fails exactly on a fork: two rows
\* of the workspace chained to the same predecessor by overlapping record()
\* calls.  So rows of one workspace never chain to those of another, either.
Forked(rows) ==
    \E i, j \in 1 .. Len(rows) : i # j /\ rows[i].prev_hash = rows[j].prev_hash

BrokenOnlyByFork ==
    \A w \in Workspaces \ touched : VerifyOk(log[w]) <=> ~Forked(log[w])

\* Nothing the application does later makes verify() answer ok again for a
\* chain that was broken, by a fork or from outside.
NeverHeals ==
    [][\A w \in Workspaces :
          ~VerifyOk(log[w]) /\ VerifyOk(log'[w]) => Tamper(w)]_logVars

=============================================================================
