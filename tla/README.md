# Closebrief in TLA+

Closebrief turns uploaded finance figures into computed facts, has a language
model narrate them, and lets analysts edit, review and print the result. It is
one FastAPI process (`src/app`, run by a single uvicorn, `main.py:194-198`) on
SQLite or Postgres, with an optional Redis. Endpoints are ordinary functions run
in a thread pool, so requests interleave at every database statement; only the
middleware that resolves a request's role and workspace is a coroutine that calls
plain functions (`main.py:218-265`), so the event loop does that for one request
at a time. An external pinger calls the scheduler; a pool of two threads delivers
notifications. This directory models the parts whose correctness depends on
those interleavings, on crashes, or on long sequences of calls.

Line numbers below are of `src/app`.

## Inventory

| Component | State | Operations | Talks to | What makes it correct |
|---|---|---|---|---|
| Audit trail, `audit.py` | `audit_log`, a hash chain per workspace | `record`, `verify`, `list_entries` | called by every endpoint that changes something | every change of a row is noticed; nothing else is |
| Scheduler, `scheduling.py` | `scheduled_jobs`, `scheduler_runs` | tick, create/enable/delete job | runs digests, packs, scans, syncs, retention; alerts through notifications | each due job is run once per period; failures are counted, and reported once unless that one delivery fails |
| Reports and review, `main.py`, `review.py`, `digest/`, `board_pack.py` | `generated_reports`, `feedback`, `report_versions` | generate, digest, edit, assign, review; card and pack | datasets, cache, audit | a report stays with its data; history loses nothing; a pack narrates its own facts |
| Datasets, `datasets.py`, `demo.py` | `datasets.is_active` per universe (the demo, each workspace) | create, activate, delete | read by almost every endpoint | one active dataset per universe; no universe is reached from another |
| Connectors, `connectors.py` | `connectors`, a dataset each | create, delete, sync | scheduler, ingestion | what an interrupted sync leaves is repaired by the next |
| Derived metrics and KPIs, `compute/derived.py`, `kpis.py`, `formula.py` | `computed_facts`, `derived_metrics`, `metric_values` | compute, define, materialise, refresh | ingestion, connectors | facts follow values and formulas |
| Response cache, `cache.py` | namespace counter, entries; a memo per process | get, set, bump | writers bump after their commit | no answer older than the promised window |
| App roles, `auth.py`, `routers/admin.py`, `google_auth.py` | `app_roles`, a role cache per process | sign-in, Google sign-in, set role | middleware, before every endpoint | one bootstrap admin, always an admin left, cached role = stored role |
| Workspaces, `workspaces.py` | members, invites | resolve, create, invite, join | middleware; scopes every query | requests run where their caller belongs; an invite admits one person |
| Budget and retention, `billing.py`, `retention.py`, `services.py` | `llm_calls`, plan and limit | check, log, purge | before and after each model call | spend passes the limit by no more than what is in flight |
| Database layer, `db.py` | pool of connections, tenant scope, migrations | get, close, migrate | everyone | a connection carries no one else's scope; no waiting in a circle |
| Knowledge base, `context/`, `retrieval/` | rows, vectors, the FAISS file | add, update, delete, reindex, retrieve | generation | index and rows agree; retrieval finds the best eligible documents |
| Ingestion, `ingestion/` | `metrics`, `metric_values`, `pvm_bridges` | profile, normalise, store, join a budget | datasets, generation | a sheet's layout and its subtotals do not change its figures |
| Deterministic analysis, `compute/` | none | aggregate, compare, streak, bridge, forecast | generation, cards | the figures of one series agree with each other |
| Generation and guard, `generation/`, `grounding/` | the running request; `generated_reports` | generate, retry, guard, close, drill down | budget, knowledge base | guard, closing, confidence, drill-down and billing agree |
| Rate limit, `main.py:199-287` | a window per address | admit, sweep | middleware | at most 240 a minute |
| Notifications, `notifications/` | subscriptions | deliver | scheduler, endpoints | one bad channel does not stop the others |
| Close status, `routers/close.py` | none | read | reports, datasets | shows what the tables say |
| Configuration and LLM clients, browser UI | settings; client state | | | |

Hard behaviours: overlapping requests between two statements (audit, versions,
invites, roles, dataset switches, refreshes, the two calls of an index update and
the writing of its file), state read before a model
call of many seconds and used after it (reports, cache, budget), caches with a time
to live (roles, namespace memo), pooled connections that carry a tenant, handlers
that hold one connection and wait for another, a tick that dies or fails half way,
work in several transactions (dataset deletion, bookkeeping of a job, a sync, the
index), and chains of pure functions each of which reads what the one before it
wrote (layout to rows to facts to text to guard). `PROJECT.json` lists each hazard
at its line with the properties aimed at it.

## What is modelled

| Module | Component | State and actions |
|---|---|---|
| `AuditLog` | audit trail | `log` is `audit_log`; `call` holds what a thread inside `record` has read. `Begin` is the SELECT, `Insert` the INSERT, `Abandon` the blanket `except`. `EditBody`, `EditEmail` and `Remove` are somebody with access to the table. `VerifyOk` is `verify`. |
| `Scheduler` | scheduler | columns of `scheduled_jobs`; `streak` and `alerts` summarise `scheduler_runs` and what was sent. `BeginTick` takes the snapshot, `RunJob` is the job up to the `except`, `LogRun` the INSERT, UPDATE and commit, `AlertJobFailure` the one delivery, which may fail and is swallowed (`scheduling.py:283-291`): the job is then in `unheard`, since the equality test of `:360` tries no second time. `AbortTick` is a statement failing in an aborted Postgres transaction; `Crash` is the end of the process. |
| `Reports` | reports, review, datasets | the four tables; one program counter per request. `Begin` and `Persist` stand around the model call; a digest is given the active dataset, or nothing if there is none yet, and then looks it up again in `LoadFacts` and in `Persist` (`digest.py:50`, `:172`); `PostEdit`, `CountVersions`, `ReadMaxVersion`, `InsertVersion` are the statements of `/feedback` and `add_version`; `DeleteDataset` and `ReactivateNewest` the two transactions of `delete_dataset`. `ReadFacts`, `ReadDataset` and `ReadNarratives` are the pack's three look-ups (`main.py:1871-1884`); `Shown` is what the card prints. |
| `ResponseCache` | cache | `ns` and `store` are in Redis; `memo` and `fetched` per process. A reader looks up, reads the data, waits for the model and fills; a writer commits and bumps. |
| `Roles` | app roles | `role` is `app_roles`, `cache` is `_role_cache`. One action per statement of `_resolve_role`, `admin_set_role`, `find_or_create_user`. `EventLoopIsFree` lets the middleware resolve one request at a time; what endpoints write comes in between. |
| `Workspaces` | workspaces | members and invites; a request resolves its workspace, on the event loop like its role, then runs one endpoint, in a thread. `ClaimInvite` is the transaction of `accept_invite`. |
| `InviteClaims` | what an invite promises | abstract: a token is issued for one person or anyone, and lets one person in once. `Workspaces` implements it. |
| `Requests` | database layer, budget, retention | composes the pool, the tenant scope and the bills around one program counter per request. `owner`, `scope` and `base` are the pooled sessions with what `app.workspace_id` shows and what a rollback takes it back to; `Acquire` is `get_connection` with `_set_rls_scope`, `Closed` the cleaning on close. `enforce_budget`, `Load`, `Search`, `ModelAnswers`, `PersistReport`, `log_llm_call` are the stages, each of which first waits for the connections it needs. |
| `Figures` | datasets, connectors, derived metrics | a request is a list of steps (`todo`), each a statement that reads or a transaction that writes; contents are stamps of the upload they come from. `Request` chooses one of the endpoints (ingest, sync, budget join, compute, define a derived metric, activate, delete); `Fails` cuts it off after any step. |
| `KnowledgeBase` | documents, index, retrieval | `text` are the rows, `index` the vectors in memory or in Postgres, `disk` the FAISS file, `torn` while it is no whole one. `Add`, `Update`, `Delete`, `reindex_all` commit rows. Postgres then takes a document's vector in one statement, `StoreVectors`. FAISS takes it in two calls, `RemoveIds` and `AddIds`, between which other threads come, so a document may get two vectors; then every writer writes the one file, from `OpenFile` to `CloseFile`, and one whom another disturbs (`mixed`) leaves it torn. `Restart` loads the file, under the same or another embedding model; of a torn one nobody knows what. `BeginRetrieve` and `Search` are the widening search. |
| `Values` | | `None` and arithmetic on it, shared by the four modules below. |
| `Sheets` | ingestion | pure: the three layouts and which of their lines are roll-ups, normalisation, the sum per metric and month, price-volume bridges, and whom a line of a budget file is for. |
| `Trends` | analysis | pure: facts of a month, quarters and years, comparison of two months, streaks. |
| `Grounding` | guard and drill-down | pure: what a text may cite, when a figure matches, what the drill-down says, confidence, the closing with the metric's name and its figures in dollars, as a count or in per cent. |
| `MonthEnd` | ingestion to generation | composes the three: `Upload` or `SyncRow`, `MatchBudget`, then a request that loads a fact, asks the model, is sent back once by the guard, closes, checks and bills. |

`MC*` modules hold TLC's bounded constants and symmetry sets, `*Proofs` modules the
theorems.

Two conventions. Where a module offers a second operator next to the real one
(`UnchainedRow` next to `NewRow`, `KeptAll` next to `Without`), it is the real one
with a plausible bug; no run uses it, and each property is shown to fail when it
replaces the real one. `overlap`, in `Reports`, `Roles` and `Figures`,
is chosen in the first state and never changes: with it FALSE a request starts only
when none is running, so one run covers serial and interleaved use, and a property
that the code keeps only for serial requests says `~overlap =>`. `AuditLog` and
`Scheduler` have a constant for the same purpose. Such a property does not look at
the interleaving it is stated without: `NewestVersionIsShown`, `CachedRoleIsCurrent`,
`GoogleOnlyRaises`, `OneActive`, half of `ReportNarratesItsDataset` and of
`PackNarratesItsFacts`, and everything `SchedSafe` checks. What those interleavings
do is listed under the divergences.

## Runs

| Run | Bounds | Shows |
|---|---|---|
| `AuditLog` | 1 workspace, 2 threads, 3 rows, 2 bodies | With overlapping calls and tampering: every edit of a hashed column and every removal of an inner row turns a good chain bad (`TamperDetected`); an untouched chain is bad exactly when two rows share a predecessor (`BrokenOnlyByFork`); nothing mends a bad chain from inside (`NeverHeals`). |
| `SchedSafe` | 2 jobs (periods 1 and 2), clock to 3, streaks to 4 | Serial ticks, crashes, SQL errors, admins: the failure count is the streak in the log and no job succeeds twice in a period, except for jobs whose bookkeeping a crash cut off (`lost`); one alert is tried per streak of three, and the operator heard it unless that one delivery failed (`unheard`). |
| `SchedLive` | 2 jobs, clock to 2 | A due job is run or taken out by an admin, also behind failing jobs. |
| `Reports` | 2 datasets, 1 insight, 1 digest, 2 editors | No edit is lost and version 1 is the original however edits interleave; reports of digests that were given a dataset stay with it across switches and deletions, all others when requests are serial; newest version and card agree when requests are serial; a pack prints narratives of its own facts unless datasets are switched while it is made (`PackNarratesItsFacts`). `PacksOrEdits` leaves out runs with both packs (or review decisions) and edits, which read nothing of each other. |
| `Cache` | 2 processes, 2 readers, 3 writers (one never bumps), clock to 3, memo 1 | With failing Redis calls, and data that may change while the model writes: the namespace after a bump holds only current answers, and an answer that was current when stored is served by no process for longer than a memo lives after the first `INCR` behind the change that outdated it. Answers outdated when they were stored (`late`), or by changes whose every `INCR` failed, are outside both statements and served until they expire. |
| `Roles` | 3 users (one on the allowlist), 2 threads | The last admin is lost only through a request acting on a role its user no longer has; one user at most is made admin for being the first, however requests overlap (`OneBootstrapAdmin`); when they are serial the cache is right and Google sign-in lowers nobody. |
| `Workspaces` | 2 users, 2 threads, 2 invites, 3 workspaces | The invite protocol refines `InviteClaims` (`ClaimsSpec`); requests run in their caller's workspaces; who is not an admin came by an invite of his own; nobody is given a second personal workspace, however requests overlap and die (`OnePersonalWorkspace`). |
| `Requests` | 2 threads, 2 connections, 1 workspace, costs to 1, limits 1, 2 and none | A session in use shows its request's tenant and a pooled one nobody's, through rollbacks and discarded connections (`ScopesDoNotLeak`); the month's spend passes the highest limit set by less than one request's cost per thread (`OvershootIsInFlight`); every request ends, though two of them may hold all connections and wait for another (`EveryRequestEnds`). |
| `Figures` | 2 threads, the demo and a workspace, 3 datasets (2 where requests overlap), 3 uploads, one for which the formula has no value | One active dataset when requests are serial; a dataset whose last writer ran alone and to its end has facts and derived values of its current figures, whatever was interrupted or overlapped before (`FactsFollowValues`); no request changes what another universe shows (`UniversesAreApart`). |
| `KnowledgeBase` | 2 threads, 2 universes, 2 documents, 2 texts, 2 dimensions, one chunk wanted, a window of one, both stores | A document whose last writer was alone on it and finished has one vector, that of its text, in the index and in a file that is whole, through overlapping writers, restarts and changes of model; Postgres keeps no second vector and none of a document that is gone. A retrieval ends with the best eligible documents that have a vector, however others crowd the window, unless one of them was left with two. `Bounds` keeps at most three vectors, and on FAISS, which knows no universes, one universe, retrieval before the first file, and one busy thread under the other model. |
| `MonthEnd` | 4 items of two accounts and two products over two months, one quantity or blank, three layouts with each kind of roll-up; or a feed over five months across two year ends, of a count named "1400 Orders"; one account is in per cent; 4 budget files, 4 contexts, 8 texts, streaks from 2 | Rows of every layout add up to the books; bridges explain the variance; a budget join only fills in budgets, of lines meant for the row; years, quarters and months agree; a streak is the longest monotone run; the closing never breaks a faithful text, unless the metric's own name states a figure the guard flags; High confidence is earned; the drill-down never clears what the guard flagged; a request that answers bills all its calls. |
| `SchedPoison` | 2 jobs, clock to 1 | Counterexample: a SQL error in one job ends the tick before the other due jobs (`scheduling.py:341`). |

Why the bounds are enough. A fork needs two threads, and a row before and after a change
needs three rows. An alert needs three failures, and one more shows that it is not
repeated; two jobs are what it takes for one to stand in another's way. Two editors race
for a number, and one may be first or second, empty or not. Two processes are what it
takes for a memo to be stale; three writers give a silent one, one that bumps and one
whose bump comes late. Two users and two threads race for one invite; a third workspace
lets both have a personal one and share one. A third user lets two admins demote each
other with somebody left to sign in. Two handlers that each hold one of two connections
and want a second wait in a circle, and two admitted requests are what it takes to
overshoot. Three uploads let a refresh between two of them be stale and then be
repaired. Two writers of one document, or of two, are what it takes for a second vector
or a torn file. With a window of one, a single document of the other universe hides the
eligible one, and two doublings exhaust the index. Month 13 of the feed a year before
month 25, and month 12 before it, give yearly changes, gaps and a turn of the year; a
price above and one far below $1000 makes figures that are printed in thousands and in
full. `MinMonths` is 3 in the code: 2 lets runs at, below and above it fit in the feed.

Fairness. `SchedLive` assumes weak fairness of `TickStep(t)`: the pinger is a cron
service that calls again and again, and a tick is a loop over a finite list whose
steps the process takes unless it dies. The clock and the admins are under no
fairness, and liveness is checked without crashes and SQL errors: with either,
`SchedPoison` shows what happens. `Requests` assumes weak fairness of `Step(t)`: a
request's thread runs on, and its step includes giving up when the pool's time-out
has passed and the model client's own time-out; arrivals, failures, rollbacks and
admins are under no fairness.

`CHECK_DEADLOCK FALSE` is set where every request runs once and the system then
rests (`Reports`, `Cache`).

## Proofs

All theorems are for any values of the constants that satisfy the named assumptions
of the modules, which TLC evaluates in every run.

- `AccessProofs`, of `AuditLog`. `LogTypeCorrect`. `SerialChainIntact`: if calls do not
  overlap, the chain of an untouched workspace verifies. That is not inductive, since an
  insert chains to what was read, so `FreshRead` adds that what a thread holds is still
  the newest hash, and that only one thread is inside. `TamperIsDetected`, from a lemma
  that a hash chain is injective: the changed row, or the one after the removed row, no
  longer fits (SHA-256 is idealised as an injective constructor). `BrokenForGood`: an
  append leaves earlier rows as they are. `OnlyForksBreak`: `LinkInv` says that every
  row, and every read hash, chains to some earlier row; the first row that does not
  chain to its neighbour then shares its predecessor with another, and a chain that
  verifies has no two hashes alike.
- `SchedulerProofs`, if ticks do not overlap. `SerialFailCount`: the snapshot of the
  running tick agrees with the table for the jobs still to be run (`SerialInv`).
  `SerialOncePerPeriod`: the next run time of a job is bounded from below by the end
  of the period its last success was for, except for the job being booked and for
  lost ones (`QuietInv`). `SerialOneAlert` and `SerialAlerts`: what the tick
  remembers of a count is the streak itself, for jobs deleted under it as well, so
  the step that brings it to three is the only one that alerts (`AlertInv`); that the
  operator heard of it is proved except where the delivery of that step failed.
- `ReportsProofs`. `NoEditIsLost` and `HistoryStartsAtGeneration`, for any number of
  interleaving editors: an editor that needs no original has seen a version, and one
  that read no version number is about to write the original (`FirstInv`).
  `ReportsStayWithTheirFacts` (`GenInv`: a digest that was given a dataset looks at no
  other, and a serial generation is alone, so what it began with is still active).
  `PacksNarrateTheirFacts`, however requests overlap: while no dataset comes, goes or
  is activated, the pack's second look-up finds what its first did; the serial half
  rests on `ReportsStayWithTheirFacts`. `ReportsTyped`. `HistoryEndsAtCard`:
  the newest version and the last edit of a report are the same text, except while the
  one editor that may run is between its two statements, so the invariant says what
  each of the statements has left to do.
- `ResponseCacheProofs`. `TypeCorrect`, `FreshOnceBumped`, `StaleForAMemo`. The
  invariant `FreshInv`: an outdated answer that was not late is in a namespace that
  has been left, and a process that remembers that namespace fetched it before the
  change was bumped. The theorem is of answers that were current when stored, and
  counts from the first `INCR` that reached Redis; it bounds nothing else.
- `AccessProofs`, of `Roles`. `TypeCorrect`; `FirstAdminIsAlone`, `CacheFollowsTable`,
  `SignInRaises`; `LastAdminIsSafe`. The first and the last are of overlapping requests.
  `FirstInv` is why there is one bootstrap admin: rows are never removed, so somebody
  made admin as the first has a row, a count that finds none finds no such admin, and
  while the event loop waits for one such request it starts no other. The other two
  are of serial requests, from `OneAtATime` (what a lone request has read is still so).
- `WorkspacesProofs`. `TypeCorrect`; `ResolvedByMembership`; `MembersHadInvites`;
  `InvitesAreClaims`, the refinement `Spec => ClaimsSpec`; `PersonalIsOne`, of overlapping
  requests: from finding no workspace to making one the event loop is one request's, and
  endpoints only add memberships. An invite
  is accepted exactly when its token let somebody in, and a request about to claim
  has found an invite meant for its caller (`InviteInv`); the claim looks at the row
  again, which is why nothing more is needed.
- `RequestsProofs`. `TypeCorrect`; `ScopesNeverLeak` (`ScopeInv`: what a rollback
  falls back to is what shows); `OvershootIsBounded` (`SpendInv`: the spend with one
  cost set aside for every admitted request stays under some limit that was in
  force plus one cost per thread).
- `KnowledgeBaseProofs`. `TypeCorrect`; `IndexIsInSync`, from `IndexInv`: a writer that
  is alone on a document has still to write what agrees with its row (`AgreeInv`), and
  nobody else works on what it owns (`OwnInv`). Between the two calls of an upsert the
  document has no vector, so its lone writer adds the first. A file is whole only if it
  was written by a thread that no other disturbed, and then holds what the index held
  all the while. `RetrievalFindsTheBest`: windows are beginnings of the same order, so
  the first K eligible of a window that has K, or that is not full, are the first K of
  all; that each document counts once among them is a premise, which only an overlap on
  FAISS breaks.

- `FiguresProofs`, of `Figures`. The steps a request has still to take are one of a
  finite number of lists (`Plans`), of which every step takes the head; `FiguresTyped`
  rests on it. `DemoIsApart`: what a request holds are rows of its own universe
  (`HomeInv`). `OneIsActive`: a lone request that is about to activate a dataset holds
  all rows of its universe (`SerialInv`). `FactsAreFresh`, the hardest of them: `LoneInv`
  says, step by step, what of a dataset is already current while its lone writer is on
  it, so that after its last step all of it is (`CleanInv`); a request holds only what it
  is about to write (`ReadInv`), and a dataset without values has nothing else
  (`BlankInv`).
- `FiguresProofs`, of `MonthEnd`. Sums come first: `SumFunction` over a finite set is a
  fold, and its laws (one element more, disjoint union, a sum of sums by group,
  differences, a common factor) are lemmas, each proved by taking the set of subsets for
  which it holds and showing that it is closed under adding an element (`SubsetsFill`).
  `DatasetInv` says what each stored row is the sum of. From it follow
  `LayoutsSayTheSame`, where every layout writes each item that is not blank into
  exactly one line and column, and `BridgesExplainVariance`, whose second half is a
  lemma on numbers that share a sign. `GranularitiesSayTheSame` groups a year's months
  by quarter. `StreaksAreRuns` shows that the maximal run is the one the code's backward
  walk finds. `BillsWhatItCalls` has its own `BillingInv`. `AnswerInv` (a shown insight
  is what its request and text determine) carries `HighIsEarned`, `DrillDownSaysTheSame`
  (the fields the drill-down tries are the values the guard allows) and
  `ClosingIsFaithful`, for which what `_fmt` prints of any amount or change, in any of
  its units, is shown to be within what the guard allows, given that the figures of the
  metric's name are. `JoinsOnlyFillIn` needs only that `None` is no metric (`NamesInv`).

Assumptions on the constants of `MonthEnd`: the items and the lines of a budget file are
finite in number; amounts, quantities and prices are integers; `None` is no value; what the
model says is one of `Claims` with its flags; figures have a positive denominator; a metric
is in dollars, a count or in per cent, and its name may state any figures (`Named`).

Only model-checked: liveness (`DueJobIsRun`, `EveryRequestEnds`), which is out of the
prover's reach. Every other property of the passing runs is a theorem.

## Assumptions and abstractions

- `Requests`: one database session per pooled connection; the two connections a
  digest holds are one; on SQLite there is no pool and the model does not apply. A
  scheduler tick is no request of it: the tick's connection is opened without a scope and
  stays so while a sync job changes the process's current workspace (`connectors.py:145`).
  `OvershootIsInFlight` is about calls in flight: a purge lowers the spend it bounds, so
  it does not see that a purge re-opens a budget.
- `Roles` and `Workspaces`: one process, as `main.py` runs it. With a second one, two
  requests could be resolved at once, and two first users become admin.
- `Scheduler`: an alert is delivered or not as a whole. A job that a SQL error poisoned
  is neither logged nor counted, so such failures are in no streak and alert nobody.
- `Reports` is one universe; `Figures` has the universes and no reports.
- `Figures`: a formula is what it makes of an upload, a value or nothing. `MonthEnd`
  has one dataset, which a new upload replaces, and requests work on what they loaded.
- `MonthEnd`: a text is one sentence with the figures, multiplier words and flags it
  states; dates, durations and the period's year are no figures; amounts are whole; the
  anomaly flag is left out of the closing. A metric is in dollars, a count or in per
  cent; another unit a user may type, "pp" among them, is left out. TLC's integers have
  32 bits, so the amounts of `MonthEnd.cfg` are small; the theorems are for all.
- `KnowledgeBase`: a text is its similarity to the query; ties go to the lower number.
  A call of the FAISS library is one step: two at the same instant are undefined in it.
  A torn file may load as any vectors, or as none.

## Known divergences without a run of their own

Unless said otherwise, they follow from a model above with a restriction lifted.

Interleavings:

- Two overlapping `record` calls fork the chain, and `verify` then fails for good for a
  workspace nobody touched (`audit.py:52`; `audit.py:85` says that a broken link "means a
  row was altered or removed").
- A dataset switch during the model call stores an insight under the other dataset
  (`main.py:1736` against `datasets.py:2-4`).
- Data that changes while the model writes: the old answer is filed under the new
  namespace, and stays until it expires (`cache.py:97` against `cache.py:67-68`).
- A digest that starts without a dataset (`main.py:1827`) looks for the active one
  before the model call and again after it (`digest.py:50`, `:172`): an upload in between
  gets the digest's report, or the other of two uploads does.
- The board pack reads its facts, then the active dataset, then that dataset's
  narratives (`main.py:1871-1884`): a switch in between prints one dataset's texts under
  the figures of another.
- FAISS is used by all threads without a lock. Two updates of one document may both
  remove its vector before both add theirs (`vector_store.py:54-55`), which leaves two;
  a retrieval then shows the document twice, and stops early since it counts it twice
  (`retrieve.py:60-72`). Two writers of any documents write the one index file
  (`vector_store.py:77-80`), which may be left torn, or older than the index.
- A second tick that starts before the first has ended runs the same jobs again and
  can lose a failure count (`scheduling.py:310-311`); `tests/test_scheduling.py:137`
  tests serial ticks only. Set `Overlap = TRUE`.
- Two edits of one report at once may take the same version number (`review.py:19-29`).
- A role read before a change may be cached after it; a Google sign-in may overwrite a
  promotion; two admins may demote each other. (Two first sign-ins do not make two
  admins, nor one new user's first two requests two personal workspaces, although both
  look before they write: role and workspace are resolved on the event loop, see above.)
- Two activations, or an insertion and an activation, that interleave under Postgres
  may leave two active datasets; a reader takes the newest.
- Concurrent requests pass the month's limit by what is in flight.

Long sequences of legal calls:

- The board pack prints the original text of a report that was edited
  (`main.py:1884` against `main.py:1864-1866`). An empty edit resets the card and makes
  no version (`main.py:2007`). A review decision stands after a later edit.
- A failed alert is never sent again: the exception is dropped
  (`scheduling.py:283-291`), and the fourth failure is no longer equal to three (`:360`).
  A failure that poisons the transaction is never logged, and so never counted.
- Deleting a dataset leaves the `report_versions` rows of its reports
  (`datasets.py:138`).
- An only admin who accepts an analyst invite to his own workspace demotes himself
  (`workspaces.py:26-33`).
- A retention window shorter than the month deletes rows the month's spend is summed
  from and re-opens the budget (`retention.py:26`).
- A connector sync never bumps the cache (`cache.py:8-11` says every ingest does);
  one in which every connector failed counts as a success, so nothing alerts
  (`scheduling.py:294-305`); it overwrites budgets that were joined; the look-up of its
  dataset by name does not look at `is_demo`; and its `set_active` for a workspace
  without a dataset never happens, since it has just made one.
- A failed sync or ingest keeps what it committed; a failed embedding leaves a document
  without a vector until its next write; another embedding model of the same dimension
  mixes its vectors with the old ones; the migration tool leaves out the demo's documents.
- The demo's documents are in the real universe until seeding marks them
  (`demo.py:93-96`).

Failures that are swallowed:

- A failed insert of an audit row (`audit.py:62`) or of a cost row (`services.py:32`)
  is dropped: an action without its row, a spend counted too low.
- A bump whose `INCR` fails is dropped (`cache.py:105`), and what was cached before the
  change is served until it expires.
- The retry of an insight that cannot reach the model answers 503 and logs nothing of
  the first call; a digest that fails midway keeps its items and bills none.
- `google_auth.py:53-76` builds its key client lazily, so the "stale beats an outage"
  branch is never taken.
- `actor_email` is not covered by the hash (`audit.py:18-24`) and can be edited
  unnoticed.

Arithmetic and texts:

- `pvm`'s mix is identically 0 though `pvm.py:33-34` calls it the cross term; a bridge
  leaves out rows without quantities and prices, and a joined budget leaves stored
  bridges as they were. The root-cause page's "% of the variance" is a share of all
  movement (`root_cause.py:120`).
- When two metrics share an identifier, a budget line that carries it goes to the one
  that the look-up kept last (`mapping.py:399`), whatever the line's name;
  `JoinOnlyFillsIn` promises a budget to metrics that share neither.
- A budget on a line whose actual is blank is dropped; of two lines of a budget file
  that reach the same row, the later wins silently.
- The variance of a quarter or year compares the values of all months with the budgets
  of those that have one.
- The closing prints the metric's name (`generate.py:68`). Of a metric named
  "4000 Sales" a text that states no figure passes the guard, and fails it on 4000 once
  the closing is added.
- The guard compares absolute values, so a figure with its sign turned passes. The
  drill-down rebuilds its context from cited sources as they are now, and flags a
  figure of a source that was read and not cited, or has changed.
- The cache key of an insight leaves out the streak and the correlations.
- A digest without budgeted facts still records a run, and the close page then shows
  "share" as done, as it does while approvals are pending.

## Not modelled

- Token verification, prompt wording, extraction of numbers from prose, channel and
  page layout, file parsing, the profiler's guesses: pure functions over strings
  whose correctness is about their wording, or heuristics without a specification.
- Forecasts, correlation coefficients, z-scores, funnels and experiments:
  floating-point statistics, which TLC does not have.
- Rate limit: one counter per address, changed on the event loop without an `await`
  in between; nothing else depends on it.
- Notifications, configuration, LLM clients, browser UI: I/O, or settings. What they
  may answer is modelled where it is used (`Scheduler`, `Requests`, `MonthEnd`).
- Close status: a read-only view of tables that are modelled.
- SQLite connections, SQL translation and the start-up migrations.

## What could come next

1. Two pools (two processes) in `Requests`, which share limits and not connections.
2. Reports in `Figures`, so that generation and universes meet.
3. Overlapping activations in `Figures` under a database that locks rows, to say what
   isolation level `OneActive` needs.
