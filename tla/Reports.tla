------------------------------ MODULE Reports -------------------------------
(***************************************************************************)
(* Narrative reports from generation to the board pack: generate-insight   *)
(* and digest (app/main.py, app/digest/digest.py), analyst edits through   *)
(* /feedback with their version history (app/review.py), review decisions, *)
(* what the dashboard card prints of them, and the board pack, which looks *)
(* facts, dataset and narratives up one after the other.                   *)
(*                                                                         *)
(* Every dataset has one metric of the same name and one period, so a      *)
(* report is told apart by the dataset whose fact it narrates (about) and  *)
(* the dataset whose metric row it hangs on (ds).  A text is the editor    *)
(* who wrote it, or Original for what the model wrote, or Empty.           *)
(* Requests run once; each step of one is one statement or transaction of  *)
(* the code, or one connection's reads.                                    *)
(***************************************************************************)
EXTENDS Naturals, Sequences, FiniteSets

CONSTANTS
    MaxDatasets,  \* bound: datasets are numbered 1 .. MaxDatasets
    Insights,     \* requests to /generate-insight
    Digests,      \* requests to /digest
    Editors,      \* requests to /feedback with action "edited"
    Packs,        \* requests to /board-pack
    Modes,        \* initial values of overlap
    Original, Empty, None

ASSUME ReportsAssumption ==
    /\ MaxDatasets \in Nat
    /\ Modes \subseteq BOOLEAN
    /\ Original \notin Editors /\ Empty \notin Editors /\ Original # Empty
    /\ Insights \cap Digests = {}

Generators == Insights \cup Digests
Texts == Editors \cup {Original, Empty}
DatasetIds == 1 .. MaxDatasets
REVIEW_STATUSES == {"pending", "approved", "changes_requested"}

VARIABLES
    overlap,    \* may requests interleave?  Chosen once, at the start
    created,    \* dataset ids handed out so far
    rows,       \* datasets that exist
    active,     \* those with is_active = 1
    orphaned,   \* a delete has removed the active one and must activate another
    reports,    \* generated_reports, by id
    feedback,   \* the "edited" rows of feedback, by id, NoRow where one was deleted
    versions,   \* report_versions, by id
    gen,        \* generator requests: pc, the dataset they were given, if any,
                \* and the one they read from
    ed,         \* editor requests: pc, report, version read, text to add next
    pack        \* pack requests: pc, the dataset of the facts, the one looked up
                \* for the narratives, the report printed with the facts (0: none),
                \* and whether no dataset came, went or was activated meanwhile

dataVars == <<created, rows, active, orphaned>>
vars == <<overlap, dataVars, reports, feedback, versions, gen, ed, pack>>

Init ==
    /\ overlap \in Modes
    /\ created = 0 /\ rows = {} /\ active = {} /\ orphaned = FALSE
    /\ reports = <<>> /\ feedback = <<>> /\ versions = <<>>
    /\ gen = [g \in Generators |-> [pc |-> "idle", given |-> None, about |-> None]]
    /\ ed = [e \in Editors |->
                [pc |-> "idle", report |-> 0, max |-> 0, text |-> Empty]]
    /\ pack = [p \in Packs |->
                  [pc |-> "idle", facts |-> None, ds |-> None, narr |-> 0, steady |-> TRUE]]

Quiet ==
    /\ ~orphaned
    /\ \A g \in Generators : gen[g].pc \in {"idle", "done"}
    /\ \A e \in Editors : ed[e].pc \in {"idle", "done"}
    /\ \A p \in Packs : pack[p].pc \in {"idle", "done"}

MayStart == overlap \/ Quiet

-----------------------------------------------------------------------------
(* Datasets (app/datasets.py).                                             *)

Newest(S) == CHOOSE d \in S : \A k \in S : k <= d

active_dataset_id ==
    CASE active # {} -> Newest(active)
      [] rows # {}   -> Newest(rows)
      [] OTHER       -> None

\* History: the datasets change under the packs that are being made.
DatasetsChange ==
    pack' = [p \in Packs |-> IF pack[p].pc \in {"idle", "done"} THEN pack[p]
                             ELSE [pack[p] EXCEPT !.steady = FALSE]]

CreateDataset ==
    /\ MayStart
    /\ created < MaxDatasets
    /\ created' = created + 1
    /\ rows' = rows \cup {created'}
    /\ active' = {created'}
    /\ DatasetsChange
    /\ UNCHANGED <<orphaned, reports, feedback, versions, gen, ed>>

ActivateDataset(d) ==
    /\ MayStart
    /\ d \in rows
    /\ active' = {d}
    /\ DatasetsChange
    /\ UNCHANGED <<created, rows, orphaned, reports, feedback, versions, gen, ed>>

Exists(i) == i \in DOMAIN reports /\ reports[i].ds \in rows

\* What is left of a deleted row of feedback.
NoRow == [report |-> 0, text |-> Empty]

\* Its feedback, reports, metrics and row go in one transaction.
DeleteDataset(d) ==
    /\ MayStart
    /\ ~orphaned
    /\ d \in rows
    /\ rows' = rows \ {d}
    /\ active' = active \ {d}
    /\ orphaned' = (d \in active)
    /\ feedback' = [k \in DOMAIN feedback |->
                        IF \E i \in DOMAIN reports : feedback[k].report = i /\ reports[i].ds = d
                        THEN NoRow ELSE feedback[k]]
    /\ DatasetsChange
    /\ UNCHANGED <<created, reports, versions, gen, ed>>

\* ... and the newest dataset left is activated in another.
ReactivateNewest ==
    /\ orphaned
    /\ active' = IF rows = {} THEN active ELSE {Newest(rows)}
    /\ orphaned' = FALSE
    /\ DatasetsChange
    /\ UNCHANGED <<created, rows, reports, feedback, versions, gen, ed>>

-----------------------------------------------------------------------------
(* Generation.                                                             *)

\* An insight reads the active dataset's fact; a digest is given that dataset,
\* or, if there is none yet, nothing.
Begin(g) ==
    /\ MayStart
    /\ gen[g].pc = "idle"
    /\ IF g \in Digests
       THEN gen' = [gen EXCEPT ![g] = [pc |-> "begun", given |-> active_dataset_id,
                                       about |-> None]]
       ELSE /\ active_dataset_id # None
            /\ gen' = [gen EXCEPT ![g] = [pc |-> "llm", given |-> None,
                                          about |-> active_dataset_id]]
    /\ UNCHANGED <<dataVars, reports, feedback, versions, ed, pack>>

\* The dataset a digest was given, or the one active by now.
Looked(g) == IF gen[g].given # None THEN gen[g].given ELSE active_dataset_id

\* A dataset that is gone has no facts, and the digest no items.
LoadFacts(g) ==
    /\ gen[g].pc = "begun"
    /\ gen' = IF Looked(g) \in rows
              THEN [gen EXCEPT ![g].pc = "llm", ![g].about = Looked(g)]
              ELSE [gen EXCEPT ![g].pc = "done"]
    /\ UNCHANGED <<dataVars, reports, feedback, versions, ed, pack>>

\* _persist_report looks the active dataset up again.
InsightTarget(g) == active_dataset_id

\* A digest item persisted like an insight.
TargetActive(g) == active_dataset_id

\* _persist_digest_item looks the dataset up like the facts were.
DigestTarget(g) == IF Looked(g) \in rows THEN Looked(g) ELSE None

Target(g) == IF g \in Digests THEN DigestTarget(g) ELSE InsightTarget(g)

\* The model has answered: store the report, unless its metric is gone.
Persist(g) ==
    /\ gen[g].pc = "llm"
    /\ reports' = IF Target(g) = None
                  THEN reports
                  ELSE Append(reports, [ds |-> Target(g),
                                        about |-> gen[g].about,
                                        digest |-> g \in Digests,
                                        given |-> gen[g].given # None,
                                        status |-> "none"])
    /\ gen' = [gen EXCEPT ![g].pc = "done"]
    /\ UNCHANGED <<dataVars, feedback, versions, ed, pack>>

\* The model failed: 503, nothing is stored.
GenerationFails(g) ==
    /\ gen[g].pc = "llm"
    /\ gen' = [gen EXCEPT ![g].pc = "done"]
    /\ UNCHANGED <<dataVars, reports, feedback, versions, ed, pack>>

-----------------------------------------------------------------------------
(* Edits and their version history.                                        *)

\* An empty edited_text is stored as feedback and makes no version.
PostEdit(e, i, text) ==
    /\ MayStart
    /\ ed[e].pc = "idle"
    /\ Exists(i)
    /\ feedback' = Append(feedback, [report |-> i, text |-> text])
    /\ ed' = [ed EXCEPT ![e] = [pc |-> IF text = Empty THEN "done" ELSE "count",
                               report |-> i, max |-> 0, text |-> text]]
    /\ UNCHANGED <<dataVars, reports, versions, gen, pack>>

VersionsOf(i) == {k \in DOMAIN versions : versions[k].report = i}

\* An edit that never captures the original.
OriginalNeverNeeded(i) == FALSE

NeedsOriginal(i) == VersionsOf(i) = {}

CountVersions(e) ==
    /\ ed[e].pc = "count"
    /\ ed' = [ed EXCEPT ![e].pc = "max",
                        ![e].text = IF NeedsOriginal(ed[e].report)
                                    THEN Original ELSE @]
    /\ UNCHANGED <<dataVars, reports, feedback, versions, gen, pack>>

MaxVersion(i) ==
    IF VersionsOf(i) = {} THEN 0
    ELSE CHOOSE v \in {versions[k].version : k \in VersionsOf(i)} :
            \A k \in VersionsOf(i) : versions[k].version <= v

ReadMaxVersion(e) ==
    /\ ed[e].pc = "max"
    /\ ed' = [ed EXCEPT ![e].pc = "insert",
                        ![e].max = MaxVersion(ed[e].report)]
    /\ UNCHANGED <<dataVars, reports, feedback, versions, gen, pack>>

NewVersion(e) ==
    [report |-> ed[e].report, version |-> ed[e].max + 1, text |-> ed[e].text]

\* An upsert on the report and its version number.
UpsertVersion(e) ==
    LET same(w) == /\ w.report = NewVersion(e).report
                   /\ w.version = NewVersion(e).version
    IN  Append(SelectSeq(versions, LAMBDA w : ~same(w)), NewVersion(e))

WithNewVersion(e) == Append(versions, NewVersion(e))

InsertVersion(e) ==
    /\ ed[e].pc = "insert"
    /\ versions' = WithNewVersion(e)
    /\ ed' = IF ed[e].text = Original
             THEN [ed EXCEPT ![e].pc = "max", ![e].text = e]
             ELSE [ed EXCEPT ![e].pc = "done"]
    /\ UNCHANGED <<dataVars, reports, feedback, gen, pack>>

-----------------------------------------------------------------------------
(* Review decisions.                                                       *)

SetStatus(i, s) ==
    /\ MayStart
    /\ Exists(i)
    /\ reports' = [reports EXCEPT ![i].status = s]
    /\ UNCHANGED <<dataVars, feedback, versions, gen, ed, pack>>

assign(i) == SetStatus(i, "pending")

review_report(i) == \E s \in REVIEW_STATUSES : SetStatus(i, s)

-----------------------------------------------------------------------------
(* What readers see.                                                       *)

CardReports(d) ==
    {i \in DOMAIN reports : Exists(i) /\ reports[i].ds = d /\ ~reports[i].digest}

EditsOf(i) == {k \in DOMAIN feedback : feedback[k].report = i}

\* The first edit instead of the last.
ShownIsFirstEdit(i) ==
    IF EditsOf(i) = {} THEN Original
    ELSE feedback[CHOOSE k \in EditsOf(i) : \A l \in EditsOf(i) : k <= l].text

\* "edited or narrative" of the last edit, as the card prints it.
Shown(i) ==
    IF EditsOf(i) = {} \/ feedback[Newest(EditsOf(i))].text = Empty
    THEN Original
    ELSE feedback[Newest(EditsOf(i))].text

\* Approved narratives of the metric's name, whatever dataset they are of.
ApprovedByName(d) ==
    {i \in DOMAIN reports : Exists(i) /\ ~reports[i].digest /\ reports[i].status = "approved"}

\* collect_facts: no line of a digest.
ApprovedReports(d) == {i \in CardReports(d) : reports[i].status = "approved"}

\* The pack's facts are list_facts' ...
ReadFacts(p) ==
    /\ MayStart
    /\ pack[p].pc = "idle"
    /\ active_dataset_id # None
    /\ pack' = [pack EXCEPT ![p].pc = "facts", ![p].facts = active_dataset_id]
    /\ UNCHANGED <<dataVars, reports, feedback, versions, gen, ed>>

\* ... then the active dataset is looked up again, on a connection of its own ...
ReadDataset(p) ==
    /\ pack[p].pc = "facts"
    /\ pack' = [pack EXCEPT ![p].pc = "dataset", ![p].ds = active_dataset_id]
    /\ UNCHANGED <<dataVars, reports, feedback, versions, gen, ed>>

\* ... and each fact gets that dataset's newest approved narrative of its metric.
ReadNarratives(p) ==
    /\ pack[p].pc = "dataset"
    /\ pack' = [pack EXCEPT ![p].pc = "done",
                            ![p].narr = IF pack[p].ds = None \/ ApprovedReports(pack[p].ds) = {}
                                        THEN 0 ELSE Newest(ApprovedReports(pack[p].ds))]
    /\ UNCHANGED <<dataVars, reports, feedback, versions, gen, ed>>

-----------------------------------------------------------------------------
PackStep(p) == ReadFacts(p) \/ ReadDataset(p) \/ ReadNarratives(p)

GeneratorStep(g) == Begin(g) \/ LoadFacts(g) \/ Persist(g) \/ GenerationFails(g)

EditorStep(e) ==
    \/ \E i \in DOMAIN reports, text \in {e, Empty} : PostEdit(e, i, text)
    \/ CountVersions(e) \/ ReadMaxVersion(e) \/ InsertVersion(e)

Step ==
    \/ CreateDataset
    \/ ReactivateNewest
    \/ \E d \in DatasetIds : ActivateDataset(d) \/ DeleteDataset(d)
    \/ \E g \in Generators : GeneratorStep(g)
    \/ \E e \in Editors : EditorStep(e)
    \/ \E p \in Packs : PackStep(p)
    \/ \E i \in DOMAIN reports : assign(i) \/ review_report(i)

Next == Step /\ UNCHANGED overlap

Spec == Init /\ [][Next]_vars

-----------------------------------------------------------------------------
(* Properties.                                                             *)

\* Type invariant of the tables and the requests' locals.
TypeOK ==
    /\ overlap \in Modes
    /\ created \in 0 .. MaxDatasets
    /\ rows \subseteq 1 .. created
    /\ active \subseteq rows
    /\ orphaned \in BOOLEAN
    /\ reports \in Seq([ds : DatasetIds, about : DatasetIds, digest : BOOLEAN,
                        given : BOOLEAN, status : REVIEW_STATUSES \cup {"none"}])
    /\ feedback \in Seq([report : Nat, text : Texts])
    /\ versions \in Seq([report : Nat \ {0}, version : Nat \ {0},
                         text : Texts])
    /\ gen \in [Generators -> [pc : {"idle", "begun", "llm", "done"},
                               given : DatasetIds \cup {None}, about : DatasetIds \cup {None}]]
    /\ ed \in [Editors -> [pc : {"idle", "count", "max", "insert", "done"},
                           report : Nat, max : Nat, text : Texts]]
    /\ pack \in [Packs -> [pc : {"idle", "facts", "dataset", "done"},
                            facts : DatasetIds \cup {None}, ds : DatasetIds \cup {None},
                            narr : Nat, steady : BOOLEAN]]

\* datasets.py:2-4 "keeps old test uploads from leaking into a fresh import's
\* dashboard": a report hangs on the dataset whose fact it narrates, the item of
\* a digest that was given its dataset while datasets are switched and deleted,
\* any other as long as requests do not interleave.
ReportNarratesItsDataset ==
    \A i \in DOMAIN reports :
        reports[i].given \/ ~overlap => reports[i].ds = reports[i].about

\* review.py:4-6 "history is a faithful, auditable record": once its editors
\* are done, the newest version of an edited report is what the card shows, as
\* long as requests do not interleave and no edit of it was empty.
NewestVersionIsShown ==
    ~overlap =>
        \A i \in DOMAIN reports :
            /\ Exists(i)
            /\ \A e \in Editors :
                  ed[e].report = i => ed[e].pc = "done" /\ ed[e].text # Empty
            => \A k \in VersionsOf(i) :
                  versions[k].version = MaxVersion(i)
                      => versions[k].text = Shown(i)

\* main.py:2005-2006 "so the diff chain starts from generation": version 1 of
\* a report is what the model wrote, however edits of it interleave.
VersionOneIsOriginal ==
    \A k \in DOMAIN versions :
        versions[k].version = 1 => versions[k].text = Original

\* No edit is lost from the history, however edits of a report interleave.
EveryEditIsKept ==
    \A e \in Editors :
        ed[e].pc = "done" /\ ed[e].text # Empty =>
            \E k \in VersionsOf(ed[e].report) : versions[k].text = e

\* main.py:1864-1866 "for the active dataset and period - the same
\* KPIs/deltas/narratives as the dashboard": the narrative a pack prints with a
\* fact is a report of that fact's metric unless datasets came, went or were
\* activated while the pack was made, and it was written about that fact as long
\* as requests do not interleave.
PackNarratesItsFacts ==
    \A p \in Packs :
        pack[p].pc = "done" /\ pack[p].narr # 0 =>
            /\ pack[p].steady => reports[pack[p].narr].ds = pack[p].facts
            /\ ~overlap => reports[pack[p].narr].about = pack[p].facts

=============================================================================
