--------------------------- MODULE ReportsProofs ----------------------------
(* Theorems about Reports, for any requests and number of datasets.        *)
EXTENDS Reports, WellFoundedInduction, TLAPS

-----------------------------------------------------------------------------
(* The largest number of a bounded set.                                    *)

LEMMA LeastIsIn ==
    ASSUME NEW S \in SUBSET Nat, S # {}
    PROVE  \E m \in S : \A v \in S : m <= v
<1>1. PICK m \in S : \A v \in S : <<v, m>> \notin OpToRel(<, Nat)
  BY WFMin, NatLessThanWellFounded, Zenon
<1>2. \A v \in S : ~(v < m)
  BY <1>1, Zenon DEF OpToRel
<1>3. QED
  BY <1>2

LEMMA LargestExists ==
    ASSUME NEW S \in SUBSET Nat, S # {}, NEW b \in Nat, \A v \in S : v <= b
    PROVE  \E m \in S : \A v \in S : v <= m
<1> DEFINE Bounds == {m \in Nat : \A v \in S : v <= m}
<1>1. PICK m \in Bounds : \A n \in Bounds : m <= n
  <2>1. b \in Bounds
    OBVIOUS
  <2>2. Bounds \in SUBSET Nat /\ Bounds # {}
    BY <2>1
  <2> HIDE DEF Bounds
  <2>3. QED
    BY <2>2, LeastIsIn
<1>2. m \in Nat /\ \A v \in S : v <= m
  BY <1>1
<1>3. CASE m \in S
  BY <1>2, <1>3
<1>4. CASE m \notin S
  <2>1. \A v \in S : v < m
    BY <1>2, <1>4
  <2>2. m # 0
    <3>1. PICK v \in S : v \in Nat
      OBVIOUS
    <3>2. QED
      BY <1>2, <2>1, <3>1
  <2>3. m - 1 \in Nat /\ \A v \in S : v <= m - 1
    BY <1>2, <2>1, <2>2
  <2>4. m - 1 \in Bounds
    BY <2>3
  <2>5. m <= m - 1
    BY <1>1, <2>4
  <2>6. QED
    BY <1>2, <2>5
<1>5. QED
  BY <1>3, <1>4

\* The newest of a bounded set of ids is the only one no other id exceeds.
LEMMA NewestIsLargest ==
    ASSUME NEW S \in SUBSET Nat, S # {}, NEW b \in Nat, \A v \in S : v <= b
    PROVE  /\ Newest(S) \in S
           /\ \A v \in S : v <= Newest(S)
           /\ \A m \in S : (\A v \in S : v <= m) => Newest(S) = m
<1>1. \E m \in S : \A v \in S : v <= m
  BY LargestExists
<1>2. Newest(S) \in S /\ \A v \in S : v <= Newest(S)
  BY <1>1 DEF Newest
<1>3. ASSUME NEW m \in S, \A v \in S : v <= m PROVE Newest(S) = m
  <2>1. Newest(S) <= m /\ m <= Newest(S) /\ m \in Nat /\ Newest(S) \in Nat
    BY <1>2, <1>3
  <2>2. QED
    BY <2>1
<1>4. QED
  BY <1>2, <1>3

-----------------------------------------------------------------------------
(* Types.                                                                  *)

Report == [ds : DatasetIds, about : DatasetIds, digest : BOOLEAN, given : BOOLEAN,
           status : REVIEW_STATUSES \cup {"none"}]
Row == [report : Nat, text : Texts]
Version == [report : Nat \ {0}, version : Nat \ {0}, text : Texts]
Generation == [pc : {"idle", "begun", "llm", "done"}, given : DatasetIds \cup {None},
               about : DatasetIds \cup {None}]
Edit == [pc : {"idle", "count", "max", "insert", "done"}, report : Nat, max : Nat,
         text : Texts]
Making == [pc : {"idle", "facts", "dataset", "done"}, facts : DatasetIds \cup {None},
           ds : DatasetIds \cup {None}, narr : Nat, steady : BOOLEAN]

\* A generator that has begun knows which dataset it reads from, and no
\* version number passes the number of versions there are.
Types ==
    /\ overlap \in Modes
    /\ created \in 0 .. MaxDatasets
    /\ rows \subseteq 1 .. created
    /\ active \subseteq rows
    /\ orphaned \in BOOLEAN
    /\ reports \in Seq(Report)
    /\ feedback \in Seq(Row)
    /\ versions \in Seq(Version)
    /\ gen \in [Generators -> Generation]
    /\ ed \in [Editors -> Edit]
    /\ pack \in [Packs -> Making]
    /\ \A g \in Generators : gen[g].pc = "llm" => gen[g].about \in DatasetIds
    /\ \A e \in Editors : ed[e].pc # "idle" => ed[e].report # 0
    /\ \A k \in DOMAIN versions : versions[k].version <= Len(versions)
    /\ \A e \in Editors : ed[e].max <= Len(versions)

LEMMA DatasetsAreIds ==
    ASSUME Types
    PROVE  /\ DatasetIds \subseteq Nat
           /\ \A S \in SUBSET rows : S # {} =>
                  Newest(S) \in S /\ Newest(S) \in DatasetIds
<1>1. /\ DatasetIds \subseteq Nat /\ rows \subseteq DatasetIds
      /\ MaxDatasets \in Nat /\ \A d \in DatasetIds : d <= MaxDatasets
  BY ReportsAssumption DEF DatasetIds, Types
<1>2. ASSUME NEW S \in SUBSET rows, S # {} PROVE Newest(S) \in S
  BY <1>1, <1>2, NewestIsLargest
<1>3. QED
  BY <1>1, <1>2

LEMMA ActiveIsRow ==
    ASSUME Types
    PROVE  /\ active_dataset_id \in DatasetIds \cup {None}
           /\ active_dataset_id # None => active_dataset_id \in rows
BY DatasetsAreIds DEF Types, active_dataset_id

\* A report's newest version number is one of its numbers, or 0.
LEMMA MaxVersionBound ==
    ASSUME Types, NEW i
    PROVE  /\ MaxVersion(i) \in Nat /\ MaxVersion(i) <= Len(versions)
           /\ VersionsOf(i) # {} => MaxVersion(i) # 0
           /\ \A k \in VersionsOf(i) : versions[k].version <= MaxVersion(i)
<1>1. CASE VersionsOf(i) = {}
  BY <1>1 DEF MaxVersion, Types
<1>2. CASE VersionsOf(i) # {}
  <2> DEFINE S == {versions[k].version : k \in VersionsOf(i)}
  <2>1. \A k \in VersionsOf(i) : /\ k \in DOMAIN versions
                                 /\ versions[k].version \in Nat \ {0}
                                 /\ versions[k].version <= Len(versions)
    <3>1. \A k \in DOMAIN versions : /\ versions[k] \in Version
                                     /\ versions[k].version <= Len(versions)
      BY DEF Types
    <3>2. QED
      BY <3>1 DEF VersionsOf, Version
  <2>2. S \in SUBSET Nat /\ S # {} /\ Len(versions) \in Nat
        /\ \A v \in S : v <= Len(versions) /\ v # 0
    BY <1>2, <2>1 DEF Types
  <2>3. PICK m \in S : \A v \in S : v <= m
    <3> HIDE DEF S
    <3> QED
      BY <2>2, LargestExists
  <2>4. \A k \in VersionsOf(i) : versions[k].version <= m
    BY <2>3
  <2>5. /\ MaxVersion(i) \in S
        /\ \A k \in VersionsOf(i) : versions[k].version <= MaxVersion(i)
    BY <1>2, <2>3, <2>4 DEF MaxVersion
  <2>6. QED
    BY <2>2, <2>5
<1>3. QED
  BY <1>1, <1>2

\* The newest approved report is an approved report.
LEMMA NewestApproved ==
    ASSUME Types, NEW d, ApprovedReports(d) # {}
    PROVE  Newest(ApprovedReports(d)) \in ApprovedReports(d) /\ Newest(ApprovedReports(d)) \in Nat \ {0}
<1>1. /\ ApprovedReports(d) \in SUBSET Nat /\ Len(reports) \in Nat
      /\ \A i \in ApprovedReports(d) : i <= Len(reports) /\ i # 0
  BY DEF ApprovedReports, CardReports, Types
<1>2. QED
  BY <1>1, NewestIsLargest

LEMMA InitTypes == Init => Types
<1>1. SUFFICES ASSUME Init PROVE Types
  OBVIOUS
<1>2. /\ [pc |-> "idle", given |-> None, about |-> None] \in Generation
      /\ [pc |-> "idle", report |-> 0, max |-> 0, text |-> Empty] \in Edit
      /\ [pc |-> "idle", facts |-> None, ds |-> None, narr |-> 0, steady |-> TRUE] \in Making
  BY DEF Generation, Edit, Texts, Making
<1>3. gen \in [Generators -> Generation] /\ ed \in [Editors -> Edit] /\ pack \in [Packs -> Making]
  BY <1>1, <1>2 DEF Init
<1>4. \A g \in Generators : gen[g].pc = "idle"
  BY <1>1 DEF Init
<1>5. \A e \in Editors : ed[e].pc = "idle" /\ ed[e].max = 0
  BY <1>1 DEF Init
<1>6. /\ overlap \in Modes /\ created \in 0 .. MaxDatasets
      /\ rows \subseteq 1 .. created /\ active \subseteq rows /\ orphaned \in BOOLEAN
  <2>1. 0 \in 0 .. MaxDatasets
    BY ReportsAssumption
  <2>2. QED
    BY <1>1, <2>1 DEF Init
<1>7. /\ reports \in Seq(Report) /\ feedback \in Seq(Row) /\ versions \in Seq(Version)
      /\ Len(versions) = 0 /\ DOMAIN versions = {}
  BY <1>1 DEF Init
<1>8. QED
  BY <1>3, <1>4, <1>5, <1>6, <1>7 DEF Types

\* What starting, and storing, a generation leaves of the types.
LEMMA NextTypes == Types /\ [Next]_vars => Types'
<1> SUFFICES ASSUME Types, [Next]_vars PROVE Types'
  OBVIOUS
<1> DEFINE DataTypes == /\ created \in 0 .. MaxDatasets
                        /\ rows \subseteq 1 .. created /\ active \subseteq rows
                        /\ orphaned \in BOOLEAN
           GenTypes == /\ gen \in [Generators -> Generation]
                       /\ \A g \in Generators : gen[g].pc = "llm" => gen[g].about \in DatasetIds
           EditTypes == /\ ed \in [Editors -> Edit] /\ versions \in Seq(Version)
                        /\ \A e \in Editors : ed[e].pc # "idle" => ed[e].report # 0
                        /\ \A k \in DOMAIN versions : versions[k].version <= Len(versions)
                        /\ \A e \in Editors : ed[e].max <= Len(versions)
<1>0. /\ Types <=> overlap \in Modes /\ DataTypes /\ reports \in Seq(Report)
                   /\ feedback \in Seq(Row) /\ GenTypes /\ EditTypes
                   /\ pack \in [Packs -> Making]
      /\ Types' <=> overlap' \in Modes /\ DataTypes' /\ reports' \in Seq(Report)
                    /\ feedback' \in Seq(Row) /\ GenTypes' /\ EditTypes'
                    /\ pack' \in [Packs -> Making]
  BY DEF Types
<1>1. /\ DataTypes /\ reports \in Seq(Report) /\ feedback \in Seq(Row) /\ GenTypes
      /\ EditTypes /\ pack \in [Packs -> Making] /\ overlap' \in Modes
  BY <1>0 DEF vars, Next
<1>2. /\ UNCHANGED dataVars => DataTypes'
      /\ UNCHANGED gen => GenTypes'
      /\ UNCHANGED <<ed, versions>> => EditTypes'
      /\ UNCHANGED reports => reports' \in Seq(Report)
      /\ UNCHANGED feedback => feedback' \in Seq(Row)
      /\ UNCHANGED pack \/ DatasetsChange => pack' \in [Packs -> Making]
  <2>1. DatasetsChange => pack' \in [Packs -> Making]
    <3>1. \A p \in Packs : pack[p] \in Making /\ [pack[p] EXCEPT !.steady = FALSE] \in Making
      BY <1>1 DEF Making
    <3>2. QED
      BY <3>1 DEF DatasetsChange
  <2>2. QED
    BY <1>1, <2>1 DEF dataVars
<1>3. CASE UNCHANGED vars
  BY <1>0, <1>1, <1>2, <1>3 DEF vars
<1>4. CASE CreateDataset
  <2>1. DataTypes'
    BY <1>1, <1>4, ReportsAssumption DEF CreateDataset
  <2>2. QED
    BY <1>0, <1>1, <1>2, <1>4, <2>1 DEF CreateDataset
<1>5. CASE ReactivateNewest
  <2>1. DataTypes'
    BY <1>1, <1>5, DatasetsAreIds DEF ReactivateNewest
  <2>2. QED
    BY <1>0, <1>1, <1>2, <1>5, <2>1 DEF ReactivateNewest
<1>6. ASSUME NEW d \in DatasetIds, ActivateDataset(d) PROVE Types'
  <2>1. DataTypes'
    BY <1>1, <1>6 DEF ActivateDataset
  <2>2. QED
    BY <1>0, <1>1, <1>2, <1>6, <2>1 DEF ActivateDataset
<1>7. ASSUME NEW d \in DatasetIds, DeleteDataset(d) PROVE Types'
  <2>1. DataTypes'
    BY <1>1, <1>7 DEF DeleteDataset
  <2>2. feedback' \in Seq(Row)
    <3>1. NoRow \in Row
      BY DEF NoRow, Row, Texts
    <3>2. /\ DOMAIN feedback' = DOMAIN feedback
          /\ \A k \in DOMAIN feedback : feedback'[k] \in {NoRow, feedback[k]}
      BY <1>7 DEF DeleteDataset
    <3>3. /\ feedback \in Seq(Row) /\ DOMAIN feedback = 1 .. Len(feedback)
          /\ \A k \in DOMAIN feedback : feedback[k] \in Row
      BY <1>1
    <3>4. feedback' \in [1 .. Len(feedback) -> Row]
      BY <1>7, <3>1, <3>2, <3>3 DEF DeleteDataset
    <3>5. QED
      BY <3>3, <3>4
  <2>3. QED
    BY <1>0, <1>1, <1>2, <1>7, <2>1, <2>2 DEF DeleteDataset
<1>8. ASSUME NEW g \in Generators, Begin(g) PROVE Types'
  <2>1. /\ active_dataset_id \in DatasetIds \cup {None}
        /\ g \notin Digests => active_dataset_id \in DatasetIds
    BY <1>8, ActiveIsRow DEF Begin
  <2>2. /\ [pc |-> "begun", given |-> active_dataset_id, about |-> None] \in Generation
        /\ g \notin Digests =>
              [pc |-> "llm", given |-> None, about |-> active_dataset_id] \in Generation
    BY <2>1 DEF Generation
  <2>3. GenTypes'
    <3>1. CASE g \in Digests
      <4> DEFINE began == [pc |-> "begun", given |-> active_dataset_id, about |-> None]
      <4>1. gen' = [gen EXCEPT ![g] = began] /\ began \in Generation /\ began.pc # "llm"
        BY <1>8, <2>2, <3>1 DEF Begin
      <4> HIDE DEF began
      <4>2. QED
        BY <1>1, <4>1
    <3>2. CASE g \notin Digests
      <4> DEFINE read == [pc |-> "llm", given |-> None, about |-> active_dataset_id]
      <4>1. /\ gen' = [gen EXCEPT ![g] = read] /\ read \in Generation
            /\ read.about \in DatasetIds
        BY <1>8, <2>1, <2>2, <3>2 DEF Begin
      <4> HIDE DEF read
      <4>2. QED
        BY <1>1, <4>1
    <3>3. QED
      BY <3>1, <3>2
  <2>4. QED
    BY <1>0, <1>1, <1>2, <1>8, <2>3 DEF Begin
<1>17. ASSUME NEW g \in Generators, LoadFacts(g) PROVE Types'
  <2>1. rows \subseteq DatasetIds
    BY DatasetsAreIds, ReportsAssumption DEF Types, DatasetIds
  <2>2. GenTypes'
    <3>1. CASE Looked(g) \in rows
      <4>1. gen' = [gen EXCEPT ![g].pc = "llm", ![g].about = Looked(g)]
        BY <1>17, <3>1 DEF LoadFacts
      <4>2. Looked(g) \in DatasetIds
        BY <2>1, <3>1
      <4> DEFINE read == [gen[g] EXCEPT !.pc = "llm", !.about = Looked(g)]
      <4>3. read \in Generation /\ read.about \in DatasetIds
        <5>1. gen[g] \in Generation
          BY <1>1
        <5>2. QED
          BY <4>2, <5>1 DEF Generation
      <4>4. gen' = [gen EXCEPT ![g] = read]
        BY <4>1
      <4> HIDE DEF read
      <4>5. QED
        BY <1>1, <4>3, <4>4
    <3>2. CASE Looked(g) \notin rows
      BY <1>1, <1>17, <3>2 DEF LoadFacts, Generation
    <3>3. QED
      BY <3>1, <3>2
  <2>3. QED
    BY <1>0, <1>1, <1>2, <1>17, <2>2 DEF LoadFacts
<1>18. ASSUME NEW p \in Packs, PackStep(p) PROVE Types'
  <2>1. active_dataset_id \in DatasetIds \cup {None}
    BY ActiveIsRow
  <2>2. ASSUME NEW d \in DatasetIds, ApprovedReports(d) # {} PROVE Newest(ApprovedReports(d)) \in Nat
    BY <2>2, NewestApproved
  <2>3. pack' \in [Packs -> Making]
    <3>1. CASE ReadFacts(p)
      <4>1. pack' = [pack EXCEPT ![p].pc = "facts", ![p].facts = active_dataset_id]
        BY <3>1 DEF ReadFacts
      <4>2. pack[p] \in Making
        BY <1>1
      <4>3. [pack[p] EXCEPT !.pc = "facts", !.facts = active_dataset_id] \in Making
        BY <2>1, <4>2 DEF Making
      <4>4. QED
        BY <1>1, <4>1, <4>3
    <3>4. CASE ReadDataset(p)
      <4>1. pack' = [pack EXCEPT ![p].pc = "dataset", ![p].ds = active_dataset_id]
        BY <3>4 DEF ReadDataset
      <4>2. pack[p] \in Making
        BY <1>1
      <4>3. [pack[p] EXCEPT !.pc = "dataset", !.ds = active_dataset_id] \in Making
        BY <2>1, <4>2 DEF Making
      <4>4. QED
        BY <1>1, <4>1, <4>3
    <3>2. CASE ReadNarratives(p)
      <4>1. pack[p] \in Making
        BY <1>1
      <4>2. pack[p].ds # None => pack[p].ds \in DatasetIds
        BY <4>1 DEF Making
      <4>3. PICK n \in Nat : pack' = [pack EXCEPT ![p].pc = "done", ![p].narr = n]
        BY <2>2, <3>2, <4>2 DEF ReadNarratives
      <4>4. [pack[p] EXCEPT !.pc = "done", !.narr = n] \in Making
        BY <4>1, <4>3 DEF Making
      <4>5. QED
        BY <1>1, <4>3, <4>4
    <3>3. QED
      BY <1>18, <3>1, <3>2, <3>4 DEF PackStep
  <2>4. QED
    BY <1>0, <1>1, <1>2, <1>18, <2>3 DEF PackStep, ReadFacts, ReadDataset, ReadNarratives
<1>9. ASSUME NEW g \in Generators, Persist(g) PROVE Types'
  <2>1. GenTypes'
    BY <1>1, <1>9 DEF Persist, Generation
  <2>2. Target(g) # None => Target(g) \in DatasetIds
    <3>1. rows \subseteq DatasetIds
      BY ReportsAssumption DEF Types, DatasetIds
    <3>2. QED
      BY <3>1, ActiveIsRow DEF Target, DigestTarget, InsightTarget
  <2>3. ASSUME Target(g) # None
        PROVE  [ds |-> Target(g), about |-> gen[g].about, digest |-> g \in Digests,
                given |-> gen[g].given # None, status |-> "none"] \in Report
    BY <1>1, <1>9, <2>2, <2>3 DEF Persist, Report
  <2>4. reports' \in Seq(Report)
    BY <1>1, <1>9, <2>3 DEF Persist
  <2>5. QED
    BY <1>0, <1>1, <1>2, <1>9, <2>1, <2>4 DEF Persist
<1>10. ASSUME NEW g \in Generators, GenerationFails(g) PROVE Types'
  <2>1. GenTypes'
    BY <1>1, <1>10 DEF GenerationFails, Generation
  <2>2. QED
    BY <1>0, <1>1, <1>2, <1>10, <2>1 DEF GenerationFails
<1>11. ASSUME NEW e \in Editors, NEW i \in DOMAIN reports, NEW text \in {e, Empty},
              PostEdit(e, i, text)
       PROVE  Types'
  <2>1. [pc |-> IF text = Empty THEN "done" ELSE "count", report |-> i, max |-> 0,
         text |-> text] \in Edit
    BY <1>1 DEF Edit, Texts
  <2>2. i # 0 /\ Len(versions) \in Nat
    BY <1>1
  <2>3. EditTypes'
    BY <1>1, <1>11, <2>1, <2>2 DEF PostEdit
  <2>4. [report |-> i, text |-> text] \in Row
    BY <1>1 DEF Row, Texts
  <2>5. feedback' \in Seq(Row)
    BY <1>1, <1>11, <2>4 DEF PostEdit
  <2>6. QED
    BY <1>0, <1>1, <1>2, <1>11, <2>3, <2>5 DEF PostEdit
<1>12. ASSUME NEW e \in Editors, CountVersions(e) PROVE Types'
  <2>1. EditTypes'
    BY <1>1, <1>12, ZenonT(60) DEF CountVersions, Edit, Texts
  <2>2. QED
    BY <1>0, <1>1, <1>2, <1>12, <2>1 DEF CountVersions
<1>13. ASSUME NEW e \in Editors, ReadMaxVersion(e) PROVE Types'
  <2>1. MaxVersion(ed[e].report) \in Nat /\ MaxVersion(ed[e].report) <= Len(versions)
    BY MaxVersionBound
  <2>2. EditTypes'
    BY <1>1, <1>13, <2>1 DEF ReadMaxVersion, Edit
  <2>3. QED
    BY <1>0, <1>1, <1>2, <1>13, <2>2 DEF ReadMaxVersion
<1>14. ASSUME NEW e \in Editors, InsertVersion(e) PROVE Types'
  <2>1. ed[e] \in Edit /\ ed[e].pc = "insert" /\ ed[e].report # 0
    BY <1>1, <1>14 DEF InsertVersion
  <2>2. NewVersion(e) \in Version /\ NewVersion(e).version = ed[e].max + 1
    BY <2>1 DEF NewVersion, Version, Edit
  <2>3. /\ versions' \in Seq(Version) /\ Len(versions') = Len(versions) + 1
        /\ \A k \in DOMAIN versions' : versions'[k] = IF k = Len(versions) + 1 THEN NewVersion(e)
                                                      ELSE versions[k]
    BY <1>1, <1>14, <2>2 DEF InsertVersion, WithNewVersion
  <2>4. /\ \A k \in DOMAIN versions' : versions'[k].version <= Len(versions')
    <3>1. SUFFICES ASSUME NEW k \in DOMAIN versions'
                   PROVE  versions'[k].version <= Len(versions')
      OBVIOUS
    <3>2. CASE k = Len(versions) + 1
      <4>1. ed[e].max \in Nat /\ ed[e].max <= Len(versions) /\ Len(versions) \in Nat
        BY <1>1, <2>1 DEF Edit
      <4>2. versions'[k].version = ed[e].max + 1
        BY <2>2, <2>3, <3>1, <3>2
      <4>3. QED
        BY <2>3, <4>1, <4>2
    <3>3. CASE k # Len(versions) + 1
      <4>1. k \in DOMAIN versions
        BY <1>1, <2>3, <3>1, <3>3
      <4>2. versions[k] \in Version /\ versions[k].version <= Len(versions)
        BY <1>1, <4>1
      <4>3. QED
        BY <1>1, <2>3, <3>1, <3>3, <4>2 DEF Version
    <3>4. QED
      BY <3>2, <3>3
  <2>5. ed' \in [Editors -> Edit]
    BY <1>1, <1>14, ZenonT(60) DEF InsertVersion, Edit, Texts
  <2>6. \A x \in Editors : /\ ed'[x].report = ed[x].report /\ ed'[x].max = ed[x].max
                           /\ ed'[x].pc # "idle" => ed[x].pc # "idle"
    BY <1>1, <1>14 DEF InsertVersion, Edit
  <2>7. \A x \in Editors : ed'[x].max <= Len(versions')
    <3>1. \A x \in Editors : ed[x].max \in Nat /\ ed[x].max <= Len(versions)
      BY <1>1 DEF Edit
    <3>2. QED
      BY <1>1, <2>3, <2>6, <3>1
  <2>8. EditTypes'
    BY <1>1, <2>3, <2>4, <2>5, <2>6, <2>7
  <2>9. QED
    BY <1>0, <1>1, <1>2, <1>14, <2>8 DEF InsertVersion
<1>15. ASSUME NEW i \in DOMAIN reports, assign(i) \/ review_report(i) PROVE Types'
  <2>1. PICK s \in REVIEW_STATUSES : SetStatus(i, s)
    BY <1>15 DEF assign, review_report, REVIEW_STATUSES
  <2>2. reports' \in Seq(Report)
    <3>1. reports[i] \in Report
      BY <1>1
    <3>2. [reports[i] EXCEPT !.status = s] \in Report
      BY <3>1 DEF Report
    <3>3. QED
      BY <1>1, <2>1, <3>2 DEF SetStatus
  <2>3. QED
    BY <1>0, <1>1, <1>2, <2>1, <2>2 DEF SetStatus
<1>16. QED
  BY <1>3, <1>4, <1>5, <1>6, <1>7, <1>8, <1>9, <1>10, <1>11, <1>12, <1>13, <1>14, <1>15, <1>17, <1>18
     DEF Next, Step, GeneratorStep, EditorStep

LEMMA AlwaysTyped == Spec => []Types
BY InitTypes, NextTypes, PTL DEF Spec

\* The tables and the requests' locals keep their types.
THEOREM ReportsTyped == Spec => []TypeOK
<1>1. Types => TypeOK
  BY DEF Types, TypeOK, Report, Row, Version, Generation, Edit, Making
<1>2. QED
  BY <1>1, AlwaysTyped, PTL

-----------------------------------------------------------------------------
(* The version history only grows: versions are appended, never replaced.  *)

\* The places of a report's versions in V.
VersionsIn(V, i) == {k \in DOMAIN V : V[k].report = i}

LEMMA HistoryGrows ==
    Types /\ [Next]_vars =>
        /\ DOMAIN versions \subseteq DOMAIN versions'
        /\ \A k \in DOMAIN versions : versions'[k] = versions[k]
        /\ \A i : VersionsOf(i) \subseteq VersionsIn(versions', i)
<1> SUFFICES ASSUME Types, [Next]_vars
             PROVE  /\ DOMAIN versions \subseteq DOMAIN versions'
                    /\ \A k \in DOMAIN versions : versions'[k] = versions[k]
  BY DEF VersionsOf, VersionsIn
<1>1. CASE UNCHANGED versions
  BY <1>1
<1>2. ASSUME NEW e \in Editors, InsertVersion(e)
      PROVE  /\ DOMAIN versions \subseteq DOMAIN versions'
             /\ \A k \in DOMAIN versions : versions'[k] = versions[k]
  <2>1. versions \in Seq(Version) /\ versions' = Append(versions, NewVersion(e))
    BY <1>2 DEF Types, InsertVersion, WithNewVersion
  <2>2. QED
    BY <2>1
<1>3. QED
  BY <1>1, <1>2 DEF Next, Step, vars, GeneratorStep, EditorStep, CreateDataset,
     ReactivateNewest, ActivateDataset, DeleteDataset, Begin, LoadFacts, Persist, GenerationFails, PackStep,
     ReadFacts, ReadDataset, ReadNarratives,
     PostEdit, CountVersions, ReadMaxVersion, assign, review_report, SetStatus

\* What an editor is about to write is the original or his own text, and a
\* finished edit that was not empty is in the history.
EditInv ==
    /\ \A e \in Editors : ed[e].pc \in {"count", "max", "insert"} =>
                              ed[e].text \in {e, Original}
    /\ EveryEditIsKept

LEMMA InitEditInv == Init => EditInv
BY DEF Init, EditInv, EveryEditIsKept

LEMMA NextEditInv == Types /\ EditInv /\ [Next]_vars => EditInv'
<1> SUFFICES ASSUME Types, EditInv, [Next]_vars PROVE EditInv'
  OBVIOUS
<1>0. /\ ed \in [Editors -> Edit] /\ Original \notin Editors
      /\ \A i : \A k \in VersionsOf(i) : k \in VersionsIn(versions', i) /\ versions'[k] = versions[k]
  BY HistoryGrows, ReportsAssumption DEF Types, VersionsOf
<1>1. CASE UNCHANGED ed
  BY <1>0, <1>1 DEF EditInv, EveryEditIsKept, VersionsOf, VersionsIn
<1>2. ASSUME NEW e \in Editors, EditorStep(e) PROVE EditInv'
  <2>1. \A x \in Editors \ {e} : ed'[x] = ed[x]
    BY <1>0, <1>2 DEF EditorStep, PostEdit, CountVersions, ReadMaxVersion, InsertVersion
  <2>2. SUFFICES /\ ed'[e].pc \in {"count", "max", "insert"} => ed'[e].text \in {e, Original}
                 /\ ed'[e].pc = "done" /\ ed'[e].text # Empty =>
                        \E k \in VersionsIn(versions', ed'[e].report) : versions'[k].text = e
    BY <1>0, <2>1 DEF EditInv, EveryEditIsKept, VersionsOf, VersionsIn
  <2>3. ASSUME NEW i \in DOMAIN reports, NEW text \in {e, Empty}, PostEdit(e, i, text)
        PROVE  /\ ed'[e].pc \in {"count", "max", "insert"} => ed'[e].text \in {e, Original}
               /\ ed'[e].pc = "done" => ed'[e].text = Empty
    BY <1>0, <2>3 DEF PostEdit
  <2>4. ASSUME CountVersions(e) \/ ReadMaxVersion(e)
        PROVE  ed'[e].pc # "done" /\ ed'[e].text \in {e, Original}
    BY <1>0, <2>4 DEF CountVersions, ReadMaxVersion, EditInv, Edit
  <2>5. CASE InsertVersion(e)
    <3>1. /\ versions \in Seq(Version) /\ versions' = Append(versions, NewVersion(e))
          /\ ed[e].text \in {e, Original} /\ ed[e] \in Edit
      BY <1>0, <2>5 DEF Types, InsertVersion, WithNewVersion, EditInv
    <3>2. CASE ed[e].text = Original
      BY <1>0, <2>5, <3>1, <3>2 DEF InsertVersion, Edit
    <3>3. CASE ed[e].text = e
      <4>1. ed'[e].report = ed[e].report
        BY <1>0, <2>5, <3>1 DEF InsertVersion, Edit
      <4>2. DEFINE k == Len(versions) + 1
      <4>3. k \in DOMAIN versions' /\ versions'[k] = NewVersion(e)
        BY <3>1
      <4>4. k \in VersionsIn(versions', ed'[e].report) /\ versions'[k].text = e
        BY <3>3, <4>1, <4>3 DEF VersionsIn, NewVersion
      <4>5. ed'[e].pc = "done"
        BY <1>0, <2>5, <3>1, <3>3 DEF InsertVersion, Edit
      <4>6. QED
        BY <4>4, <4>5
    <3>4. QED
      BY <3>1, <3>2, <3>3
  <2>6. QED
    BY <1>2, <2>3, <2>4, <2>5 DEF EditorStep
<1>3. QED
  BY <1>1, <1>2 DEF Next, Step, vars, GeneratorStep, CreateDataset, ReactivateNewest,
     ActivateDataset, DeleteDataset, Begin, LoadFacts, Persist, GenerationFails, PackStep,
     ReadFacts, ReadDataset, ReadNarratives, assign,
     review_report, SetStatus

\* However edits of a report interleave, none is missing from its history.
THEOREM NoEditIsLost == Spec => []EveryEditIsKept
<1>1. EditInv => EveryEditIsKept
  BY DEF EditInv
<1>2. QED
  BY <1>1, AlwaysTyped, InitEditInv, NextEditInv, PTL DEF Spec

\* An editor that no longer needs the original has seen a version, and one
\* that read no version number is about to write the original.
FirstInv ==
    /\ VersionOneIsOriginal
    /\ \A e \in Editors :
          /\ ed[e].pc = "max" /\ ed[e].text # Original => VersionsOf(ed[e].report) # {}
          /\ ed[e].pc = "insert" /\ ed[e].max = 0 => ed[e].text = Original

LEMMA InitFirstInv == Init => FirstInv
BY DEF Init, FirstInv, VersionOneIsOriginal

LEMMA NextFirstInv == Types /\ EditInv /\ FirstInv /\ [Next]_vars => FirstInv'
<1> SUFFICES ASSUME Types, EditInv, FirstInv, [Next]_vars PROVE FirstInv'
  OBVIOUS
<1>0. /\ ed \in [Editors -> Edit] /\ versions \in Seq(Version)
      /\ Original \notin Editors
      /\ \A i : VersionsOf(i) \subseteq VersionsIn(versions', i)
  BY HistoryGrows, ReportsAssumption DEF Types
<1>1. CASE UNCHANGED <<ed, versions>>
  BY <1>1 DEF FirstInv, VersionOneIsOriginal, VersionsOf
<1>2. ASSUME NEW e \in Editors, EditorStep(e) PROVE FirstInv'
  <2>1. \A x \in Editors \ {e} : ed'[x] = ed[x]
    BY <1>0, <1>2 DEF EditorStep, PostEdit, CountVersions, ReadMaxVersion, InsertVersion
  <2>2. ASSUME UNCHANGED versions PROVE VersionOneIsOriginal'
    BY <2>2 DEF FirstInv, VersionOneIsOriginal
  <2>3. ASSUME /\ ed'[e].pc = "max" /\ ed'[e].text # Original =>
                      VersionsIn(versions', ed'[e].report) # {}
               /\ ed'[e].pc = "insert" /\ ed'[e].max = 0 => ed'[e].text = Original,
               VersionOneIsOriginal'
        PROVE  FirstInv'
    <3>1. \A x \in Editors \ {e} :
              /\ ed'[x].pc = "max" /\ ed'[x].text # Original => VersionsIn(versions', ed'[x].report) # {}
              /\ ed'[x].pc = "insert" /\ ed'[x].max = 0 => ed'[x].text = Original
      BY <1>0, <2>1 DEF FirstInv
    <3>2. QED
      BY <2>3, <3>1 DEF FirstInv, VersionsOf, VersionsIn
  <2>4. ASSUME NEW i \in DOMAIN reports, NEW text \in {e, Empty}, PostEdit(e, i, text)
        PROVE  FirstInv'
    <3>1. ed'[e].pc \in {"done", "count"} /\ UNCHANGED versions
      BY <1>0, <2>4 DEF PostEdit
    <3>2. QED
      BY <2>2, <2>3, <3>1
  <2>5. CASE CountVersions(e)
    <3>1. /\ UNCHANGED versions /\ ed'[e].pc = "max" /\ ed'[e].report = ed[e].report
          /\ VersionsOf(ed[e].report) = {} => ed'[e].text = Original
      BY <1>0, <2>5 DEF CountVersions, NeedsOriginal, Edit
    <3>2. QED
      BY <1>0, <2>2, <2>3, <3>1
  <2>6. CASE ReadMaxVersion(e)
    <3>1. /\ UNCHANGED versions /\ ed[e].pc = "max" /\ ed'[e].pc = "insert"
          /\ ed'[e].text = ed[e].text /\ ed'[e].max = MaxVersion(ed[e].report)
      BY <1>0, <2>6 DEF ReadMaxVersion, Edit
    <3>2. ed'[e].max = 0 => ed'[e].text = Original
      BY <3>1, MaxVersionBound DEF FirstInv
    <3>3. QED
      BY <2>2, <2>3, <3>1, <3>2
  <2>7. CASE InsertVersion(e)
    <3>1. /\ versions' = Append(versions, NewVersion(e)) /\ ed[e] \in Edit
          /\ ed[e].pc = "insert" /\ ed'[e].pc \in {"max", "done"}
          /\ ed'[e].report = ed[e].report
      BY <1>0, <2>7 DEF InsertVersion, WithNewVersion, Edit
    <3>2. NewVersion(e).version = 1 => NewVersion(e).text = Original
      BY <3>1 DEF NewVersion, FirstInv, Edit
    <3>3. NewVersion(e).report = ed[e].report
      BY DEF NewVersion
    <3>4. \A k \in DOMAIN versions' : \/ k \in DOMAIN versions /\ versions'[k] = versions[k]
                                      \/ versions'[k] = NewVersion(e)
      BY <1>0, <3>1
    <3>5. VersionOneIsOriginal'
      BY <3>2, <3>4 DEF FirstInv, VersionOneIsOriginal
    <3>6. VersionsIn(versions', ed'[e].report) # {}
      <4>1. Len(versions) + 1 \in DOMAIN versions'
            /\ versions'[Len(versions) + 1] = NewVersion(e)
        BY <1>0, <3>1
      <4>2. Len(versions) + 1 \in VersionsIn(versions', ed'[e].report)
        BY <3>1, <3>3, <4>1 DEF VersionsIn
      <4>3. QED
        BY <4>2
    <3>7. QED
      BY <2>3, <3>1, <3>5, <3>6
  <2>8. QED
    BY <1>2, <2>4, <2>5, <2>6, <2>7 DEF EditorStep
<1>3. QED
  BY <1>1, <1>2 DEF Next, Step, vars, GeneratorStep, CreateDataset, ReactivateNewest,
     ActivateDataset, DeleteDataset, Begin, LoadFacts, Persist, GenerationFails, PackStep,
     ReadFacts, ReadDataset, ReadNarratives, assign,
     review_report, SetStatus

\* However edits interleave, the history of a report starts from generation.
THEOREM HistoryStartsAtGeneration == Spec => []VersionOneIsOriginal
<1>1. FirstInv => VersionOneIsOriginal
  BY DEF FirstInv
<1>2. QED
  BY <1>1, AlwaysTyped, InitEditInv, NextEditInv, InitFirstInv, NextFirstInv, PTL DEF Spec

-----------------------------------------------------------------------------
(* Generation.  When requests do not interleave, a generation is alone and *)
(* the dataset it began with stays the active one.                         *)

Generating(g) == gen[g].pc \in {"begun", "llm"}

\* A digest that was given a dataset reads that one; an insight is given none.
ReadsWhatItWasGiven ==
    \A g \in Generators :
        /\ gen[g].pc = "llm" /\ gen[g].given # None => gen[g].about = gen[g].given
        /\ g \notin Digests => gen[g].given = None

GenInv ==
    /\ ReportNarratesItsDataset
    /\ ReadsWhatItWasGiven
    /\ ~overlap =>
          \A g \in Generators : Generating(g) =>
              /\ ~orphaned
              /\ \A e \in Editors : ed[e].pc \in {"idle", "done"}
              /\ gen[g].pc = "begun" => gen[g].given = active_dataset_id
              /\ gen[g].pc = "llm" => gen[g].about = active_dataset_id

LEMMA InitGenInv == Init => GenInv
BY DEF Init, GenInv, ReportNarratesItsDataset, ReadsWhatItWasGiven, Generating

LEMMA NextGenInv == Types /\ GenInv /\ [Next]_vars => GenInv'
<1> SUFFICES ASSUME Types, GenInv, [Next]_vars PROVE GenInv'
  OBVIOUS
<1> DEFINE Alone == \A g \in Generators : Generating(g) =>
                        /\ ~orphaned
                        /\ \A e \in Editors : ed[e].pc \in {"idle", "done"}
                        /\ gen[g].pc = "begun" => gen[g].given = active_dataset_id
                        /\ gen[g].pc = "llm" => gen[g].about = active_dataset_id
<1>0. /\ reports \in Seq(Report) /\ gen \in [Generators -> Generation]
      /\ ed \in [Editors -> Edit]
  BY DEF Types
<1>1. /\ UNCHANGED <<reports, overlap>> => ReportNarratesItsDataset'
      /\ UNCHANGED gen => ReadsWhatItWasGiven'
  BY DEF GenInv, ReportNarratesItsDataset, ReadsWhatItWasGiven
<1>2. UNCHANGED <<overlap, active, rows, orphaned, ed, gen>> => (~overlap' => Alone')
  BY DEF GenInv, active_dataset_id, Generating
<1>3. ASSUME MayStart, UNCHANGED <<gen, overlap>> PROVE ~overlap' => Alone'
  BY <1>3 DEF MayStart, Quiet, Generating
<1>4. CASE UNCHANGED vars
  BY <1>1, <1>2, <1>4 DEF GenInv, vars, dataVars
<1>5. ASSUME UNCHANGED overlap,
             \/ CreateDataset \/ \E d \in DatasetIds : ActivateDataset(d) \/ DeleteDataset(d)
             \/ \E e \in Editors, i \in DOMAIN reports : \E text : PostEdit(e, i, text)
      PROVE  GenInv'
  BY <1>1, <1>3, <1>5 DEF GenInv, CreateDataset, ActivateDataset, DeleteDataset, PostEdit
<1>6. ASSUME UNCHANGED overlap, ReactivateNewest PROVE GenInv'
  BY <1>1, <1>6 DEF GenInv, ReactivateNewest, Generating
<1>7. ASSUME UNCHANGED overlap, NEW e \in Editors,
             CountVersions(e) \/ ReadMaxVersion(e) \/ InsertVersion(e)
      PROVE  GenInv'
  <2>1. /\ ed[e].pc \notin {"idle", "done"}
        /\ UNCHANGED <<reports, gen>>
    BY <1>7 DEF CountVersions, ReadMaxVersion, InsertVersion
  <2>2. ~overlap => \A g \in Generators : ~Generating(g)
    BY <2>1 DEF GenInv
  <2>3. QED
    BY <1>1, <1>7, <2>1, <2>2 DEF GenInv, Generating
<1>8. ASSUME UNCHANGED overlap, NEW g \in Generators, Begin(g) PROVE GenInv'
  <2> DEFINE began == [pc |-> "begun", given |-> active_dataset_id, about |-> None]
             read == [pc |-> "llm", given |-> None, about |-> active_dataset_id]
  <2>1. /\ MayStart /\ UNCHANGED <<active, rows, orphaned, ed, reports>>
        /\ gen' = [gen EXCEPT ![g] = IF g \in Digests THEN began ELSE read]
    BY <1>8 DEF Begin, dataVars
  <2>2. active_dataset_id' = active_dataset_id
    BY <2>1 DEF active_dataset_id
  <2>3. /\ \A x \in Generators \ {g} : gen'[x] = gen[x]
        /\ gen'[g] = IF g \in Digests THEN began ELSE read
    <3> HIDE DEF began, read
    <3> QED
      BY <1>0, <2>1
  <2>4. ~overlap => \A x \in Generators \ {g} : ~Generating(x)'
    BY <2>1, <2>3 DEF MayStart, Quiet, Generating
  <2>5. ~overlap => ~orphaned /\ \A e \in Editors : ed[e].pc \in {"idle", "done"}
    BY <2>1 DEF MayStart, Quiet
  <2>6. /\ gen'[g].pc = "begun" => gen'[g].given = active_dataset_id
        /\ gen'[g].pc = "llm" => gen'[g].about = active_dataset_id /\ gen'[g].given = None
        /\ g \notin Digests => gen'[g].given = None
    BY <2>3
  <2>7. ~overlap' => Alone'
    BY <1>8, <2>1, <2>2, <2>4, <2>5, <2>6
  <2>8. ReadsWhatItWasGiven'
    BY <2>3, <2>6 DEF GenInv, ReadsWhatItWasGiven
  <2>9. QED
    BY <1>1, <1>8, <2>1, <2>7, <2>8 DEF GenInv
<1>13. ASSUME UNCHANGED overlap, NEW g \in Generators, LoadFacts(g) PROVE GenInv'
  <2>1. /\ gen[g].pc = "begun" /\ UNCHANGED <<active, rows, orphaned, ed, reports>>
        /\ Looked(g) \in rows => gen' = [gen EXCEPT ![g].pc = "llm", ![g].about = Looked(g)]
        /\ Looked(g) \notin rows => gen' = [gen EXCEPT ![g].pc = "done"]
    BY <1>13 DEF LoadFacts, dataVars
  <2>2. active_dataset_id' = active_dataset_id
    BY <2>1 DEF active_dataset_id
  <2>3. /\ \A x \in Generators \ {g} : gen'[x] = gen[x]
        /\ gen'[g].given = gen[g].given /\ gen'[g].pc \in {"llm", "done"}
        /\ gen'[g].pc = "llm" => gen'[g].about = Looked(g)
    <3>1. CASE Looked(g) \in rows
      BY <1>0, <2>1, <3>1 DEF Generation
    <3>2. CASE Looked(g) \notin rows
      BY <1>0, <2>1, <3>2 DEF Generation
    <3>3. QED
      BY <3>1, <3>2
  <2>4. /\ ~overlap => Looked(g) = active_dataset_id
        /\ gen[g].given # None => Looked(g) = gen[g].given
    BY <2>1 DEF GenInv, Looked, Generating
  <2>5. ~overlap' => Alone'
    BY <1>13, <2>1, <2>2, <2>3, <2>4 DEF GenInv, Generating
  <2>6. ReadsWhatItWasGiven'
    BY <2>3, <2>4 DEF GenInv, ReadsWhatItWasGiven
  <2>7. QED
    BY <1>1, <1>13, <2>1, <2>5, <2>6 DEF GenInv
<1>9. ASSUME UNCHANGED overlap, NEW g \in Generators, Persist(g) PROVE GenInv'
  <2>1. /\ gen[g].pc = "llm" /\ UNCHANGED <<active, rows, orphaned, ed>>
        /\ gen' = [gen EXCEPT ![g].pc = "done"]
    BY <1>9 DEF Persist, dataVars
  <2>2. active_dataset_id' = active_dataset_id
    BY <2>1 DEF active_dataset_id
  <2>3. \A x \in Generators : /\ gen'[x].about = gen[x].about /\ gen'[x].given = gen[x].given
                              /\ gen'[x].pc \in {gen[x].pc, "done"}
    BY <1>0, <2>1 DEF Generation
  <2>4. ~overlap' => Alone'
    BY <1>9, <2>1, <2>2, <2>3 DEF GenInv, Generating
  <2>5. ReadsWhatItWasGiven'
    BY <2>3 DEF GenInv, ReadsWhatItWasGiven
  <2>6. ReportNarratesItsDataset'
    <3>1. CASE Target(g) = None
      BY <1>1, <1>9, <3>1 DEF Persist
    <3>2. CASE Target(g) # None
      <4> DEFINE new == [ds |-> Target(g), about |-> gen[g].about, digest |-> g \in Digests,
                         given |-> gen[g].given # None, status |-> "none"]
      <4>1. reports' = Append(reports, new)
        BY <1>9, <3>2 DEF Persist
      <4>2. gen[g].given # None \/ ~overlap => Target(g) = gen[g].about
        <5>1. CASE gen[g].given # None
          <6>1. g \in Digests /\ gen[g].about = gen[g].given
            BY <2>1, <5>1 DEF GenInv, ReadsWhatItWasGiven
          <6>2. QED
            BY <3>2, <5>1, <6>1 DEF Target, DigestTarget, Looked
        <5>2. CASE gen[g].given = None /\ ~overlap
          <6>1. gen[g].about = active_dataset_id
            BY <2>1, <5>2 DEF GenInv, Generating
          <6>2. QED
            BY <3>2, <5>2, <6>1 DEF Target, DigestTarget, InsightTarget, Looked
        <5>3. QED
          BY <5>1, <5>2
      <4>3. new.given \/ ~overlap => new.ds = new.about
        BY <4>2
      <4>4. \A i \in DOMAIN reports' : \/ i \in DOMAIN reports /\ reports'[i] = reports[i]
                                       \/ reports'[i] = new
        <5> HIDE DEF new
        <5> QED
          BY <1>0, <4>1
      <4> HIDE DEF new
      <4>5. QED
        BY <1>9, <4>3, <4>4 DEF GenInv, ReportNarratesItsDataset
    <3>3. QED
      BY <3>1, <3>2
  <2>7. QED
    BY <2>4, <2>5, <2>6 DEF GenInv
<1>10. ASSUME UNCHANGED overlap, NEW g \in Generators, GenerationFails(g) PROVE GenInv'
  <2>1. /\ UNCHANGED <<active, rows, orphaned, ed, reports>>
        /\ gen' = [gen EXCEPT ![g].pc = "done"]
    BY <1>10 DEF GenerationFails, dataVars
  <2>2. active_dataset_id' = active_dataset_id
    BY <2>1 DEF active_dataset_id
  <2>3. \A x \in Generators : /\ gen'[x].about = gen[x].about /\ gen'[x].given = gen[x].given
                              /\ gen'[x].pc \in {gen[x].pc, "done"}
    BY <1>0, <2>1 DEF Generation
  <2>4. ~overlap' => Alone'
    BY <1>10, <2>1, <2>2, <2>3 DEF GenInv, Generating
  <2>5. ReadsWhatItWasGiven'
    BY <2>3 DEF GenInv, ReadsWhatItWasGiven
  <2>6. QED
    BY <1>1, <1>10, <2>1, <2>4, <2>5 DEF GenInv
<1>11. ASSUME UNCHANGED overlap, NEW i \in DOMAIN reports, assign(i) \/ review_report(i)
       PROVE  GenInv'
  <2>1. PICK s \in REVIEW_STATUSES : SetStatus(i, s)
    BY <1>11 DEF assign, review_report, REVIEW_STATUSES
  <2>2. \A j \in DOMAIN reports' : /\ j \in DOMAIN reports
                                   /\ reports'[j].ds = reports[j].ds
                                   /\ reports'[j].about = reports[j].about
                                   /\ reports'[j].given = reports[j].given
    BY <1>0, <2>1 DEF SetStatus, Report
  <2>3. ReportNarratesItsDataset'
    BY <1>11, <2>2 DEF GenInv, ReportNarratesItsDataset
  <2>4. (~overlap' => Alone') /\ ReadsWhatItWasGiven'
    BY <1>1, <1>2, <1>11, <2>1 DEF SetStatus, dataVars
  <2>5. QED
    BY <2>3, <2>4 DEF GenInv
<1>14. ASSUME UNCHANGED overlap, NEW p \in Packs, PackStep(p) PROVE GenInv'
  <2>1. UNCHANGED <<active, rows, orphaned, ed, gen, reports>>
    BY <1>14 DEF PackStep, ReadFacts, ReadDataset, ReadNarratives, dataVars
  <2>2. QED
    BY <1>1, <1>2, <1>14, <2>1 DEF GenInv
<1>12. QED
  BY <1>4, <1>5, <1>6, <1>7, <1>8, <1>9, <1>10, <1>11, <1>13, <1>14
     DEF Next, Step, GeneratorStep, EditorStep

\* The item of a digest that was given its dataset hangs on the dataset its
\* facts were read from, whatever is switched or deleted while the model
\* writes; so does every other report, when requests do not interleave.
THEOREM ReportsStayWithTheirFacts == Spec => []ReportNarratesItsDataset
<1>1. GenInv => ReportNarratesItsDataset
  BY DEF GenInv
<1>2. QED
  BY <1>1, AlwaysTyped, InitGenInv, NextGenInv, PTL DEF Spec

-----------------------------------------------------------------------------
(* Board packs.  The active dataset cannot change under a steady pack, and *)
(* every pack is steady when requests do not interleave.                   *)

Underway(p) == pack[p].pc \in {"facts", "dataset"}

PrintsOwnReport(p) ==
    /\ pack[p].narr \in DOMAIN reports
    /\ pack[p].steady => reports[pack[p].narr].ds = pack[p].facts

PackInv ==
    \A p \in Packs :
        /\ Underway(p) /\ pack[p].steady => pack[p].facts = active_dataset_id
        /\ pack[p].pc = "dataset" /\ pack[p].steady => pack[p].ds = pack[p].facts
        /\ pack[p].pc = "done" /\ pack[p].narr # 0 => PrintsOwnReport(p)
        /\ ~overlap => pack[p].steady
        /\ ~overlap /\ Underway(p) => ~orphaned

LEMMA InitPackInv == Init => PackInv
BY DEF Init, PackInv, Underway

\* No report is taken back, nor moved to another dataset.
LEMMA ReportsStay ==
    Types /\ [Next]_vars =>
        \A i \in DOMAIN reports : i \in DOMAIN reports' /\ reports'[i].ds = reports[i].ds
<1> SUFFICES ASSUME Types, [Next]_vars
             PROVE  \A i \in DOMAIN reports : i \in DOMAIN reports' /\ reports'[i].ds = reports[i].ds
  OBVIOUS
<1>0. reports \in Seq(Report)
  BY DEF Types
<1>1. ASSUME NEW g \in Generators, Persist(g)
      PROVE  \A i \in DOMAIN reports : i \in DOMAIN reports' /\ reports'[i].ds = reports[i].ds
  <2> DEFINE new == [ds |-> Target(g), about |-> gen[g].about, digest |-> g \in Digests,
                     given |-> gen[g].given # None, status |-> "none"]
  <2>1. reports' \in {reports, Append(reports, new)}
    BY <1>1 DEF Persist
  <2>2. \A i \in DOMAIN reports : i \in DOMAIN Append(reports, new)
                                  /\ Append(reports, new)[i] = reports[i]
    <3> HIDE DEF new
    <3> QED
      BY <1>0
  <2> HIDE DEF new
  <2>3. QED
    BY <2>1, <2>2
<1>2. ASSUME NEW i \in DOMAIN reports, assign(i) \/ review_report(i)
      PROVE  \A j \in DOMAIN reports : j \in DOMAIN reports' /\ reports'[j].ds = reports[j].ds
  <2>1. PICK s \in REVIEW_STATUSES : SetStatus(i, s)
    BY <1>2 DEF assign, review_report, REVIEW_STATUSES
  <2>2. \A j \in DOMAIN reports : reports[j] \in Report
    BY <1>0
  <2>3. QED
    BY <1>0, <2>1, <2>2 DEF SetStatus, Report
<1>3. CASE UNCHANGED reports
  BY <1>3
<1>4. QED
  BY <1>1, <1>2, <1>3 DEF Next, Step, vars, GeneratorStep, EditorStep, CreateDataset,
     ReactivateNewest, ActivateDataset, DeleteDataset, Begin, LoadFacts, GenerationFails,
     PackStep, ReadFacts, ReadDataset, ReadNarratives, PostEdit, CountVersions,
     ReadMaxVersion, InsertVersion

LEMMA NextPackInv == Types /\ PackInv /\ [Next]_vars => PackInv'
<1> SUFFICES ASSUME Types, PackInv, [Next]_vars PROVE PackInv'
  OBVIOUS
<1> DEFINE Good(p) ==
        /\ Underway(p) /\ pack[p].steady => pack[p].facts = active_dataset_id
        /\ pack[p].pc = "dataset" /\ pack[p].steady => pack[p].ds = pack[p].facts
        /\ pack[p].pc = "done" /\ pack[p].narr # 0 => PrintsOwnReport(p)
        /\ ~overlap => pack[p].steady
        /\ ~overlap /\ Underway(p) => ~orphaned
<1>0. /\ pack \in [Packs -> Making] /\ UNCHANGED overlap
      /\ \A i \in DOMAIN reports : i \in DOMAIN reports' /\ reports'[i].ds = reports[i].ds
      /\ \A p \in Packs : Good(p)
  <2>1. UNCHANGED overlap
    BY DEF Next, vars
  <2>2. QED
    BY <2>1, ReportsStay DEF Types, PackInv
<1>1. SUFFICES \A p \in Packs : Good(p)'
  BY DEF PackInv
<1>2. UNCHANGED <<active, rows>> => active_dataset_id' = active_dataset_id
  BY DEF active_dataset_id
<1>3. ASSUME NEW p \in Packs, pack'[p] = pack[p], UNCHANGED <<active, rows, orphaned>>
      PROVE  Good(p)'
  <2>1. (pack[p].pc = "done" /\ pack[p].narr # 0 => PrintsOwnReport(p))'
    BY <1>0, <1>3 DEF PrintsOwnReport
  <2>2. QED
    BY <1>0, <1>2, <1>3, <2>1 DEF Underway
<1>4. ASSUME DatasetsChange, ~overlap => \A p \in Packs : ~Underway(p)
      PROVE  \A p \in Packs : Good(p)'
  <2> SUFFICES ASSUME NEW p \in Packs PROVE Good(p)'
    OBVIOUS
  <2>1. CASE pack[p].pc \in {"idle", "done"}
    <3>1. pack'[p] = pack[p] /\ ~Underway(p)'
      BY <1>4, <2>1 DEF DatasetsChange, Underway
    <3>2. (pack[p].pc = "done" /\ pack[p].narr # 0 => PrintsOwnReport(p))'
      BY <1>0, <3>1 DEF PrintsOwnReport
    <3>3. (pack[p].pc = "dataset" /\ pack[p].steady => pack[p].ds = pack[p].facts)'
      BY <3>1 DEF Underway
    <3>4. QED
      BY <1>0, <3>1, <3>2, <3>3
  <2>2. CASE pack[p].pc \notin {"idle", "done"}
    <3>1. /\ pack'[p] = [pack[p] EXCEPT !.steady = FALSE]
          /\ pack[p] \in Making
      BY <1>0, <1>4, <2>2 DEF DatasetsChange
    <3>2. pack'[p].steady = FALSE /\ pack'[p].pc = pack[p].pc
      BY <3>1 DEF Making
    <3>3. Underway(p)
      BY <2>2, <3>1 DEF Making, Underway
    <3>4. QED
      BY <1>0, <1>4, <2>2, <3>2, <3>3
  <2>3. QED
    BY <2>1, <2>2
<1>5. ASSUME \/ CreateDataset \/ ReactivateNewest
             \/ \E d \in DatasetIds : ActivateDataset(d) \/ DeleteDataset(d)
      PROVE  \A p \in Packs : Good(p)'
  <2>1. DatasetsChange /\ (MayStart \/ orphaned)
    BY <1>5 DEF CreateDataset, ReactivateNewest, ActivateDataset, DeleteDataset
  <2>2. ~overlap => \A p \in Packs : ~Underway(p)
    BY <1>0, <2>1 DEF MayStart, Quiet, Underway
  <2>3. QED
    BY <1>4, <2>1, <2>2
<1>6. ASSUME NEW q \in Packs, PackStep(q) PROVE \A p \in Packs : Good(p)'
  <2>1. UNCHANGED <<active, rows, orphaned, reports>>
    BY <1>6 DEF PackStep, ReadFacts, ReadDataset, ReadNarratives, dataVars
  <2>2. \A p \in Packs \ {q} : pack'[p] = pack[p]
    BY <1>0, <1>6 DEF PackStep, ReadFacts, ReadDataset, ReadNarratives
  <2>3. Good(q)'
    <3>1. CASE ReadFacts(q)
      <4>1. /\ pack'[q].pc = "facts" /\ pack'[q].facts = active_dataset_id
            /\ pack'[q].steady = pack[q].steady
            /\ ~overlap => ~orphaned
        BY <1>0, <3>1 DEF ReadFacts, Making, MayStart, Quiet
      <4>2. QED
        BY <1>0, <1>2, <2>1, <4>1 DEF Underway
    <3>2. CASE ReadDataset(q)
      <4>1. /\ pack'[q].pc = "dataset" /\ pack'[q].ds = active_dataset_id
            /\ pack'[q].facts = pack[q].facts /\ pack'[q].steady = pack[q].steady
            /\ Underway(q)
        BY <1>0, <3>2 DEF ReadDataset, Making, Underway
      <4>2. QED
        BY <1>0, <1>2, <2>1, <4>1 DEF Underway
    <3>3. CASE ReadNarratives(q)
      <4> DEFINE n == IF pack[q].ds = None \/ ApprovedReports(pack[q].ds) = {}
                      THEN 0 ELSE Newest(ApprovedReports(pack[q].ds))
      <4>1. /\ pack[q].pc = "dataset" /\ pack[q] \in Making
            /\ pack' = [pack EXCEPT ![q].pc = "done", ![q].narr = n]
        BY <1>0, <3>3 DEF ReadNarratives
      <4>2. n # 0 => n \in ApprovedReports(pack[q].ds)
        BY NewestApproved
      <4> HIDE DEF n
      <4>3. /\ pack'[q].pc = "done" /\ pack'[q].narr = n
            /\ pack'[q].facts = pack[q].facts /\ pack'[q].steady = pack[q].steady
        BY <1>0, <4>1 DEF Making
      <4>4. n # 0 => n \in DOMAIN reports /\ reports[n].ds = pack[q].ds
        BY <4>2 DEF ApprovedReports, CardReports
      <4>5. n # 0 => PrintsOwnReport(q)'
        BY <1>0, <2>1, <4>1, <4>3, <4>4 DEF PrintsOwnReport
      <4>6. QED
        BY <1>0, <4>3, <4>5 DEF Underway
    <3>4. QED
      BY <1>6, <3>1, <3>2, <3>3 DEF PackStep
  <2>4. QED
    BY <1>3, <2>1, <2>2, <2>3
<1>7. CASE UNCHANGED <<active, rows, orphaned, pack>>
  BY <1>3, <1>7
<1>8. QED
  BY <1>5, <1>6, <1>7 DEF Next, Step, vars, dataVars, GeneratorStep, EditorStep, Begin,
     LoadFacts, Persist, GenerationFails, PostEdit, CountVersions, ReadMaxVersion,
     InsertVersion, assign, review_report, SetStatus

\* The three look-ups of a pack agree unless the datasets change between them,
\* and then its narrative was written about the fact it stands by, as long as
\* requests do not interleave.
THEOREM PacksNarrateTheirFacts == Spec => []PackNarratesItsFacts
<1>1. PackInv /\ ReportNarratesItsDataset => PackNarratesItsFacts
  BY DEF PackInv, PrintsOwnReport, ReportNarratesItsDataset, PackNarratesItsFacts
<1>2. QED
  BY <1>1, AlwaysTyped, InitPackInv, NextPackInv, ReportsStayWithTheirFacts, PTL DEF Spec

-----------------------------------------------------------------------------
(* The newest version is the last edit, when requests do not interleave.   *)

Busy(e) == ed[e].pc \in {"count", "max", "insert"}

\* In F the last edit of report i, and in V the version with its highest number,
\* is the one e wrote.
EditsIn(F, i) == {k \in DOMAIN F : F[k].report = i}

LastEditIn(F, i, e) ==
    \E k \in EditsIn(F, i) : F[k].text = e /\ \A l \in EditsIn(F, i) : l <= k

NewestIn(V, i, e) ==
    \A k \in VersionsIn(V, i) :
        (\A l \in VersionsIn(V, i) : V[l].version <= V[k].version) => V[k].text = e

Settled(F, V, i) ==
    \/ VersionsIn(V, i) = {}
    \/ \E e \in Editors : LastEditIn(F, i, e) /\ NewestIn(V, i, e)

\* No edit of the report is under way and none was empty.
Edited(i) ==
    \A e \in Editors : ed[e].report = i => ed[e].pc = "done" /\ ed[e].text # Empty

\* Reports, and what refers to them, are of datasets and reports made before.
RefInv ==
    /\ \A i \in DOMAIN reports : reports[i].ds <= created
    /\ \A k \in DOMAIN versions : versions[k].report \in DOMAIN reports
    /\ \A e \in Editors : /\ Busy(e) => ed[e].report \in DOMAIN reports
                          /\ ed[e].pc = "idle" => ed[e].report = 0

\* The one editor at work made the last edit of his report, and knows its
\* highest version number when he inserts.
NewestInv ==
    ~overlap =>
        /\ \A e, f \in Editors : Busy(e) /\ Busy(f) => e = f
        /\ \A e \in Editors : Busy(e) =>
              /\ LastEditIn(feedback, ed[e].report, e)
              /\ ed[e].pc = "insert" =>
                    \A k \in VersionsOf(ed[e].report) : versions[k].version <= ed[e].max
        /\ \A i \in DOMAIN reports : Exists(i) /\ Edited(i) => Settled(feedback, versions, i)

LEMMA InitRefInv == Init => RefInv
BY DEF Init, RefInv, Busy

LEMMA NextRefInv == Types /\ RefInv /\ [Next]_vars => RefInv'
<1> SUFFICES ASSUME Types, RefInv, [Next]_vars PROVE RefInv'
  OBVIOUS
<1> DEFINE Reported == \A i \in DOMAIN reports : reports[i].ds <= created
           Filed == /\ \A k \in DOMAIN versions : versions[k].report \in DOMAIN reports
                    /\ \A e \in Editors : /\ Busy(e) => ed[e].report \in DOMAIN reports
                                          /\ ed[e].pc = "idle" => ed[e].report = 0
<1>0. /\ reports \in Seq(Report) /\ versions \in Seq(Version) /\ ed \in [Editors -> Edit]
      /\ gen \in [Generators -> Generation] /\ created \in Nat
      /\ \A d \in rows : d <= created
  BY ReportsAssumption DEF Types
<1>1. /\ UNCHANGED <<reports, created>> => Reported'
      /\ UNCHANGED <<reports, versions, ed>> => Filed'
      /\ RefInv' <=> Reported' /\ Filed'
  BY DEF RefInv, Busy
<1>2. CASE UNCHANGED <<reports, created, versions, ed>>
  BY <1>1, <1>2
<1>3. CASE CreateDataset
  <2>1. /\ created' = created + 1 /\ UNCHANGED <<reports, versions, ed>>
    BY <1>3 DEF CreateDataset
  <2>2. \A i \in DOMAIN reports : reports[i].ds \in Nat /\ reports[i].ds <= created
    <3>1. \A i \in DOMAIN reports : reports[i] \in Report
      BY <1>0
    <3>2. QED
      BY <3>1, DatasetsAreIds DEF Report, RefInv
  <2>3. QED
    BY <1>0, <1>1, <2>1, <2>2
<1>4. ASSUME NEW g \in Generators, Persist(g) PROVE RefInv'
  <2>1. UNCHANGED <<created, versions, ed>>
    BY <1>4 DEF Persist, dataVars
  <2>2. CASE Target(g) = None
    BY <1>1, <1>4, <2>1, <2>2 DEF Persist
  <2>3. CASE Target(g) # None
    <3> DEFINE new == [ds |-> Target(g), about |-> gen[g].about, digest |-> g \in Digests,
                       given |-> gen[g].given # None, status |-> "none"]
    <3>1. Target(g) \in rows
      BY <2>3, ActiveIsRow DEF Target, DigestTarget, InsightTarget
    <3>2. new.ds <= created
      <4>1. Target(g) <= created
        BY <1>0, <3>1
      <4>2. QED
        BY <4>1
    <3>3. reports' = Append(reports, new)
      BY <1>4, <2>3 DEF Persist
    <3>4. /\ DOMAIN reports \subseteq DOMAIN reports'
          /\ \A i \in DOMAIN reports' :
                reports'[i] = new \/ (i \in DOMAIN reports /\ reports'[i] = reports[i])
      <4>1. new \in Report
        <5>1. gen[g].about \in DatasetIds /\ Target(g) \in DatasetIds
          BY <1>4, <3>1, DatasetsAreIds, ReportsAssumption DEF Persist, Types, DatasetIds
        <5>2. QED
          BY <5>1 DEF Report
      <4> HIDE DEF new
      <4> QED
        BY <1>0, <3>3, <4>1
    <3>5. Reported'
      BY <2>1, <3>2, <3>4 DEF RefInv
    <3>6. Filed'
      BY <2>1, <3>4 DEF RefInv, Busy
    <3>7. QED
      BY <1>1, <3>5, <3>6
  <2>4. QED
    BY <2>2, <2>3
<1>5. ASSUME NEW i \in DOMAIN reports, NEW s, SetStatus(i, s) PROVE RefInv'
  <2>1. /\ UNCHANGED <<created, versions, ed>> /\ DOMAIN reports' = DOMAIN reports
        /\ \A j \in DOMAIN reports : reports'[j].ds = reports[j].ds
    <3>1. \A j \in DOMAIN reports : reports[j] \in Report
      BY <1>0
    <3>2. QED
      BY <1>0, <1>5, <3>1 DEF SetStatus, dataVars, Report
  <2>2. QED
    BY <1>1, <2>1 DEF RefInv, Busy
<1>6. ASSUME NEW e \in Editors, NEW i \in DOMAIN reports, NEW text, PostEdit(e, i, text)
      PROVE  RefInv'
  <2>1. /\ UNCHANGED <<reports, created, versions>> /\ ed'[e].report = i
        /\ ed'[e].pc # "idle"
        /\ \A x \in Editors \ {e} : ed'[x] = ed[x]
    BY <1>0, <1>6 DEF PostEdit, dataVars
  <2>2. QED
    BY <1>1, <2>1 DEF RefInv, Busy
<1>7. ASSUME NEW e \in Editors, CountVersions(e) \/ ReadMaxVersion(e) PROVE RefInv'
  <2>1. /\ UNCHANGED <<reports, created, versions>> /\ Busy(e) /\ ed'[e].report = ed[e].report
        /\ ed'[e].pc # "idle"
        /\ \A x \in Editors \ {e} : ed'[x] = ed[x]
    BY <1>0, <1>7 DEF CountVersions, ReadMaxVersion, dataVars, Busy, Edit
  <2>2. QED
    BY <1>1, <2>1 DEF RefInv, Busy
<1>8. ASSUME NEW e \in Editors, InsertVersion(e) PROVE RefInv'
  <2>1. /\ UNCHANGED <<reports, created>> /\ Busy(e) /\ ed'[e].report = ed[e].report
        /\ ed'[e].pc # "idle"
        /\ \A x \in Editors \ {e} : ed'[x] = ed[x]
    BY <1>0, <1>8 DEF InsertVersion, dataVars, Busy, Edit
  <2>2. /\ versions' = Append(versions, NewVersion(e)) /\ NewVersion(e).report = ed[e].report
    BY <1>8 DEF InsertVersion, WithNewVersion, NewVersion
  <2>3. \A k \in DOMAIN versions' :
            versions'[k] = NewVersion(e) \/ (k \in DOMAIN versions /\ versions'[k] = versions[k])
    <3>1. NewVersion(e) \in Version
      <4>1. ed[e] \in Edit /\ ed[e].report # 0
        BY <1>0, <2>1 DEF Types, Busy
      <4>2. QED
        BY <4>1 DEF NewVersion, Version, Edit
    <3>2. QED
      BY <1>0, <2>2, <3>1
  <2>4. \A k \in DOMAIN versions' : versions'[k].report \in DOMAIN reports
    BY <2>1, <2>2, <2>3 DEF RefInv
  <2>5. Filed'
    BY <2>1, <2>4 DEF RefInv, Busy
  <2>6. QED
    BY <1>1, <2>1, <2>5 DEF RefInv
<1>9. QED
  BY <1>2, <1>3, <1>4, <1>5, <1>6, <1>7, <1>8 DEF Next, Step, vars, dataVars, GeneratorStep,
     EditorStep, ReactivateNewest, ActivateDataset, DeleteDataset, Begin, LoadFacts, GenerationFails, PackStep,
     ReadFacts, ReadDataset, ReadNarratives,
     assign, review_report

LEMMA InitNewestInv == Init => NewestInv
BY DEF Init, NewestInv, Busy

LEMMA NextNewestInv == Types /\ EditInv /\ RefInv /\ NewestInv /\ [Next]_vars => NewestInv'
<1> SUFFICES ASSUME Types, EditInv, RefInv, NewestInv, [Next]_vars, ~overlap'
             PROVE  /\ \A e, f \in Editors : Busy(e)' /\ Busy(f)' => e = f
                    /\ \A e \in Editors : Busy(e)' =>
                          /\ LastEditIn(feedback', ed'[e].report, e)
                          /\ ed'[e].pc = "insert" =>
                                \A k \in VersionsIn(versions', ed'[e].report) :
                                    versions'[k].version <= ed'[e].max
                    /\ \A i \in DOMAIN reports' :
                          Exists(i)' /\ Edited(i)' => Settled(feedback', versions', i)
  BY DEF NewestInv, VersionsOf, VersionsIn
<1> DEFINE Single == \A e, f \in Editors : Busy(e) /\ Busy(f) => e = f
           Knows(e) == /\ LastEditIn(feedback, ed[e].report, e)
                       /\ ed[e].pc = "insert" =>
                             \A k \in VersionsIn(versions, ed[e].report) :
                                 versions[k].version <= ed[e].max
           Kept(i) == Exists(i) /\ Edited(i) => Settled(feedback, versions, i)
           Goal == /\ Single' /\ (\A e \in Editors : Busy(e)' => Knows(e)')
                   /\ \A i \in DOMAIN reports' : Kept(i)'
<1>0. /\ reports \in Seq(Report) /\ feedback \in Seq(Row) /\ versions \in Seq(Version)
      /\ ed \in [Editors -> Edit]
      /\ Empty \notin Editors /\ Original \notin Editors /\ Original # Empty
  BY ReportsAssumption DEF Types
<1>1. /\ ~overlap
      /\ Single /\ (\A e \in Editors : Busy(e) => Knows(e)) /\ \A i \in DOMAIN reports : Kept(i)
  <2>1. ~overlap
    BY DEF Next, vars
  <2>2. QED
    BY <2>1 DEF NewestInv, VersionsOf, VersionsIn
<1>2. ASSUME UNCHANGED <<feedback, versions, ed>>,
             \A i \in DOMAIN reports' : Exists(i)' =>
                 VersionsIn(versions, i) = {} \/ (i \in DOMAIN reports /\ Exists(i))
      PROVE  Goal
  <2>1. Single' /\ \A e \in Editors : Busy(e)' => Knows(e)'
    BY <1>1, <1>2 DEF Busy, LastEditIn, EditsIn, VersionsIn
  <2>2. ASSUME NEW i \in DOMAIN reports', Exists(i)', Edited(i)'
        PROVE  Settled(feedback', versions', i)
    <3>1. Edited(i) /\ (VersionsIn(versions, i) = {} \/ (i \in DOMAIN reports /\ Exists(i)))
      BY <1>2, <2>2 DEF Edited
    <3>2. Settled(feedback, versions, i)
      BY <1>1, <3>1 DEF Settled
    <3>3. QED
      BY <1>2, <3>2
  <2>3. QED
    BY <2>1, <2>2
<1>3. ASSUME CreateDataset PROVE Goal
  <2>1. UNCHANGED <<feedback, versions, ed, reports>> /\ rows' = rows \cup {created + 1}
    BY <1>3 DEF CreateDataset
  <2>2. \A i \in DOMAIN reports : /\ reports[i].ds \in Nat /\ reports[i].ds <= created
                                  /\ created \in Nat
    <3>1. \A i \in DOMAIN reports : reports[i] \in Report
      BY <1>0
    <3>2. QED
      BY <3>1, DatasetsAreIds, ReportsAssumption DEF Report, RefInv, Types
  <2>3. \A i \in DOMAIN reports : reports[i].ds # created + 1
    BY <2>2
  <2>4. QED
    BY <1>2, <2>1, <2>3 DEF Exists
<1>4. ASSUME NEW g \in Generators, Persist(g) PROVE Goal
  <2>1. UNCHANGED <<feedback, versions, ed, rows>>
    BY <1>4 DEF Persist, dataVars
  <2>2. \A i \in DOMAIN reports : i \in DOMAIN reports' => reports'[i] = reports[i]
    <3> DEFINE new == [ds |-> Target(g), about |-> gen[g].about, digest |-> g \in Digests,
                       given |-> gen[g].given # None, status |-> "none"]
    <3>1. reports' \in {reports, Append(reports, new)}
      BY <1>4 DEF Persist
    <3>2. \A i \in DOMAIN reports : Append(reports, new)[i] = reports[i]
      <4> HIDE DEF new
      <4> QED
        BY <1>0
    <3> HIDE DEF new
    <3>3. QED
      BY <3>1, <3>2
  <2>3. \A i : i \notin DOMAIN reports => VersionsIn(versions, i) = {}
    BY DEF RefInv, VersionsIn
  <2>4. QED
    BY <1>2, <2>1, <2>2, <2>3 DEF Exists
<1>5. ASSUME NEW i \in DOMAIN reports, NEW s, SetStatus(i, s) PROVE Goal
  <2>1. /\ UNCHANGED <<feedback, versions, ed, rows>> /\ DOMAIN reports' = DOMAIN reports
        /\ \A j \in DOMAIN reports : reports'[j].ds = reports[j].ds
    <3>1. \A j \in DOMAIN reports : reports[j] \in Report
      BY <1>0
    <3>2. QED
      BY <1>0, <1>5, <3>1 DEF SetStatus, dataVars, Report
  <2>2. QED
    BY <1>2, <2>1 DEF Exists
<1>6. ASSUME NEW d \in DatasetIds, DeleteDataset(d) PROVE Goal
  <2>1. /\ UNCHANGED <<versions, ed, reports>> /\ rows' = rows \ {d}
        /\ \A e \in Editors : ~Busy(e)
    BY <1>1, <1>6 DEF DeleteDataset, MayStart, Quiet, Busy
  <2>2. ASSUME NEW i \in DOMAIN reports, reports[i].ds # d
        PROVE  /\ EditsIn(feedback', i) = EditsIn(feedback, i)
               /\ \A k \in EditsIn(feedback, i) : feedback'[k] = feedback[k]
    <3>1. i # 0 /\ DOMAIN feedback' = DOMAIN feedback
      BY <1>0, <1>6 DEF DeleteDataset
    <3>2. \A k \in DOMAIN feedback :
             \/ feedback'[k] = feedback[k]
             \/ feedback'[k].report = 0 /\ feedback[k].report # i
      BY <1>6, <2>2 DEF DeleteDataset, NoRow
    <3>3. QED
      BY <3>1, <3>2 DEF EditsIn
  <2>3. ASSUME NEW i \in DOMAIN reports', Exists(i)', Edited(i)'
        PROVE  Settled(feedback', versions', i)
    <3>1. i \in DOMAIN reports /\ Exists(i) /\ Edited(i) /\ reports[i].ds # d
      BY <2>1, <2>3 DEF Exists, Edited
    <3>2. Settled(feedback, versions, i)
      BY <1>1, <3>1
    <3>3. QED
      BY <2>1, <2>2, <3>1, <3>2 DEF Settled, LastEditIn
  <2>4. QED
    BY <2>1, <2>3 DEF Busy
<1>7. ASSUME NEW e \in Editors, NEW i \in DOMAIN reports, NEW text \in {e, Empty},
             PostEdit(e, i, text)
      PROVE  Goal
  <2>1. /\ UNCHANGED <<reports, rows, versions>>
        /\ \A x \in Editors : ~Busy(x)
        /\ \A x \in Editors \ {e} : ed'[x] = ed[x]
        /\ ed'[e].report = i /\ ed'[e].text = text
        /\ ed'[e].pc = IF text = Empty THEN "done" ELSE "count"
    BY <1>0, <1>1, <1>7 DEF PostEdit, MayStart, Quiet, Busy, dataVars
  <2> DEFINE n == Len(feedback) + 1
  <2>2. /\ [report |-> i, text |-> text] \in Row /\ i \in Nat
        /\ feedback' = Append(feedback, [report |-> i, text |-> text])
    BY <1>0, <1>7 DEF PostEdit, Row, Texts
  <2>3. /\ DOMAIN feedback' = DOMAIN feedback \cup {n} /\ n \notin DOMAIN feedback
        /\ feedback'[n] = [report |-> i, text |-> text] /\ n \in Nat
        /\ \A k \in DOMAIN feedback : feedback'[k] = feedback[k] /\ k <= n
    BY <1>0, <2>2
  <2>4. LastEditIn(feedback', i, text)
    BY <2>3 DEF LastEditIn, EditsIn
  <2>5. ASSUME NEW j \in DOMAIN reports, j # i, Settled(feedback, versions, j)
        PROVE  Settled(feedback', versions', j)
    <3>1. /\ EditsIn(feedback', j) = EditsIn(feedback, j)
          /\ \A k \in EditsIn(feedback, j) : feedback'[k] = feedback[k]
      BY <2>3, <2>5 DEF EditsIn
    <3>2. QED
      BY <2>1, <2>5, <3>1 DEF Settled, LastEditIn
  <2>6. \A x \in Editors : Busy(x)' => x = e /\ text = e /\ ed'[e].pc = "count"
    BY <2>1 DEF Busy
  <2>7. \A x \in Editors : Busy(x)' => Knows(x)'
    BY <2>1, <2>4, <2>6
  <2>8. ASSUME NEW j \in DOMAIN reports', Exists(j)', Edited(j)'
        PROVE  Settled(feedback', versions', j)
    <3>1. j # i
      BY <2>1, <2>8 DEF Edited
    <3>2. Exists(j) /\ j \in DOMAIN reports
      BY <2>1, <2>8 DEF Exists
    <3>3. Edited(j)
      <4>1. ed[e].report = 0 /\ j # 0
        <5>1. ed[e].report = 0
          BY <1>7 DEF RefInv, PostEdit
        <5>2. j # 0
          BY <1>0, <3>2
        <5>3. QED
          BY <5>1, <5>2
      <4>2. QED
        BY <2>1, <2>8, <4>1 DEF Edited
    <3>4. QED
      BY <1>1, <2>5, <3>1, <3>2, <3>3
  <2>9. QED
    BY <2>6, <2>7, <2>8
<1>8. ASSUME NEW e \in Editors, CountVersions(e) \/ ReadMaxVersion(e) PROVE Goal
  <2>1. /\ UNCHANGED <<reports, rows, versions, feedback>>
        /\ Busy(e) /\ Busy(e)' /\ ed'[e].report = ed[e].report
        /\ \A x \in Editors \ {e} : ed'[x] = ed[x]
    BY <1>0, <1>8 DEF CountVersions, ReadMaxVersion, dataVars, Busy, Edit
  <2>2. ed'[e].pc = "insert" => ed'[e].max = MaxVersion(ed[e].report)
    BY <1>0, <1>8 DEF CountVersions, ReadMaxVersion, Edit
  <2>3. Single'
    BY <1>1, <2>1 DEF Busy
  <2>4. \A k \in VersionsIn(versions, ed[e].report) :
            versions[k].version <= MaxVersion(ed[e].report)
    BY MaxVersionBound DEF VersionsOf, VersionsIn
  <2>5. \A x \in Editors : Busy(x)' => Knows(x)'
    BY <1>1, <2>1, <2>2, <2>3, <2>4
  <2>6. \A i \in DOMAIN reports' : Edited(i)' => Edited(i)
    BY <2>1 DEF Edited, Busy
  <2>7. QED
    BY <1>1, <2>1, <2>3, <2>5, <2>6 DEF Exists
<1>9. ASSUME NEW e \in Editors, InsertVersion(e) PROVE Goal
  <2> DEFINE r == ed[e].report
             n == Len(versions) + 1
  <2>1. /\ UNCHANGED <<reports, rows, feedback>> /\ ed[e].pc = "insert" /\ ed'[e].report = r
        /\ ed[e].text \in {e, Original}
        /\ ed'[e].pc = IF ed[e].text = Original THEN "max" ELSE "done"
        /\ \A x \in Editors \ {e} : ed'[x] = ed[x]
    BY <1>0, <1>9 DEF InsertVersion, dataVars, EditInv, Edit
  <2>2. Busy(e) /\ Knows(e) /\ \A x \in Editors \ {e} : ~Busy(x)
    BY <1>1, <2>1 DEF Busy
  <2>3. Single' /\ \A x \in Editors : Busy(x)' => x = e /\ ed'[e].pc = "max"
    BY <2>1, <2>2 DEF Busy
  <2>4. \A x \in Editors : Busy(x)' => Knows(x)'
    BY <2>1, <2>2, <2>3
  <2>5. /\ versions' = Append(versions, NewVersion(e)) /\ NewVersion(e).report = r
        /\ NewVersion(e).version = ed[e].max + 1 /\ NewVersion(e).text = ed[e].text
    BY <1>9 DEF InsertVersion, WithNewVersion, NewVersion
  <2>6. NewVersion(e) \in Version /\ ed[e].max \in Nat
    <3>1. ed[e] \in Edit /\ r # 0
      BY <1>0, <2>1 DEF Types
    <3>2. QED
      BY <3>1 DEF NewVersion, Version, Edit
  <2>7. /\ DOMAIN versions' = DOMAIN versions \cup {n} /\ n \notin DOMAIN versions
        /\ versions'[n] = NewVersion(e)
        /\ \A k \in DOMAIN versions : versions'[k] = versions[k] /\ versions[k] \in Version
    BY <1>0, <2>5, <2>6
  <2>8. ASSUME ed[e].text = e PROVE NewestIn(versions', r, e)
    <3>1. \A k \in VersionsIn(versions, r) : /\ versions[k].version \in Nat
                                             /\ versions[k].version <= ed[e].max
      BY <2>1, <2>2, <2>7 DEF Version, VersionsIn
    <3>2. n \in VersionsIn(versions', r) /\ versions'[n].version = ed[e].max + 1
      BY <2>5, <2>7 DEF VersionsIn
    <3>3. ASSUME NEW k \in VersionsIn(versions', r),
                 \A l \in VersionsIn(versions', r) : versions'[l].version <= versions'[k].version
          PROVE  versions'[k].text = e
      <4>1. ed[e].max + 1 <= versions'[k].version
        BY <3>2, <3>3
      <4>2. k \in VersionsIn(versions, r) => versions'[k] = versions[k]
        BY <2>7 DEF VersionsIn
      <4>3. k \notin VersionsIn(versions, r)
        BY <2>6, <3>1, <4>1, <4>2
      <4>4. k = n
        BY <2>7, <3>3, <4>3 DEF VersionsIn
      <4>5. QED
        BY <2>5, <2>7, <2>8, <4>4
    <3>4. QED
      BY <3>3 DEF NewestIn
  <2>9. ASSUME NEW i \in DOMAIN reports', Exists(i)', Edited(i)'
        PROVE  Settled(feedback', versions', i)
    <3>1. i \in DOMAIN reports /\ Exists(i)
      BY <2>1, <2>9 DEF Exists
    <3>2. CASE i = r
      <4>1. ed[e].text = e
        BY <2>1, <2>9, <3>2 DEF Edited
      <4>2. LastEditIn(feedback', r, e)
        BY <2>1, <2>2
      <4>3. QED
        BY <2>8, <3>2, <4>1, <4>2 DEF Settled
    <3>3. CASE i # r
      <4>1. Edited(i)
        BY <2>1, <2>9, <3>3 DEF Edited
      <4>2. Settled(feedback, versions, i)
        BY <1>1, <3>1, <4>1
      <4>3. /\ VersionsIn(versions', i) = VersionsIn(versions, i)
            /\ \A k \in VersionsIn(versions, i) : versions'[k] = versions[k]
        BY <2>5, <2>7, <3>3 DEF VersionsIn
      <4>4. QED
        BY <2>1, <4>2, <4>3 DEF Settled, NewestIn
    <3>4. QED
      BY <3>2, <3>3
  <2>10. QED
    BY <2>3, <2>4, <2>9
<1>10. Goal
  <2>1. CASE UNCHANGED <<reports, rows, feedback, versions, ed>>
    BY <1>2, <2>1 DEF Exists
  <2>2. QED
    BY <1>3, <1>4, <1>5, <1>6, <1>7, <1>8, <1>9, <2>1 DEF Next, Step, vars, dataVars,
       GeneratorStep, EditorStep, ReactivateNewest, ActivateDataset, Begin, LoadFacts, GenerationFails, PackStep,
     ReadFacts, ReadDataset, ReadNarratives,
       assign, review_report
<1>11. QED
  BY <1>10

\* The newest version of an edited report is what its card shows, as long as
\* requests do not interleave and no edit of it was empty.
THEOREM HistoryEndsAtCard == Spec => []NewestVersionIsShown
<1>1. Types /\ NewestInv => NewestVersionIsShown
  <2>1. SUFFICES ASSUME Types, NewestInv, ~overlap, NEW i \in DOMAIN reports, Exists(i), Edited(i),
                        NEW k \in VersionsOf(i), versions[k].version = MaxVersion(i)
                 PROVE  versions[k].text = Shown(i)
    BY DEF NewestVersionIsShown, Edited
  <2>2. PICK e \in Editors : LastEditIn(feedback, i, e) /\ NewestIn(versions, i, e)
    BY <2>1 DEF NewestInv, Settled, VersionsOf, VersionsIn
  <2>3. versions[k].text = e
    BY <2>1, <2>2, MaxVersionBound DEF NewestIn, VersionsOf, VersionsIn
  <2>4. PICK l \in EditsOf(i) : feedback[l].text = e /\ \A m \in EditsOf(i) : m <= l
    BY <2>2 DEF LastEditIn, EditsOf, EditsIn
  <2>5. /\ EditsOf(i) \in SUBSET Nat /\ EditsOf(i) # {} /\ Len(feedback) \in Nat
        /\ \A m \in EditsOf(i) : m <= Len(feedback)
    BY <2>1, <2>4 DEF EditsOf, Types
  <2>6. Newest(EditsOf(i)) = l
    BY <2>4, <2>5, NewestIsLargest
  <2>7. QED
    BY <2>3, <2>4, <2>5, <2>6, ReportsAssumption DEF Shown
<1>2. QED
  BY <1>1, AlwaysTyped, InitEditInv, NextEditInv, InitRefInv, NextRefInv, InitNewestInv,
     NextNewestInv, PTL DEF Spec

=============================================================================
