------------------------ MODULE KnowledgeBaseProofs -------------------------
(* Theorems about KnowledgeBase, for any threads, universes, documents,    *)
(* texts, dimensions, search windows and vector stores.                    *)
EXTENDS KnowledgeBase, FiniteSetTheorems, WellFoundedInduction, TLAPS

-----------------------------------------------------------------------------
(* Types.                                                                  *)

Stages == {"idle", "embed", "add", "remove", "persist", "write", "search", "answered"}
Vectors == [doc : Ids, text : 0 .. MaxText, dim : Dims, copy : Nat]

Types ==
    /\ backend \in {"faiss", "pgvector"} /\ dim \in Dims
    /\ universe \in [Ids -> Universes \cup {Someone}]
    /\ text \in [Ids -> 0 .. MaxText] /\ made \in 0 .. MaxDocs
    /\ index \in SUBSET Vectors /\ IsFiniteSet(index)
    /\ disk \in SUBSET Vectors /\ IsFiniteSet(disk)
    /\ torn \in BOOLEAN /\ mixed \in SUBSET Threads
    /\ pc \in [Threads -> Stages]
    /\ texts \in [Threads -> [Ids -> 0 .. MaxText]]
    /\ docs \in [Threads -> SUBSET Ids]
    /\ on \in [Threads -> SUBSET Ids] /\ own \in [Threads -> SUBSET Ids]
    /\ lag \in SUBSET Ids

LEMMA InitTypes == Init => Types
<1>1. SUFFICES ASSUME Init PROVE Types
  OBVIOUS
<1>2. 0 \in 0 .. MaxText /\ 0 \in 0 .. MaxDocs /\ IsFiniteSet({})
  BY KnowledgeBaseAssumption, FS_EmptySet
<1>3. NoTexts \in [Ids -> 0 .. MaxText]
  BY <1>2 DEF NoTexts
<1>4. pc \in [Threads -> Stages] /\ backend \in {"faiss", "pgvector"}
  BY <1>1, KnowledgeBaseAssumption DEF Init, Stages
<1>5. universe \in [Ids -> Universes \cup {Someone}] /\ text \in [Ids -> 0 .. MaxText]
  BY <1>1, <1>3 DEF Init
<1>6. texts \in [Threads -> [Ids -> 0 .. MaxText]]
  BY <1>1, <1>3 DEF Init
<1>7. /\ docs \in [Threads -> SUBSET Ids]
      /\ on \in [Threads -> SUBSET Ids] /\ own \in [Threads -> SUBSET Ids]
  BY <1>1 DEF Init
<1>8. /\ dim \in Dims /\ made = 0 /\ index = {} /\ disk = {}
      /\ torn = FALSE /\ mixed = {} /\ lag = {}
  BY <1>1 DEF Init
<1>9. QED
  BY <1>2, <1>4, <1>5, <1>6, <1>7, <1>8 DEF Types

\* Any set of documents is finite.
LEMMA IdsAreFinite == \A S \in SUBSET Ids : IsFiniteSet(S)
<1>1. IsFiniteSet(Ids)
  BY FS_Interval, KnowledgeBaseAssumption DEF Ids
<1>2. QED
  BY <1>1, FS_Subset

\* What a function makes of a finite set is finite.
LEMMA ImageIsFinite ==
    ASSUME NEW S, NEW f, IsFiniteSet(S)
    PROVE  IsFiniteSet({f[x] : x \in S})
<1> DEFINE T == {f[x] : x \in S}
           g == [x \in S |-> f[x]]
<1>1. g \in Surjection(S, T)
  BY DEF Surjection
<1> HIDE DEF T, g
<1>2. IsFiniteSet(T)
  BY <1>1, FS_Surjection
<1>3. QED
  BY <1>2 DEF T

LEMMA VectorType ==
    ASSUME NEW d \in Ids, NEW x \in 0 .. MaxText, NEW n \in Dims, NEW c \in Nat
    PROVE  Vector(d, x, n, c) \in Vectors /\ Vector(d, x, n, c).doc = d
BY DEF Vector, Vectors

LEMMA WithoutType ==
    ASSUME Types, NEW S
    PROVE  Without(S) \in SUBSET Vectors /\ IsFiniteSet(Without(S))
BY FS_Subset DEF Types, Without

LEMMA AddedType ==
    ASSUME Types, NEW t \in Threads, NEW S \in SUBSET Vectors, IsFiniteSet(S)
    PROVE  Added(t, S) \in SUBSET Vectors /\ IsFiniteSet(Added(t, S))
<1> DEFINE V(d) == Vector(d, texts[t][d], dim, Cardinality(Of(d, S)) + 1)
           New == {V(d) : d \in on[t]}
<1>1. on[t] \in SUBSET Ids /\ IsFiniteSet(on[t])
  BY IdsAreFinite DEF Types
<1>2. ASSUME NEW d \in Ids PROVE V(d) \in Vectors
  <2>1. IsFiniteSet(Of(d, S))
    BY FS_Subset DEF Of
  <2>2. Cardinality(Of(d, S)) + 1 \in Nat
    BY <2>1, FS_CardinalityType
  <2>3. QED
    BY <2>2, VectorType DEF Types
<1>3. New \in SUBSET Vectors
  BY <1>1, <1>2
<1>4. IsFiniteSet(New)
  <2> DEFINE f == [d \in on[t] |-> V(d)]
  <2>1. {f[d] : d \in on[t]} = New
    OBVIOUS
  <2> HIDE DEF f, V, New
  <2>2. QED
    BY <1>1, <2>1, ImageIsFinite
<1>5. Added(t, S) = S \cup New
  BY DEF Added
<1> HIDE DEF New
<1>6. QED
  BY <1>3, <1>4, <1>5, FS_Union

LEMMA LoadableType ==
    ASSUME Types, NEW n \in Dims, NEW S \in Loadable(n)
    PROVE  S \in SUBSET Vectors /\ IsFiniteSet(S)
<1>1. CASE torn
  <2> DEFINE P == (1 .. made) \X Texts
             F(p) == Vector(p[1], p[2], n, 1)
             All == {F(p) : p \in P}
  <2>1. made \in Nat /\ 1 .. made \subseteq Ids /\ Texts \subseteq 0 .. MaxText
    BY KnowledgeBaseAssumption DEF Types, Ids, Texts
  <2>2. IsFiniteSet(1 .. made) /\ IsFiniteSet(Texts)
    BY <2>1, FS_Interval, KnowledgeBaseAssumption DEF Texts
  <2>3. IsFiniteSet(P)
    BY <2>2, FS_Product
  <2>4. ASSUME NEW p \in P PROVE F(p) \in Vectors
    BY <2>1, VectorType
  <2>5. IsFiniteSet(All)
    <3> DEFINE f == [p \in P |-> F(p)]
    <3>1. {f[p] : p \in P} = All
      OBVIOUS
    <3> HIDE DEF P, F, f, All
    <3>2. QED
      BY <2>3, <3>1, ImageIsFinite
  <2>6. S \in SUBSET All
    BY <1>1 DEF Loadable
  <2>7. QED
    <3> HIDE DEF P, F
    <3>1. All \subseteq Vectors
      BY <2>4
    <3> HIDE DEF All
    <3>2. QED
      BY <2>5, <2>6, <3>1, FS_Subset
<1>2. CASE ~torn
  BY <1>2, FS_Subset DEF Loadable, Types
<1>3. QED
  BY <1>1, <1>2

LEMMA WorksTypes ==
    ASSUME Types, NEW t \in Threads, NEW S \in SUBSET Ids, Works(t, S)
    PROVE  /\ on' \in [Threads -> SUBSET Ids] /\ own' \in [Threads -> SUBSET Ids]
           /\ lag' \in SUBSET Ids
BY DEF Types, Works

LEMMA EndsTypes ==
    ASSUME Types, NEW t \in Threads, NEW done \in BOOLEAN, Ends(t, done)
    PROVE  /\ on' \in [Threads -> SUBSET Ids] /\ own' \in [Threads -> SUBSET Ids]
           /\ lag' \in SUBSET Ids
           /\ pc' \in [Threads -> Stages]
           /\ texts' \in [Threads -> [Ids -> 0 .. MaxText]]
           /\ mixed' \in SUBSET Threads
<1>1. NoTexts \in [Ids -> 0 .. MaxText]
  BY KnowledgeBaseAssumption DEF NoTexts
<1>2. QED
  BY <1>1 DEF Types, Ends, Stages

LEMMA EmbedsTypes ==
    ASSUME Types, NEW t \in Threads, NEW new \in [Ids -> 0 .. MaxText], Embeds(t, new)
    PROVE  /\ pc' \in [Threads -> Stages]
           /\ texts' \in [Threads -> [Ids -> 0 .. MaxText]]
           /\ UNCHANGED <<backend, dim, disk, torn, mixed, docs>>
BY DEF Types, Embeds, Stages, readerVars, fileVars

LEMMA ChangesTypes ==
    ASSUME Types, NEW t \in Threads, NEW new \in SUBSET Vectors, IsFiniteSet(new),
           NEW next \in Stages, Changes(t, new, next)
    PROVE  Types'
<1>1. index' = new /\ mixed' \in SUBSET Threads /\ pc' \in [Threads -> Stages]
  BY DEF Changes, Types
<1>2. QED
  BY <1>1 DEF Changes, Types, storeVars, readerVars, historyVars

LEMMA NextTypes == Types /\ [Next]_vars => Types'
<1> SUFFICES ASSUME Types, [Next]_vars PROVE Types'
  OBVIOUS
<1>0. /\ 0 \in 0 .. MaxText /\ Texts \subseteq 0 .. MaxText /\ Ids \subseteq 0 .. MaxDocs
      /\ NoTexts \in [Ids -> 0 .. MaxText]
  BY KnowledgeBaseAssumption DEF NoTexts, Texts, Ids
<1>1. CASE UNCHANGED vars
  BY <1>1 DEF vars, storeVars, vectorVars, fileVars, readerVars, historyVars, Types
<1>2. ASSUME NEW t \in Threads, NEW u \in Universes, NEW x \in Texts, Add(t, u, x)
      PROVE  Types'
  <2>1. made' \in Ids /\ Works(t, {made'}) /\ index' = index
    BY <1>2 DEF Add
  <2>2. [NoTexts EXCEPT ![made'] = x] \in [Ids -> 0 .. MaxText]
    BY <1>0
  <2>3. text' \in [Ids -> 0 .. MaxText] /\ universe' \in [Ids -> Universes \cup {Someone}]
    BY <1>0, <1>2, <2>1 DEF Add, Types
  <2>4. Embeds(t, [NoTexts EXCEPT ![made'] = x])
    BY <1>2 DEF Add
  <2>5. QED
    BY <1>0, <2>1, <2>2, <2>3, <2>4, WorksTypes, EmbedsTypes, ZenonT(60) DEF Types
<1>3. ASSUME NEW t \in Threads, NEW u \in Universes, NEW d \in Ids, NEW x \in Texts,
             Update(t, u, d, x)
      PROVE  Types'
  <2>1. [NoTexts EXCEPT ![d] = x] \in [Ids -> 0 .. MaxText]
    BY <1>0
  <2>2. text' \in [Ids -> 0 .. MaxText]
    BY <1>0, <1>3 DEF Update, Types
  <2>3. Embeds(t, [NoTexts EXCEPT ![d] = x]) /\ Works(t, {d})
        /\ UNCHANGED <<universe, made, index>>
    BY <1>3 DEF Update
  <2>4. QED
    BY <2>1, <2>2, <2>3, WorksTypes, EmbedsTypes, ZenonT(60) DEF Types
<1>4. ASSUME NEW t \in Threads, NEW u \in Universes, NEW d \in Ids, Delete(t, u, d)
      PROVE  Types'
  <2>1. text' \in [Ids -> 0 .. MaxText] /\ pc' \in [Threads -> Stages]
    BY <1>0, <1>4 DEF Delete, Types, Stages
  <2>2. index' \in SUBSET Vectors /\ IsFiniteSet(index')
    <3>1. index' = Without({d}) \/ index' = index
      BY <1>4 DEF Delete
    <3>2. QED
      BY <3>1, WithoutType DEF Types
  <2>3. Works(t, {d}) /\ UNCHANGED <<backend, dim, universe, made, disk, torn, mixed, texts, docs>>
    BY <1>4 DEF Delete, readerVars, fileVars
  <2>4. QED
    BY <2>1, <2>2, <2>3, WorksTypes, ZenonT(60) DEF Types
<1>5. ASSUME NEW t \in Threads, reindex_all(t) PROVE Types'
  <2>1. PICK S \in SUBSET Ids :
            Works(t, S) /\ Embeds(t, [d \in Ids |-> IF d \in S THEN text[d] ELSE 0])
    BY <1>5 DEF reindex_all, InScope
  <2>2. [d \in Ids |-> IF d \in S THEN text[d] ELSE 0] \in [Ids -> 0 .. MaxText]
    BY <1>0 DEF Types
  <2>3. UNCHANGED <<universe, text, made, index>>
    BY <1>5 DEF reindex_all
  <2>4. QED
    BY <2>1, <2>2, <2>3, WorksTypes, EmbedsTypes, ZenonT(60) DEF Types
<1>6. ASSUME NEW t \in Threads, StoreVectors(t) PROVE Types'
  <2>1. index' = Added(t, Without(on[t])) /\ Ends(t, TRUE)
        /\ UNCHANGED <<storeVars, disk, torn, readerVars>>
    BY <1>6 DEF StoreVectors
  <2>2. index' \in SUBSET Vectors /\ IsFiniteSet(index')
    BY <2>1, WithoutType, AddedType
  <2>3. QED
    BY <2>1, <2>2, EndsTypes DEF Types, storeVars, readerVars
<1>7. ASSUME NEW t \in Threads, RemoveIds(t) \/ AddIds(t) PROVE Types'
  <2>1. Changes(t, Without(on[t]), "add") \/ Changes(t, Added(t, index), "persist")
    BY <1>7 DEF RemoveIds, AddIds
  <2>2. "add" \in Stages /\ "persist" \in Stages
    BY DEF Stages
  <2>3. index \in SUBSET Vectors /\ IsFiniteSet(index)
    BY DEF Types
  <2>4. QED
    BY <2>1, <2>2, <2>3, WithoutType, AddedType, ChangesTypes
<1>8. ASSUME NEW t \in Threads, RemoveVectors(t) PROVE Types'
  <2>1. CASE backend = "faiss"
    <3>1. Changes(t, Without(on[t]), "persist") /\ "persist" \in Stages
      BY <1>8, <2>1 DEF RemoveVectors, Stages
    <3>2. QED
      BY <3>1, WithoutType, ChangesTypes
  <2>2. CASE backend # "faiss"
    <3>1. index' = Without(on[t]) /\ Ends(t, TRUE)
          /\ UNCHANGED <<storeVars, disk, torn, readerVars>>
      BY <1>8, <2>2 DEF RemoveVectors
    <3>2. index' \in SUBSET Vectors /\ IsFiniteSet(index')
      BY <3>1, WithoutType
    <3>3. QED
      BY <3>1, <3>2, EndsTypes DEF Types, storeVars, readerVars
  <2>3. QED
    BY <2>1, <2>2
<1>9. ASSUME NEW t \in Threads, OpenFile(t) PROVE Types'
  <2>1. mixed' \in SUBSET Threads /\ pc' \in [Threads -> Stages]
        /\ disk' = {} /\ torn' = TRUE
        /\ UNCHANGED <<storeVars, index, texts, readerVars, historyVars>>
    BY <1>9 DEF OpenFile, Types, Stages
  <2>2. QED
    BY <2>1, FS_EmptySet DEF Types, storeVars, readerVars, historyVars
<1>10. ASSUME NEW t \in Threads, CloseFile(t) \/ Fails(t) PROVE Types'
  <2>1. PICK done \in BOOLEAN : Ends(t, done)
    BY <1>10 DEF CloseFile, Fails
  <2>2. /\ UNCHANGED <<storeVars, index, readerVars>>
        /\ UNCHANGED <<disk, torn>> \/ (disk' = index /\ torn' = FALSE)
    BY <1>10 DEF CloseFile, Fails
  <2>3. QED
    BY <2>1, <2>2, EndsTypes DEF Types, storeVars, readerVars
<1>11. ASSUME NEW t \in Threads, NEW u \in Universes, BeginRetrieve(t, u) PROVE Types'
  <2>1. docs' \in [Threads -> SUBSET Ids] /\ pc' \in [Threads -> Stages]
    BY <1>11 DEF BeginRetrieve, InScope, Types, Stages
  <2>2. QED
    BY <1>11, <2>1 DEF BeginRetrieve, storeVars, vectorVars, fileVars, historyVars, Types
<1>12. ASSUME NEW t \in Threads, Search(t) \/ Answer(t) PROVE Types'
  <2>1. docs' \in [Threads -> SUBSET Ids] /\ pc' \in [Threads -> Stages]
    <3>1. CASE Search(t)
      <4>1. \A S \in SUBSET Vectors : DocsOf(First(K, Found(t, S))) \in SUBSET Ids
        BY DEF First, Found, DocsOf, Vectors
      <4>2. First(fetch[t], Visible) \in SUBSET Vectors
        BY DEF First, Visible, Types
      <4>3. DocsOf(First(K, Found(t, First(fetch[t], Visible)))) \in SUBSET Ids
        BY <4>1, <4>2
      <4>4. QED
        BY <3>1, <4>3, ZenonT(60) DEF Search, Types, Stages
    <3>2. CASE Answer(t)
      BY <3>2 DEF Answer, Types, Stages
    <3>3. QED
      BY <1>12, <3>1, <3>2
  <2>2. QED
    BY <1>12, <2>1 DEF Search, Answer, storeVars, vectorVars, fileVars, historyVars, Types
<1>13. ASSUME NEW n \in Dims, Restart(n) PROVE Types'
  <2>1. index' \in SUBSET Vectors /\ IsFiniteSet(index')
    BY <1>13, LoadableType DEF Restart, Types
  <2>2. 1 .. made \subseteq Ids
    BY KnowledgeBaseAssumption DEF Types, Ids
  <2>3. QED
    BY <1>0, <1>13, <2>1, <2>2 DEF Restart, Types, Stages
<1>14. QED
  BY <1>1, <1>2, <1>3, <1>4, <1>5, <1>6, <1>7, <1>8, <1>9, <1>10, <1>11, <1>12, <1>13 DEF Next

(***************************************************************************)
(* Rows, vectors, requests and windows are always well formed, whatever    *)
(* fails and restarts (context/store.py, vector_store.py).                 *)
(***************************************************************************)
THEOREM TypeCorrect == Spec => []Types
BY InitTypes, NextTypes, PTL DEF Spec

-----------------------------------------------------------------------------
(* The index.  While a writer is alone on a document, what it has still to *)
(* write agrees with the document's row.                                   *)

\* The vectors a document should have.
Right(d) == IF text[d] = 0 THEN {} ELSE {Vector(d, text[d], dim, 1)}

\* A writer is alone on what it owns, and all that is worked on lags.
OwnInv ==
    /\ \A t \in Threads : own[t] \subseteq on[t] /\ on[t] \subseteq lag
    /\ \A s, t \in Threads : s # t => own[s] \cap on[t] = {}

AgreeInv ==
    \A t \in Threads : \A d \in own[t] :
        /\ pc[t] \in {"embed", "add"} => texts[t][d] = text[d] /\ text[d] # 0
        /\ pc[t] = "add" => Of(d, index) = {}
        /\ pc[t] = "remove" => text[d] = 0
        /\ pc[t] \in {"persist", "write"} => Of(d, index) = Right(d)

\* A file that is being written is not whole, and of two writers both are disturbed.
FileInv ==
    /\ \A t \in Threads : pc[t] \in {"add", "persist", "write"} => backend = "faiss"
    /\ \A t \in Threads : pc[t] = "write" => torn
    /\ \A s, t \in Threads : s # t /\ pc[s] = "write" /\ pc[t] = "write" => s \in mixed

\* Documents not made yet have nothing, and nobody works on them.
FutureInv ==
    /\ \A t \in Threads : on[t] \subseteq 1 .. made
    /\ \A d \in Ids : d > made => text[d] = 0 /\ Of(d, index) = {} /\ Of(d, disk) = {}

\* What Postgres keeps: one vector of a document, and only of those there are.
OneEach == \A e, f \in index : text[e.doc] # 0 /\ (e.doc = f.doc => e = f)

\* The property, in these terms.
Synced ==
    /\ \A d \in Ids \ lag :
          Of(d, index) = Right(d) /\ (backend = "faiss" /\ ~torn => Of(d, disk) = Of(d, index))
    /\ backend = "pgvector" => OneEach

LEMMA SyncedIs == Synced <=> IndexFollowsDocuments
BY DEF Synced, IndexFollowsDocuments, Right, OneEach

IndexInv == OwnInv /\ AgreeInv /\ FileInv /\ FutureInv /\ Synced

LEMMA InitIndexInv == Init => IndexInv
<1>1. SUFFICES ASSUME Init PROVE IndexInv
  OBVIOUS
<1>2. /\ index = {} /\ disk = {} /\ lag = {} /\ made = 0
      /\ \A d \in Ids : text[d] = 0
      /\ \A t \in Threads : pc[t] = "idle" /\ on[t] = {} /\ own[t] = {}
  BY <1>1 DEF Init, NoTexts
<1>3. \A d : Of(d, {}) = {}
  BY DEF Of
<1>4. QED
  BY <1>2, <1>3 DEF IndexInv, OwnInv, AgreeInv, FileInv, FutureInv, Synced, OneEach, Right

\* What is removed and added, document by document.
LEMMA WithoutOf ==
    ASSUME Types, NEW S, NEW d \in Ids
    PROVE  Of(d, Without(S)) = IF d \in S THEN {} ELSE Of(d, index)
BY DEF Of, Without

LEMMA AddedOf ==
    ASSUME Types, NEW t \in Threads, NEW S \in SUBSET Vectors, NEW d \in Ids
    PROVE  /\ d \notin on[t] => Of(d, Added(t, S)) = Of(d, S)
           /\ d \in on[t] /\ Of(d, S) = {}
              => Of(d, Added(t, S)) = {Vector(d, texts[t][d], dim, 1)}
<1> DEFINE V(c) == Vector(c, texts[t][c], dim, Cardinality(Of(c, S)) + 1)
<1>1. \A c : V(c).doc = c
  BY DEF Vector
<1>2. Added(t, S) = S \cup {V(c) : c \in on[t]}
  BY DEF Added
<1>3. ASSUME Of(d, S) = {} PROVE V(d) = Vector(d, texts[t][d], dim, 1)
  <2>1. Cardinality(Of(d, S)) = 0
    BY <1>3, FS_EmptySet
  <2>2. QED
    BY <2>1
<1> HIDE DEF V
<1>4. QED
  BY <1>1, <1>2, <1>3 DEF Of

\* Beginning to write.
LEMMA WorksOwn ==
    ASSUME Types, OwnInv, NEW t \in Threads, NEW S \in SUBSET Ids, Works(t, S)
    PROVE  /\ OwnInv'
           /\ own'[t] \subseteq S /\ on'[t] = S
           /\ \A s \in Threads \ {t} : own'[s] = own[s] \ S /\ on'[s] = on[s]
           /\ lag' = lag \cup S
<1>1. /\ own'[t] = S \ UNION {on[r] : r \in Threads \ {t}} /\ on'[t] = S
      /\ \A s \in Threads \ {t} : own'[s] = own[s] \ S /\ on'[s] = on[s]
      /\ lag' = lag \cup S
  BY DEF Works, Types
<1>2. \A s \in Threads \ {t} : own'[t] \cap on[s] = {}
  BY <1>1
<1>3. QED
  BY <1>1, <1>2 DEF OwnInv

\* Ending a write.
LEMMA EndsOwn ==
    ASSUME Types, OwnInv, NEW t \in Threads, NEW done \in BOOLEAN, Ends(t, done)
    PROVE  /\ OwnInv'
           /\ own'[t] = {} /\ pc'[t] = "idle"
           /\ \A s \in Threads \ {t} :
                 own'[s] = own[s] /\ on'[s] = on[s] /\ pc'[s] = pc[s] /\ texts'[s] = texts[s]
           /\ lag' = IF done THEN lag \ own[t] ELSE lag
<1>1. /\ own'[t] = {} /\ on'[t] = {} /\ pc'[t] = "idle"
      /\ \A s \in Threads \ {t} :
            own'[s] = own[s] /\ on'[s] = on[s] /\ pc'[s] = pc[s] /\ texts'[s] = texts[s]
      /\ lag' = IF done THEN lag \ own[t] ELSE lag
  BY DEF Ends, Types
<1>2. \A s \in Threads \ {t} : on[s] \subseteq lag'
  BY <1>1 DEF OwnInv
<1>3. QED
  BY <1>1, <1>2 DEF OwnInv

\* What a thread that does nothing still has to write agrees as it did.
LEMMA OthersAgree ==
    ASSUME AgreeInv, NEW s \in Threads, own'[s] \subseteq own[s],
           pc'[s] = pc[s], texts'[s] = texts[s],
           \A d \in own'[s] : /\ text'[d] = text[d] /\ Right(d)' = Right(d)
                              /\ Of(d, index') = Of(d, index)
    PROVE  \A d \in own'[s] :
              /\ pc'[s] \in {"embed", "add"} => texts'[s][d] = text'[d] /\ text'[d] # 0
              /\ pc'[s] = "add" => Of(d, index') = {}
              /\ pc'[s] = "remove" => text'[d] = 0
              /\ pc'[s] \in {"persist", "write"} => Of(d, index') = Right(d)'
<1>1. TAKE d \in own'[s]
<1>2. /\ pc[s] \in {"embed", "add"} => texts[s][d] = text[d] /\ text[d] # 0
      /\ pc[s] = "add" => Of(d, index) = {}
      /\ pc[s] = "remove" => text[d] = 0
      /\ pc[s] \in {"persist", "write"} => Of(d, index) = Right(d)
  BY DEF AgreeInv
<1>3. QED
  BY <1>2

\* A write that begins changes nothing but the documents it works on.
LEMMA BeginKeepsIndex ==
    ASSUME Types, IndexInv, Types', NEW t \in Threads, NEW S \in SUBSET Ids, Works(t, S),
           UNCHANGED <<backend, dim, disk, torn, mixed>>, made <= made', S \subseteq 1 .. made',
           \A d \in Ids \ S : text'[d] = text[d] /\ Of(d, index') = Of(d, index),
           \A s \in Threads \ {t} : pc'[s] = pc[s] /\ texts'[s] = texts[s],
           backend = "pgvector" => OneEach',
           \/ /\ pc'[t] = "embed"
              /\ \A d \in S : texts'[t][d] = text'[d] /\ text'[d] # 0
           \/ /\ pc'[t] = "remove"
              /\ \A d \in S : text'[d] = 0
    PROVE  IndexInv'
<1>1. /\ OwnInv' /\ own'[t] \subseteq S /\ on'[t] = S
      /\ \A s \in Threads \ {t} : own'[s] = own[s] \ S /\ on'[s] = on[s]
      /\ lag' = lag \cup S
  BY WorksOwn DEF IndexInv
<1>2. \A s \in Threads : own[s] \subseteq Ids /\ own'[s] \subseteq Ids
  BY DEF Types
<1>3. AgreeInv'
  <2>1. ASSUME NEW s \in Threads, s # t
        PROVE  \A d \in own'[s] :
                  /\ pc'[s] \in {"embed", "add"} => texts'[s][d] = text'[d] /\ text'[d] # 0
                  /\ pc'[s] = "add" => Of(d, index') = {}
                  /\ pc'[s] = "remove" => text'[d] = 0
                  /\ pc'[s] \in {"persist", "write"} => Of(d, index') = Right(d)'
    <3>1. own'[s] = own[s] \ S
      BY <1>1, <2>1
    <3>2. \A d \in own'[s] : d \in Ids \ S
      BY <1>2, <3>1
    <3>3. \A d \in own'[s] : /\ text'[d] = text[d] /\ Of(d, index') = Of(d, index)
      BY <3>2
    <3>4. \A d \in own'[s] : Right(d)' = Right(d)
      BY <3>3 DEF Right
    <3>5. pc'[s] = pc[s] /\ texts'[s] = texts[s] /\ own'[s] \subseteq own[s] /\ AgreeInv
      BY <2>1, <3>1 DEF IndexInv
    <3>6. QED
      BY <3>3, <3>4, <3>5, OthersAgree
  <2>2. \A d \in own'[t] :
           /\ pc'[t] \in {"embed", "add"} => texts'[t][d] = text'[d] /\ text'[d] # 0
           /\ pc'[t] = "remove" => text'[d] = 0
           /\ pc'[t] # "add" /\ pc'[t] \notin {"persist", "write"}
    BY <1>1
  <2>3. QED
    BY <2>1, <2>2 DEF AgreeInv
<1>4. FileInv'
  BY DEF IndexInv, FileInv
<1>5. FutureInv'
  <2>0. \A s \in Threads : on'[s] \subseteq 1 .. made'
    <3>1. 1 .. made \subseteq 1 .. made'
      BY DEF Types
    <3>2. QED
      BY <1>1, <3>1 DEF IndexInv, FutureInv
  <2>1. SUFFICES ASSUME NEW d \in Ids, d > made'
                 PROVE  text'[d] = 0 /\ Of(d, index') = {} /\ Of(d, disk') = {}
    BY <2>0 DEF FutureInv
  <2>2. d \notin S /\ d > made
    BY <2>1, KnowledgeBaseAssumption DEF Ids, Types
  <2>3. QED
    BY <2>1, <2>2 DEF IndexInv, FutureInv
<1>6. Synced'
  <2>1. ASSUME NEW d \in Ids \ lag'
        PROVE  /\ Of(d, index') = Right(d)'
               /\ backend' = "faiss" /\ ~torn' => Of(d, disk') = Of(d, index')
    <3>1. d \in Ids \ S /\ d \in Ids \ lag
      BY <1>1, <2>1
    <3>2. text'[d] = text[d] /\ Of(d, index') = Of(d, index) /\ Right(d)' = Right(d)
      BY <3>1 DEF Right
    <3>3. QED
      BY <3>1, <3>2 DEF IndexInv, Synced
  <2>2. QED
    BY <2>1 DEF Synced
<1>7. QED
  BY <1>1, <1>3, <1>4, <1>5, <1>6 DEF IndexInv

\* A write that ends leaves right what it alone worked on.
LEMMA EndKeepsIndex ==
    ASSUME Types, IndexInv, NEW t \in Threads, NEW done \in BOOLEAN, Ends(t, done),
           UNCHANGED storeVars,
           \A d \in Ids \ on[t] : Of(d, index') = Of(d, index),
           \/ UNCHANGED <<disk, torn>>
           \/ disk' = index' /\ \A s \in Threads \ {t} : pc[s] # "write",
           done => \A d \in own[t] :
                      /\ Of(d, index') = Right(d)
                      /\ backend = "faiss" /\ ~torn' => Of(d, disk') = Of(d, index'),
           backend = "pgvector" => OneEach'
    PROVE  IndexInv'
<1>1. /\ OwnInv' /\ own'[t] = {} /\ pc'[t] = "idle"
      /\ \A s \in Threads \ {t} :
            own'[s] = own[s] /\ on'[s] = on[s] /\ pc'[s] = pc[s] /\ texts'[s] = texts[s]
      /\ lag' = IF done THEN lag \ own[t] ELSE lag
  BY EndsOwn DEF IndexInv
<1>2. \A s \in Threads : own[s] \subseteq Ids /\ on[s] \subseteq lag
  BY DEF Types, IndexInv, OwnInv
<1>3. UNCHANGED <<backend, dim, text, made>> /\ \A d : Right(d)' = Right(d)
  BY DEF storeVars, Right
<1>4. AgreeInv'
  <2>1. ASSUME NEW s \in Threads, s # t
        PROVE  \A d \in own'[s] :
                  /\ pc'[s] \in {"embed", "add"} => texts'[s][d] = text'[d] /\ text'[d] # 0
                  /\ pc'[s] = "add" => Of(d, index') = {}
                  /\ pc'[s] = "remove" => text'[d] = 0
                  /\ pc'[s] \in {"persist", "write"} => Of(d, index') = Right(d)'
    <3>1. own'[s] = own[s] /\ pc'[s] = pc[s] /\ texts'[s] = texts[s]
      BY <1>1, <2>1
    <3>2. \A d \in own[s] : d \in Ids \ on[t]
      BY <1>2, <2>1 DEF IndexInv, OwnInv
    <3>3. \A d \in own'[s] : Of(d, index') = Of(d, index) /\ text'[d] = text[d]
      BY <1>3, <3>1, <3>2
    <3>4. AgreeInv
      BY DEF IndexInv
    <3>5. QED
      BY <1>3, <3>1, <3>3, <3>4, OthersAgree
  <2>2. QED
    BY <1>1, <2>1 DEF AgreeInv
<1>5. FileInv'
  <2>1. mixed' = mixed \ {t}
    BY DEF Ends
  <2>2. CASE UNCHANGED <<disk, torn>>
    BY <1>1, <1>3, <2>1, <2>2 DEF IndexInv, FileInv
  <2>3. CASE \A s \in Threads \ {t} : pc[s] # "write"
    BY <1>1, <1>3, <2>1, <2>3 DEF IndexInv, FileInv
  <2>4. QED
    BY <2>2, <2>3
<1>6. FutureInv'
  <2>1. SUFFICES ASSUME NEW d \in Ids, d > made
                 PROVE  text'[d] = 0 /\ Of(d, index') = {} /\ Of(d, disk') = {}
    <3>1. \A s \in Threads : on'[s] \subseteq 1 .. made'
      BY <1>1, <1>3 DEF IndexInv, FutureInv, Ends, Types
    <3>2. QED
      BY <1>3, <3>1 DEF FutureInv
  <2>2. text[d] = 0 /\ Of(d, index) = {} /\ Of(d, disk) = {}
    BY <2>1 DEF IndexInv, FutureInv
  <2>3. d \notin on[t]
    BY <2>1 DEF Types, IndexInv, FutureInv
  <2>4. QED
    BY <1>3, <2>2, <2>3
<1>7. Synced'
  <2>1. ASSUME NEW d \in Ids \ lag'
        PROVE  /\ Of(d, index') = Right(d)
               /\ backend = "faiss" /\ ~torn' => Of(d, disk') = Of(d, index')
    <3>1. CASE d \in lag
      BY <1>1, <2>1, <3>1
    <3>2. CASE d \notin lag
      <4>1. Of(d, index') = Of(d, index)
        BY <1>2, <3>2
      <4>2. /\ Of(d, index) = Right(d)
            /\ backend = "faiss" /\ ~torn => Of(d, disk) = Of(d, index)
        BY <3>2 DEF IndexInv, Synced
      <4>3. CASE UNCHANGED <<disk, torn>>
        BY <4>1, <4>2, <4>3
      <4>4. CASE disk' = index'
        BY <4>1, <4>2, <4>4
      <4>5. QED
        BY <4>3, <4>4
    <3>3. QED
      BY <3>1, <3>2
  <2>2. QED
    BY <1>3, <2>1 DEF Synced
<1>8. QED
  BY <1>1, <1>4, <1>5, <1>6, <1>7 DEF IndexInv

\* A call of the library in the midst of a write changes what the writer works on.
LEMMA ChangeKeepsIndex ==
    ASSUME Types, IndexInv, NEW t \in Threads, NEW new, NEW next \in {"add", "persist"},
           Changes(t, new, next), backend = "faiss",
           \A d \in Ids \ on[t] : Of(d, new) = Of(d, index),
           next = "add" => \A d \in own[t] :
               texts[t][d] = text[d] /\ text[d] # 0 /\ Of(d, new) = {},
           next = "persist" => \A d \in own[t] : Of(d, new) = Right(d)
    PROVE  IndexInv'
<1>1. /\ index' = new /\ mixed' = mixed \cup {r \in Threads : pc[r] = "write"}
      /\ UNCHANGED <<backend, dim, text, made, disk, torn, texts, on, own, lag>>
      /\ \A d : Right(d)' = Right(d)
  BY DEF Changes, storeVars, historyVars, Right
<1>2. pc'[t] = next /\ \A s \in Threads \ {t} : pc'[s] = pc[s]
  BY DEF Changes, Types
<1>3. OwnInv'
  BY <1>1 DEF IndexInv, OwnInv
<1>4. AgreeInv'
  <2>1. ASSUME NEW s \in Threads, s # t
        PROVE  \A d \in own'[s] :
                  /\ pc'[s] \in {"embed", "add"} => texts'[s][d] = text'[d] /\ text'[d] # 0
                  /\ pc'[s] = "add" => Of(d, index') = {}
                  /\ pc'[s] = "remove" => text'[d] = 0
                  /\ pc'[s] \in {"persist", "write"} => Of(d, index') = Right(d)'
    <3>1. own'[s] = own[s] /\ pc'[s] = pc[s] /\ texts'[s] = texts[s]
      BY <1>1, <1>2, <2>1
    <3>2. \A d \in own[s] : d \in Ids \ on[t]
      BY <2>1 DEF IndexInv, OwnInv, Types
    <3>3. \A d \in own'[s] : Of(d, index') = Of(d, index) /\ text'[d] = text[d]
      BY <1>1, <3>1, <3>2
    <3>4. AgreeInv
      BY DEF IndexInv
    <3>5. QED
      BY <1>1, <3>1, <3>3, <3>4, OthersAgree
  <2>2. \A d \in own'[t] :
           /\ pc'[t] \in {"embed", "add"} => texts'[t][d] = text'[d] /\ text'[d] # 0
           /\ pc'[t] = "add" => Of(d, index') = {}
           /\ pc'[t] = "remove" => text'[d] = 0
           /\ pc'[t] \in {"persist", "write"} => Of(d, index') = Right(d)'
    <3>1. CASE next = "add"
      BY <1>1, <1>2, <3>1
    <3>2. CASE next = "persist"
      BY <1>1, <1>2, <3>2
    <3>3. QED
      BY <3>1, <3>2
  <2>3. QED
    BY <2>1, <2>2 DEF AgreeInv
<1>5. FileInv'
  BY <1>1, <1>2 DEF IndexInv, FileInv
<1>6. FutureInv'
  <2>1. \A d \in Ids : d > made => d \notin on[t]
    BY DEF Types, IndexInv, FutureInv
  <2>2. QED
    BY <1>1, <2>1 DEF IndexInv, FutureInv
<1>7. Synced'
  <2>1. \A d \in Ids \ lag : Of(d, index') = Of(d, index)
    BY <1>1 DEF IndexInv, OwnInv
  <2>2. QED
    BY <1>1, <2>1 DEF IndexInv, Synced
<1>8. QED
  BY <1>3, <1>4, <1>5, <1>6, <1>7 DEF IndexInv

\* A step that leaves all of it alone.
LEMMA IndexStays ==
    ASSUME IndexInv, UNCHANGED <<storeVars, vectorVars, historyVars, texts>>,
           \A t \in Threads : pc'[t] \in {pc[t], "idle", "search", "answered"}
    PROVE  IndexInv'
<1>1. /\ UNCHANGED <<backend, dim, text, made, index, disk, torn, mixed, on, own, lag, texts>>
      /\ \A d : Right(d)' = Right(d)
  BY DEF storeVars, vectorVars, fileVars, historyVars, Right
<1>2. OwnInv' /\ FutureInv' /\ Synced'
  BY <1>1 DEF IndexInv, OwnInv, FutureInv, Synced, OneEach
<1>3. AgreeInv'
  BY <1>1 DEF IndexInv, AgreeInv
<1>4. FileInv'
  BY <1>1 DEF IndexInv, FileInv
<1>5. QED
  BY <1>2, <1>3, <1>4 DEF IndexInv

LEMMA NextIndexInv == Types /\ Types' /\ IndexInv /\ [Next]_vars => IndexInv'
<1> SUFFICES ASSUME Types, Types', IndexInv, [Next]_vars PROVE IndexInv'
  OBVIOUS
<1>0. /\ MaxDocs \in Nat /\ MaxText \in Nat /\ made \in Nat /\ made' \in Nat
      /\ \A x \in Texts : x # 0
      /\ \A d \in Ids : d \in Nat /\ d # 0
      /\ \A e \in index : e.doc \in Ids
  BY KnowledgeBaseAssumption DEF Types, Texts, Ids, Vectors
<1>1. CASE UNCHANGED vars
  BY <1>1, IndexStays DEF vars
<1>2. ASSUME NEW t \in Threads, NEW u \in Universes, NEW x \in Texts, Add(t, u, x)
      PROVE  IndexInv'
  <2>1. /\ made' = made + 1 /\ made' \in Ids /\ Works(t, {made'}) /\ pc'[t] = "embed"
        /\ UNCHANGED <<backend, dim, disk, torn, mixed, index>>
        /\ text' = [text EXCEPT ![made'] = x]
        /\ texts' = [texts EXCEPT ![t] = [NoTexts EXCEPT ![made'] = x]]
        /\ \A s \in Threads \ {t} : pc'[s] = pc[s] /\ texts'[s] = texts[s]
    BY <1>2 DEF Add, Embeds, fileVars, Types
  <2>2. \A d \in Ids : text'[d] = IF d = made' THEN x ELSE text[d]
    BY <2>1 DEF Types
  <2>3. texts'[t][made'] = x
    BY <2>1 DEF Types, NoTexts
  <2>4. made <= made' /\ {made'} \subseteq 1 .. made' /\ x # 0
    BY <1>0, <2>1
  <2>5. backend = "pgvector" => OneEach'
    BY <1>0, <2>1, <2>2, <2>4 DEF IndexInv, Synced, OneEach
  <2>6. QED
    BY <2>1, <2>2, <2>3, <2>4, <2>5, BeginKeepsIndex
<1>3. ASSUME NEW t \in Threads, NEW u \in Universes, NEW d \in Ids, NEW x \in Texts,
             Update(t, u, d, x)
      PROVE  IndexInv'
  <2>1. /\ UNCHANGED <<made, backend, dim, disk, torn, mixed, index>>
        /\ text[d] # 0 /\ Works(t, {d}) /\ pc'[t] = "embed"
        /\ text' = [text EXCEPT ![d] = x]
        /\ texts' = [texts EXCEPT ![t] = [NoTexts EXCEPT ![d] = x]]
        /\ \A s \in Threads \ {t} : pc'[s] = pc[s] /\ texts'[s] = texts[s]
    BY <1>3 DEF Update, InScope, Embeds, fileVars, Types
  <2>2. \A e \in Ids : text'[e] = IF e = d THEN x ELSE text[e]
    BY <2>1 DEF Types
  <2>3. texts'[t][d] = x
    BY <2>1 DEF Types, NoTexts
  <2>4. made <= made' /\ {d} \subseteq 1 .. made' /\ x # 0
    <3>1. d <= made
      BY <1>0, <2>1 DEF IndexInv, FutureInv
    <3>2. QED
      BY <1>0, <2>1, <3>1
  <2>5. backend = "pgvector" => OneEach'
    BY <1>0, <2>1, <2>2, <2>4 DEF IndexInv, Synced, OneEach
  <2>6. QED
    BY <2>1, <2>2, <2>3, <2>4, <2>5, BeginKeepsIndex
<1>4. ASSUME NEW t \in Threads, NEW u \in Universes, NEW d \in Ids, Delete(t, u, d)
      PROVE  IndexInv'
  <2>1. /\ UNCHANGED <<made, backend, dim, disk, torn, mixed, texts>>
        /\ text[d] # 0 /\ Works(t, {d}) /\ pc'[t] = "remove"
        /\ text' = [text EXCEPT ![d] = 0]
        /\ index' = IF backend = "pgvector" THEN Without({d}) ELSE index
        /\ \A s \in Threads \ {t} : pc'[s] = pc[s]
    BY <1>4 DEF Delete, InScope, fileVars, Types
  <2>2. \A e \in Ids : text'[e] = IF e = d THEN 0 ELSE text[e]
    BY <1>0, <2>1 DEF Types
  <2>3. \A e \in Ids \ {d} : Of(e, index') = Of(e, index)
    BY <2>1, WithoutOf
  <2>4. made <= made' /\ {d} \subseteq 1 .. made'
    <3>1. d <= made
      BY <1>0, <2>1 DEF IndexInv, FutureInv
    <3>2. QED
      BY <1>0, <2>1, <3>1
  <2>5. backend = "pgvector" => OneEach'
    <3>1. SUFFICES ASSUME backend = "pgvector" PROVE OneEach'
      OBVIOUS
    <3>2. index' = Without({d}) /\ OneEach
      BY <2>1, <3>1 DEF IndexInv, Synced
    <3>3. \A e \in index' : e \in index /\ text'[e.doc] = text[e.doc]
      BY <1>0, <2>2, <3>2 DEF Without
    <3>4. QED
      BY <3>2, <3>3 DEF OneEach
  <2>6. QED
    BY <2>1, <2>2, <2>3, <2>4, <2>5, BeginKeepsIndex
<1>5. ASSUME NEW t \in Threads, reindex_all(t) PROVE IndexInv'
  <2>1. PICK S \in SUBSET Ids :
            /\ Works(t, S) /\ \A d \in S : text[d] # 0
            /\ Embeds(t, [d \in Ids |-> IF d \in S THEN text[d] ELSE 0])
    BY <1>5 DEF reindex_all, InScope
  <2>2. /\ UNCHANGED <<made, backend, dim, disk, torn, mixed, index, text>> /\ pc'[t] = "embed"
        /\ texts'[t] = [d \in Ids |-> IF d \in S THEN text[d] ELSE 0]
        /\ \A s \in Threads \ {t} : pc'[s] = pc[s] /\ texts'[s] = texts[s]
    BY <1>5, <2>1 DEF reindex_all, Embeds, fileVars, Types
  <2>3. made <= made' /\ S \subseteq 1 .. made'
    <3>1. \A d \in S : d \in Ids /\ d <= made
      BY <1>0, <2>1 DEF IndexInv, FutureInv
    <3>2. QED
      BY <1>0, <2>2, <3>1
  <2>4. backend = "pgvector" => OneEach'
    BY <2>2 DEF IndexInv, Synced, OneEach
  <2>5. QED
    BY <2>1, <2>2, <2>3, <2>4, BeginKeepsIndex
<1>6. ASSUME NEW t \in Threads, StoreVectors(t) PROVE IndexInv'
  <2> DEFINE W == Without(on[t])
  <2>1. /\ pc[t] = "embed" /\ backend = "pgvector" /\ \A d \in on[t] : text[d] # 0
        /\ index' = Added(t, W) /\ Ends(t, TRUE)
        /\ UNCHANGED <<storeVars, disk, torn>>
    BY <1>6 DEF StoreVectors
  <2>2. W \in SUBSET Vectors /\ on[t] \subseteq Ids
    BY WithoutType DEF Types
  <2>3. \A d \in Ids : Of(d, W) = IF d \in on[t] THEN {} ELSE Of(d, index)
    BY WithoutOf
  <2>4. \A d \in Ids : Of(d, index') = IF d \in on[t] THEN {Vector(d, texts[t][d], dim, 1)}
                                       ELSE Of(d, index)
    <3> HIDE DEF W
    <3>1. QED
      BY <2>1, <2>2, <2>3, AddedOf
  <2>5. \A d \in own[t] : Of(d, index') = Right(d)
    <3>1. \A d \in own[t] : d \in on[t] /\ texts[t][d] = text[d] /\ text[d] # 0
      BY <2>1 DEF IndexInv, OwnInv, AgreeInv
    <3>2. QED
      BY <2>2, <2>4, <3>1 DEF Right
  <2>6. OneEach'
    <3>1. text' = text /\ \A e \in index' : e.doc \in Ids /\ e \in Of(e.doc, index')
      BY <2>1 DEF storeVars, Types, Vectors, Of
    <3>2. ASSUME NEW e \in index', NEW f \in index'
          PROVE  text'[e.doc] # 0 /\ (e.doc = f.doc => e = f)
      <4>1. CASE e.doc \in on[t]
        BY <2>1, <2>4, <3>1, <4>1
      <4>2. CASE e.doc \notin on[t]
        <5>1. e \in index /\ (e.doc = f.doc => f \in index)
          BY <2>4, <3>1, <4>2 DEF Of
        <5>2. QED
          BY <2>1, <3>1, <5>1 DEF IndexInv, Synced, OneEach
      <4>3. QED
        BY <4>1, <4>2
    <3>3. QED
      BY <3>2 DEF OneEach
  <2>7. QED
    BY <2>1, <2>4, <2>5, <2>6, EndKeepsIndex
<1>7. ASSUME NEW t \in Threads, RemoveIds(t) PROVE IndexInv'
  <2>1. pc[t] = "embed" /\ backend = "faiss" /\ Changes(t, Without(on[t]), "add")
    BY <1>7 DEF RemoveIds
  <2>2. own[t] \subseteq on[t] /\ on[t] \subseteq Ids
    BY DEF IndexInv, OwnInv, Types
  <2>3. \A d \in Ids \ on[t] : Of(d, Without(on[t])) = Of(d, index)
    BY WithoutOf
  <2>4. \A d \in own[t] : texts[t][d] = text[d] /\ text[d] # 0 /\ Of(d, Without(on[t])) = {}
    BY <2>1, <2>2, WithoutOf DEF IndexInv, AgreeInv
  <2>5. QED
    BY <2>1, <2>3, <2>4, ChangeKeepsIndex
<1>8. ASSUME NEW t \in Threads, AddIds(t) PROVE IndexInv'
  <2>1. pc[t] = "add" /\ Changes(t, Added(t, index), "persist")
    BY <1>8 DEF AddIds
  <2>2. backend = "faiss"
    BY <2>1 DEF IndexInv, FileInv
  <2>3. own[t] \subseteq on[t] /\ on[t] \subseteq Ids /\ index \in SUBSET Vectors
    BY DEF IndexInv, OwnInv, Types
  <2>4. \A d \in Ids \ on[t] : Of(d, Added(t, index)) = Of(d, index)
    BY <2>3, AddedOf
  <2>5. \A d \in own[t] : Of(d, Added(t, index)) = Right(d)
    <3>1. \A d \in own[t] : texts[t][d] = text[d] /\ text[d] # 0 /\ Of(d, index) = {}
      BY <2>1 DEF IndexInv, AgreeInv
    <3>2. QED
      BY <2>3, <3>1, AddedOf DEF Right
  <2>6. QED
    BY <2>1, <2>2, <2>4, <2>5, ChangeKeepsIndex
<1>9. ASSUME NEW t \in Threads, RemoveVectors(t) PROVE IndexInv'
  <2>1. pc[t] = "remove" /\ own[t] \subseteq on[t] /\ on[t] \subseteq Ids
    BY <1>9 DEF RemoveVectors, IndexInv, OwnInv, Types
  <2>2. \A d \in Ids \ on[t] : Of(d, Without(on[t])) = Of(d, index)
    BY WithoutOf
  <2>3. \A d \in own[t] : Of(d, Without(on[t])) = Right(d)
    <3>1. \A d \in own[t] : text[d] = 0
      BY <2>1 DEF IndexInv, AgreeInv
    <3>2. QED
      BY <2>1, <3>1, WithoutOf DEF Right
  <2>4. CASE backend = "faiss"
    <3>1. Changes(t, Without(on[t]), "persist")
      BY <1>9, <2>4 DEF RemoveVectors
    <3>2. QED
      BY <2>2, <2>3, <2>4, <3>1, ChangeKeepsIndex
  <2>5. CASE backend # "faiss"
    <3>1. index' = Without(on[t]) /\ Ends(t, TRUE) /\ UNCHANGED <<storeVars, disk, torn>>
      BY <1>9, <2>5 DEF RemoveVectors
    <3>2. backend = "pgvector" => OneEach'
      BY <3>1 DEF IndexInv, Synced, OneEach, Without, storeVars
    <3>3. QED
      BY <2>2, <2>3, <2>5, <3>1, <3>2, EndKeepsIndex
  <2>6. QED
    BY <2>4, <2>5
<1>10. ASSUME NEW t \in Threads, OpenFile(t) PROVE IndexInv'
  <2>1. /\ pc[t] = "persist" /\ disk' = {} /\ torn' = TRUE
        /\ UNCHANGED <<backend, dim, text, made, index, texts, on, own, lag>>
        /\ pc'[t] = "write" /\ \A s \in Threads \ {t} : pc'[s] = pc[s]
        /\ \A d : Right(d)' = Right(d)
    BY <1>10 DEF OpenFile, storeVars, historyVars, Right, Types
  <2>2. /\ \A r \in Threads : pc[r] = "write" => r \in mixed' /\ t \in mixed'
        /\ mixed \subseteq mixed'
    BY <1>10 DEF OpenFile
  <2>3. OwnInv' /\ FutureInv' /\ Synced'
    BY <2>1 DEF IndexInv, OwnInv, FutureInv, Synced, OneEach, Of
  <2>4. AgreeInv'
    BY <2>1 DEF IndexInv, AgreeInv
  <2>5. FileInv'
    BY <2>1, <2>2 DEF IndexInv, FileInv
  <2>6. QED
    BY <2>3, <2>4, <2>5 DEF IndexInv
<1>11. ASSUME NEW t \in Threads, CloseFile(t) PROVE IndexInv'
  <2>1. /\ pc[t] = "write" /\ Ends(t, TRUE) /\ UNCHANGED <<storeVars, index>>
        /\ IF t \in mixed THEN UNCHANGED <<disk, torn>> ELSE disk' = index /\ torn' = FALSE
    BY <1>11 DEF CloseFile
  <2>2. torn /\ (t \notin mixed => \A s \in Threads \ {t} : pc[s] # "write")
    BY <2>1 DEF IndexInv, FileInv
  <2>3. \A d \in own[t] : /\ Of(d, index') = Right(d)
                          /\ backend = "faiss" /\ ~torn' => Of(d, disk') = Of(d, index')
    BY <2>1, <2>2 DEF IndexInv, AgreeInv
  <2>4. backend = "pgvector" => OneEach'
    BY <2>1 DEF IndexInv, Synced, OneEach, storeVars
  <2>5. \/ UNCHANGED <<disk, torn>>
        \/ disk' = index' /\ \A s \in Threads \ {t} : pc[s] # "write"
    BY <2>1, <2>2
  <2>6. QED
    BY <2>1, <2>3, <2>4, <2>5, EndKeepsIndex
<1>12. ASSUME NEW t \in Threads, Fails(t) PROVE IndexInv'
  <2>1. Ends(t, FALSE) /\ UNCHANGED <<storeVars, index, disk, torn>>
    BY <1>12 DEF Fails
  <2>2. backend = "pgvector" => OneEach'
    BY <2>1 DEF IndexInv, Synced, OneEach, storeVars
  <2>3. QED
    BY <2>1, <2>2, EndKeepsIndex
<1>13. ASSUME NEW t \in Threads, NEW u \in Universes, BeginRetrieve(t, u) PROVE IndexInv'
  <2>1. \A s \in Threads : pc'[s] \in {pc[s], "search", "answered"}
    BY <1>13 DEF BeginRetrieve, Types
  <2>2. QED
    BY <1>13, <2>1, IndexStays DEF BeginRetrieve
<1>14. ASSUME NEW t \in Threads, Search(t) \/ Answer(t) PROVE IndexInv'
  <2>1. \A s \in Threads : pc'[s] \in {pc[s], "idle", "search", "answered"}
    BY <1>14 DEF Search, Answer, Types
  <2>2. QED
    BY <1>14, <2>1, IndexStays DEF Search, Answer
<1>15. ASSUME NEW n \in Dims, Restart(n) PROVE IndexInv'
  <2>1. /\ dim' = n /\ UNCHANGED <<backend, universe, text, made, disk, torn>>
        /\ IF backend = "pgvector" THEN UNCHANGED index ELSE index' \in Loadable(n)
        /\ \A t \in Threads : pc'[t] = "idle" /\ on'[t] = {} /\ own'[t] = {}
        /\ lag' = IF n = dim /\ ~torn THEN lag ELSE 1 .. made
    BY <1>15 DEF Restart
  <2>2. OwnInv' /\ AgreeInv' /\ FileInv'
    BY <2>1 DEF OwnInv, AgreeInv, FileInv
  <2>3. ASSUME NEW d \in Ids, d > made PROVE Of(d, index') = {}
    <3>1. Of(d, index) = {} /\ Of(d, disk) = {}
      BY <2>3 DEF IndexInv, FutureInv
    <3>2. CASE UNCHANGED index
      BY <3>1, <3>2
    <3>3. CASE index' \in Loadable(n) /\ ~torn
      BY <3>1, <3>3 DEF Loadable, Of
    <3>4. CASE index' \in Loadable(n) /\ torn
      <4>1. \A p \in (1 .. made) \X Texts : Vector(p[1], p[2], n, 1).doc # d
        BY <1>0, <2>3 DEF Vector
      <4>2. QED
        BY <3>4, <4>1 DEF Loadable, Of
    <3>5. QED
      BY <2>1, <3>2, <3>3, <3>4
  <2>4. FutureInv'
    BY <2>1, <2>3 DEF IndexInv, FutureInv
  <2>5. ASSUME NEW d \in Ids \ lag'
        PROVE  /\ Of(d, index') = Right(d)'
               /\ backend = "faiss" /\ ~torn => Of(d, disk) = Of(d, index')
    <3>1. CASE n = dim /\ ~torn
      <4>1. /\ Of(d, index) = Right(d) /\ Right(d)' = Right(d)
            /\ backend = "faiss" => Of(d, disk) = Of(d, index)
        BY <2>1, <2>5, <3>1 DEF IndexInv, Synced, Right
      <4>2. CASE backend = "pgvector"
        BY <2>1, <4>1, <4>2
      <4>3. CASE backend # "pgvector"
        <5>1. backend = "faiss" /\ index' = {e \in disk : e.dim = dim}
          BY <2>1, <3>1, <4>3 DEF Types, Loadable
        <5>2. Of(d, disk) = Right(d)
          BY <4>1, <5>1
        <5>3. \A e \in Right(d) : e.dim = dim
          BY DEF Right, Vector
        <5>4. Of(d, index') = {e \in Of(d, disk) : e.dim = dim}
          BY <5>1 DEF Of
        <5>5. QED
          BY <4>1, <5>2, <5>3, <5>4
      <4>4. QED
        BY <4>2, <4>3
    <3>2. CASE ~(n = dim /\ ~torn)
      <4>1. d > made
        BY <1>0, <2>1, <2>5, <3>2
      <4>2. text[d] = 0 /\ Of(d, index') = {} /\ Of(d, disk) = {}
        BY <2>3, <4>1 DEF IndexInv, FutureInv
      <4>3. QED
        BY <2>1, <4>2 DEF Right
    <3>3. QED
      BY <3>1, <3>2
  <2>6. backend = "pgvector" => OneEach'
    BY <2>1 DEF IndexInv, Synced, OneEach
  <2>7. Synced'
    BY <2>1, <2>5, <2>6 DEF Synced
  <2>8. QED
    BY <2>2, <2>4, <2>7 DEF IndexInv
<1>16. QED
  BY <1>1, <1>2, <1>3, <1>4, <1>5, <1>6, <1>7, <1>8, <1>9, <1>10, <1>11, <1>12, <1>13,
     <1>14, <1>15 DEF Next

\* However writers fail, overlap and restart, and whoever else writes the file, a
\* document whose last writer was alone on it and came to its end has one vector,
\* that of its text, in the index and in a file that is whole.
THEOREM IndexIsInSync == Spec => []IndexFollowsDocuments
<1>1. IndexInv => IndexFollowsDocuments
  BY SyncedIs DEF IndexInv
<1>2. QED
  BY <1>1, InitTypes, NextTypes, InitIndexInv, NextIndexInv, PTL DEF Spec

-----------------------------------------------------------------------------
(* Retrieval.  The windows of a search are nested beginnings of one        *)
(* order, so the first K of what a window holds are the first K of all     *)
(* there is as soon as the window holds K, everything, or all one wants.   *)

Windows == fetch \in [Threads -> Nat]

LEMMA NextWindows == Types /\ Windows /\ [Next]_vars => Windows'
<1> SUFFICES ASSUME Types, Windows, [Next]_vars PROVE Windows'
  OBVIOUS
<1>1. CASE UNCHANGED fetch
  BY <1>1 DEF Windows
<1>2. ASSUME NEW t \in Threads, NEW u \in Universes, BeginRetrieve(t, u) PROVE Windows'
  BY <1>2, KnowledgeBaseAssumption DEF BeginRetrieve, Windows
<1>3. ASSUME NEW t \in Threads, Search(t) \/ Answer(t) PROVE Windows'
  <2>1. \A n \in Nat : n * 2 \in Nat
    OBVIOUS
  <2>2. UNCHANGED fetch \/ fetch' = [fetch EXCEPT ![t] = @ * 2] \/ fetch' = [fetch EXCEPT ![t] = 0]
    BY <1>3 DEF Search, Answer
  <2>3. QED
    BY <2>1, <2>2 DEF Windows
<1>4. ASSUME NEW n \in Dims, Restart(n) PROVE Windows'
  BY <1>4 DEF Restart, Windows
<1>5. QED
  BY <1>1, <1>2, <1>3, <1>4, ZenonT(60)
     DEF Next, vars, readerVars, Add, Update, Delete, reindex_all, Embeds, Changes,
         StoreVectors, RemoveIds, AddIds, RemoveVectors, OpenFile, CloseFile, Fails

\* The vectors of S that come before d.
Ahead(d, S) == {e \in S : Before(e, d)}

\* Similarity, and then age, is a strict order.
LEMMA BeforeOrders ==
    ASSUME NEW c \in Visible, NEW d \in Visible, NEW e \in Visible, Types
    PROVE  /\ ~Before(d, d)
           /\ Before(c, d) /\ Before(d, e) => Before(c, e)
           /\ c = d \/ Before(c, d) \/ Before(d, c)
<1>1. /\ c \in Vectors /\ d \in Vectors /\ e \in Vectors
      /\ c.dim = dim /\ d.dim = dim /\ e.dim = dim
  BY DEF Types, Visible
<1>2. \A v \in Vectors : v.text \in Int /\ v.doc \in Int /\ v.copy \in Int
  BY KnowledgeBaseAssumption DEF Vectors, Ids
<1>3. c.text = d.text /\ c.doc = d.doc /\ c.copy = d.copy => c = d
  BY <1>1 DEF Vectors
<1>4. QED
  BY <1>1, <1>2, <1>3 DEF Before

LEMMA VisibleIsFinite ==
    ASSUME Types, NEW S \in SUBSET Visible
    PROVE  IsFiniteSet(S) /\ Cardinality(S) \in Nat
<1>1. IsFiniteSet(index) /\ S \in SUBSET index
  BY DEF Types, Visible
<1>2. IsFiniteSet(S)
  BY <1>1, FS_Subset
<1>3. QED
  BY <1>2, FS_CardinalityType

LEMMA AheadIsFinite ==
    ASSUME Types, NEW S \in SUBSET Visible, NEW d
    PROVE  /\ IsFiniteSet(S) /\ Cardinality(S) \in Nat
           /\ IsFiniteSet(Ahead(d, S)) /\ Cardinality(Ahead(d, S)) \in Nat
<1>1. Ahead(d, S) \in SUBSET Visible
  BY DEF Ahead
<1>2. QED
  BY <1>1, VisibleIsFinite

\* What comes before a vector of a window is in the window.
LEMMA WindowIsABeginning ==
    ASSUME Types, NEW n \in Nat, NEW S \in SUBSET Visible, NEW d \in First(n, S),
           NEW e \in S, Before(e, d)
    PROVE  e \in First(n, S)
<1>1. d \in S /\ d \in Visible /\ e \in Visible /\ Cardinality(Ahead(d, S)) < n
  BY DEF First, Ahead
<1>2. Ahead(e, S) \subseteq Ahead(d, S)
  BY <1>1, BeforeOrders DEF Ahead
<1>3. Cardinality(Ahead(e, S)) <= Cardinality(Ahead(d, S))
  BY <1>2, AheadIsFinite, FS_Subset
<1>4. Cardinality(Ahead(e, S)) < n
  BY <1>1, <1>3, AheadIsFinite
<1>5. QED
  BY <1>4 DEF First, Ahead

\* A window that is not full holds everything: the first vector outside it
\* would have a whole window before it.
LEMMA WindowNotFull ==
    ASSUME Types, NEW n \in Nat, NEW S \in SUBSET Visible, Cardinality(First(n, S)) < n
    PROVE  First(n, S) = S
<1>1. First(n, S) \subseteq S
  BY DEF First
<1>2. SUFFICES ASSUME S \ First(n, S) # {} PROVE FALSE
  BY <1>1
<1> DEFINE Sizes == {Cardinality(Ahead(d, S)) : d \in S \ First(n, S)}
<1>3. Sizes # {} /\ Sizes \subseteq Nat
  BY <1>2, AheadIsFinite
<1>4. PICK m \in Sizes : \A v \in Sizes : <<v, m>> \notin OpToRel(<, Nat)
  BY <1>3, WFMin, NatLessThanWellFounded, Zenon
<1>5. \A v \in Sizes : ~(v < m)
  BY <1>3, <1>4, Zenon DEF OpToRel
<1>6. PICK d \in S \ First(n, S) : m = Cardinality(Ahead(d, S))
  BY <1>4
<1>7. Ahead(d, S) \subseteq First(n, S)
  <2>1. SUFFICES ASSUME NEW e \in S, Before(e, d), e \notin First(n, S) PROVE FALSE
    BY DEF Ahead
  <2>2. Ahead(e, S) \subseteq Ahead(d, S)
    BY <2>1, BeforeOrders DEF Ahead
  <2>3. e \in Ahead(d, S) /\ e \notin Ahead(e, S)
    BY <2>1, BeforeOrders DEF Ahead
  <2>4. Cardinality(Ahead(e, S)) < Cardinality(Ahead(d, S))
    <3>1. /\ Cardinality(Ahead(e, S)) <= Cardinality(Ahead(d, S))
          /\ Cardinality(Ahead(e, S)) # Cardinality(Ahead(d, S))
      BY <2>2, <2>3, AheadIsFinite, FS_Subset
    <3>2. QED
      BY <3>1, AheadIsFinite
  <2>5. Cardinality(Ahead(e, S)) \in Sizes
    BY <2>1
  <2>6. QED
    BY <1>5, <1>6, <2>4, <2>5
<1>8. Cardinality(Ahead(d, S)) <= Cardinality(First(n, S))
  <2>1. IsFiniteSet(First(n, S))
    BY <1>1, AheadIsFinite, FS_Subset
  <2>2. QED
    BY <1>7, <2>1, FS_Subset
<1>9. Cardinality(Ahead(d, S)) < n
  <2>1. Cardinality(First(n, S)) \in Nat
    BY <1>1, AheadIsFinite
  <2>2. QED
    BY <1>8, <2>1, AheadIsFinite
<1>10. QED
  BY <1>9 DEF First, Ahead

\* A window that holds K vectors of D holds the first K of D.
LEMMA WindowHoldsFirst ==
    ASSUME Types, NEW n \in Nat, NEW S \in SUBSET Visible, NEW D \in SUBSET Visible,
           \/ Cardinality(First(n, S) \cap D) >= K
           \/ Cardinality(First(n, S)) < n
           \/ First(n, S) \cap D = S \cap D
    PROVE  First(K, First(n, S) \cap D) = First(K, S \cap D)
<1> DEFINE F == First(n, S) \cap D
           G == S \cap D
<1>1. F \subseteq G /\ G \subseteq Visible /\ F \subseteq Visible
  BY DEF First
<1>2. CASE F = G
  BY <1>2
<1>3. CASE F # G
  <2>1. Cardinality(F) >= K
    BY <1>1, <1>3, WindowNotFull
  <2>2. ASSUME NEW d \in F
        PROVE  Ahead(d, F) = Ahead(d, G)
    <3>1. ASSUME NEW e \in G, Before(e, d) PROVE e \in F
      BY <2>2, <3>1, WindowIsABeginning
    <3>2. QED
      BY <1>1, <3>1 DEF Ahead
  <2>3. ASSUME NEW d \in G \ F
        PROVE  ~(Cardinality(Ahead(d, G)) < K)
    <3>1. d \in S /\ d \notin First(n, S)
      BY <2>3
    <3>2. ASSUME NEW e \in F PROVE Before(e, d)
      BY <1>1, <3>1, <3>2, BeforeOrders, WindowIsABeginning
    <3>3. F \subseteq Ahead(d, G)
      BY <1>1, <3>2 DEF Ahead
    <3>4. Cardinality(F) <= Cardinality(Ahead(d, G))
      BY <1>1, <3>3, AheadIsFinite, FS_Subset
    <3>5. Cardinality(F) \in Nat /\ Cardinality(Ahead(d, G)) \in Nat
      BY <1>1, AheadIsFinite
    <3>6. QED
      BY <2>1, <3>4, <3>5, KnowledgeBaseAssumption
  <2>4. First(K, F) = {d \in F : Cardinality(Ahead(d, F)) < K}
    BY DEF First, Ahead
  <2>5. First(K, G) = {d \in G : Cardinality(Ahead(d, G)) < K}
    BY DEF First, Ahead
  <2>6. QED
    BY <1>1, <2>2, <2>3, <2>4, <2>5
<1>4. QED
  BY <1>2, <1>3

\* Where no document has two vectors, one that was found for each of L is all of them.
LEMMA AllAreFound ==
    ASSUME Types, NEW D \in SUBSET Visible, NEW F \in SUBSET D, NEW L \in SUBSET Ids,
           \A e \in D : e.doc \in L, \A e, f \in D : e.doc = f.doc => e = f,
           Cardinality(F) = Cardinality(L)
    PROVE  F = D
<1> DEFINE g == [e \in F |-> e.doc]
<1>1. g \in Injection(F, L)
  BY DEF Injection, IsInjective
<1>2. \A e \in F : g[e] = e.doc
  OBVIOUS
<1> HIDE DEF g
<1>3. IsFiniteSet(L)
  BY IdsAreFinite
<1>4. g \in Surjection(F, L)
  BY <1>1, <1>3, FS_Injection
<1>5. ASSUME NEW e \in D PROVE e \in F
  <2>1. PICK f \in F : g[f] = e.doc
    BY <1>4 DEF Surjection
  <2>2. QED
    BY <1>2, <2>1
<1>6. QED
  BY <1>5

\* Whatever crowds the window, and whatever writers do between its searches, a
\* retrieval answers with the first K of its list among the documents it can see,
\* as long as none of these has two vectors.
THEOREM RetrievalFindsTheBest == Spec => RetrievalIsExact
<1> DEFINE Exact == \A t \in Threads :
                        /\ pc[t] = "search" /\ pc'[t] = "answered"
                        /\ \A e, f \in Found(t, Visible) : e.doc = f.doc => e = f
                        => docs'[t] = DocsOf(First(K, Found(t, Visible)))
<1>1. Init => Windows
  BY DEF Init, Windows
<1>2. ASSUME Types, Windows, [Next]_vars PROVE [Exact]_vars
  <2>1. SUFFICES ASSUME Next, NEW t \in Threads, pc[t] = "search", pc'[t] = "answered",
                        \A e, f \in Found(t, Visible) : e.doc = f.doc => e = f
                 PROVE  docs'[t] = DocsOf(First(K, Found(t, Visible)))
    BY <1>2
  <2>2. Search(t)
    <3>1. ASSUME NEW s \in Threads, NEW u \in Universes, BeginRetrieve(s, u) PROVE FALSE
      BY <1>2, <2>1, <3>1 DEF BeginRetrieve, Types
    <3>2. ASSUME NEW s \in Threads, Search(s), s # t PROVE FALSE
      BY <1>2, <2>1, <3>2 DEF Search, Types
    <3>3. ASSUME NEW s \in Threads, NEW u \in Universes, NEW x \in Texts, Add(s, u, x) PROVE FALSE
      BY <1>2, <2>1, <3>3 DEF Add, Embeds, Types
    <3>4. ASSUME NEW s \in Threads, NEW u \in Universes, NEW d \in Ids, Delete(s, u, d) PROVE FALSE
      BY <1>2, <2>1, <3>4 DEF Delete, Types
    <3>5. ASSUME NEW s \in Threads, NEW u \in Universes, NEW d \in Ids, NEW x \in Texts,
                 Update(s, u, d, x)
          PROVE  FALSE
      BY <1>2, <2>1, <3>5 DEF Update, Embeds, Types
    <3>6. ASSUME NEW s \in Threads,
                 reindex_all(s) \/ StoreVectors(s) \/ RemoveIds(s) \/ AddIds(s)
                     \/ RemoveVectors(s) \/ OpenFile(s) \/ CloseFile(s) \/ Fails(s) \/ Answer(s)
          PROVE  FALSE
      BY <1>2, <2>1, <3>6
         DEF reindex_all, Embeds, StoreVectors, RemoveIds, AddIds, Changes, RemoveVectors,
             OpenFile, CloseFile, Fails, Answer, Ends, Types
    <3>7. ASSUME NEW n \in Dims, Restart(n) PROVE FALSE
      BY <2>1, <3>7 DEF Restart
    <3>8. QED
      BY <2>1, <3>1, <3>2, <3>3, <3>4, <3>5, <3>6, <3>7 DEF Next
  <2>3. PICK hits : hits = First(fetch[t], Visible)
    OBVIOUS
  <2> DEFINE D == Found(t, Visible)
  <2>4. Enough(t, hits) /\ docs'[t] = DocsOf(First(K, Found(t, hits)))
    BY <1>2, <2>1, <2>2, <2>3 DEF Search, Types
  <2>5. fetch[t] \in Nat /\ docs[t] \in SUBSET Ids /\ D \in SUBSET Visible
    BY <1>2 DEF Windows, Types, Found
  <2>6. Found(t, hits) = hits \cap D /\ Visible \cap D = D /\ hits \cap D \subseteq D
    BY <2>3 DEF Found, First
  <2>7. Cardinality(hits \cap D) = Cardinality(docs[t]) => hits \cap D = D
    <3>1. (\A e \in D : e.doc \in docs[t]) /\ \A e, f \in D : e.doc = f.doc => e = f
      BY <2>1 DEF Found
    <3> HIDE DEF D
    <3>2. QED
      BY <1>2, <2>5, <2>6, <3>1, AllAreFound
  <2>8. \/ Cardinality(hits \cap D) >= K
        \/ Cardinality(hits) < fetch[t]
        \/ hits \cap D = Visible \cap D
    BY <2>4, <2>6, <2>7 DEF Enough
  <2>9. First(K, hits \cap D) = First(K, Visible \cap D)
    <3> HIDE DEF D
    <3>1. /\ Visible \in SUBSET Visible
          /\ \/ Cardinality(First(fetch[t], Visible) \cap D) >= K
             \/ Cardinality(First(fetch[t], Visible)) < fetch[t]
             \/ First(fetch[t], Visible) \cap D = Visible \cap D
      BY <2>3, <2>8
    <3>2. First(K, First(fetch[t], Visible) \cap D) = First(K, Visible \cap D)
      BY <1>2, <2>5, <3>1, WindowHoldsFirst
    <3>3. QED
      BY <2>3, <3>2
  <2>10. QED
    BY <2>4, <2>6, <2>9
<1>3. QED
  BY <1>1, <1>2, InitTypes, NextTypes, NextWindows, PTL DEF Spec, RetrievalIsExact

=============================================================================
