--------------------------- MODULE KnowledgeBase ---------------------------
(***************************************************************************)
(* The knowledge base: context documents (app/context/store.py), the       *)
(* vectors derived from them (app/context/vector_store.py, FAISS in memory *)
(* with a copy on disk, or pg_vector_store.py, a Postgres table), and the  *)
(* retrieval that widens its search window until it has found enough       *)
(* (app/retrieval/retrieve.py).  A document's row is committed before its  *)
(* vector is written.  A text is a number: its similarity to the query.    *)
(* Nothing locks the FAISS index or its file: an upsert is two calls, and  *)
(* writing the file takes time.  Each call of the library is one step.     *)
(***************************************************************************)
EXTENDS Integers, FiniteSets

CONSTANTS
    Threads,
    Universes,
    Reindexed,      \* universes in the scope of the migration tool
    MaxDocs,        \* bound: documents are numbered 1 .. MaxDocs
    MaxText,        \* bound: texts are numbered 1 .. MaxText
    Fitting,        \* texts of documents tagged and dated to fit the query
    Dims,           \* dimensions of the embedding models
    K, Window,      \* chunks wanted, and the first search window (k * 4)
    Backends

ASSUME KnowledgeBaseAssumption ==
    /\ Reindexed \subseteq Universes
    /\ MaxDocs \in Nat /\ MaxText \in Nat /\ Fitting \subseteq 1 .. MaxText
    /\ K \in Nat \ {0} /\ Window \in Nat \ {0}
    /\ Backends \subseteq {"faiss", "pgvector"}

Ids == 1 .. MaxDocs
Texts == 1 .. MaxText

\* A vector stored for document d; a second one of the document is its copy 2.
Vector(d, x, n, c) == [doc |-> d, text |-> x, dim |-> n, copy |-> c]

VARIABLES
    backend, dim,   \* the configuration: the vector store, the embedder's dimension
    universe,       \* whose a document is
    text,           \* the text of its row, 0: there is no such row
    made,           \* documents made so far
    index,          \* the vectors
    disk, torn,     \* FAISS: the vectors in the index file, and whether it is no whole file
    mixed,          \* FAISS: writers of the file whom another writer disturbs
    pc,
    texts,          \* writers: the texts t has still to embed, 0: none
    docs, fetch,    \* readers: eligible documents, then the answer; the search window
    on, own,        \* history: documents t works on, and those it is alone on
    lag             \* history: documents whose last writer was not alone or did not finish

storeVars == <<backend, dim, universe, text, made>>
fileVars == <<disk, torn, mixed>>
vectorVars == <<index, fileVars>>
readerVars == <<docs, fetch>>
historyVars == <<on, own, lag>>
vars == <<storeVars, vectorVars, pc, texts, readerVars, historyVars>>

NoTexts == [d \in Ids |-> 0]
Someone == CHOOSE u \in Universes : TRUE

Init ==
    /\ backend \in Backends /\ dim \in Dims
    /\ universe = [d \in Ids |-> Someone]
    /\ text = NoTexts /\ made = 0
    /\ index = {} /\ disk = {} /\ torn = FALSE /\ mixed = {}
    /\ pc = [t \in Threads |-> "idle"]
    /\ texts = [t \in Threads |-> NoTexts]
    /\ docs = [t \in Threads |-> {}] /\ fetch = [t \in Threads |-> 0]
    /\ on = [t \in Threads |-> {}] /\ own = [t \in Threads |-> {}]
    /\ lag = {}

InScope(u) == {d \in Ids : text[d] # 0 /\ universe[d] = u}

Of(d, S) == {e \in S : e.doc = d}

-----------------------------------------------------------------------------
(* Writers: the row, then the vector, then the file.                       *)

\* t begins to write to S.
Works(t, S) ==
    /\ on' = [on EXCEPT ![t] = S]
    /\ own' = [s \in Threads |-> IF s = t THEN S \ UNION {on[r] : r \in Threads \ {t}}
                                ELSE own[s] \ S]
    /\ lag' = lag \cup S

Ends(t, done) ==
    /\ pc' = [pc EXCEPT ![t] = "idle"]
    /\ mixed' = mixed \ {t}
    /\ texts' = [texts EXCEPT ![t] = NoTexts]
    /\ on' = [on EXCEPT ![t] = {}]
    /\ own' = [own EXCEPT ![t] = {}]
    /\ lag' = IF done THEN lag \ own[t] ELSE lag

Embeds(t, new) ==
    /\ pc' = [pc EXCEPT ![t] = "embed"]
    /\ texts' = [texts EXCEPT ![t] = new]
    /\ UNCHANGED <<backend, dim, fileVars, readerVars>>

Add(t, u, x) ==
    /\ pc[t] = "idle"
    /\ made + 1 \in Ids
    /\ made' = made + 1
    /\ universe' = [universe EXCEPT ![made'] = u]
    /\ text' = [text EXCEPT ![made'] = x]
    /\ Works(t, {made'})
    /\ Embeds(t, [NoTexts EXCEPT ![made'] = x])
    /\ UNCHANGED index

\* A document deleted between the look-up and the UPDATE ends like one deleted after it.
Update(t, u, d, x) ==
    /\ pc[t] = "idle"
    /\ d \in InScope(u)
    /\ text' = [text EXCEPT ![d] = x]
    /\ Works(t, {d})
    /\ Embeds(t, [NoTexts EXCEPT ![d] = x])
    /\ UNCHANGED <<universe, made, index>>

\* The index when the vectors of the documents S are kept, or are removed.
KeptAll(S) == index
Without(S) == {e \in index : e.doc \notin S}

\* A vector in Postgres goes with its document.
Delete(t, u, d) ==
    /\ pc[t] = "idle"
    /\ d \in InScope(u)
    /\ text' = [text EXCEPT ![d] = 0]
    /\ index' = IF backend = "pgvector" THEN Without({d}) ELSE index
    /\ Works(t, {d})
    /\ pc' = [pc EXCEPT ![t] = "remove"]
    /\ UNCHANGED <<backend, dim, universe, made, fileVars, texts, readerVars>>

\* The migration tool embeds every document in its scope anew; Postgres only.
reindex_all(t) ==
    /\ pc[t] = "idle" /\ backend = "pgvector"
    /\ LET S == UNION {InScope(u) : u \in Reindexed} IN
       /\ S # {}
       /\ Works(t, S)
       /\ Embeds(t, [d \in Ids |-> IF d \in S THEN text[d] ELSE 0])
    /\ UNCHANGED <<universe, text, made, index>>

\* Vectors S with those that t has embedded.
Added(t, S) ==
    S \cup {Vector(d, texts[t][d], dim, Cardinality(Of(d, S)) + 1) : d \in on[t]}

\* Postgres replaces a document's vector in one statement, takes none of a
\* document that is gone, and has no file to write.
StoreVectors(t) ==
    /\ pc[t] = "embed" /\ backend = "pgvector"
    /\ \A d \in on[t] : text[d] # 0
    /\ index' = Added(t, Without(on[t]))
    /\ Ends(t, TRUE)
    /\ UNCHANGED <<storeVars, disk, torn, readerVars>>

\* FAISS: t changes the index, and goes on.  Who is writing the file meanwhile
\* writes some of it as it was, some as it is.
Changes(t, new, next) ==
    /\ index' = new
    /\ mixed' = mixed \cup {r \in Threads : pc[r] = "write"}
    /\ pc' = [pc EXCEPT ![t] = next]
    /\ UNCHANGED <<storeVars, disk, torn, texts, readerVars, historyVars>>

\* FAISS replaces vectors in two calls, between which others may come.
RemoveIds(t) ==
    /\ pc[t] = "embed" /\ backend = "faiss"
    /\ Changes(t, Without(on[t]), "add")

AddIds(t) ==
    /\ pc[t] = "add"
    /\ Changes(t, Added(t, index), "persist")

RemoveVectors(t) ==
    /\ pc[t] = "remove"
    /\ IF backend = "faiss" THEN Changes(t, Without(on[t]), "persist")
       ELSE /\ index' = Without(on[t])
            /\ Ends(t, TRUE)
            /\ UNCHANGED <<storeVars, disk, torn, readerVars>>

\* Every writer writes the same file, from its beginning.
OpenFile(t) ==
    /\ pc[t] = "persist"
    /\ LET others == {r \in Threads : pc[r] = "write"} IN
       mixed' = mixed \cup others \cup (IF others = {} THEN {} ELSE {t})
    /\ disk' = {} /\ torn' = TRUE
    /\ pc' = [pc EXCEPT ![t] = "write"]
    /\ UNCHANGED <<storeVars, index, texts, readerVars, historyVars>>

\* The file is whole if nobody came between; its sidecar is written too.
CloseFile(t) ==
    /\ pc[t] = "write"
    /\ IF t \in mixed THEN UNCHANGED <<disk, torn>> ELSE disk' = index /\ torn' = FALSE
    /\ Ends(t, TRUE)
    /\ UNCHANGED <<storeVars, index, readerVars>>

\* The embedding call or the store raises: the row stays as committed.
Fails(t) ==
    /\ pc[t] \in {"embed", "add", "remove", "persist", "write"}
    /\ Ends(t, FALSE)
    /\ UNCHANGED <<storeVars, index, disk, torn, readerVars>>

\* What FAISS may load: nothing if the file is of another dimension, and nobody
\* knows what of a file that is not whole.
Loadable(n) ==
    IF torn THEN SUBSET {Vector(p[1], p[2], n, 1) : p \in (1 .. made) \X Texts}
    ELSE {{e \in disk : e.dim = n}}

\* The process dies, or is started again with another embedding model.  Another
\* dimension makes the vectors that were stored invisible.
Restart(n) ==
    /\ dim' = n
    /\ IF backend = "pgvector" THEN UNCHANGED index ELSE index' \in Loadable(n)
    /\ pc' = [t \in Threads |-> "idle"]
    /\ texts' = [t \in Threads |-> NoTexts]
    /\ docs' = [t \in Threads |-> {}] /\ fetch' = [t \in Threads |-> 0]
    /\ on' = [t \in Threads |-> {}] /\ own' = [t \in Threads |-> {}]
    /\ mixed' = {}
    /\ lag' = IF n = dim /\ ~torn THEN lag ELSE 1 .. made
    /\ UNCHANGED <<backend, universe, text, made, disk, torn>>

-----------------------------------------------------------------------------
(* Readers.                                                                *)

\* The vectors a search sees, and their order in its result.
Visible == {e \in index : e.dim = dim}

Before(e, f) ==
    \/ e.text > f.text
    \/ e.text = f.text /\ e.doc < f.doc
    \/ e.text = f.text /\ e.doc = f.doc /\ e.copy < f.copy

First(n, S) == {e \in S : Cardinality({f \in S : Before(f, e)}) < n}

\* What t wants of S, and whose vectors they are.
Found(t, S) == {e \in S : e.doc \in docs[t]}
DocsOf(S) == {e.doc : e \in S}

\* The eligible documents are read first.
BeginRetrieve(t, u) ==
    /\ pc[t] = "idle"
    /\ docs' = [docs EXCEPT ![t] = {d \in InScope(u) : text[d] \in Fitting}]
    /\ pc' = [pc EXCEPT ![t] = IF docs'[t] = {} THEN "answered" ELSE "search"]
    /\ fetch' = [fetch EXCEPT ![t] = Window]
    /\ UNCHANGED <<storeVars, vectorVars, texts, historyVars>>

\* A search that is content with what its first window holds.
EnoughAtOnce(t, hits) == TRUE

\* Nothing more can be found.
Enough(t, hits) ==
    \/ Cardinality(Found(t, hits)) >= K
    \/ Cardinality(hits) < fetch[t]
    \/ Cardinality(Found(t, hits)) = Cardinality(docs[t])

Search(t) ==
    /\ pc[t] = "search"
    /\ LET hits == First(fetch[t], Visible) IN
       IF Enough(t, hits)
       THEN /\ docs' = [docs EXCEPT ![t] = DocsOf(First(K, Found(t, hits)))]
            /\ pc' = [pc EXCEPT ![t] = "answered"]
            /\ UNCHANGED fetch
       ELSE /\ fetch' = [fetch EXCEPT ![t] = @ * 2]
            /\ UNCHANGED <<docs, pc>>
    /\ UNCHANGED <<storeVars, vectorVars, texts, historyVars>>

Answer(t) ==
    /\ pc[t] = "answered"
    /\ pc' = [pc EXCEPT ![t] = "idle"]
    /\ docs' = [docs EXCEPT ![t] = {}]
    /\ fetch' = [fetch EXCEPT ![t] = 0]
    /\ UNCHANGED <<storeVars, vectorVars, texts, historyVars>>

Next ==
    \/ \E t \in Threads :
          \/ \E u \in Universes :
                \/ BeginRetrieve(t, u)
                \/ \E x \in Texts : Add(t, u, x)
                \/ \E d \in Ids : Delete(t, u, d) \/ \E x \in Texts : Update(t, u, d, x)
          \/ reindex_all(t)
          \/ StoreVectors(t) \/ RemoveIds(t) \/ AddIds(t) \/ RemoveVectors(t)
          \/ OpenFile(t) \/ CloseFile(t) \/ Fails(t)
          \/ Search(t) \/ Answer(t)
    \/ \E n \in Dims : Restart(n)

Spec == Init /\ [][Next]_vars

-----------------------------------------------------------------------------
(* Properties.                                                             *)

\* store.py:1-3 "keeps the vector index in sync ... The DB is the source of truth":
\* however writers fail, overlap and restart, a document whose last writer was
\* alone on it and came to its end has one vector, that of its text, and a whole
\* index file has the same; and Postgres keeps no second vector of a document,
\* and none of a document that is gone.
IndexFollowsDocuments ==
    /\ \A d \in Ids \ lag :
          /\ Of(d, index) = IF text[d] = 0 THEN {} ELSE {Vector(d, text[d], dim, 1)}
          /\ backend = "faiss" /\ ~torn => Of(d, disk) = Of(d, index)
    /\ backend = "pgvector" =>
          \A e, f \in index : text[e.doc] # 0 /\ (e.doc = f.doc => e = f)

\* retrieve.py:60-61 "Widen until enough eligible hits are found or the index is
\* exhausted": however documents of others crowd the window, a retrieval ends
\* with the K most similar documents of its list that have a vector, unless
\* writers that overlapped have left one of its documents with two.
RetrievalIsExact ==
    [][\A t \in Threads :
          /\ pc[t] = "search" /\ pc'[t] = "answered"
          /\ \A e, f \in Found(t, Visible) : e.doc = f.doc => e = f
          => docs'[t] = DocsOf(First(K, Found(t, Visible)))]_vars

=============================================================================
