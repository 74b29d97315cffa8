\* Two documents, a search window of one, and both vector stores.
SPECIFICATION Spec
CONSTANTS
    Threads = {t1, t2}
    Universes = {w1, w2}
    Reindexed = {w1}
    MaxDocs = 2
    MaxText = 2
    Fitting = {1}
    Dims = {1, 2}
    K = 1
    Window = 1
    Backends = {"faiss", "pgvector"}
INVARIANTS IndexFollowsDocuments
PROPERTIES RetrievalIsExact
SYMMETRY KnowledgeBaseSymmetry
CONSTRAINT Bounds
