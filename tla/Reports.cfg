\* Every request runs once, then the system may stop.
SPECIFICATION Spec
CONSTANTS
    Original = Original
    Empty = Empty
    None = None
    MaxDatasets = 2
    Insights = {g1}
    Digests = {g2}
    Editors = {e1, e2}
    Packs = {p1}
    Modes = {TRUE, FALSE}
INVARIANTS PackNarratesItsFacts ReportNarratesItsDataset NewestVersionIsShown VersionOneIsOriginal EveryEditIsKept
CONSTRAINT PacksOrEdits
SYMMETRY EditorSymmetry
CHECK_DEADLOCK FALSE
