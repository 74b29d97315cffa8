\* Two threads overlap inside record(); rows are edited and removed meanwhile.
SPECIFICATION LogSpec
CONSTANTS
    Workspaces = {w1}
    Recorders = {r1, r2}
    Bodies = {b1, b2}
    Emails = {e1, e2}
    MaxRows = 3
    Overlap = TRUE
    Tampering = TRUE
INVARIANTS BrokenOnlyByFork
PROPERTIES TamperDetected NeverHeals
SYMMETRY AuditSymmetry
