\* Two requests at a time; requests may die.
SPECIFICATION Spec
CONSTANTS
    Users = {u1, u2}
    Threads = {t1, t2}
    Tokens = {k1, k2}
    MaxWorkspaces = 3
    Crashes = TRUE
    None = None
INVARIANTS RunsInOwnWorkspace MembersWereLetIn OnePersonalWorkspace
PROPERTIES ClaimsSpec
SYMMETRY WorkspacesSymmetry
