\* Two requests at a time, or one after the other.
SPECIFICATION Spec
CONSTANTS
    Users = {u1, u2, u3}
    Threads = {t1, t2}
    Allowlist = {u3}
    DefaultRole = "executive"
    Modes = {TRUE, FALSE}
    None = None
INVARIANTS OneBootstrapAdmin CachedRoleIsCurrent
PROPERTIES LastAdminGoesOnlyByStaleRole GoogleOnlyRaises
SYMMETRY RolesSymmetry
