\* Two handlers at once, a request that is approved, two cached lists and one
\* reader; failing calls, crashes and an unreachable Redis.
SPECIFICATION ActivationSpec
CONSTANTS
    Activation = {a1}
    Key = {k1}
    Session = {}
    Token = {}
    Task = {t1, t2}
    View = {v1, v2}
    Reader = {r1}
    None = None
    Faults = {"crash", "db", "redis"}
SYMMETRY Symmetry
INVARIANTS ActivationTypeOK PendingListIsFresh OneInitialAdmin
