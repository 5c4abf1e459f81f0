\* Two handlers at once: an activation that may be approved twice, two keys, a
\* session that is refreshed once, failing database calls, crashes
\* and an unreachable Redis.
SPECIFICATION Spec
CONSTANTS
    Activation = {a1}
    Key = {k1, k2}
    Session = {n1}
    Token = {x1, x2}
    Task = {t1, t2}
    None = None
    Faults = {"crash", "db", "redis"}
SYMMETRY Symmetry
INVARIANTS TypeOK OneActiveKey RevokedKeyHasNoSession
PROPERTIES ContractSpec RotatedIsDead
