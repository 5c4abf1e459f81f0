\* Two processes that may restart, two tokens, one check at a time; Redis may
\* be out of reach.
SPECIFICATION Spec
CONSTANTS
    Instance = {i1, i2}
    Jti = {j1, j2}
    Check = {c1}
    None = None
    Faults = {"crash", "redis"}
SYMMETRY Symmetry
INVARIANTS TypeOK RevokedHere
PROPERTY StoredIsRefused
