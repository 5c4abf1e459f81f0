\* A socket of one process, revoked through the other.
SPECIFICATION Spec
CONSTANTS
    Instance = {i1, i2}
    Jti = {j1}
    Check = {c1}
    None = None
    Faults = {}
INVARIANT RevokedEverywhere
\* Every token expires in the end: a bound of the model.
CHECK_DEADLOCK FALSE
