\* Two rows, two handlers at once, one request key, two attempts and one retry;
\* the process may crash and database calls may fail at any await.
SPECIFICATION Spec
CONSTANTS
    Job = {j1, j2}
    Task = {t1, t2}
    Request = {r1}
    Hash = {}
    None = None
    RetryBudget = {1}
    AdminStatus = {}
    Faults = {"crash", "db"}
    MaxAttempts = 2
CONSTRAINT OneRowDispatched
SYMMETRY Symmetry
INVARIANTS UniqueRequest RetriesWithinBudget
