\* One row, two handlers at once, without failures and under fair scheduling:
\* stale readings and stale timers of up to two attempts, submissions with and
\* without a content key, operators who cancel, hand over and delete.
SPECIFICATION FairSpec
CONSTANTS
    Job = {j1}
    Task = {t1, t2}
    Request = {}
    Hash = {h1}
    None = None
    RetryBudget = {0, 1}
    AdminStatus = {"cancelled"}
    Faults = {}
    MaxAttempts = 2
INVARIANTS TypeOK SentIsWatched DispatchesAudited StatusExplained StuckIsMonitored
PROPERTIES PrintedIsFinal AckTimeoutMovesJob ContractSpec
\* The primary key may be used up: a bound of the model.
CHECK_DEADLOCK FALSE
