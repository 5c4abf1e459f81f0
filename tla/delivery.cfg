\* One request (its row, and a key to spare for a submission in flight), two
\* handlers at once, two attempts, two agents' sockets that join and leave the
\* rooms of the device and of the job, print, fail and answer, and a watcher.
SPECIFICATION DSpec
CONSTANTS
    Agent = {a1, a2}
    Job = {j1, j2}
    Task = {t1, t2}
    Request = {r1}
    Hash = {}
    None = None
    RetryBudget = {1}
    AdminStatus = {}
    Faults = {}
    MaxAttempts = 2
INVARIANTS DeliveryTypeOK PaperIsRecorded ReprintsHaveAReason WatcherSeesLast ProcessingEnds
CONSTRAINT Bounded
SYMMETRY Symmetry
\* The primary key may be used up: a bound of the model.
CHECK_DEADLOCK FALSE
