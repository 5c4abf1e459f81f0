\* One socket and one device with every awkward move and failure; entries
\* expire.
SPECIFICATION ListingFairSpec
CONSTANTS
    Socket = {s1}
    Device = {d1}
    d1 = d1
    Http = {h1}
    Reader = {r1}
    None = None
    Own <- AllOfD1
    AdminStatus = {"paused"}
    Moves = {"hasty", "loose", "logout", "helper", "db", "crash", "redis"}
INVARIANTS ListIsFresh ReportsAreLive
PROPERTIES HeartbeatPreserves OffIsDelisted SuspendedIsRefused
