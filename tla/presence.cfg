\* Two sockets with tokens of one device and a second device that either may
\* present; operators pause, rename and delete devices and a helper of a new
\* machine makes itself known over HTTP; fair scheduling.
SPECIFICATION CalmSpec
CONSTANTS
    Socket = {s1, s2}
    Device = {d1, d2}
    d1 = d1
    Http = {h1}
    None = None
    Own <- AllOfD1
    AdminStatus = {"paused"}
    Moves = {}
INVARIANTS TypeOK OnlineIsServed NothingLeaks
PROPERTY OrdinaryDisconnectTakesOffline
\* Sockets are not reused: a bound of the model.
CHECK_DEADLOCK FALSE
