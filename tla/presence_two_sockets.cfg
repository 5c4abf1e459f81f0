\* Two sockets of one device; one of them closes.
SPECIFICATION Spec
CONSTANTS
    Socket = {s1, s2}
    Device = {d1}
    d1 = d1
    Http = {}
    None = None
    Own <- AllOfD1
    AdminStatus = {}
    Moves = {}
PROPERTY OfflineOnlyIfLastSocket
\* Sockets are not reused: a bound of the model.
CHECK_DEADLOCK FALSE
