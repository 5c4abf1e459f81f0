\* One socket of one device; its client logs out.
SPECIFICATION FairSpec
CONSTANTS
    Socket = {s1}
    Device = {d1}
    d1 = d1
    Http = {}
    None = None
    Own <- AllOfD1
    AdminStatus = {}
    Moves = {"logout"}
PROPERTY DisconnectTakesOffline
\* Sockets are not reused: a bound of the model.
CHECK_DEADLOCK FALSE
