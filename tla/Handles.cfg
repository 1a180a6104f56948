SPECIFICATION Spec
CONSTANTS
    Clients = {c1, c2, c3}
    Endpoints = {e1, e2}
    Fds = {f1, f2}
    NoFd = NoFd
    NoClient = NoClient
    MaxConns = 3
    MaxXid = 3
SYMMETRY Symmetry
INVARIANTS
    TypeOK
    SingleOwner
    OpenIsHeld
    XidFresh
    EndpointsOwn
CHECK_DEADLOCK FALSE
