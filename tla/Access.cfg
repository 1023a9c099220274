\* One browser's session beside other requests of its host: expiry, restarts with another
\* secret or none, users removed, and the limiters they share.
SPECIFICATION AccessSpec
CONSTANTS
    Clients = {"shared", "login"}
    Window <- MCWindow
    MaxRequests <- MCMaxRequests
    MaxTime = 4
    Users = {ann, vic}
    MayWrite = {ann}
    Keys = {k1, k2}
    Unset = Unset
    MaxAge = 2
    Second = 2
    Nobody = Nobody
SYMMETRY Symmetry
INVARIANTS WindowBound SessionsEnd NoSessionCutShort CostlyWorkCharged
PROPERTY ImplementsSlidingWindow
CHECK_DEADLOCK FALSE
