\* Two threads checking requests of one client, with bursts, pauses and late appends.
SPECIFICATION Spec
CONSTANTS
    Threads = {t1, t2}
    Window = 1
    MaxRequests = 2
    MaxTime = 4
    MaxLog = 7
SYMMETRY Symmetry
INVARIANTS TypeOK OverrunBounded RefusalJustified
CHECK_DEADLOCK FALSE
