SPECIFICATION FairSpec
CONSTANTS
    Cids = {c1, c2}
    Eids = {e1}
    Pids = {p1, p2}
    Workers = {w1, w2}
    ExitCodes = {3}
    Ops = {"CreateContainer", "SignalAll", "WaitProcess"}
    Orderly = TRUE
    InitEid = InitEid
    NoPid = NoPid
    NoCid = NoCid
PROPERTIES WaiterWoken
CHECK_DEADLOCK FALSE
