SPECIFICATION Spec
CONSTANTS
    Cids = {c1}
    Eids = {e1}
    Pids = {p1, p2}
    Workers = {w1, w2}
    ExitCodes = {3}
    Ops <- ProcessTableOps
    Orderly = FALSE
    InitEid = InitEid
    NoPid = NoPid
    NoCid = NoCid
INVARIANTS ExitRecorded
PROPERTIES ImplementsWaitService
CHECK_DEADLOCK FALSE
SYMMETRY Interchangeable
