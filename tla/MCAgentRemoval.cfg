SPECIFICATION Spec
CONSTANTS
    Cids = {c1}
    Eids = {e1}
    Pids = {p1, p2, p3}
    Workers = {w1, w2}
    ExitCodes = {3}
    Ops <- RemovalOps
    Orderly = FALSE
    InitEid = InitEid
    NoPid = NoPid
    NoCid = NoCid
INVARIANTS NoSurvivor
PROPERTIES NeverReplaced WaitExact
SYMMETRY Interchangeable
CHECK_DEADLOCK FALSE
