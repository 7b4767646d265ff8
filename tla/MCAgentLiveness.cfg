SPECIFICATION FairSpec
CONSTANTS
    Cids = {c1, c2}
    Eids = {e1}
    Pids = {p1, p2}
    Workers = {w1, w2}
    ExitCodes = {3}
    Ops <- ProcessOps
    Orderly = TRUE
    InitEid = InitEid
    NoPid = NoPid
    NoCid = NoCid
PROPERTIES ZombiesCollected MutexReleased AnswersEveryWait
CHECK_DEADLOCK FALSE
INVARIANTS WaitFindsAgain
