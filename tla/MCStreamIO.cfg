SPECIFICATION FairSpec
CONSTANTS
    p1 = p1
    p2 = p2
    Procs <- MCProcs
    Terminals <- MCTerminals
    Workers = 2
    MaxFd = 8
    PipeSize = 1
    MaxIn <- MCMaxIn
    MaxOut = 1
    NoProc = NoProc
INVARIANTS OwnDescriptors OutputExact InputExact
PROPERTIES RequestsFinish
CHECK_DEADLOCK FALSE
