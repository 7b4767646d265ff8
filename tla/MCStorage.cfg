SPECIFICATION Spec
CONSTANTS
    Cids = {c1, c2, c3}
    Workers = {w1, w2}
    Points <- MCPoints
    Driver <- MCDriver
    Request <- MCRequest
    SandboxPoints <- MCSandboxPoints
    Faults = TRUE
    Creates <- MCCreates
    Removals <- MCRemovals
    NoCid = NoCid
    SandboxId = SandboxId
    c1 = c1
    c2 = c2
    c3 = c3
    shm = shm
    dir = dir
    vol1 = vol1
    vol3 = vol3
    sbvol = sbvol
SYMMETRY Threads
CHECK_DEADLOCK FALSE
INVARIANTS MountedOnce CountCoversUsers MountedForUsers NoLeftover
