SPECIFICATION Spec
CONSTANTS
    a = a
    b = b
    new = new
    ta = ta
    tb = tb
    tnew = tnew
    Files <- MCFiles
    Tmp <- MCTmp
    Sizes <- MCSizes
    Existing <- MCExisting
    MaxAttempts = 3
PROPERTY CopiesWhole
CHECK_DEADLOCK FALSE
