SPECIFICATION FairSpec
CONSTANTS
    Handlers = {h1}
    Addrs <- MCAddrs
    Scsi <- MCScsi
    Paths <- MCPaths
    BlockPaths <- MCBlockPaths
    Names = {vda, sda}
    Contains <- MCContains
    UnderRoot <- MCUnderRoot
    SameAddr = FALSE
    QueueCap = 1
    MaxPlugs = 2
    NoOne = NoOne
    NoName = NoName
    pci = pci
    scsi = scsi
    disk = disk
    part = part
    sdisk = sdisk
    memory = memory
INVARIANTS NoMissedEvent NoLeakedWatcher
PROPERTIES NotifiedOnce CallReturns
