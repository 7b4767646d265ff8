SPECIFICATION Spec
CONSTANTS
    c0 = c0
    c1 = c1
    Containers <- MCContainers
    SandboxContainer = c0
    Subsystems = {"cpuset", "devices", "memory", "pids", "blkio", "hugetlb"}
    Guests <- MCGuests
    Cpus = {0, 1}
    BootCpus = {0}
    FixedCpus = {0}
    Creations <- MCCreations
    Updates <- MCUpdates
    Hotplug <- MCHotplug
    Refusals <- MCRefusals
    MaxUpdates = 2
    Numbers = {1, 2, 3, 4}
    DefaultNumbers <- MCDefaultNumbers
    HugetlbFile <- MCHugetlbFile
    NoValue = NoValue
    SwapAccounting = TRUE
    PageSize = 2
    MaxLimit = 6
INVARIANTS StatsTrue GuestCpusReached DevicesFollow
CHECK_DEADLOCK FALSE
