------------------------------ MODULE Cgroups ------------------------------
(***************************************************************************)
(* The cgroup manager (src/rustjail/src/cgroups/fs/mod.rs): what set()     *)
(* writes to the files of a container's directories and what get_stats()   *)
(* reads from them.                                                        *)
(*                                                                         *)
(* A subsystem's set() is a sequence of writes, each with the errors it    *)
(* passes over.  The directories of a container, one in each hierarchy,    *)
(* are one function from the files written so far to their contents; a     *)
(* file outside its domain has the kernel's default.  Resources are a      *)
(* record with the fields of LinuxResources, NoValue for an absent one.    *)
(***************************************************************************)
EXTENDS SpecDevices, FiniteSets, TLC

CONSTANTS
    NoValue,
    SwapAccounting,     \* the kernel has the memory.memsw files
    PageSize,           \* the kernel counts memory in pages
    MaxLimit,           \* the highest limit of memory, which is none
    HugetlbFile         \* page size -> the file hugetlb.<size>.limit_in_bytes

CpusetFiles == {"cpuset.cpus", "cpuset.mems"}
LimitFiles == {"memory.limit_in_bytes", "memory.memsw.limit_in_bytes", "pids.max"}
ASSUME PagesAssumption == PageSize \in Nat \ {0} /\ MaxLimit \in Nat
ASSUME HugetlbAssumption ==
    Range(HugetlbFile) \cap (CpusetFiles \cup LimitFiles \cup {"devices"}) = {}

ThrottleFiles ==
    <<"blkio.throttle.read_bps_device", "blkio.throttle.write_bps_device",
      "blkio.throttle.read_iops_device", "blkio.throttle.write_iops_device">>

\* One file, and the files of g in the place of those of dir.
File(f, v) == [x \in {f} |-> v]
Over(g, dir) ==
    [f \in DOMAIN g \cup DOMAIN dir |-> IF f \in DOMAIN g THEN g[f] ELSE dir[f]]

\* A list, of anything.
IsList(s) == Len(s) \in Nat /\ s = [i \in 1..Len(s) |-> s[i]]

\* A LinuxResources; of its lists the writes depend on their being lists.
IsResources(r) ==
    /\ DOMAIN r = {"CPU", "Memory", "Pids", "BlockIO", "Network", "HugepageLimits", "Devices"}
    /\ IsList(r.Devices)
    /\ IsList(r.HugepageLimits)
    /\ \A i \in DOMAIN r.HugepageLimits : r.HugepageLimits[i].Pagesize \in DOMAIN HugetlbFile
    /\ r.BlockIO # NoValue =>
          /\ IsList(r.BlockIO.WeightDevice)
          /\ \A f \in Range(ThrottleFiles) : IsList(r.BlockIO.Throttle[f])
    /\ r.Network # NoValue => IsList(r.Network.Priorities)

W(file, value, passes) == <<[file |-> file, value |-> value, passes |-> passes]>>

\* write_file, write_nonzero, try_write_nonzero, try_write, try_write_file and
\* write_blkio_device.
Must(file, v) == W(file, v, {})
Nonzero(file, v) == IF v = 0 THEN <<>> ELSE Must(file, v)
TryNonzero(file, v) == IF v = 0 THEN <<>> ELSE W(file, v, {"EACCES"})
Try(file, v) == W(file, v, {"EACCES", "EBUSY"})
TryValid(file, v) == W(file, v, {"EINVAL", "ENODEV", "ERANGE"})
BlkioDevice(file, v) == W(file, v, {"ENODEV"})

\* f(x) for every x of a sequence of requests, one after another.
ForEach(s, f(_)) == FlattenSeq([i \in DOMAIN s |-> f(s[i])])

-----------------------------------------------------------------------------
(* set() of the subsystems.                                                *)

\* What comes after copy_parent, which is not a plain write.
CpuSetWrites(r) ==
    IF r.CPU = NoValue THEN <<>>
    ELSE (IF r.CPU.Cpus = {} THEN <<>> ELSE TryValid("cpuset.cpus", r.CPU.Cpus))
      \o (IF r.CPU.Mems = {} THEN <<>> ELSE TryValid("cpuset.mems", r.CPU.Mems))

CpuWrites(r) ==
    IF r.CPU = NoValue THEN <<>>
    ELSE TryNonzero("cpu.rt_period_us", r.CPU.RealtimePeriod)
      \o TryNonzero("cpu.rt_runtime_us", r.CPU.RealtimeRuntime)
      \o Nonzero("cpu.shares", r.CPU.Shares)
      \o Nonzero("cpu.cfs_quota_us", r.CPU.Quota)
      \o Nonzero("cpu.cfs_period_us", r.CPU.Period)

\* The rules of the request, then the default devices and, for all devices,
\* mknod.
DefaultRules ==
    [i \in DOMAIN DefaultNumbers |->
        [allow |-> TRUE, type |-> "c", num |-> DefaultNumbers[i], access |-> Access]]
    \o [i \in 1..2 |-> [allow |-> TRUE, type |-> <<"c", "b">>[i], num |-> WILDCARD,
                        access |-> {"m"}]]
DevicesWrites(r) == ForEach(r.Devices \o DefaultRules, LAMBDA d : Must("devices", d))

\* Mutation: an error of the limit is passed over.
MemoryWritesTry(r, update) ==
    IF r.Memory = NoValue THEN <<>>
    ELSE W("memory.limit_in_bytes", r.Memory.Limit, {"EINVAL", "EBUSY"})
      \o TryNonzero("memory.memsw.limit_in_bytes", r.Memory.Swap)

\* The limit first: it cannot be raised above the swap limit there is.
MemoryWrites(r, update) ==
    IF r.Memory = NoValue THEN <<>>
    ELSE (IF update THEN <<>>
          ELSE Try("memory.kmem.limit_in_bytes", 1) \o Try("memory.kmem.limit_in_bytes", -1))
      \o Nonzero("memory.limit_in_bytes", r.Memory.Limit)
      \o Nonzero("memory.soft_limit_in_bytes", r.Memory.Reservation)
      \o TryNonzero("memory.memsw.limit_in_bytes", r.Memory.Swap)
      \o TryNonzero("memory.kmem.limit_in_bytes", r.Memory.Kernel)
      \o Nonzero("memory.kmem.tcp.limit_in_bytes", r.Memory.KernelTCP)
      \o (IF r.Memory.Swappiness <= 100 THEN Must("memory.swappiness", r.Memory.Swappiness) ELSE <<>>)
      \o (IF r.Memory.DisableOOMKiller THEN Must("memory.oom_control", 1) ELSE <<>>)

\* A limit of 0 or less is "max", written -1 here.
PidsWrites(r) ==
    IF r.Pids = NoValue THEN <<>>
    ELSE Must("pids.max", IF r.Pids.Limit > 0 THEN r.Pids.Limit ELSE -1)

\* Throttle is the four lists of rates, a function from their files.
BlkioWrites(r) ==
    IF r.BlockIO = NoValue THEN <<>>
    ELSE Nonzero("blkio.weight", r.BlockIO.Weight)
      \o Nonzero("blkio.leaf_weight", r.BlockIO.LeafWeight)
      \o ForEach(r.BlockIO.WeightDevice,
                 LAMBDA d : BlkioDevice("blkio.weight_device", <<d.num, d.Weight>>)
                         \o BlkioDevice("blkio.leaf_weight_device", <<d.num, d.LeafWeight>>))
      \o ForEach(ThrottleFiles, LAMBDA f : ForEach(r.BlockIO.Throttle[f], LAMBDA d : BlkioDevice(f, d)))

HugeTLBWrites(r) == ForEach(r.HugepageLimits, LAMBDA l : Must(HugetlbFile[l.Pagesize], l.Limit))
NetClsWrites(r) == IF r.Network = NoValue THEN <<>> ELSE Nonzero("net_cls.classid", r.Network.ClassID)
NetPrioWrites(r) ==
    IF r.Network = NoValue THEN <<>>
    ELSE ForEach(r.Network.Priorities, LAMBDA p : TryValid("net_prio.ifpriomap", p))

\* get_subsystem: any other name is refused.
KnownSubsystems ==
    {"cpuset", "cpu", "devices", "memory", "cpuacct", "pids", "blkio", "hugetlb",
     "net_cls", "net_prio", "perf_event", "freezer", "name=systemd"}

SubsystemWrites(name, r, update) ==
    CASE name = "cpuset" -> CpuSetWrites(r)
      [] name = "cpu" -> CpuWrites(r)
      [] name = "devices" -> DevicesWrites(r)
      [] name = "memory" -> MemoryWrites(r, update)
      [] name = "pids" -> PidsWrites(r)
      [] name = "blkio" -> BlkioWrites(r)
      [] name = "hugetlb" -> HugeTLBWrites(r)
      [] name = "net_cls" -> NetClsWrites(r)
      [] name = "net_prio" -> NetPrioWrites(r)
      [] OTHER -> <<>>

-----------------------------------------------------------------------------
(* The kernel's side.  above is a function from CpusetFiles: the parent's  *)
(* and, in top, the guest's; refused holds <<file, errno>> of the writes   *)
(* it refuses this time for reasons of its own.                            *)

Content(dir, file, default) == IF file \in DOMAIN dir THEN dir[file] ELSE default

\* What a limit of memory that is written comes to: -1 is none, and it counts
\* in whole pages.
InPages(v) == IF v = -1 \/ v > MaxLimit THEN MaxLimit ELSE (v \div PageSize) * PageSize
Limit(dir) == InPages(Content(dir, "memory.limit_in_bytes", -1))
SwapLimit(dir) == InPages(Content(dir, "memory.memsw.limit_in_bytes", -1))

Answer(dir, w, above, top, refused) ==
    CASE w.file \in CpusetFiles ->
            IF ~(w.value \subseteq top[w.file]) THEN "EINVAL"
            ELSE IF ~(w.value \subseteq above[w.file]) THEN "EACCES" ELSE "ok"
      [] w.file = "memory.memsw.limit_in_bytes" /\ ~SwapAccounting -> "EACCES"
      [] w.file = "memory.memsw.limit_in_bytes"
         /\ (w.value < -1 \/ InPages(w.value) < Limit(dir)) -> "EINVAL"
      [] w.file = "memory.limit_in_bytes"
         /\ (w.value < -1 \/ InPages(w.value) > SwapLimit(dir)) -> "EINVAL"
      [] OTHER -> IF \E e \in refused : e[1] = w.file
                  THEN (CHOOSE e \in refused : e[1] = w.file)[2] ELSE "ok"

\* The devices file adds to or takes from what is permitted.
Put(dir, w) ==
    IF w.file = "devices"
    THEN Over(File("devices", Permitted(Content(dir, "devices", Permissions), <<w.value>>)), dir)
    ELSE Over(File(w.file, w.value), dir)

WriteOne(s, w, above, top, refused) ==
    LET a == Answer(s.dir, w, above, top, refused) IN
    IF ~s.ok THEN s
    ELSE IF a = "ok" THEN [s EXCEPT !.dir = Put(s.dir, w)]
    ELSE [s EXCEPT !.ok = a \in w.passes]

\* Up to the first error that is not passed over.
WriteAll(dir, ws, above, top, refused) ==
    FoldLeft(LAMBDA s, w : WriteOne(s, w, above, top, refused),
             [ok |-> TRUE, dir |-> dir], ws)

-----------------------------------------------------------------------------
(* get_stats().  kernel is what the guest's kernel has: files, a function  *)
(* from the files of statistics to the entries that are looked up in them, *)
(* and pages, its huge pages, by the power of two their size is of a byte. *)

\* The files of a hierarchy, in the order they are read.  A container with
\* statistics of the CFQ scheduler has io.
StatFiles(name, io) ==
    CASE name = "cpuacct" -> <<"cpuacct.stat", "cpuacct.usage", "cpuacct.usage_percpu">>
      [] name = "cpu" -> <<"cpu.stat">>
      [] name = "memory" -> <<"memory.stat", "memory.use_hierarchy", "memory.limit_in_bytes">>
      [] name = "pids" -> <<"pids.current", "pids.max">>
      [] name = "blkio" /\ io -> <<"blkio.io_serviced_recursive", "blkio.sectors_recursive">>
      [] name = "blkio" /\ ~io ->
            <<"blkio.io_serviced_recursive", "blkio.throttle.io_service_bytes",
              "blkio.throttle.io_serviced">>

\* The entries whose values are unwrapped.
Unwrapped(file) ==
    CASE file = "cpuacct.stat" -> {"user", "system"}
      [] file = "cpu.stat" -> {"nr_periods", "nr_throttled", "throttled_time"}
      [] file = "memory.stat" -> {"cache"}
      [] OTHER -> {}

\* The lines of sectors_recursive, "<major>:<minor> <sectors>", have a field
\* less than get_blkio_stat demands.
ReadStat(file, kernel) ==
    IF file \notin DOMAIN kernel.files THEN "error"
    ELSE IF ~(Unwrapped(file) \subseteq kernel.files[file]) THEN "panic"
    ELSE IF file = "blkio.sectors_recursive" THEN "error" ELSE "ok"

\* custom_size of what parse_size read from the name of the directory: its
\* number, again a power, and the index of the unit in DABBRS.
custom_size(e) ==
    LET i == CHOOSE i \in 0..8 : e - 10 * i <= 10 /\ \A j \in 0..(i - 1) : e - 10 * j > 10
    IN  <<e - 10 * i, i>>

\* The kernel's name in the files of the hugetlb cgroup.
KernelPageName(e) ==
    IF e >= 30 THEN <<e - 30, 3>> ELSE IF e >= 20 THEN <<e - 20, 2>> ELSE <<e - 10, 1>>

\* HugeTLB::get_stats: a file for every page size.
HugePagesRead(pages) == \A e \in pages : custom_size(e) = KernelPageName(e)

\* One hierarchy, with or without the directory of the container: it ends
\* with the first file that cannot be read.
ReadHierarchy(name, isDir, io, kernel) ==
    IF name = "hugetlb"
    THEN IF kernel.pages = {} \/ (isDir /\ HugePagesRead(kernel.pages)) THEN "ok" ELSE "error"
    ELSE LET fs == StatFiles(name, io)
             bad == {i \in DOMAIN fs : ReadStat(fs[i], kernel) # "ok"}
         IN  IF ~isDir THEN "error"
             ELSE IF bad = {} THEN "ok"
             ELSE ReadStat(fs[CHOOSE i \in bad : \A j \in bad : i <= j], kernel)

StatsOrder == <<"cpuacct", "cpu", "memory", "pids", "blkio", "hugetlb">>

\* All that are mounted: the first that is not read is the outcome.
ReadStats(mounted, made, io, kernel) ==
    LET read(i) == ReadHierarchy(StatsOrder[i], StatsOrder[i] \in made, io, kernel)
        bad == {i \in DOMAIN StatsOrder : StatsOrder[i] \in mounted /\ read(i) # "ok"}
    IN  IF bad = {} THEN "ok" ELSE read(CHOOSE i \in bad : \A j \in bad : i <= j)

\* Pids::get_stats: "max" is 0.
PidsLimit(dir) ==
    LET c == Content(dir, "pids.max", -1) IN IF c = -1 THEN 0 ELSE c

\* Memory::get_stats: no memsw files, no swap_usage.
get_stats(dir) ==
    [limit |-> Limit(dir),
     swap |-> IF SwapAccounting THEN SwapLimit(dir) ELSE NoValue,
     pids |-> PidsLimit(dir)]
=============================================================================
