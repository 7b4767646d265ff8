---------------------------- MODULE MCResources ----------------------------
(* The sandbox container and one with two devices.                         *)
EXTENDS ContainerResources

CONSTANTS c0, c1

MCContainers == {c0, c1}

NoResources ==
    [CPU |-> NoValue, Memory |-> NoValue, Pids |-> NoValue, BlockIO |-> NoValue,
     Network |-> NoValue, HugepageLimits |-> <<>>, Devices |-> <<>>]
WithCpus(cpus) ==
    [NoResources EXCEPT !.CPU = [Cpus |-> cpus, Mems |-> {}, RealtimePeriod |-> 0,
        RealtimeRuntime |-> 0, Shares |-> 0, Quota |-> 0, Period |-> 0]]
WithMemory(limit, swap) ==
    [NoResources EXCEPT !.Memory = [Limit |-> limit, Reservation |-> 0, Swap |-> swap,
        Kernel |-> 0, KernelTCP |-> 0, Swappiness |-> 0, DisableOOMKiller |-> FALSE]]
WithPids(r, limit) == [r EXCEPT !.Pids = [Limit |-> limit]]

MCUpdates ==
    {WithCpus({1}), WithPids(WithMemory(5, 5), 1), WithPids(WithMemory(-1, -1), 0)}

Disk(path, num) == [path |-> path, type |-> "b", num |-> num]
DenyAll == [allow |-> FALSE, type |-> Empty, num |-> 0, access |-> Access]
Allow(num, access) == [allow |-> TRUE, type |-> "b", num |-> num, access |-> access]

NoDisks == [devices |-> <<>>, rules |-> <<DenyAll>>]
TwoDisks ==
    [devices |-> <<Disk("/dev/x", 1), Disk("/dev/y", 2)>>,
     rules |-> <<DenyAll, Allow(1, {"r", "w"}), Allow(2, {"r"})>>]
Blk(id, path) == [id |-> id, type |-> "blk", vm_path |-> Empty, container_path |-> path]
Mmio(vm_path, path) == [id |-> Empty, type |-> "mmioblk", vm_path |-> vm_path, container_path |-> path]

Creation(spec, devices, resources) ==
    [spec |-> spec, devices |-> devices, resources |-> resources]
MCCreations ==
    c0 :> {Creation(NoDisks, <<>>, NoResources)}
    @@ c1 :> {Creation(NoDisks, <<>>, NoValue),
              Creation(TwoDisks, <<Blk("02/01", "/dev/x"), Mmio("/dev/vdb", "/dev/y")>>, NoResources),
              Creation(TwoDisks, <<Blk("02/01", "/dev/x")>>, WithMemory(3, 4)),
              Creation(TwoDisks, <<Mmio("/dev/vdc", "/dev/x")>>, NoResources)}

MCDefaultNumbers == <<10>>
MCHugetlbFile == 21 :> "hugetlb.2MB.limit_in_bytes"

\* With the CFQ scheduler, and without it but with pages of 1 GiB.
KernelFiles ==
    [f \in {"memory.stat", "memory.use_hierarchy", "memory.limit_in_bytes",
            "pids.current", "pids.max", "blkio.io_serviced_recursive",
            "blkio.sectors_recursive", "blkio.throttle.io_service_bytes",
            "blkio.throttle.io_serviced"} |-> Unwrapped(f)]
WithoutCFQ ==
    [f \in DOMAIN KernelFiles \ {"blkio.io_serviced_recursive", "blkio.sectors_recursive"}
        |-> KernelFiles[f]]
MCGuests ==
    {[kernel |-> [files |-> KernelFiles, pages |-> {16, 21, 25}],
      nodes |-> "/dev/vda" :> 3 @@ "/dev/vdb" :> 4],
     [kernel |-> [files |-> WithoutCFQ, pages |-> {21, 30}],
      nodes |-> "/dev/vda" :> 2 @@ "/dev/vdb" :> 3]}

MCHotplug == "02/01" :> "/dev/vda"
MCRefusals == {<<"memory.limit_in_bytes", "EBUSY">>}
=============================================================================
