------------------------------ MODULE ProtoOci ------------------------------
(**************************************************************************)
(* The messages of oci.proto, the OCI runtime specification on the wire,  *)
(* as the generated code reads and writes them (see ProtoAgent).          *)
(**************************************************************************)
EXTENDS ProtoFields

\* ---- oci.rs ----

Spec ==
  <<Str(1, "Version"), Msg(2, "Process", "Process"), Msg(3, "Root", "Root"),
    Str(4, "Hostname"), RepMsg(5, "Mounts", "Mount"),
    Msg(6, "Hooks", "Hooks"), MapStr(7, "Annotations"),
    Msg(8, "Linux", "Linux"), Msg(9, "Solaris", "Solaris"),
    Msg(10, "Windows", "Windows")>>

Process ==
  <<Bool(1, "Terminal"), Msg(2, "ConsoleSize", "Box"), Msg(3, "User", "User"),
    RepStr(4, "Args"), RepStr(5, "Env"), Str(6, "Cwd"),
    Msg(7, "Capabilities", "LinuxCapabilities"),
    RepMsg(8, "Rlimits", "POSIXRlimit"), Bool(9, "NoNewPrivileges"),
    Str(10, "ApparmorProfile"), I64(11, "OOMScoreAdj"),
    Str(12, "SelinuxLabel")>>

Box ==
  <<U32(1, "Height"), U32(2, "Width")>>

User ==
  <<U32(1, "UID"), U32(2, "GID"), RepU32(3, "AdditionalGids"),
    Str(4, "Username")>>

LinuxCapabilities ==
  <<RepStr(1, "Bounding"), RepStr(2, "Effective"), RepStr(3, "Inheritable"),
    RepStr(4, "Permitted"), RepStr(5, "Ambient")>>

POSIXRlimit ==
  <<Str(1, "Type"), U64(2, "Hard"), U64(3, "Soft")>>

Mount ==
  <<Str(1, "destination"), Str(2, "source"), Str(3, "field_type"),
    RepStr(4, "options")>>

Root ==
  <<Str(1, "Path"), Bool(2, "Readonly")>>

Hooks ==
  <<RepMsg(1, "Prestart", "Hook"), RepMsg(2, "Poststart", "Hook"),
    RepMsg(3, "Poststop", "Hook")>>

Hook ==
  <<Str(1, "Path"), RepStr(2, "Args"), RepStr(3, "Env"), I64(4, "Timeout")>>

Linux ==
  <<RepMsg(1, "UIDMappings", "LinuxIDMapping"),
    RepMsg(2, "GIDMappings", "LinuxIDMapping"), MapStr(3, "Sysctl"),
    Msg(4, "Resources", "LinuxResources"), Str(5, "CgroupsPath"),
    RepMsg(6, "Namespaces", "LinuxNamespace"),
    RepMsg(7, "Devices", "LinuxDevice"), Msg(8, "Seccomp", "LinuxSeccomp"),
    Str(9, "RootfsPropagation"), RepStr(10, "MaskedPaths"),
    RepStr(11, "ReadonlyPaths"), Str(12, "MountLabel"),
    Msg(13, "IntelRdt", "LinuxIntelRdt")>>

Windows ==
  <<Str(1, "dummy")>>

Solaris ==
  <<Str(1, "dummy")>>

LinuxIDMapping ==
  <<U32(1, "HostID"), U32(2, "ContainerID"), U32(3, "Size")>>

LinuxNamespace ==
  <<Str(1, "Type"), Str(2, "Path")>>

LinuxDevice ==
  <<Str(1, "Path"), Str(2, "Type"), I64(3, "Major"), I64(4, "Minor"),
    U32(5, "FileMode"), U32(6, "UID"), U32(7, "GID")>>

LinuxResources ==
  <<RepMsg(1, "Devices", "LinuxDeviceCgroup"),
    Msg(2, "Memory", "LinuxMemory"), Msg(3, "CPU", "LinuxCPU"),
    Msg(4, "Pids", "LinuxPids"), Msg(5, "BlockIO", "LinuxBlockIO"),
    RepMsg(6, "HugepageLimits", "LinuxHugepageLimit"),
    Msg(7, "Network", "LinuxNetwork")>>

LinuxMemory ==
  <<I64(1, "Limit"), I64(2, "Reservation"), I64(3, "Swap"), I64(4, "Kernel"),
    I64(5, "KernelTCP"), U64(6, "Swappiness"), Bool(7, "DisableOOMKiller")>>

LinuxCPU ==
  <<U64(1, "Shares"), I64(2, "Quota"), U64(3, "Period"),
    I64(4, "RealtimeRuntime"), U64(5, "RealtimePeriod"), Str(6, "Cpus"),
    Str(7, "Mems")>>

LinuxWeightDevice ==
  <<I64(1, "Major"), I64(2, "Minor"), U32(3, "Weight"), U32(4, "LeafWeight")>>

LinuxThrottleDevice ==
  <<I64(1, "Major"), I64(2, "Minor"), U64(3, "Rate")>>

LinuxBlockIO ==
  <<U32(1, "Weight"), U32(2, "LeafWeight"),
    RepMsg(3, "WeightDevice", "LinuxWeightDevice"),
    RepMsg(4, "ThrottleReadBpsDevice", "LinuxThrottleDevice"),
    RepMsg(5, "ThrottleWriteBpsDevice", "LinuxThrottleDevice"),
    RepMsg(6, "ThrottleReadIOPSDevice", "LinuxThrottleDevice"),
    RepMsg(7, "ThrottleWriteIOPSDevice", "LinuxThrottleDevice")>>

LinuxPids ==
  <<I64(1, "Limit")>>

LinuxDeviceCgroup ==
  <<Bool(1, "Allow"), Str(2, "Type"), I64(3, "Major"), I64(4, "Minor"),
    Str(5, "Access")>>

LinuxNetwork ==
  <<U32(1, "ClassID"), RepMsg(2, "Priorities", "LinuxInterfacePriority")>>

LinuxHugepageLimit ==
  <<Str(1, "Pagesize"), U64(2, "Limit")>>

LinuxInterfacePriority ==
  <<Str(1, "Name"), U32(2, "Priority")>>

LinuxSeccomp ==
  <<Str(1, "DefaultAction"), RepStr(2, "Architectures"),
    RepMsg(3, "Syscalls", "LinuxSyscall")>>

LinuxSeccompArg ==
  <<U64(1, "Index"), U64(2, "Value"), U64(3, "ValueTwo"), Str(4, "Op")>>

LinuxSyscall ==
  <<RepStr(1, "Names"), Str(2, "Action"),
    RepMsg(3, "Args", "LinuxSeccompArg")>>

LinuxIntelRdt ==
  <<Str(1, "L3CacheSchema")>>

\* The messages by name, for the fields that refer to one another.
Schemas ==
  [Spec |-> Spec, Process |-> Process, Box |-> Box, User |-> User,
   LinuxCapabilities |-> LinuxCapabilities, POSIXRlimit |-> POSIXRlimit,
   Mount |-> Mount, Root |-> Root, Hooks |-> Hooks, Hook |-> Hook,
   Linux |-> Linux, Windows |-> Windows, Solaris |-> Solaris,
   LinuxIDMapping |-> LinuxIDMapping, LinuxNamespace |-> LinuxNamespace,
   LinuxDevice |-> LinuxDevice, LinuxResources |-> LinuxResources,
   LinuxMemory |-> LinuxMemory, LinuxCPU |-> LinuxCPU,
   LinuxWeightDevice |-> LinuxWeightDevice,
   LinuxThrottleDevice |-> LinuxThrottleDevice,
   LinuxBlockIO |-> LinuxBlockIO, LinuxPids |-> LinuxPids,
   LinuxDeviceCgroup |-> LinuxDeviceCgroup, LinuxNetwork |-> LinuxNetwork,
   LinuxHugepageLimit |-> LinuxHugepageLimit,
   LinuxInterfacePriority |-> LinuxInterfacePriority,
   LinuxSeccomp |-> LinuxSeccomp, LinuxSeccompArg |-> LinuxSeccompArg,
   LinuxSyscall |-> LinuxSyscall, LinuxIntelRdt |-> LinuxIntelRdt]
============================================================================
