------------------------------ MODULE OciTypes ------------------------------
(***************************************************************************)
(* The structs of the oci crate with their serde attributes: for every     *)
(* field its JSON key, the kind of its type and the struct in it, and how  *)
(* it is left out and filled in.                                           *)
(*   Sparse    default, skip_serializing_if: left out when empty           *)
(*   Kept      default: always written, filled in when missing             *)
(*   Omitted   skip_serializing_if, no default: an Option, filled in       *)
(*             with None when missing                                      *)
(*   Required  neither: always written, an error when missing              *)
(***************************************************************************)
Attr(key, kind, of, skip, default) ==
  [key |-> key, kind |-> kind, of |-> of, skip |-> skip, default |-> default]

Sparse(key, kind, of)   == Attr(key, kind, of, TRUE, TRUE)
Kept(key, kind, of)     == Attr(key, kind, of, FALSE, TRUE)
Omitted(key, kind, of)  == Attr(key, kind, of, TRUE, FALSE)
Required(key, kind, of) == Attr(key, kind, of, FALSE, FALSE)

Spec ==
  [version |-> Sparse("ociVersion", "text", ""),
   process |-> Sparse("process", "option", "Process"),
   root |-> Sparse("root", "option", "Root"),
   hostname |-> Sparse("hostname", "text", ""),
   mounts |-> Sparse("mounts", "vec", "Mount"),
   hooks |-> Sparse("hooks", "option", "Hooks"),
   annotations |-> Sparse("annotations", "map", ""),
   linux |-> Omitted("linux", "option", "Linux"),
   solaris |-> Omitted("solaris", "option", ""),
   windows |-> Omitted("windows", "option", ""),
   vm |-> Omitted("vm", "option", "")]

Process ==
  [terminal |-> Kept("terminal", "flag", ""),
   console_size |-> Sparse("consoleSize", "option", "Box"),
   user |-> Required("user", "struct", "User"),
   args |-> Sparse("args", "vec", ""), env |-> Sparse("env", "vec", ""),
   cwd |-> Sparse("cwd", "text", ""),
   capabilities |-> Sparse("capabilities", "option", "LinuxCapabilities"),
   rlimits |-> Sparse("rlimits", "vec", "POSIXRlimit"),
   no_new_privileges |-> Kept("noNewPrivileges", "flag", ""),
   apparmor_profile |-> Sparse("apparmorProfile", "text", ""),
   oom_score_adj |-> Sparse("oomScoreAdj", "option", ""),
   selinux_label |-> Sparse("selinuxLabel", "text", "")]

LinuxCapabilities ==
  [bounding |-> Sparse("bounding", "vec", ""),
   effective |-> Sparse("effective", "vec", ""),
   inheritable |-> Sparse("inheritable", "vec", ""),
   permitted |-> Sparse("permitted", "vec", ""),
   ambient |-> Sparse("ambient", "vec", "")]

Box ==
  [height |-> Kept("height", "number", ""),
   width |-> Kept("width", "number", "")]

User ==
  [uid |-> Kept("uid", "number", ""), gid |-> Kept("gid", "number", ""),
   additional_gids |-> Sparse("addtionalGids", "vec", ""),
   username |-> Sparse("username", "text", "")]

Root ==
  [path |-> Sparse("path", "text", ""),
   readonly |-> Kept("readonly", "flag", "")]

Mount ==
  [destination |-> Kept("destination", "text", ""),
   type |-> Sparse("type", "text", ""),
   source |-> Sparse("source", "text", ""),
   options |-> Sparse("options", "vec", "")]

Hook ==
  [path |-> Sparse("path", "text", ""), args |-> Sparse("args", "vec", ""),
   env |-> Sparse("env", "vec", ""),
   timeout |-> Sparse("timeout", "option", "")]

\* Mutation: the key of one list of hooks is copied to the next.
HooksWithOneKey ==
  [prestart |-> Sparse("prestart", "vec", "Hook"),
   poststart |-> Sparse("poststart", "vec", "Hook"),
   poststop |-> Sparse("poststart", "vec", "Hook")]

Hooks ==
  [prestart |-> Sparse("prestart", "vec", "Hook"),
   poststart |-> Sparse("poststart", "vec", "Hook"),
   poststop |-> Sparse("poststop", "vec", "Hook")]

Linux ==
  [uid_mappings |-> Sparse("uidMappings", "vec", "LinuxIDMapping"),
   gid_mappings |-> Sparse("gidMappings", "vec", "LinuxIDMapping"),
   sysctl |-> Sparse("sysctl", "map", ""),
   resources |-> Sparse("resources", "option", "LinuxResources"),
   cgroups_path |-> Sparse("cgroupsPath", "text", ""),
   namespaces |-> Sparse("namespaces", "vec", "LinuxNamespace"),
   devices |-> Sparse("devices", "vec", "LinuxDevice"),
   seccomp |-> Sparse("seccomp", "option", "LinuxSeccomp"),
   rootfs_propagation |-> Sparse("rootfsPropagation", "text", ""),
   masked_paths |-> Sparse("maskedPaths", "vec", ""),
   readonly_paths |-> Sparse("readonlyPaths", "vec", ""),
   mount_label |-> Sparse("mountLabel", "text", ""),
   intel_rdt |-> Sparse("intelRdt", "option", "LinuxIntelRdt")]

LinuxNamespace ==
  [type |-> Sparse("type", "text", ""), path |-> Sparse("path", "text", "")]

LinuxIDMapping ==
  [container_id |-> Kept("containerID", "number", ""),
   host_id |-> Kept("hostID", "number", ""),
   size |-> Kept("size", "number", "")]

POSIXRlimit ==
  [type |-> Kept("type", "text", ""), hard |-> Kept("hard", "number", ""),
   soft |-> Kept("soft", "number", "")]

LinuxHugepageLimit ==
  [page_size |-> Sparse("pageSize", "text", ""),
   limit |-> Kept("limit", "number", "")]

LinuxInterfacePriority ==
  [name |-> Sparse("name", "text", ""),
   priority |-> Kept("priority", "number", "")]

LinuxBlockIODevice ==
  [major |-> Kept("major", "number", ""),
   minor |-> Kept("minor", "number", "")]

LinuxWeightDevice ==
  [blk |-> Required("blk", "struct", "LinuxBlockIODevice"),
   weight |-> Sparse("weight", "option", ""),
   leaf_weight |-> Sparse("leafWeight", "option", "")]

LinuxThrottleDevice ==
  [blk |-> Required("blk", "struct", "LinuxBlockIODevice"),
   rate |-> Kept("rate", "number", "")]

LinuxBlockIO ==
  [weight |-> Sparse("weight", "option", ""),
   leaf_weight |-> Sparse("leafWeight", "option", ""),
   weight_device |-> Sparse("weightDevice", "vec", "LinuxWeightDevice"),
   throttle_read_bps_device |-> Sparse("throttleReadBpsDevice", "vec", "LinuxThrottleDevice"),
   throttle_write_bps_device |-> Sparse("throttleWriteBpsDevice", "vec", "LinuxThrottleDevice"),
   throttle_read_iops_device |-> Sparse("throttleReadIOPSDevice", "vec", "LinuxThrottleDevice"),
   throttle_write_iops_device |-> Sparse("throttleWriteIOPSDevice", "vec", "LinuxThrottleDevice")]

LinuxMemory ==
  [limit |-> Sparse("limit", "option", ""),
   reservation |-> Sparse("reservation", "option", ""),
   swap |-> Sparse("swap", "option", ""),
   kernel |-> Sparse("kernel", "option", ""),
   kernel_tcp |-> Sparse("kernelTCP", "option", ""),
   swapiness |-> Sparse("swapiness", "option", ""),
   disable_oom_killer |-> Sparse("disableOOMKiller", "option", "")]

LinuxCPU ==
  [shares |-> Sparse("shares", "option", ""),
   quota |-> Sparse("quota", "option", ""),
   period |-> Sparse("period", "option", ""),
   realtime_runtime |-> Sparse("realtimeRuntime", "option", ""),
   realtime_period |-> Sparse("realtimePeriod", "option", ""),
   cpus |-> Sparse("cpus", "text", ""), mems |-> Sparse("mems", "text", "")]

LinuxPids ==
  [limit |-> Kept("limit", "number", "")]

LinuxNetwork ==
  [class_id |-> Sparse("classID", "option", ""),
   priorities |-> Sparse("priorities", "vec", "LinuxInterfacePriority")]

LinuxResources ==
  [devices |-> Sparse("devices", "vec", "LinuxDeviceCgroup"),
   memory |-> Sparse("memory", "option", "LinuxMemory"),
   cpu |-> Sparse("cpu", "option", "LinuxCPU"),
   pids |-> Sparse("pids", "option", "LinuxPids"),
   block_io |-> Omitted("blockIO", "option", "LinuxBlockIO"),
   hugepage_limits |-> Sparse("hugepageLimits", "vec", "LinuxHugepageLimit"),
   network |-> Sparse("network", "option", "LinuxNetwork"),
   rdma |-> Sparse("rdma", "map", "")]

LinuxDevice ==
  [path |-> Sparse("path", "text", ""), type |-> Sparse("type", "text", ""),
   major |-> Kept("major", "number", ""),
   minor |-> Kept("minor", "number", ""),
   file_mode |-> Sparse("fileMode", "option", ""),
   uid |-> Sparse("uid", "option", ""), gid |-> Sparse("gid", "option", "")]

LinuxDeviceCgroup ==
  [allow |-> Kept("allow", "flag", ""), type |-> Sparse("type", "text", ""),
   major |-> Sparse("major", "option", ""),
   minor |-> Sparse("minor", "option", ""),
   access |-> Sparse("access", "text", "")]

LinuxSeccomp ==
  [default_action |-> Kept("defaultAction", "text", ""),
   architectures |-> Sparse("architectures", "vec", ""),
   syscalls |-> Sparse("syscalls", "vec", "LinuxSyscall")]

LinuxSeccompArg ==
  [index |-> Kept("index", "number", ""),
   value |-> Kept("value", "number", ""),
   value_two |-> Kept("valueTwo", "number", ""), op |-> Kept("op", "text", "")]

LinuxSyscall ==
  [names |-> Sparse("names", "vec", ""),
   action |-> Sparse("action", "text", ""),
   args |-> Sparse("args", "vec", "LinuxSeccompArg")]

LinuxIntelRdt ==
  [l3_cache_schema |-> Sparse("l3CacheSchema", "text", "")]

\* The structs by name.
Structs ==
  [Spec |-> Spec, Process |-> Process,
   LinuxCapabilities |-> LinuxCapabilities, Box |-> Box, User |-> User,
   Root |-> Root, Mount |-> Mount, Hook |-> Hook, Hooks |-> Hooks,
   Linux |-> Linux, LinuxNamespace |-> LinuxNamespace,
   LinuxIDMapping |-> LinuxIDMapping, POSIXRlimit |-> POSIXRlimit,
   LinuxHugepageLimit |-> LinuxHugepageLimit,
   LinuxInterfacePriority |-> LinuxInterfacePriority,
   LinuxBlockIODevice |-> LinuxBlockIODevice,
   LinuxWeightDevice |-> LinuxWeightDevice,
   LinuxThrottleDevice |-> LinuxThrottleDevice,
   LinuxBlockIO |-> LinuxBlockIO, LinuxMemory |-> LinuxMemory,
   LinuxCPU |-> LinuxCPU, LinuxPids |-> LinuxPids,
   LinuxNetwork |-> LinuxNetwork, LinuxResources |-> LinuxResources,
   LinuxDevice |-> LinuxDevice, LinuxDeviceCgroup |-> LinuxDeviceCgroup,
   LinuxSeccomp |-> LinuxSeccomp, LinuxSeccompArg |-> LinuxSeccompArg,
   LinuxSyscall |-> LinuxSyscall, LinuxIntelRdt |-> LinuxIntelRdt]
=============================================================================
