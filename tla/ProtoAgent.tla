------------------------------ MODULE ProtoAgent ------------------------------
(**************************************************************************)
(* The messages of agent.proto, types.proto, health.proto and empty.proto *)
(* as the generated code reads and writes them: the fields in the order   *)
(* in which they are written, each with its number, its name and its      *)
(* kind, which decide the reader that merge_from calls, the size that     *)
(* compute_size adds and the writer that write_to_with_cached_sizes       *)
(* calls. The accessors of a field (get, set, take, has, mut, clear) are  *)
(* the access to the record's field.                                      *)
(**************************************************************************)
EXTENDS ProtoFields

\* ---- agent.rs ----

CreateContainerRequest ==
  <<Str(1, "container_id"), Str(2, "exec_id"),
    Msg(3, "string_user", "StringUser"), RepMsg(4, "devices", "Device"),
    RepMsg(5, "storages", "Storage"), Msg(6, "OCI", "Spec"),
    Bool(7, "sandbox_pidns")>>

StartContainerRequest ==
  <<Str(1, "container_id")>>

RemoveContainerRequest ==
  <<Str(1, "container_id"), U32(2, "timeout")>>

ExecProcessRequest ==
  <<Str(1, "container_id"), Str(2, "exec_id"),
    Msg(3, "string_user", "StringUser"), Msg(4, "process", "Process")>>

SignalProcessRequest ==
  <<Str(1, "container_id"), Str(2, "exec_id"), U32(3, "signal")>>

WaitProcessRequest ==
  <<Str(1, "container_id"), Str(2, "exec_id")>>

WaitProcessResponse ==
  <<I32(1, "status")>>

ListProcessesRequest ==
  <<Str(1, "container_id"), Str(2, "format"), RepStr(3, "args")>>

ListProcessesResponse ==
  <<Byt(1, "process_list")>>

UpdateContainerRequest ==
  <<Str(1, "container_id"), Msg(2, "resources", "LinuxResources")>>

StatsContainerRequest ==
  <<Str(1, "container_id")>>

PauseContainerRequest ==
  <<Str(1, "container_id")>>

ResumeContainerRequest ==
  <<Str(1, "container_id")>>

CpuUsage ==
  <<U64(1, "total_usage"), RepU64(2, "percpu_usage"),
    U64(3, "usage_in_kernelmode"), U64(4, "usage_in_usermode")>>

ThrottlingData ==
  <<U64(1, "periods"), U64(2, "throttled_periods"), U64(3, "throttled_time")>>

CpuStats ==
  <<Msg(1, "cpu_usage", "CpuUsage"),
    Msg(2, "throttling_data", "ThrottlingData")>>

PidsStats ==
  <<U64(1, "current"), U64(2, "limit")>>

MemoryData ==
  <<U64(1, "usage"), U64(2, "max_usage"), U64(3, "failcnt"), U64(4, "limit")>>

MemoryStats ==
  <<U64(1, "cache"), Msg(2, "usage", "MemoryData"),
    Msg(3, "swap_usage", "MemoryData"), Msg(4, "kernel_usage", "MemoryData"),
    Bool(5, "use_hierarchy"), MapU64(6, "stats")>>

BlkioStatsEntry ==
  <<U64(1, "major"), U64(2, "minor"), Str(3, "op"), U64(4, "value")>>

BlkioStats ==
  <<RepMsg(1, "io_service_bytes_recursive", "BlkioStatsEntry"),
    RepMsg(2, "io_serviced_recursive", "BlkioStatsEntry"),
    RepMsg(3, "io_queued_recursive", "BlkioStatsEntry"),
    RepMsg(4, "io_service_time_recursive", "BlkioStatsEntry"),
    RepMsg(5, "io_wait_time_recursive", "BlkioStatsEntry"),
    RepMsg(6, "io_merged_recursive", "BlkioStatsEntry"),
    RepMsg(7, "io_time_recursive", "BlkioStatsEntry"),
    RepMsg(8, "sectors_recursive", "BlkioStatsEntry")>>

HugetlbStats ==
  <<U64(1, "usage"), U64(2, "max_usage"), U64(3, "failcnt")>>

CgroupStats ==
  <<Msg(1, "cpu_stats", "CpuStats"), Msg(2, "memory_stats", "MemoryStats"),
    Msg(3, "pids_stats", "PidsStats"), Msg(4, "blkio_stats", "BlkioStats"),
    MapMsg(5, "hugetlb_stats", "HugetlbStats")>>

NetworkStats ==
  <<Str(1, "name"), U64(2, "rx_bytes"), U64(3, "rx_packets"),
    U64(4, "rx_errors"), U64(5, "rx_dropped"), U64(6, "tx_bytes"),
    U64(7, "tx_packets"), U64(8, "tx_errors"), U64(9, "tx_dropped")>>

StatsContainerResponse ==
  <<Msg(1, "cgroup_stats", "CgroupStats"),
    RepMsg(2, "network_stats", "NetworkStats")>>

WriteStreamRequest ==
  <<Str(1, "container_id"), Str(2, "exec_id"), Byt(3, "data")>>

WriteStreamResponse ==
  <<U32(1, "len")>>

ReadStreamRequest ==
  <<Str(1, "container_id"), Str(2, "exec_id"), U32(3, "len")>>

ReadStreamResponse ==
  <<Byt(1, "data")>>

CloseStdinRequest ==
  <<Str(1, "container_id"), Str(2, "exec_id")>>

TtyWinResizeRequest ==
  <<Str(1, "container_id"), Str(2, "exec_id"), U32(3, "row"),
    U32(4, "column")>>

CreateSandboxRequest ==
  <<Str(1, "hostname"), RepStr(2, "dns"), RepMsg(3, "storages", "Storage"),
    Bool(4, "sandbox_pidns"), Str(5, "sandbox_id"),
    Str(6, "guest_hook_path")>>

DestroySandboxRequest == NoFields

Interfaces ==
  <<RepMsg(1, "Interfaces", "Interface")>>

Routes ==
  <<RepMsg(1, "Routes", "Route")>>

UpdateInterfaceRequest ==
  <<Msg(1, "interface", "Interface")>>

UpdateRoutesRequest ==
  <<Msg(1, "routes", "Routes")>>

ListInterfacesRequest == NoFields

ListRoutesRequest == NoFields

OnlineCPUMemRequest ==
  <<Bool(1, "wait"), U32(2, "nb_cpus"), Bool(3, "cpu_only")>>

ReseedRandomDevRequest ==
  <<Byt(2, "data")>>

AgentDetails ==
  <<Str(1, "version"), Bool(2, "init_daemon"), RepStr(3, "device_handlers"),
    RepStr(4, "storage_handlers"), Bool(5, "supports_seccomp")>>

GuestDetailsRequest ==
  <<Bool(1, "mem_block_size"), Bool(2, "mem_hotplug_probe")>>

GuestDetailsResponse ==
  <<U64(1, "mem_block_size_bytes"), Msg(2, "agent_details", "AgentDetails"),
    Bool(3, "support_mem_hotplug_probe")>>

MemHotplugByProbeRequest ==
  <<RepU64(1, "memHotplugProbeAddr")>>

SetGuestDateTimeRequest ==
  <<I64(1, "Sec"), I64(2, "Usec")>>

Storage ==
  <<Str(1, "driver"), RepStr(2, "driver_options"), Str(3, "source"),
    Str(4, "fstype"), RepStr(5, "options"), Str(6, "mount_point")>>

Device ==
  <<Str(1, "id"), Str(2, "field_type"), Str(3, "vm_path"),
    Str(4, "container_path"), RepStr(5, "options")>>

StringUser ==
  <<Str(1, "uid"), Str(2, "gid"), RepStr(3, "additionalGids")>>

CopyFileRequest ==
  <<Str(1, "path"), I64(2, "file_size"), U32(3, "file_mode"),
    U32(4, "dir_mode"), I32(5, "uid"), I32(6, "gid"), I64(7, "offset"),
    Byt(8, "data")>>

StartTracingRequest == NoFields

StopTracingRequest == NoFields

\* ---- types.rs ----

IPAddress ==
  <<Enum(1, "family"), Str(2, "address"), Str(3, "mask")>>

Interface ==
  <<Str(1, "device"), Str(2, "name"), RepMsg(3, "IPAddresses", "IPAddress"),
    U64(4, "mtu"), Str(5, "hwAddr"), Str(6, "pciAddr"), Str(7, "field_type"),
    U32(8, "raw_flags")>>

Route ==
  <<Str(1, "dest"), Str(2, "gateway"), Str(3, "device"), Str(4, "source"),
    U32(5, "scope")>>

\* ---- health.rs ----

CheckRequest ==
  <<Str(1, "service")>>

HealthCheckResponse ==
  <<Enum(1, "status")>>

VersionCheckResponse ==
  <<Str(1, "grpc_version"), Str(2, "agent_version")>>

\* ---- empty.rs ----

Empty == NoFields

\* The messages by name, for the fields that refer to one another.
Schemas ==
  [CreateContainerRequest |-> CreateContainerRequest,
   StartContainerRequest |-> StartContainerRequest,
   RemoveContainerRequest |-> RemoveContainerRequest,
   ExecProcessRequest |-> ExecProcessRequest,
   SignalProcessRequest |-> SignalProcessRequest,
   WaitProcessRequest |-> WaitProcessRequest,
   WaitProcessResponse |-> WaitProcessResponse,
   ListProcessesRequest |-> ListProcessesRequest,
   ListProcessesResponse |-> ListProcessesResponse,
   UpdateContainerRequest |-> UpdateContainerRequest,
   StatsContainerRequest |-> StatsContainerRequest,
   PauseContainerRequest |-> PauseContainerRequest,
   ResumeContainerRequest |-> ResumeContainerRequest,
   CpuUsage |-> CpuUsage, ThrottlingData |-> ThrottlingData,
   CpuStats |-> CpuStats, PidsStats |-> PidsStats,
   MemoryData |-> MemoryData, MemoryStats |-> MemoryStats,
   BlkioStatsEntry |-> BlkioStatsEntry, BlkioStats |-> BlkioStats,
   HugetlbStats |-> HugetlbStats, CgroupStats |-> CgroupStats,
   NetworkStats |-> NetworkStats,
   StatsContainerResponse |-> StatsContainerResponse,
   WriteStreamRequest |-> WriteStreamRequest,
   WriteStreamResponse |-> WriteStreamResponse,
   ReadStreamRequest |-> ReadStreamRequest,
   ReadStreamResponse |-> ReadStreamResponse,
   CloseStdinRequest |-> CloseStdinRequest,
   TtyWinResizeRequest |-> TtyWinResizeRequest,
   CreateSandboxRequest |-> CreateSandboxRequest,
   DestroySandboxRequest |-> DestroySandboxRequest,
   Interfaces |-> Interfaces, Routes |-> Routes,
   UpdateInterfaceRequest |-> UpdateInterfaceRequest,
   UpdateRoutesRequest |-> UpdateRoutesRequest,
   ListInterfacesRequest |-> ListInterfacesRequest,
   ListRoutesRequest |-> ListRoutesRequest,
   OnlineCPUMemRequest |-> OnlineCPUMemRequest,
   ReseedRandomDevRequest |-> ReseedRandomDevRequest,
   AgentDetails |-> AgentDetails,
   GuestDetailsRequest |-> GuestDetailsRequest,
   GuestDetailsResponse |-> GuestDetailsResponse,
   MemHotplugByProbeRequest |-> MemHotplugByProbeRequest,
   SetGuestDateTimeRequest |-> SetGuestDateTimeRequest,
   Storage |-> Storage, Device |-> Device, StringUser |-> StringUser,
   CopyFileRequest |-> CopyFileRequest,
   StartTracingRequest |-> StartTracingRequest,
   StopTracingRequest |-> StopTracingRequest, IPAddress |-> IPAddress,
   Interface |-> Interface, Route |-> Route, CheckRequest |-> CheckRequest,
   HealthCheckResponse |-> HealthCheckResponse,
   VersionCheckResponse |-> VersionCheckResponse, Empty |-> Empty]
============================================================================
