# A TLA+ verification of the Kata agent in Rust

The agent runs inside the virtual machine of a pod. The runtime on the host
asks it over gRPC to set up the sandbox, to create, start, signal, wait for and
remove containers, and to bring devices, storages and the network into place.
It is a multi-threaded program around one big mutex, it forks while other
threads run, it talks to half-set-up children over pipes, and it learns about
devices and exits of processes from the kernel asynchronously. What it is asked
for comes as protobuf messages, which it decodes, converts and validates, and what
comes of them are namespaces, mounts, cgroup files, routes and descriptors. These
modules are about both: the concurrency, and what the requests are turned into.

- [1. Inventory](#1-inventory)
- [2. Modules](#2-modules)
- [3. Runs](#3-runs)
- [4. Proofs](#4-proofs)
- [5. What is not modelled](#5-what-is-not-modelled)
- [6. Plan](#6-plan)

`PROJECT.json` holds the machine-readable side: components, runs, mutants, the
map from definitions to source lines, findings, hazards and theorems.

## 1. Inventory

### Components, state, operations

| part | source | state it keeps | operations |
| --- | --- | --- | --- |
| gRPC service | `src/src/grpc.rs` | none of its own; every handler locks the `Sandbox` | the requests of `agent.proto` |
| sandbox | `src/src/sandbox.rs` | `containers`, `container_mounts`, `mounts`, `storages` (reference counts), `pci_device_map`, `sender`, shared namespaces, routes and interfaces | lookups, reference counting, `destroy`, `online_cpu_memory` |
| containers and processes | `src/rustjail/src/container.rs`, `process.rs` | `LinuxContainer`: status, init pid, `processes`, cgroup manager; `Process`: pid, exec id, exit code, exit pipe, stdio; on disk, the directory with `exec.fifo` | `start`, `run`, `exec`, `destroy`, `signal` |
| process set-up | `container.rs`: `join_namespaces`, `setup_stdio`, `execute_hook` | three pipes between agent, child and final process | the handshake, hooks, namespaces, cgroup |
| child reaper | `src/src/main.rs`: `setup_signal_handler` | the SIGCHLD it waits for | `waitpid` loop, exit code and exit pipe of the process |
| uevent listener | `src/src/uevent.rs` | netlink socket; shares `GLOBAL_DEVICE_WATCHER` and `pci_device_map` | receive, record, notify |
| devices | `src/src/device.rs` | `GLOBAL_DEVICE_WATCHER` | `get_device_name`, `add_devices`, `update_spec_device_list` |
| storages and mounts | `src/src/mount.rs` | kernel mount table | `add_storages` and its handlers, `remove_mounts`, guest mounts at boot |
| root file system of a container | `src/rustjail/src/mount.rs` | mounts inside the new namespace | `init_rootfs`, `pivot_rootfs`, devices, masked and read-only paths |
| cgroups | `src/rustjail/src/cgroups/` | cgroup directories | `apply`, `set`, `get_stats`, `freeze`, `update_cpuset_path` |
| network | `src/src/netlink.rs`, `network.rs` | kernel links, addresses, routes | `update_interface`, `list_interfaces`, `update_routes`, `list_routes` |
| streams | `src/src/grpc.rs`, `process.rs` | the descriptors in `Process`: `parent_stdin`, `parent_stdout`, `parent_stderr`, `term_master` | `WriteStdin`, `ReadStdout`, `ReadStderr`, `CloseStdin`, `TtyWinResize` |
| file copy | `src/src/grpc.rs` | files, and temporary files beside them | `CopyFile` |
| protocol | `src/protocols/` | none | reading and writing of the messages |
| spec | `src/rustjail/src/validator.rs`, `specconv.rs`, `lib.rs`, `src/oci/` | `config.json` in the bundle | validation, conversions, `save` |
| namespaces of the sandbox | `src/src/namespace.rs` | bind-mounted namespaces | `setup_persistent_ns` |
| boot | `src/src/main.rs` | none | mounts, cmdline, logger, console, server |

### How they interact

* **One mutex.** Every request handler, the reaper and the listener lock the same
  `Arc<Mutex<Sandbox>>` with `lock().unwrap()`. A thread that panics while it
  holds the mutex *poisons* it: all later `lock().unwrap()` panic too, so one
  panic inside a critical section stops the agent from serving anything.
* **Blocking inside the mutex.** `CreateContainer` and `ExecProcess` hold it
  through fork and handshake, `StartContainer` while it opens the exec fifo,
  `ListProcesses` while `ps` runs.
* **Two critical sections.** `WaitProcess` looks the process up, gives the mutex
  back, blocks on the exit pipe and locks again; `RemoveContainer` with a timeout
  destroys in a thread of its own and removes in a second critical section.
* **The exit pipe.** Each process has a pipe whose write end the agent keeps. The
  reaper closes it when it has collected the process, and `WaitProcess` sees the
  end of file - once *every* copy of the write end is closed, the ones that forked
  children have inherited included.
* **The exec fifo.** An init process blocks on `exec.fifo` until `StartContainer`
  opens it. The existence of the file is also the only guard against two
  containers with one id.
* **The handshake.** Agent, child and final process exchange untagged words over
  three pipes; child and final process share one of them.
* **The device watcher.** A request that needs a hotplugged device looks into
  `pci_device_map` and, if it is not there, registers a channel; the listener
  records a device and then notifies. Both take the watcher mutex and then the
  sandbox mutex. The wait has a time-out.
* **Descriptors by number.** `ReadStdout` takes the number of a descriptor under the
  mutex and reads after giving it back; the kernel hands out the lowest free number.
  `WriteStdin` blocks on a full pipe with the mutex held.
* **The specification's way.** A message is decoded (`ProtoWire`), its devices are
  renumbered (`SpecDevices`), its namespaces become the sandbox's
  (`update_container_namespaces`), it is converted and saved for the hooks
  (`SpecConversion`), validated (`SpecValidation`), and then carried out by three
  processes in the middle of their handshake (`ContainerStart`) and by the cgroup
  manager (`ContainerResources`).
* **Cpus.** Containers copy the cpuset of the directory they have in common when
  they are made; `OnlineCPUMem` walks down from it to every container.
* **Reference counts.** Ephemeral and local storages are shared between the
  containers of a sandbox and counted in `Sandbox.storages`.
* **The netlink handle.** The network requests share one rtnetlink socket,
  `Sandbox.rtnl`, and hold the sandbox mutex throughout. A dump skips answers that
  carry another sequence number; all other messages take the next answer there is.

### What is hard

The hazards, with the line each bites at, are listed in `PROJECT.json`. In
groups:

* *interleaving*: an exit before `start()` has filled the process table; a uevent
  between lookup and registration; two requests for one shared storage;
  the reaper's `waitpid(-1)` against `ps` and hooks;
* *stale state*: what `WaitProcess` read in its first critical section; what a
  removal with a timeout destroyed before it removes;
* *liveness*: waiters woken by the last close of a pipe; coalescing SIGCHLDs;
  StartContainer blocking on a fifo with the mutex held; agent, child and final
  process waiting for each other;
* *unreliable delivery and time-outs*: an overrun netlink socket; the time-out of
  `get_device_name` against the event; the late thread of a timed-out removal;
* *stale answers*: what a network request that gave up left in the shared socket;
* *partial failure*: an update of the network or of limits that fails half-way, a
  `kill` that fails half-way through a container, a mount that fails after its count
  went up, a copy that fails and is tried again, a handshake one side gives up;
* *order*: mounts that hide each other, flags that need a second mount, devices
  before `/dev` becomes read-only, numbers replaced one device at a time;
* *checked here, used there*: sysctls validated when the container is made and
  written by another process after it has entered its namespaces;
* *many similar fields*: a few hundred fields decoded, sized and copied by hand or by
  a generator.

### What correct means, per part

| part | properties |
| --- | --- |
| processes | no exit is lost (`ExitRecorded`), `WaitProcess` answers after the exit and with its real code (`WaitExact`), what the agent forgets has been killed (`NoSurvivor`), containers are not replaced (`NeverReplaced`), waiters are woken (`WaiterWoken`), the mutex comes back (`MutexReleased`), a waiter finds its process again after its read (`WaitFindsAgain`); all together, what `WaitService` promises (`ImplementsWaitService`, `AnswersEveryWait`) |
| reaper | every zombie is collected (`ZombiesCollected`) |
| set-up | the agent has the pid of the right process (`RightPid`), no word reaches the wrong reader (`WordsNotMixedUp`), limits hold from the first instruction (`AlwaysInCgroup`), everybody gets to the end (`StartReturns`, `FinalGetsThere`), the program finds its namespaces, mounts and devices as the specification says (`SetUpAsSpecified`), and the agent's own stay as they are (`AgentUntouched`) |
| streams | a descriptor is used for the process it belongs to, closed once, and forgotten only when a start fails or a process is removed before it is waited for (`OwnDescriptors`), output and input are exact (`OutputExact`, `InputExact`), a read that can be answered is, and a write ends unless its process has stopped reading (`RequestsFinish`) |
| file copy | an attempt that finds a temporary file shorter than its content replaces the destination by the whole of that content (`CopiesWhole`) |
| resources | statistics have the limits asked for, in whole pages, and fail for the listed reasons only (`StatsTrue`), new cpus reach all containers (`GuestCpusReached`), access follows the devices to their new numbers (`DevicesFollow`) |
| protocol, spec | a message is read as it was sent (`ReadsWhatWasSent`), its size is right (`SizeExact`), the conversion keeps exactly what a specification can hold (`SpecKept`) and `config.json` reads back (`ConfigReadBack`) |
| hotplug | no event is missed (`NoMissedEvent`), no sender is left behind (`NoLeakedWatcher`), one answer per call (`NotifiedOnce`), every call returns (`CallReturns`) |
| storages | mounted once (`MountedOnce`), counted (`CountCoversUsers`), there for its users (`MountedForUsers`), gone after the removal (`NoLeftover`) |
| network | no answer is taken for another's (`OwnAnswers`), a successful update has replaced addresses and name (`InterfaceReplaced`) or routes (`RoutesReplaced`), an update the kernel could grant succeeds (`ConsistentSucceeds`) |

## 2. Modules

### AgentProcesses

The life of containers and processes: the threads of the gRPC server
(`Workers`), the reaper, the children, and as much of the kernel as the agent
sees.

* *State.* `lock` and `poisoned` are the sandbox mutex; `status`, `initPid`,
  `table`, `exitCode` and `sender` are the fields of `Sandbox`, `LinuxContainer`
  and `Process`; `fifo` is the set of containers with an `exec.fifo`. On the
  kernel's side `run` is the state of each child (`setup`, `fifo`, `go`, `run`,
  `stuck`, `zombie`, `gone`), `died` what it exited with, `pending` the fatal
  signal on its way, `writers` who holds a write end of its exit pipe.
* *Granularity.* A critical section without a blocking call is one step. A fork,
  the open of the fifo, the wait for `ps` and the read of the exit pipe each
  split the request: `CreateForks` - `SpawnSucceeds`, `StartOpens` -
  `StartWrites`, `ListForks` - `ListCollects`, `WaitFinds` - `WaitReads` -
  `WaitReturns`, `RemoveSpawns` - `HelperDestroys` - `RemoveAfterJoin`. Between
  two steps anybody else may run who does not need the mutex.
* *Failures.* A request refused, a set-up that fails before or after the fork
  (the child is then `stuck`: it waits for a word that never comes), `kill` that
  fails for a process collected and not waited for, hooks that fail, unmounts
  that fail, the poisoned mutex, and the `unwrap()` panics that poison it:
  `SignalPanics` (a signal number nix does not know, grpc.rs:297), `CreatePanics`
  (a specification without a process, or a root without a parent, grpc.rs:1767),
  `ListPanics`, `ListLosesRace`, `RemovePanics`, `HelperPanics`, `WaitReturns` for a
  process that has left the table, `DestroySandbox` for a second time.
* *Fork and exec.* `Inherited` copies every write end the agent has to the new
  process; `Without` drops them at exec and exit, as `O_CLOEXEC` does.
* `Ops` names the requests the runtime sends, so a run can concentrate on some of
  them. `CreateIncomplete` and `SignalUnknown` are the creations and signals that
  panic. `Orderly` restricts when they are sent and what goes wrong: a container is
  started once and only while its init process lives, a process is waited for once,
  a container that is removed exists, and no set-up fails. Both are constants;
  theorems that need a restriction say so.
* Pids are not reused (`Pids` is handed out once). `died` holds the exit code or
  the signal, as main.rs stores either in `exit_code`.

### WaitService, AgentWaitService

`WaitService` is what the agent promises those who wait for a process, without
threads, pipes, reaper or mutex: processes become known, exit with one code, are
waited for, answered with that code and forgotten. `AgentWaitService` maps
`AgentProcesses` to it: the known processes are those in the tables, a client
waits from the first critical section of `do_wait_process` to the second, and
the service is down when the mutex is poisoned. `ImplementsWaitService` is its
specification without fairness. `AnswersEveryWait` says that its fairness holds too as
long as no init process stays at its fifo for ever (`AllStarted`). Without that
condition it is false, since such a process may keep another container's exit pipe
open (`WaiterWoken`).

### StartHandshake

`LinuxContainer::start` and `join_namespaces` for one process, as three programs
and three pipes. `req` ranges over all combinations of init or exec, with or
without a pid namespace, a user namespace, a terminal and resources. The state of
the parent (`ppc`, `ppid`), of the child (`cpc`) and of the final process (`fpc`)
are their program counters between blocking calls; `mapped`, `cgroup`, `hooks`
and `console` record the effects the words order. All three may fail at every
step where the code can return an error. The parent's failure leaves its pipe
ends open, as the code does; a final process that fails after `join_namespaces`
becomes a `stray`: start() returns the error, in the child, to the copy of the
request handler. In `AgentProcesses` this whole exchange is `SpawnSucceeds` or
`SpawnFails`, which `StartReturns` justifies when the children do not fail.

### MountTable, Rootfs, SpecValidation, ContainerStart

`ContainerStart` composes the handshake with what it is for. A behaviour starts
with a specification of the runtime's (`Specs`) and a guest with or without a
sandbox and with shared or private mounts; `Accept` and `Refuse` are
`LinuxContainer::new` with `validate` (`SpecValidation`). The steps of the
handshake are those of `StartHandshake`, each conjoined with what it does to
the namespaces of the process (`proc`), to the mount tables of the process and of
the agent (`world`) and to hostname and sysctls (`touched`). The calls of
`init_rootfs` and `finish_rootfs` (`Rootfs`) are a list (`todo`) that the final
process makes one by one, while agent and child go on; a call the code or the kernel
refuses ends the process. An exec'ed process joins the namespaces of the init
process.

`MountTable` is the kernel's side: which mount a path leads to, bind mounts with and
without what is mounted below, remounts, `pivot_root`. A call that is made while the
mounts are still peers of the agent's is made in the agent's table as well.
`SpecifiedContent` and `SpecifiedReadOnly`, against which `SetUpAsSpecified` compares
the outcome, are written from the specification's side: the last mount of the list
that covers a path, and its options. The agent's own table has a root, and nothing is mounted
in the container's cgroup directories, which are not in its root file system (`GuestAssumption`).

### StreamIO

The five stream requests, the descriptors `start()` opens and `WaitProcess` closes,
and the kernel's table of descriptors, which reuses the lowest number at once. A
read is four steps (number taken, read entered, data, answer); a write holds the
mutex from its first to its last byte. Bytes carry their process, stream and place.
A process with a terminal has pipes as well, which it does not use. The runtime is
taken to read a stream with one request at a time and to wait for a process once it
has seen the end of its streams, as the Kata shim does.

Numbers are plain integers to the agent, so a `Process` that is dropped closes nothing:
`StartFails` leaves open what had been made by then (process.rs:127-137,
container.rs:417-442), `RemoveContainer` what the processes not yet waited for had
(grpc.rs:182-263). Such a process is `lost`, and its descriptors are never used again.
A stream ends when nobody has the other end any more, which need not be when the
process exits: it may leave others behind that hold its pipes (`heirs`), for some
time or for ever, and a read blocks as long. A terminal is hung up with its session's
leader. Nothing is assumed of what processes read and write; `MaxOut` bounds the bytes
they write in all.

### CopyFile

`do_copy_file` by its system calls, without a mutex, as the code has none. Each
destination is copied in chunks, one after the other; an attempt may fail at every call,
in the middle of a chunk too (`WriteFails` leaves it `Torn`), and be made again with
other content of another size, as `file_size` is a field of each request (`size`). `left`
is a history variable: how long the temporary file was that the attempt has found.

### SpecDevices, Cgroups, ContainerResources

`SpecDevices` has `add_devices`, the handlers and `update_spec_device_list` as
operators on the device list and the device rules of a specification. `Cgroups` has
what `set` of each subsystem writes, as sequences of writes with the errors each
passes over, and what `get_stats` reads. `ContainerResources` is the state machine:
CreateContainer (devices, then `set`), UpdateContainer, StatsContainer,
RemoveContainer and OnlineCPUMem, each one step under the mutex, over the files of the
containers' directories (`dirs`), the cpuset of their common parent and the online
cpus. The kernel may refuse a write (`Refusals`), and then the writes before it stay.
`asked` is a history variable: what requests that succeeded have set; `made` has for
each container the hierarchies in which it has a directory. Of a creation that fails
only the cpuset directory matters afterwards, to the common parent; what is in the
others is not kept. Folds are written with `FoldLeft` over a step of
one element (`RenumberAt`, `add_next`, `Apply`, `WriteOne`).

`get_stats` is `ReadStats`: the hierarchies in their order, each with its files, each of
which may be missing in this guest's kernel (an error), lack an entry whose value is
unwrapped (a panic), or be one the code cannot parse: the two fields of a line of
`blkio.sectors_recursive` (fs/mod.rs:940-945), which the CFQ scheduler writes once the
container has done I/O (`DoesIO`). What kernel and device nodes there are is chosen in
the beginning (`Guests`). The kernel takes a memory limit of -1 as none and keeps the
others in whole pages (`InPages`).

### ProtoFields, ProtoAgent, ProtoOci, ProtoWire, OciTypes, SpecConversion, RequestPath

The way of a message. `ProtoAgent` and `ProtoOci` are the schemas the generated code
follows, one operator per message, with number, type and label of each field in the
order in which they are written; `ProtoWire` has the three functions of that code,
`merge_from`, `compute_size` and `write_to_with_cached_sizes`, once for all of
them, over a wire of tags, varints and raw bytes; it takes the schemas, and
`SpecConversion` the structs, as constants. `OciTypes` has the structs of the
`oci` crate with their serde attributes, `SpecConversion` the functions of
`grpc_to_oci` field by field and the writing of JSON. `RequestPath` sends messages
along that way, and compares the conversion of one with that of another message. The
generated accessors (get, set, take, has, mut, clear) are the access to a record's
field.

Numbers have their widths, in units of `Bits`, the width of a `u16`: 32-bit fields have
twice, 64-bit fields four times as many. The casts of `grpc_to_oci` (`AsU16`, `AsU32`,
`AsI32`, `AsI64`) keep the low bits. `Held` says from the specification's side what it
can hold of a message: nothing for other systems, and of each number as many bits as its
field has (`Width`). `SpecKept` says that two messages give the same specification
exactly if that is the same.

### DeviceHotplug

`get_device_name` and `watch_uevents` with their two mutexes, lock by lock, over a
netlink socket of bounded size that overruns. Paths and addresses are model
values; the string tests of the code are the relations `Contains` (lookup in
`pci_device_map`) and `UnderRoot` (the listener's prefix test). That the second
is as wide as the first for PCI addresses is a fact about sysfs paths, stated as
`TopologyAssumption`. The kernel plugs and unplugs at any time; other requests
take and release the sandbox mutex.

### SandboxStorage

`add_storages` with the three kinds of handler, the lists in `container_mounts`,
the counts in `storages`, the kernel's stack of mounts per mount point, and the
unmounting of `do_remove_container`. A handler is one step, because it holds the
sandbox mutex when it touches shared state; between two storages of a request
other requests run. The action `RemoveContainer` is the part of the removal after
the processes are killed; it may stop at a mount that cannot be unmounted and be
tried again with the list it left. `failed` and `tries` are history variables.

### NetworkConfig

The four network requests, message by message. `queue` is the socket of the
handle, `pc` the control of the request that holds the sandbox mutex, `snap` and
`todo` what it still has to delete and to add. The result of the last step of an update of
an interface, the bring-up (`SetUp`), is ignored as in the code: refused, it leaves the
link down, and the request succeeds. The kernel (`name`, `up`, `addrs`,
`routes`) handles a message when it is sent and puts its answer in the socket;
`Talk` (`rtnl_talk`) takes the head of the queue, `Dump` (`recv_dump_message`)
everything up to its own end. Both give up at a message that is not the kernel's
(`Stray`), and then leave their own answer behind. `Meddle` is another process of
the guest that changes the network between two messages.

What the model takes the kernel to do: the first address of a subnet is primary
and takes the others of its subnet with it when it is deleted (the default,
`promote_secondaries` = 0); a link that goes down loses its routes, one that goes
up gets the routes of its addresses; a link that is up cannot be renamed; one
route per destination; a gateway has to be on the link. The answer to a dump is in
the socket as a whole. `fits`, `touched` and `strayed` are history variables for the
properties.

### MC modules and cfg files

Each `MC` module holds the sets and functions its cfg files give to the constants,
and the symmetries where they are sound.

## 3. Runs

Passing:

| run | bounds | shows |
| --- | --- | --- |
| `MCAgentSafety` | 1 container, 2 children, 2 threads, every request that makes, waits for or forgets a process, runtime not orderly | `ExitRecorded`, `ImplementsWaitService` |
| `MCAgentRemoval` | 1 container, 3 children, 2 threads, removal without timeout, DestroySandbox, not orderly | `NoSurvivor`, `NeverReplaced`, `WaitExact` |
| `MCAgentLiveness` | 2 containers, 2 children, 2 threads, orderly, creations, starts, execs, signals and waits, `FairSpec` | `WaitFindsAgain`, `AnswersEveryWait`, `ZombiesCollected`, `MutexReleased` |
| `MCDeviceHotplug` | a disk with a partition, a SCSI disk, a memory block; 1 request, socket of 1, 2 changes of devices, `FairSpec` | `NoMissedEvent`, `NoLeakedWatcher`, `NotifiedOnce`, `CallReturns` |
| `MCStorage` | 3 containers; an ephemeral and a local storage shared by two each, two private ones, one of the sandbox; 2 threads, faults; one container created twice, its removal tried twice | `MountedOnce`, `CountCoversUsers`, `MountedForUsers`, `NoLeftover` |
| `MCContainerStart` | some 150 specifications: all lists of up to 2 of 10 mounts beside `/proc`, and one by one the namespaces, sysctls, mappings, devices, masked and read-only paths; init and exec, with and without a sandbox and shared mounts; all failures; `FairStartSpec` | `RightPid`, `WordsNotMixedUp`, `AlwaysInCgroup`, `SetUpAsSpecified`, `AgentUntouched`, `StartReturns`, `FinalGetsThere` |
| `MCNetwork` | 2 links up or down, one with a secondary address; 3 requests out of 5 interface and 3 route updates and the listings; 2 stray messages, 1 change by others | `OwnAnswers`, `InterfaceReplaced`, `RoutesReplaced`, `ConsistentSucceeds` |
| `MCStreamIO` | a process with pipes and one with a terminal, 2 threads, 8 descriptors, pipes of 1 byte, 2 bytes in to the one with pipes, 1 byte out in all; starts that fail, removals, processes left behind; `FairSpec` | `OwnDescriptors`, `OutputExact`, `InputExact`, `RequestsFinish` |
| `MCResources` | the sandbox container and one with 2 devices, 4 ways to create it, 3 updates of which 2 are made, limits of several pages and of -1, 2 cpus, 6 hierarchies, a guest with CFQ and one with pages of 1 GiB, one limit refused | `StatsTrue`, `GuestCpusReached`, `DevicesFollow` |
| `MCCopyFile` | 3 files, one of 2 or 3 chunks at each attempt, one of 2 and one of 1 without a destination, 3 attempts, failures at every call | `CopiesWhole` |
| `MCRequestPath` | every message, with no field, each field and all fields set; strings of 1 and 130 characters; numbers of one byte, negative ones, and of more bits than each field that is cast has; lists packed or not, a field of a newer runtime | `ReadsWhatWasSent`, `SizeExact`, `SpecKept`, `ConfigReadBack` |

One run finds a violation of a sentence in the repository (the finding quotes it):
in `MCAgentTwoContainers` the waiter of a container is not woken while a second one
has not been started, because the process that blocks on its fifo holds a copy of the
first one's exit pipe (`WaiterWoken`). `AnswersEveryWait` in `MCAgentLiveness` has the
same two containers and is conditional on that process being started.

**Why the bounds are enough to see the cases.** Two threads give every pair of
racing requests; two children are needed for an exit that meets the fork of
another (inherited pipes, coalesced signals), three for a removal that kills some
of several and a failed set-up beside them. In the hotplug runs a socket of one
place overruns with two changes, which are a disk and its partition, or a plug and an
unplug; requests for other addresses meet only in the two mutexes, and the
theorems are about any number of them. Three containers allow a shared storage with two users while a third one
comes and goes. In the network run a request that gives up at a stray message, one
that meets what it left and one that meets what that left is the longest chain of
interest, and the routes and addresses of the first request are there to be
replaced by the second. Two mounts beside `/proc` are enough for one to hide the
other, to stand below it or to come after it, and the specifications that vary one
thing at a time meet every branch of `validate` and of `start`. With a pipe of one byte
a write of two blocks half-way, and with two processes a closed number is used by
the other one; eight numbers are one for every end of both. Two updates are one that fails
and one after it. Three attempts are one that leaves a temporary file, one of another size
that meets it, and one after that. With `Bits` = 7, 16-, 32- and 64-bit fields have 7, 14
and 28 bits, and there are numbers one bit too wide for each that is cast. Since the
generated code treats a field by its kind alone, one value short and one long of
every field in every message meets all of it. The theorems of section 4 lift
most safety properties to all bounds. Deadlock is not checked where the system may
legitimately stop: all children used up, the mutex poisoned, all requests done.

**Fairness.** In `AgentProcesses`, threads and children keep running (weak
fairness of each of their steps) and a step that needs the mutex is strongly fair,
as a futex gives: a thread that finds it free again and again gets it. Nothing is
assumed of the requests that arrive, and programs may run for ever; only a child
that has been sent a fatal signal dies. In `DeviceHotplug` the same holds, other
requests give the mutex back, and for each waiting call either the message or the
time-out comes; no uevent need ever arrive. In `ContainerStart` each of the three
processes takes its next step if it can, into its failure if there is no other. In
`StreamIO` threads run, and nothing is assumed of processes. That a write gives the mutex
back is therefore conditional in `RequestsFinish`: again and again there is room in the
pipe or nobody has its other end. A living process that has stopped reading its input keeps
`WriteStdin`, and with it everyone, waiting.

**Mutants.** Each property has a plausible bug that violates it under the same
cfg: the table filled after the mutex is given back (`SpawnNotAtomic`), a reaper
that leaves its loop after one child (`ReaperRecordsOnce`), a lookup that gives
the watcher mutex back before it registers (`LookupMissUnlocks`), a cgroup applied
after the child is let go (`ParentMapsLate`), bind mounts that are not mounted again
with their flags (`MountsOnce`), a propagation that is not changed before the first
mount (`RootfsPeers`), a length that is not counted (`SizeOfNoLength`), and so on. They stand before the
definition they replace, marked "Mutation".

**Other things the models show.** These follow from reading one action and have
no run of their own.

*Processes*

* A process exec'ed between the two critical sections of a removal with a timeout is
  forgotten alive (grpc.rs:224); agent.proto:22 says all processes are killed.

* `RemoveContainer` sends SIGKILL and returns; agent.proto:25 says it waits for the
  termination of all processes.
* The container's directory and fifo stay after a removal, so the id cannot be used
  again (`CreateRefused`), though agent.proto:23 speaks of releasing all resources.
* A `SignalProcess` with an empty exec id reaches the init process only
  (`SignalAll`); agent.proto:107 says all processes.
* The thread left behind by a `RemoveContainer` whose timeout is over sends to a
  channel nobody receives from and panics with the mutex held (`HelperPanics`);
  agent.proto:26 says only that an error is returned.
* A second `WaitProcess` for one process, once woken, panics with the mutex held
  (`WaitReturns`, grpc.rs:350); agent.proto:31 compares it with `waitpid(2)`.
* The reaper may collect the `ps` of `ListProcesses`, whose wait then fails and
  panics (`ListLosesRace`, grpc.rs:669).
* These panic with the mutex held as well, and so end the service for every container:
  `SignalProcess` with 0, a real-time signal or any other number without a `Signal`
  (`SignalPanics`, grpc.rs:297); a creation whose specification has no process or whose
  root has no parent (`CreatePanics`, grpc.rs:1767); removing or listing a container
  the sandbox does not have (`RemovePanics`, `ListPanics`, grpc.rs:173 and 635); a second
  `DestroySandbox`. No property says that the mutex is never poisoned, because it is not
  true even of an orderly runtime: a user may send any signal. `WaitFindsAgain` says it of
  the one `unwrap()` that depends on what others do in between.

*Devices and storages*

* With two requests for one address the time-out of the first removes the sender of
  the second, which then misses its event (device.rs:182).
* The listener never tests the action of a uevent: the node of a removed device is
  recorded and announced like that of a new one, though uevent.rs:76 speaks of a
  node being created.
* A removal unmounts a shared storage twice, so the removal of its last user fails
  (`RemoveStops`).
* Removing the container that mounted a shared storage unmounts it under its other
  users (grpc.rs:182).
* A removal that has stopped keeps the container's list. Tried again it unmounts what
  another container has mounted there since, and gives back that one's count
  (`Retried`).
* A device number of the guest that is also the host's number of a later device has its
  rule rewritten twice (`NoClash` in `DevicesFollow`), and `UpdateContainer` does not
  renumber its device rules at all: one that has any speaks of numbers of the host
  (`RequestsAssumption` leaves such updates out, the runtime sends none).

*Start of a process*

* If a child dies in the middle of the handshake the agent waits for its word for
  ever, with the sandbox mutex held (`ChildrenFail` in `StartReturns`).
* A container with a user namespace of its own cannot start if its specification lists
  ipc or uts while there is a sandbox, or any namespace with a path: `setns` is
  called after `unshare(CLONE_NEWUSER)` (`Startable`).
* `mask_path` ignores ENOTDIR: directories that should be masked are not.
* Without a mount namespace in the specification its mounts and `Root.Readonly` are
  silently ignored, since `init_rootfs` and `finish_rootfs` are not called.
* `sandbox_pid_ns` is never set, so every container gets a pid namespace of its own.
* A sysctl `net.*` together with a network namespace that has a path is always refused:
  the loop falls through to its last statement, whatever `check_host_ns` finds.
* `Hostname` is set only where there is no sandbox; otherwise the container is in the
  sandbox's uts namespace.
* With `rootfsPropagation` "shared" and shared mounts in the guest, the container's mounts
  appear in the agent's table, and the pivot then fails.
* A device of the specification that is a default one too fails with EEXIST.

*Streams and files*

* A start or exec that fails leaves the pipes and the terminal made by then open for ever
  (`StartFails`), and a removal those of every process that has not been waited for
  (`RemoveContainer`). Their numbers are in nobody's way but never free again.
* A read of a stream waits for the last process that holds it, not for the one it was asked
  for: one that puts a child in the background keeps the reader, and with it one of
  the server's threads.
* `WriteStdin` to a process that writes before it reads on, with both pipes full, never
  returns: nobody can read its output while the mutex is held. The same goes for any
  process that stops reading, or ends and leaves one behind that does not read.
* `WriteStdin` after `CloseStdin`, and `TtyWinResize`, `UpdateContainer` and
  `StatsContainer` for an unknown container, panic with the mutex held.
* `CopyFile` cannot make a file that does not exist yet (`canonicalize` fails);
  agent.proto:462 asks only for a path that is absolute, canonical and below /run.
* The temporary file is not truncated, and is taken to be complete when it has
  `file_size` bytes. If an attempt that failed has left as many as the next one is to
  have - all of its own before a rename that failed, or the first two of three before an
  attempt with two - the first chunk of the next moves a mixture in place of the
  destination. If it has left more, the next
  one never gets complete: all its chunks are answered with success, and the destination
  stays as it was. `CopiesWhole` speaks of the others (`left`).
* Two destinations that differ only in their extension share a temporary file
  (`with_extension`); `TmpAssumption` leaves them out.

*Resources*

* A memory limit cannot be raised above the old limit of memory and swap: it is written
  first.
* `OnlineCPUMem` widens the cpusets of containers that have been given fewer cpus; it
  succeeds with fewer cpus than `nb_cpus` (agent.proto:324), and fails at a cpu without a
  file "online" and at a container whose directory is missing.
* The cgroup directories of a container are never removed (`destroy` has no caller).
* A subsystem without a handler (rdma) makes every `set` fail.
* Huge pages of 1 MiB or 1 GiB get a name the kernel does not use (`custom_size` tests
  `>`), and `StatsContainer` fails on them.
* `StatsContainer` never succeeds again for a container that has done I/O under the CFQ
  scheduler: the lines of `blkio.sectors_recursive` have two fields and the parser wants
  three (fs/mod.rs:940-945). It also fails for want of a directory or of any one file of a
  hierarchy that is mounted, and panics with the mutex held if an entry is missing in
  `cpu.stat`, `cpuacct.stat` or `memory.stat` (`ReadStats`).

*Protocol and specification*

* A hook without a timeout is written to `config.json` with timeout 0, and two keys are
  misspelt, "addtionalGids" and "swapiness", so other readers of the file miss them.
* Repeated numbers are written unpacked, and read either way.
* Numbers out of the range of their field in the specification lose their upper bits without an
  error: `OOMScoreAdj` and `Hook.Timeout` become 32 bits (lib.rs:142, 186), the weights of
  block I/O 16 (lib.rs:271-272, 289-290), the index of a seccomp argument 32 (lib.rs:424),
  and `Swappiness` gets a sign (lib.rs:333).

*Network*

* A failed `update_routes` replies the routes from before it (`Failure`), "current
  routes" in grpc.rs:1012, though the old ones have been deleted by then.
* `delete_one_addr` says "ignore EADDRNOTAVAIL here.." (netlink.rs:1775) and does
  not: an address that is gone meanwhile ends `UpdateInterface`, with the link down.
* A `get_name_by_index` that fails in `list_routes` leaves its answer to the next
  one, so the device names of the listing are one late from there on (`NameListed`).
* `delete_all_routes` takes every device whose name contains "lo" for the loopback
  (`LoNames`): its routes stay, and new ones to their destinations are refused.
* `UpdateInterface` ignores the answer to its last message, which brings the link up
  (netlink.rs:1939): refused, the reply is success and the link is down.
  `InterfaceReplaced` therefore speaks of addresses and name only.
* `UpdateInterface` takes the link down and with that deletes its routes; the
  runtime has to send `UpdateRoutes` again.
* With `promote_secondaries` set, secondary addresses would outlive
  `update_interface`, which deletes the primary ones only.

## 4. Proofs

Checked by TLAPS for every value of the constants that satisfies the assumptions
of the module. Types are a part of each invariant below, and no run's property.

| module | theorems, and the properties of the runs they state |
| --- | --- |
| `AgentProcessesProofs` | `Invariance`, `TypeCorrect`, `NoExitLost` (`ExitRecorded`), `WaitIsExact` (`WaitExact`), `Ownership`, `Implementation` (`ImplementsWaitService`), `ContainersStay` (`NeverReplaced`), `ForgottenAreKilled` (`NoSurvivor`), `WaitersFindAgain` (`WaitFindsAgain`) |
| `ContainerStartProofs` | `StartInvariant`, `PidIsRight` (`RightPid`), `WordsInOrder` (`WordsNotMixedUp`), `InCgroup` (`AlwaysInCgroup`), `NamesUntouched`, `AgentKeepsItsOwn` (`AgentUntouched`), `NamespacesEntered` and `ContentAsSpecified` (parts of `SetUpAsSpecified`) |
| `StreamIOProofs` | `StreamInvariant`, `DescriptorsOwn` (`OwnDescriptors`), `OutputIsExact` (`OutputExact`), `InputIsExact` (`InputExact`) |
| `SandboxStorageProofs` | `StorageInvariant`, `SharedMountedOnce` (`MountedOnce`), `UsersAreCounted` (`CountCoversUsers`), `UsersHaveTheMount` (`MountedForUsers`), `NothingLeftOver` (`NoLeftover`) |
| `NetworkConfigProofs` | `NetworkInvariant`, `AnswersAreOwn` (`OwnAnswers`), `InterfaceIsReplaced` (`InterfaceReplaced`), `RoutesAreReplaced` (`RoutesReplaced`), `ConsistentRequestsSucceed` (`ConsistentSucceeds`) |
| `ContainerResourcesProofs` | `Invariant`, `CpusReached` (`GuestCpusReached`), `StatsAreTrue` (`StatsTrue`), `DevicesOfSpec` (`DevicesFollow`) |
| `CopyFileProofs` | `CopyInvariant`, `WholeFiles` (`CopiesWhole`) |
| `DeviceHotplugProofs` | `TypeCorrect`, `NothingLeaked` (`NoLeakedWatcher`), `SentOnce` (`NotifiedOnce`), `NothingMissed` (`NoMissedEvent`) |

**AgentProcessesProofs** - any number of containers, processes and threads, any
set of requests, orderly or not. Neither property is inductive. `ExitRecorded` speaks
of the moment a process is in a table; whether it holds when `SpawnSucceeds` inserts
a process that has *already* been collected depends on the reaper still waiting for
the mutex with that process in its hands. `WaitExact` needs that a process a waiter
has looked up stays accounted for after it has left the table. The inductive
invariant is

    Inv == TypeOK /\ WorkerInv /\ TableInv /\ ReaperInv

where a process is `Accounted` for while the agent holds a write end of its exit
pipe or the reaper has `Recorded` it; `WorkerInv` says a worker that spawns, starts
or runs `ps` holds the mutex, that the process it spawns is not yet collected or
in the reaper's hands, and that the process it waits for is accounted for;
`TableInv` says the same of all processes in the tables; `ReaperInv` says what the
reaper's pid means. The proof goes by the disjuncts of `Next`. Actions that leave
the table, exits and pipes alone are handled together by a frame lemma
(`FrameKeeps`, `QuietKeeps`); the others (`RecordKeeps`, `CollectKeeps`,
`SpawnKeeps`, `ListKeeps`) one by one. Assumptions: the markers are not elements of
the sets they extend, exit codes are naturals.

Its second half:

* `Implementation` is the refinement: every step of threads, reaper, children and
  kernel is a step of `WaitService` or a stutter. It uses `OwnedInv`, which adds to
  `Inv` that the processes of a process map belong to a container of the sandbox
  and that a create, exec or start finds its container as it left it. Without that
  `SpawnSucceeds` could make a process known that already is. No hypotheses: it
  holds with the mutex poisoned and for every runtime.
* `ContainersStay` needs that `CreateSandbox` is not among the requests of the
  behaviour. The runtime sends it once, before all others, and the model starts
  after it; sent again it empties the directory of the containers, and with it the
  fifos that `start()` takes for the mark of an existing container. `FifoInv`: each
  container, and each that is being made, has its fifo.
* `ForgottenAreKilled` needs in addition that removals have no time-out. With one,
  the processes are killed in one critical section and forgotten in a later one, and
  a process exec'ed between the two survives (section 3). Without one both happen
  in one critical section (`NoTimedRemoval`: nobody is between two).
* `WaitersFindAgain` assumes an orderly runtime (`Orderly`) that neither removes
  containers nor creates the sandbox again; with a removal, or a second wait, the
  `unwrap()` after the read of the exit pipe does panic (section 3). Everything else may be
  asked for and may panic meanwhile. `WaitersInv`: whoever waits for a process is the only
  one, and the process is still in the table.

The runs that check the last three satisfy these hypotheses.

**ContainerStartProofs** - any set of requests, specifications and mounts. Words
carry no sender, but at any time one at most is under way. `Phase` says for
each value of the parent's control how far child and final process are and which
word is in which pipe; all failures are included. `StartInv` lifts this to the
composition. `NamesUntouched`: what `validate` accepts is written by a process that has
entered other namespaces than the agent's (`Validated`, `Entered`). `AgentKeepsItsOwn`
adds the mounts: as long as they are peers of the agent's, the next call is the one that
changes that (`PeersInv`). That `init_rootfs` begins with it whatever the lists of
mounts, devices and hierarchies are is a lemma about `FlattenSeq` (`PropagationFirst`); its
inductions are written out, over the least place where the claim would fail, since the
library's induction theorems cannot be used. `NamespacesEntered` follows the
namespaces from `SetsUp` to the joining of the mount namespace (`JoinedInv`).

`ContentAsSpecified` is the part of `SetUpAsSpecified` about what is found where, for
paths of any length, any list of mounts and any mount table of the agent. Its lemmas go in
three steps. *Tables*: a mount changes what is seen at its mount point and below and nowhere
else (`Grows`, `GrowsElsewhere`); there a bind mount shows what was at its source, with
`MS_REC` including what is mounted below (`BindShows`), a remount changes nothing that is seen
(`RemountShows`), and what is below the root is at `/` after `pivot_root` (`PivotShows`).
*Calls*: what a list of calls leaves at a path is decided by the last call that covers it
(`Puts`) or by none (`Leaves`); the calls of `init_rootfs` put at each path what the last
mount of the specification over it says (`MountOfPuts`, `FlattenTends`, `InitRootfsComes`), for a
cgroup mount by one call for each hierarchy (`MountCgroupsPuts`). *Steps*: `Coming` says
that the call that decides about a path is still ahead, or done and the content there;
each call keeps that (`MakingStep`), after the last one the root is pivoted (`MadePivots`), and
`finish_rootfs` only masks and remounts (`FinishingStep`). The theorem has two hypotheses.
`SourcesOutside`: mounts that bind take something from the guest outside the container's
root, without mounts below it when they are recursive; with others the specification's mounts
would be seen through each other; the type of a mount is `bind` exactly if its options say
so. `Ordinary`: the path is not a device or below one, not
masked or below what is, and in a cgroup mount it is the mount itself or leads into a hierarchy
the guest has.

Assumptions: specifications have the types of the `oci` crate, the cgroup hierarchies
are finitely many (`SpecsAssumption`); the agent's mount table has a root, and the
container's cgroup directories are not in its root file system, with nothing mounted
in them (`GuestAssumption`).

**StreamIOProofs** - any number of processes, threads and bytes, pipes of any size.
The numbers in a `Process` are open and its own, and every open one is in a `Process` but
those of `lost` ones (`FdInv`: `OwnDescriptors` with `FieldsInv`, what a process has as long as it is in
the table, and `OnceInv`, an end is opened once, so what was leaked is never a
second end of a process that is in use). The number a read has taken
stays right without the mutex, since a process is not waited for before its streams
have been seen to the end; what is received and what is in the pipe are together what
was written (`StreamInv`); a write keeps the mutex, and what it has put into the pipe is
what is missing in the answers (`WorkerInv`). That there is a free number whenever the
kernel is asked for one is a lemma, by counting; the assumption is that there are
enough numbers for all processes.

**SandboxStorageProofs** - any containers, threads, mount points and lists of storages,
any number of creations, removals and failures. An entry of a shared storage means a
mount, and a removal gives a count back only with an unmount, so one removal gives
back one count at most (`MountInv`, `MountedOnce`). `CountInv`: the count covers the
containers that use a storage and the requests that have counted it and not yet
registered their container (`Pending`). The invariant fails when a removal
is tried again: the list of the first try is still there, and the second gives back a
count that another request has taken meanwhile. `CountCoversUsers` excepts these
storages (`Retried`), in the run and in the theorem.

**NetworkConfigProofs** - any links, addresses and requests, any number of calls, stray
messages and changes by others. `HandleInv`: each request begins its changes with a
dump, which empties the socket, so from then on a talk reads its own answer or gives
up. `AddrsInv`, `RoutesInv`: what remains in the kernel's tables is what is still to be
deleted, what has been added so far, and what belongs to the kernel or the
loopback. `FitsInv`: as long as nobody interferes, each route still to be added is
reachable and its destination is free or about to be, which is where the order of
`AddOrder` counts.

**ContainerResourcesProofs** - any containers, requests, cpus, page sizes, device tables and
refusals of the kernel, any number of updates, any kernel. Four parts of `Inv` say what is in a
directory: `CpusFollow` (after a successful OnlineCPUMem the common parent has the cpus of the
guest or none yet, and so `copy_parent` gives a new container all of them), `LimitsKept` (a
limit somebody has asked for is in its file), `DevicesKept` (the devices file holds what the
renumbered rules and the default ones permit), and `Lifetimes`, which says why there is a
directory and that the sandbox container is there before the others.

`set()` stops half-way through subsystems in an order the code does not fix. What makes the
parts inductive is that each subsystem writes to its own files (`SubsystemFiles`), so
one of these files has after `set()` either what its subsystem left or what there was
(`SetOne`), that a limit is written once at most (`LimitsOnce`), so a success has left the
value (`LimitsSet`), and that the default rules, applied again by every update, change nothing
any more (`DefaultsAgain`, `DevicesLeft`), applied in part or in full.

`StatsAreTrue` adds `get_stats`: a failure is the failure of some file or directory, each of
which is a case of `StatsMayFail` (`WhyItFails`, `PagesRead` for the names of huge pages); a
container with statistics of CFQ has a file that is not read, whatever comes before it
(`CFQIsNotRead`); and a limit that is written is answered in whole pages (`InPages`).

`DevicesOfSpec` adds what `add_devices` computes. `Nums` says which numbers a
specification has once some of its devices are done: those of the guest for the devices done
and for the rules that had their number, the old one for all others. It is kept by each
device of the list (`RenumberOne`), each with the path (`RenumberDevice`) and each of the request
(`RenumberDevices`), because no number of the guest is one of the host's with another
meaning (`NoClash`). In the end a rule covers a number of the guest exactly if it covered
the number of the host (`NumbersFollow`).

The model goes through lists with `FoldLeft` and `FlattenSeq`. The library's induction
theorems cannot be used for them, so for each fold there is a lemma that there is a function from
positions to the results so far (`WriteAllSteps`, `AppliesExist`, `RenumbersExist`, `AddsExist`,
`FlattenSteps`), and claims about it go by the least position where they fail (`HasMin`).

Assumptions, all of them of the guest, the kernel or the runtime: the cpuset and devices
hierarchies are mounted, huge pages have 2 KiB to 1 TiB, and nodes numbers of devices,
in each guest there may be (`GuestAssumption`); the kernel's page has a size
(`PagesAssumption`); requests are records of lists, and updates have no device rules
(`RequestsAssumption`); a file for the swap limit that is there may be written by root
(`KernelAssumption`); the default devices have other numbers than those of containers
(`NumbersAssumption`); the hugetlb files are none of the others (`HugetlbAssumption`).

**CopyFileProofs** - any number of files, attempts and sizes, each attempt of its own size.
`FileInv`: an attempt that has found a temporary file shorter than its content is in
`Progress`: the chunks before the current one are its own, and the temporary file becomes
complete with the last of them only. `WholeFiles` is the action property `CopiesWhole`.
Assumptions: sizes are positive (`SizesAssumption`), and no two destinations differ in
their extension alone (`TmpAssumption`); of those it would be false (section 3).

**DeviceHotplugProofs** - any topology that satisfies `TopologyAssumption`, any
socket size, any number of requests. The invariant is `TypeOK`, `Locks` (who holds
which mutex at which control point), `NoLeakedWatcher` and `Unanswered` (a registered
call has an empty channel). `NothingMissed` has the hypothesis that `SameAddr` is
false: with a shared address the time-out of one call removes the sender of the other.
It adds that waiting calls have distinct addresses, that a waiting call with an empty
channel is registered, that a call about to register has still found nothing (this is
where the lock order matters), and that what the listener has just recorded is the only
path a registered call can match until it is notified.

**Only model-checked**:

* all liveness (`WaiterWoken`, `ZombiesCollected`, `MutexReleased`, `AnswersEveryWait`,
  `CallReturns`, `StartReturns`, `FinalGetsThere`, `RequestsFinish`): the prover has
  neither fairness nor ENABLED;
* of `SetUpAsSpecified` what is read-only, what a masked file shows, the devices, and the content
  for mounts of one another; `ContentAsSpecified` has the rest;
* `ReadsWhatWasSent`, `SizeExact`, `SpecKept`, `ConfigReadBack`: recursive definitions
  over nested messages.

## 5. What is not modelled

* **Boot**: `main`, the mounts of the guest, the kernel's command line, the debug console.
  Sequential, once, before the first request, and nearly all of it I/O.
* **Requests of one system call**: Version, Check, GetGuestDetails, ReseedRandomDev,
  SetGuestDateTime, MemHotplugByProbe; PauseContainer and ResumeContainer, which do
  nothing.
* **Logging**, and the table of methods and the reflection of the generated code
  (`agent_grpc.rs`, accessors of fields): no state, no decision.
* **`setup_persistent_ns`**: one thread, joined at once, whose effect is a bind mount. The
  models take its outcome, the path of the sandbox's ipc and uts namespaces.
* **Capabilities**: `drop_priviledges` sets five sets from lists of names.
* **Hooks**: `execute_hook` with its threads and time-out is an outcome, success or
  failure, in `StartHandshake`.
* **Netlink's encoding** of attributes and addresses; `remove_interface` and
  `handle_localhost`, which nothing calls.
* **Mounts**: options other than "ro", "rw" and the bind ones act alike and stand for each
  other; mount data, symbolic links in paths, owners, `ptmx` and the order of
  unmounts inside `pivot_root` are left out. Storages are a point and a handler;
  their options and file systems are not modelled.
* **Cgroups**: `freeze`, `destroy` and `get_pids` have no caller; the counters of
  `get_stats` are the kernel's. `online_memory` changes nothing the models have.
* **Numbers** in `RequestPath` have their widths scaled: `Bits` is 16 in the code and 7
  in the run, so that TLC's integers are wide enough for the widest field.
* **Stale requests**: a `CopyFile` whose runtime has given up waiting, and which goes on
  beside the next attempt at the same file. One process's end of each pipe, the sockets that pass
  a terminal and the exit pipe are not among the descriptors of `StreamIO`.
* **The death of a child** in the middle of the handshake is in `StartHandshake` and
  not in `AgentProcesses`, where it would only add states in which the agent hangs.
* **Reuse of pids**, and the queueing of requests inside grpcio: ten threads serve all
  requests, and the models give each request a thread.

## 6. Plan

What the code risks most is modelled, and the safety properties of the state machines
are proved but for a part of `SetUpAsSpecified`. What is left, in this order:

1. `AgentProcesses` with timed removals: `NoSurvivor` for the processes that were in the
   table when the removal killed, which needs a history of the removal.
2. The read-only half of `SetUpAsSpecified`: lemmas about `ReadOnly` like those about `Seen`, and
   which of the calls that set it comes last.
3. `WaitService` on its own: a wait that has been answered is never answered with
   another code.

Of the code, `execute_hook` with its time-out against the reaper, and
`setup_persistent_ns`, would be the next modules.
