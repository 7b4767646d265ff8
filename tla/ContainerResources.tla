------------------------- MODULE ContainerResources -------------------------
(***************************************************************************)
(* The resources of containers: the devices of the spec and the cgroups of *)
(* CreateContainer, UpdateContainer, StatsContainer and OnlineCPUMem       *)
(* (src/src/grpc.rs, src/src/sandbox.rs, src/rustjail/src/container.rs).   *)
(* SpecDevices and Cgroups have the operators.                             *)
(*                                                                         *)
(* Each request works under the sandbox mutex and is one action.  The      *)
(* directories of the containers have a parent in common, which has one    *)
(* above it, the root of the hierarchy; the agent is in the root.  The     *)
(* directories outlive the container: nothing calls destroy() of the       *)
(* manager.  The runtime creates its sandbox container first, removes it   *)
(* last and uses an id once.                                               *)
(***************************************************************************)
EXTENDS Cgroups

CONSTANTS
    Containers, SandboxContainer,
    Subsystems,         \* the mounted hierarchies
    Guests,             \* what the guest may be: records of kernel, see get_stats,
                        \* and nodes, the table of its device nodes
    Cpus, BootCpus,     \* cpus of the machine, and those online at boot
    FixedCpus,          \* those whose directory has no file "online"
    Creations,          \* container -> what CreateContainer may ask for: records
                        \* of spec, devices (see add_devices) and resources
    Updates,            \* what UpdateContainer may ask for
    Hotplug,            \* id of a device -> path of its node
    Refusals,           \* <<file, errno>> the kernel may refuse with
    MaxUpdates          \* bound on the number of updates

ASSUME CpusAssumption == BootCpus \subseteq Cpus /\ BootCpus # {} /\ FixedCpus \subseteq BootCpus
ASSUME SandboxAssumption == SandboxContainer \in Containers

Kernels == {g.kernel : g \in Guests}
Nodes == {g.nodes : g \in Guests}

\* The guest has the hierarchies that every container is put in, and the kernel
\* huge pages between 2 KiB and 1 TiB.
ASSUME GuestAssumption ==
    /\ {"cpuset", "devices"} \subseteq Subsystems
    /\ \A k \in Kernels : k.pages \subseteq 11..40
    /\ \A ns \in Nodes : Range(ns) \subseteq Numbers

\* Specs and requests are lists of records; devices have numbers of devices.
\* An update lists no devices: the runtime changes no access to them.
ASSUME RequestsAssumption ==
    /\ \A r \in Updates : IsResources(r) /\ r.Devices = <<>>
    /\ \A c \in Containers : \A q \in Creations[c] :
          /\ q.resources # NoValue => IsResources(q.resources)
          /\ q.spec \in [devices : Seq([path : STRING, type : {"b", "c"}, num : Numbers]),
                         rules : Seq([allow : BOOLEAN, type : {"b", "c", Empty},
                                      num : Numbers \cup Range(DefaultNumbers) \cup {WILDCARD, 0},
                                      access : SUBSET Access])]
          /\ q.devices \in Seq([id : STRING, type : STRING, vm_path : STRING,
                                container_path : STRING])

\* Where there are memsw files, root may write them.
ASSUME KernelAssumption ==
    /\ Refusals \subseteq STRING \X STRING
    /\ SwapAccounting => <<"memory.memsw.limit_in_bytes", "EACCES">> \notin Refusals

VARIABLES
    poisoned,    \* a request has panicked with the sandbox mutex
    known,       \* the containers of the sandbox
    created,     \* those ever asked for
    kernel,      \* the guest's kernel
    nodes,       \* the device nodes of the guest
    online,      \* cpus online
    parent,      \* the cpuset files of the common parent
    made,        \* container -> the hierarchies in which it has a directory
    dirs,        \* container -> its files
    origin,      \* container -> what it was created with
    asked,       \* container -> file -> what a successful request has set it to
    pinned,      \* containers whose cpus were set since the last OnlineCPUMem
    synced,      \* the last OnlineCPUMem was a success, or there was none
    io,          \* the containers with statistics of the CFQ scheduler
    updates,     \* number of updates
    stats        \* the answer of StatsContainer, if that was the last step

vars == <<poisoned, known, created, kernel, nodes, online, parent, made, dirs,
          origin, asked, pinned, synced, io, updates, stats>>

guestVars == <<kernel, nodes, io>>

NoFiles == [f \in {} |-> 0]
Top == Over(File("cpuset.cpus", online), File("cpuset.mems", {0}))
NoStats == [of |-> NoValue]

Init ==
    /\ poisoned = FALSE
    /\ known = {} /\ created = {}
    /\ \E g \in Guests : kernel = g.kernel /\ nodes = g.nodes
    /\ io = {}
    /\ online = BootCpus
    /\ parent = [f \in CpusetFiles |-> {}]
    /\ made = [c \in Containers |-> {}] /\ dirs = [c \in Containers |-> NoFiles]
    /\ origin = [c \in Containers |-> NoValue]
    /\ asked = [c \in Containers |-> NoFiles]
    /\ pinned = {} /\ synced = TRUE
    /\ updates = 0
    /\ stats = NoStats

-----------------------------------------------------------------------------
(* Manager::set.                                                           *)

\* copy_parent: an empty parent is filled from the one above it first.
ParentAfterCopy == [f \in CpusetFiles |-> IF parent[f] = {} THEN Top[f] ELSE parent[f]]

CopiedFromParent(dir) == Over(ParentAfterCopy, dir)

\* One subsystem; writes go to its own files only.
SetSubsystem(name, dir, r, update, refused) ==
    IF name \notin KnownSubsystems THEN [ok |-> FALSE, dir |-> dir]
    ELSE WriteAll(IF name = "cpuset" /\ ~update THEN CopiedFromParent(dir) ELSE dir,
                  SubsystemWrites(name, r, update),
                  IF update THEN parent ELSE ParentAfterCopy, Top, refused)

\* All of them in the order of a HashMap, each in its directory, which is made
\* if it is not among those it had: at the first that fails the others before
\* it, which may be any, are done.
SetResults(had, dir, r, update, refused) ==
    LET res == [n \in Subsystems |-> SetSubsystem(n, dir, r, update, refused)]
        new(n) == {f \in DOMAIN res[n].dir : f \notin DOMAIN dir \/ res[n].dir[f] # dir[f]}
        changes == UNION {{[name |-> n, file |-> f, value |-> res[n].dir[f]] : f \in new(n)} :
                             n \in Subsystems}
        by(ns) == {w \in changes : w.name \in ns}
        after(ns) == Over([f \in {w.file : w \in by(ns)} |->
                              (CHOOSE w \in by(ns) : w.file = f).value], dir)
        fails == {n \in Subsystems : ~res[n].ok}
        others == {n \in Subsystems \ fails : n \notin had \/ by({n}) # {}}
    IN  IF fails = {} THEN {[ok |-> TRUE, dir |-> after(Subsystems), made |-> Subsystems]}
        ELSE {[ok |-> FALSE, dir |-> after(done), made |-> had \cup done] :
                 done \in {d \in SUBSET (others \cup fails) : \E f \in fails : d \cap fails = {f}}}

\* The files a request sets, but for the devices'.  (memory.kmem is written
\* more than once; nothing is said of it.)
Wanted(r, update) ==
    LET ws == UNION {Range(SubsystemWrites(n, r, update)) : n \in Subsystems \ {"devices"}}
    IN  [f \in {w.file : w \in ws} |-> (CHOOSE w \in ws : w.file = f).value]
Forget(fs, g) == [f \in DOMAIN g \ fs |-> g[f]]

-----------------------------------------------------------------------------
(* The requests.                                                           *)

\* add_devices, then start(): set() for the init process if the spec has
\* resources, whose device rules are those of the spec.  What matters of a
\* container that is not created is that of the cpuset's directory, for its parent.
CreateContainer(c, q) ==
    LET s == add_devices(q.devices, q.spec, Hotplug, nodes)
        r == [q.resources EXCEPT !.Devices = s.spec.rules] IN
    /\ ~poisoned
    /\ c \notin created
    /\ c # SandboxContainer => SandboxContainer \in known
    /\ created' = created \cup {c}
    /\ origin' = [origin EXCEPT ![c] = q]
    /\ \/ (s.error \/ q.resources = NoValue) /\ UNCHANGED <<parent, made, dirs, asked, pinned>>
          /\ known' = IF s.error THEN known ELSE known \cup {c}
       \/ /\ ~s.error /\ q.resources # NoValue
          /\ \E refused \in SUBSET Refusals : \E res \in SetResults({}, NoFiles, r, FALSE, refused) :
                /\ parent' = IF "cpuset.cpus" \in DOMAIN res.dir THEN ParentAfterCopy ELSE parent
                /\ made' = [made EXCEPT ![c] =
                       IF res.ok THEN res.made ELSE res.made \cap {"cpuset"}]
                /\ IF res.ok
                   THEN /\ known' = known \cup {c}
                        /\ dirs' = [dirs EXCEPT ![c] = res.dir]
                        /\ asked' = [asked EXCEPT ![c] = Wanted(r, FALSE)]
                        /\ pinned' = IF "cpuset.cpus" \in DOMAIN Wanted(r, FALSE)
                                     THEN pinned \cup {c} ELSE pinned
                   ELSE UNCHANGED <<known, dirs, asked, pinned>>
    /\ stats' = NoStats
    /\ UNCHANGED <<poisoned, guestVars, online, synced, updates>>

\* set() with update; get_container().unwrap() panics for one not known.
UpdateContainer(c, r) ==
    /\ ~poisoned
    /\ updates < MaxUpdates
    /\ IF c \notin known
       THEN poisoned' = TRUE /\ UNCHANGED <<made, dirs, asked, pinned, updates>>
       ELSE /\ \E refused \in SUBSET Refusals :
               \E res \in SetResults(made[c], dirs[c], r, TRUE, refused) :
                  /\ made' = [made EXCEPT ![c] = res.made]
                  /\ dirs' = [dirs EXCEPT ![c] = res.dir]
                  /\ asked' = [asked EXCEPT ![c] =
                         IF res.ok THEN Over(Wanted(r, TRUE), @)
                         ELSE Forget(DOMAIN Wanted(r, TRUE), @)]
            /\ pinned' = IF "cpuset.cpus" \in DOMAIN Wanted(r, TRUE)
                         THEN pinned \cup {c} ELSE pinned
            /\ updates' = updates + 1
            /\ UNCHANGED poisoned
    /\ stats' = NoStats
    /\ UNCHANGED <<known, created, guestVars, online, parent, origin, synced>>

\* get_container().unwrap() panics for one not known, get_stats for an entry
\* that is not in a file.
StatsContainer(c) ==
    LET outcome == IF c \notin known THEN "panic"
                   ELSE ReadStats(Subsystems, made[c], c \in io, kernel) IN
    /\ ~poisoned
    /\ \/ outcome = "panic" /\ poisoned' = TRUE /\ UNCHANGED stats
       \/ outcome = "error" /\ stats' = [of |-> c, ok |-> FALSE] /\ UNCHANGED poisoned
       \/ /\ outcome = "ok"
          /\ stats' = [of |-> c, ok |-> TRUE, values |-> get_stats(dirs[c])]
          /\ UNCHANGED poisoned
    /\ UNCHANGED <<known, created, guestVars, online, parent, made, dirs, origin,
                   asked, pinned, synced, updates>>

\* The first I/O of a container that the CFQ scheduler accounts for.
DoesIO(c) ==
    /\ c \in known \ io
    /\ "blkio" \in made[c] /\ "blkio.io_serviced_recursive" \in DOMAIN kernel.files
    /\ io' = io \cup {c}
    /\ stats' = NoStats
    /\ UNCHANGED <<poisoned, known, created, kernel, nodes, online, parent, made,
                   dirs, origin, asked, pinned, synced, updates>>

\* destroy() of the container and its removal; the directories stay.
RemoveContainer(c) ==
    /\ ~poisoned
    /\ c \in known
    /\ c = SandboxContainer => known = {c}
    /\ known' = known \ {c}
    /\ stats' = NoStats
    /\ UNCHANGED <<poisoned, created, guestVars, online, parent, made, dirs, origin,
                   asked, pinned, synced, updates>>

\* online_resources: directories in any order until n cpus are on; one without
\* the file is an error.  The sets of cpus brought up, and whether it failed.
online_resources(n) ==
    LET off == Cpus \ online IN
    {[ok |-> TRUE, on |-> s] : s \in {s \in SUBSET off :
         Cardinality(s) = n \/ (s = off /\ Cardinality(s) < n /\ FixedCpus = {})}}
    \cup {[ok |-> FALSE, on |-> s] : s \in {s \in SUBSET off :
         FixedCpus # {} /\ Cardinality(s) < n}}

\* Mutation: the containers are left as they are.
NoUpdateOfCpusets(on) ==
    /\ synced' = TRUE
    /\ UNCHANGED <<parent, dirs, asked, pinned>>

\* update_cpuset_path of one container after another, from the parent down;
\* one without its directory is an error.
UpdateCpusets(on) ==
    LET bad == {c \in known : "cpuset" \notin made[c]}
        set(done) == [c \in Containers |->
            IF c \in done THEN Over(File("cpuset.cpus", on), dirs[c]) ELSE dirs[c]] IN
    /\ synced' = (bad = {})
    /\ \E done \in SUBSET (known \ bad) :
          /\ bad = {} => done = known
          /\ dirs' = set(done)
          /\ asked' = [c \in Containers |-> IF c \in done
                          THEN Forget({"cpuset.cpus"}, asked[c]) ELSE asked[c]]
          /\ pinned' = pinned \ done
          /\ parent' = IF known # {} /\ \E c \in Containers : "cpuset" \in made[c]
                       THEN [parent EXCEPT !["cpuset.cpus"] = on] ELSE parent

\* online_cpu_memory; the memory is left out.  The cpus of the root of the
\* hierarchy follow those of the guest.
OnlineCPUMem(n) ==
    /\ ~poisoned
    /\ \E r \in IF n = 0 THEN {[ok |-> TRUE, on |-> {}]} ELSE online_resources(n) :
          /\ online' = online \cup r.on
          /\ IF r.ok THEN UpdateCpusets(online')
             ELSE synced' = FALSE /\ UNCHANGED <<parent, dirs, asked, pinned>>
    /\ stats' = NoStats
    /\ UNCHANGED <<poisoned, known, created, guestVars, made, origin, updates>>

Next ==
    \/ \E c \in Containers :
          \/ \E q \in Creations[c] : CreateContainer(c, q)
          \/ \E r \in Updates : UpdateContainer(c, r)
          \/ StatsContainer(c) \/ RemoveContainer(c) \/ DoesIO(c)
    \/ \E n \in 0..Cardinality(Cpus) : OnlineCPUMem(n)

Spec == Init /\ [][Next]_vars

-----------------------------------------------------------------------------
(* Properties.                                                             *)

\* What get_stats may fail for: a directory that was never made, a file that
\* the kernel does not have, statistics of CFQ, pages of 1 MiB or 1 GiB.
StatsMayFail(c) ==
    \/ ~(Range(StatsOrder) \cap Subsystems \subseteq made[c])
    \/ \E n \in (Range(StatsOrder) \cap Subsystems) \ {"hugetlb"} :
          ~(Range(StatFiles(n, c \in io)) \subseteq DOMAIN kernel.files)
    \/ "blkio" \in Subsystems /\ c \in io
    \/ "hugetlb" \in Subsystems /\ kernel.pages \cap {20, 30} # {}

(***************************************************************************)
(* StatsContainer answers with the limits that were asked for, in whole    *)
(* pages and -1 as none, by the creation and by every update that          *)
(* succeeded since, though each of them leaves out what it does not        *)
(* mention and others failed half-way.  It never answers for a container   *)
(* that has done I/O under CFQ, whose statistics get_stats does not parse, *)
(* and with an error only for one of the reasons of StatsMayFail.          *)
(***************************************************************************)
StatsTrue ==
    stats.of # NoValue =>
        LET a == asked[stats.of] IN
        /\ ~stats.ok => StatsMayFail(stats.of)
        /\ stats.ok =>
              /\ stats.of \notin io
              /\ "memory.limit_in_bytes" \in DOMAIN a =>
                    stats.values.limit = InPages(a["memory.limit_in_bytes"])
              /\ "memory.memsw.limit_in_bytes" \in DOMAIN a /\ SwapAccounting =>
                    stats.values.swap = InPages(a["memory.memsw.limit_in_bytes"])
              /\ "pids.max" \in DOMAIN a =>
                    stats.values.pids = IF a["pids.max"] = -1 THEN 0 ELSE a["pids.max"]

(***************************************************************************)
(* After an OnlineCPUMem that succeeded a container may run on every cpu   *)
(* of the guest, unless its cpus have been set since; so may one that is   *)
(* created later, from the directory they have in common.                  *)
(***************************************************************************)
GuestCpusReached ==
    synced => \A c \in known \ pinned :
        origin[c].resources # NoValue => dirs[c]["cpuset.cpus"] = online

\* The number of the i-th device of the spec in the guest.
GuestNumber(q, i) ==
    LET ds == {j \in DOMAIN q.devices : q.devices[j].container_path = q.spec.devices[i].path}
        d == q.devices[CHOOSE j \in ds : TRUE]
    IN  IF ds = {} THEN q.spec.devices[i].num
        ELSE nodes[IF d.type \in {"blk", "scsi"} THEN Hotplug[d.id] ELSE d.vm_path]

\* A device is given once, and the numbers of the guest are not ones of the
\* host's with another meaning.
NoClash(q) ==
    LET dev == q.spec.devices
        old == {dev[i].num : i \in DOMAIN dev}
               \cup {q.spec.rules[j].num : j \in DOMAIN q.spec.rules}
    IN  /\ \A j, k \in DOMAIN q.devices :
              j # k => q.devices[j].container_path # q.devices[k].container_path
        /\ \A i \in DOMAIN dev : GuestNumber(q, i) # dev[i].num => GuestNumber(q, i) \notin old
        /\ \A i, j \in DOMAIN dev :
              i # j => dev[i].num # dev[j].num /\ GuestNumber(q, i) # GuestNumber(q, j)

\* The rules without what they say of the device of this number.
Without(rs, num) ==
    [j \in DOMAIN rs |-> IF rs[j].num = num /\ rs[j].type # Empty
                         THEN [rs[j] EXCEPT !.access = {}] ELSE rs[j]]

(***************************************************************************)
(* What a container may do to a device, by its number in the guest, is     *)
(* what the rules of the spec say of its number on the host, and mknod;    *)
(* the host's number gives no access to another device of the guest.       *)
(* Updates and the default devices change none of this.                    *)
(***************************************************************************)
DevicesFollow ==
    \A c \in known : origin[c].resources # NoValue /\ NoClash(origin[c]) =>
        LET q == origin[c] IN
        \A i \in DOMAIN q.spec.devices, a \in Access :
            LET d == q.spec.devices[i] IN
            /\ <<d.type, GuestNumber(q, i), a>> \in dirs[c]["devices"]
                  <=> a = "m" \/ <<d.type, d.num, a>> \in Permitted(Permissions, q.spec.rules)
            /\ GuestNumber(q, i) # d.num /\ a # "m" =>
                  (<<d.type, d.num, a>> \in dirs[c]["devices"]
                     <=> <<d.type, d.num, a>> \in
                           Permitted(Permissions, Without(q.spec.rules, d.num)))
=============================================================================
