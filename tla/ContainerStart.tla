--------------------------- MODULE ContainerStart ---------------------------
(***************************************************************************)
(* The start of a process with what it is for: the handshake of            *)
(* StartHandshake composed with the namespaces that the process enters and *)
(* the root file system that it mounts in them.                            *)
(*                                                                         *)
(* The specification is that of the container.  An init process makes its  *)
(* namespaces; an exec'ed one joins those of the init process.             *)
(***************************************************************************)
EXTENDS StartHandshake, SpecValidation, Rootfs, FiniteSets

CONSTANTS
  Specs,        \* the specifications the runtime sends
  AgentMounts,  \* the mount table of the agent
  Probes        \* paths in the container that the properties look at

\* Mount and LinuxDevice of the oci crate, as far as they are looked at here,
\* and the paths to mask; valid says whether the path passes the checks.
MountEntries ==
  [type : STRING, source : Seq(STRING), destination : Seq(STRING),
   options : Seq(DOMAIN OPTIONS), valid : BOOLEAN]
PathEntries == [path : Seq(STRING), valid : BOOLEAN]

ASSUME SpecsAssumption ==
  /\ IsFiniteSet(Hierarchies)
  /\ \A s \in Specs :
       /\ s.mounts \in Seq(MountEntries) /\ s.devices \in Seq(PathEntries)
       /\ s.masked \in Seq(PathEntries) /\ s.readonly \in Seq(PathEntries)

Apart(a, b) == ~ IsPrefix(a, b) /\ ~ IsPrefix(b, a)
NothingBelow(from) == \A i \in DOMAIN AgentMounts : ~ IsStrictPrefix(from, AgentMounts[i].at)

\* The container's cgroup directories are not in its root file system, and
\* nothing is mounted in them.
ASSUME GuestAssumption ==
  /\ AgentMounts \in Seq([at : Seq(STRING), fs : STRING, root : Seq(STRING), ro : BOOLEAN])
  /\ \E i \in DOMAIN AgentMounts : AgentMounts[i].at = <<>>
  /\ Root \in Seq(STRING)
  /\ \A h \in Hierarchies :
       /\ h \in STRING /\ CgroupOf[h] \in Seq(STRING)
       /\ Apart(CgroupOf[h], Root) /\ NothingBelow(CgroupOf[h])

VARIABLES
  stage,    \* "asked", "run" or "refused"
  spec,     \* the specification
  guest,    \* whether mounts are shared, and whether there is a sandbox
  proc,     \* the namespaces of the process that is set up
  world,    \* mount tables and device nodes
  todo,     \* the calls on the root file system that are still to be made
  touched   \* namespaces whose hostname or sysctls have been written

own == <<stage, spec, guest, proc, world, todo, touched>>
allVars == <<vars, own>>

----------------------------------------------------------------------------
Namespaces == update_container_namespaces(spec.ns, guest.sandboxed)

\* Where the container's init process is once it has been set up.
InitNamespaces ==
  [t \in NsTypes |->
     CASE Namespaces[t] = "none" -> "agent"
       [] Namespaces[t] = "new"  -> "own"
       [] OTHER                  -> Namespaces[t]]

\* get_namespaces and start: an exec'ed process joins the namespaces of the
\* init process that are not the agent's.
ToNew == IF req.init THEN {t \in NsTypes : Namespaces[t] = "new"} ELSE {}

ToJoin ==
  IF req.init THEN {t \in NsTypes : Namespaces[t] \notin {"none", "new"}}
  ELSE {t \in NsTypes : InitNamespaces[t] # "agent"}

NewMounts == "mount" \in ToNew

\* setns: once in a user namespace of its own, a process cannot enter
\* namespaces that belong to the agent's, as those with a path do.
Startable ==
  Namespaces.user = "new" => \A t \in NsTypes : Namespaces[t] \in {"none", "new"}

RequestOf(init) ==
  [init |-> init, tty |-> spec.terminal, resources |-> spec.resources,
   pidns |-> "pid" \in ToNew \cup ToJoin, userns |-> "user" \in ToNew]

StartInit ==
  /\ Init
  /\ spec \in Specs
  /\ guest \in [shared : BOOLEAN, sandboxed : BOOLEAN]
  /\ req = RequestOf(req.init)
  /\ req.init \/ (validate(spec, Namespaces) /\ Startable)
  /\ stage = "asked"
  /\ proc = [t \in NsTypes |-> "agent"]
  /\ world = [table |-> AgentMounts, agent |-> AgentMounts,
              shared |-> guest.shared, nodes |-> {}]
  /\ todo = <<>>
  /\ touched = {}

\* LinuxContainer::new validates the specification of a new container.
Accept ==
  /\ stage = "asked"
  /\ req.init => validate(spec, Namespaces)
  /\ stage' = "run"
  /\ UNCHANGED <<vars, spec, guest, proc, world, todo, touched>>

Refuse ==
  /\ stage = "asked"
  /\ req.init /\ ~ validate(spec, Namespaces)
  /\ stage' = "refused"
  /\ ppc' = "failed"
  /\ UNCHANGED <<req, ppid, cpc, fpc, pipes, mapped, cgroup, hooks>>
  /\ UNCHANGED <<spec, guest, proc, world, todo, touched>>

----------------------------------------------------------------------------
\* The child.

SetsUp ==
  /\ ChildSetsUp
  /\ proc' = IF req.userns THEN [proc EXCEPT !.user = "own"] ELSE proc
  /\ UNCHANGED <<stage, spec, guest, world, todo, touched>>

\* setns for all but the mount namespace, then unshare.  The mounts of a
\* new user namespace are slaves of the agent's.
Joins ==
  /\ ChildJoins
  /\ proc' = [t \in NsTypes |->
                CASE t \in ToJoin \ {"mount"} -> InitNamespaces[t]
                  [] t \in ToNew              -> "own"
                  [] OTHER                    -> proc[t]]
  /\ world' = [world EXCEPT !.shared = @ /\ ~ req.userns]
  /\ UNCHANGED <<stage, spec, guest, todo, touched>>

BindDevice == req.userns \/ "user" \in ToJoin
Hostname == IF "uts" \in ToNew THEN {<<"uts", proc.uts>>} ELSE {}

\* The process that will be the final one names its host and has the root
\* file system to make.
Forks ==
  /\ req.init => Startable
  /\ ChildForks
  /\ touched' = touched \cup Hostname
  /\ todo' = IF NewMounts THEN init_rootfs(spec, BindDevice) ELSE <<>>
  /\ UNCHANGED <<stage, spec, guest, proc, world>>

ChildGoesOn == ChildSendsPid \/ ChildNotifies

----------------------------------------------------------------------------
\* The final process.

\* The next call of init_rootfs or finish_rootfs.
MakesCall ==
  /\ fpc \in {"rootfs", "askPoststart"}
  /\ todo # <<>> /\ ~ Refused(world, Head(todo))
  /\ world' = Call(world, Head(todo))
  /\ todo' = Tail(todo)
  /\ UNCHANGED <<vars, stage, spec, guest, proc, touched>>

MountJoined ==
  IF "mount" \in ToJoin THEN [proc EXCEPT !.mount = InitNamespaces.mount] ELSE proc

\* Without hooks to wait for, the mount namespace is joined at once.
MountsRootfs ==
  /\ FinalMountsRootfs
  /\ todo = <<>>
  /\ proc' = IF req.init THEN proc ELSE MountJoined
  /\ UNCHANGED <<stage, spec, guest, world, todo, touched>>

NsOfSysctl(k) ==
  CASE k = "ipc" -> "ipc" [] k = "net" -> "network" [] OTHER -> "uts"

\* set_sysctls.
Sysctls ==
  IF NewMounts THEN {<<NsOfSysctl(k), proc[NsOfSysctl(k)]>> : k \in spec.sysctls} ELSE {}

Pivots ==
  /\ FinalPivots
  /\ NewMounts => ~ world.shared
  /\ proc' = MountJoined
  /\ world' = IF NewMounts THEN pivot_rootfs(world) ELSE world
  /\ todo' = IF NewMounts THEN finish_rootfs(spec) ELSE <<>>
  /\ touched' = touched \cup Sysctls
  /\ UNCHANGED <<stage, spec, guest>>

\* Once finish_rootfs is through, user and capabilities are set.
AsksPoststart == todo = <<>> /\ FinalAsksPoststart /\ UNCHANGED own

\* An error: some of the sysctls may have been written.
Fails ==
  /\ FinalFails
  /\ IF fpc = "waitPrestart" THEN touched' \in {touched, touched \cup Sysctls}
                             ELSE UNCHANGED touched
  /\ UNCHANGED <<stage, spec, guest, proc, world, todo>>

----------------------------------------------------------------------------
StartNext ==
  \/ Accept \/ Refuse
  \/ /\ stage = "run"
     /\ \/ ParentStep /\ UNCHANGED own
        \/ ParentFails /\ UNCHANGED own
        \/ SetsUp
        \/ Joins
        \/ Forks
        \/ ChildGoesOn /\ UNCHANGED own
        \/ ChildFails /\ UNCHANGED own
        \/ MakesCall
        \/ MountsRootfs
        \/ Pivots
        \/ Fails
        \/ FinalAsksPrestart /\ UNCHANGED own
        \/ FinalSetsStdio /\ UNCHANGED own
        \/ AsksPoststart
        \/ FinalStrays /\ UNCHANGED own

\* What is bound to fail fails.
ChildMustFail == cpc = "joined" /\ req.init /\ ~ Startable
CallRefused == todo # <<>> /\ Refused(world, Head(todo))
FinalMustFail ==
  \/ fpc = "rootfs" /\ CallRefused
  \/ fpc = "waitPrestart" /\ NewMounts /\ world.shared
FinalMustStray == fpc = "askPoststart" /\ CallRefused

StartSpec == StartInit /\ [][StartNext]_allVars

\* Each process keeps running, into its failure if there is no other way.
StartFairness ==
  /\ WF_allVars(Accept \/ Refuse)
  /\ WF_allVars(stage = "run" /\ ParentStep /\ UNCHANGED own)
  /\ WF_allVars(stage = "run" /\
       (\/ SetsUp
        \/ Joins
        \/ Forks
        \/ ChildGoesOn /\ UNCHANGED own
        \/ ChildMustFail /\ ChildFails /\ UNCHANGED own))
  /\ WF_allVars(stage = "run" /\
       (\/ MakesCall
        \/ MountsRootfs
        \/ Pivots
        \/ FinalAsksPrestart /\ UNCHANGED own
        \/ FinalSetsStdio /\ UNCHANGED own
        \/ AsksPoststart
        \/ FinalMustFail /\ Fails
        \/ FinalMustStray /\ FinalStrays /\ UNCHANGED own))

FairStartSpec == StartSpec /\ StartFairness

----------------------------------------------------------------------------
\* What the specification says of a path: the last of its mounts that
\* covers it, or the root.

MountsOver(p) == {i \in DOMAIN spec.mounts : IsPrefix(spec.mounts[i].destination, p)}
LastOver(p) == spec.mounts[CHOOSE i \in MountsOver(p) : \A j \in MountsOver(p) : j <= i]

ContentIn(from, rest) == LET s == Seen(AgentMounts, from) IN <<s[1], s[2] \o rest>>

SpecifiedContent(p) ==
  IF MountsOver(p) = {} THEN Seen(AgentMounts, Root \o p)
  ELSE LET m    == LastOver(p)
           rest == Below(m.destination, p)
       IN  CASE m.type = "bind"                  -> ContentIn(m.source, rest)
             [] m.type = "cgroup" /\ rest # <<>> -> ContentIn(CgroupOf[rest[1]], Tail(rest))
             [] m.type = "cgroup" /\ rest = <<>> -> <<"tmpfs", rest>>
             [] OTHER                            -> <<m.type, rest>>

SpecifiedReadOnly(p) ==
  LET over == MountsOver(p)
      ro(o) == \E i \in DOMAIN o : o[i] = "ro" /\ \A j \in i..Len(o) : o[j] # "rw"
      ByPath(q) == IsPrefix(q, p) /\ (over # {} => ~ IsStrictPrefix(q, LastOver(p).destination))
  IN  \/ IF over = {} THEN spec.rootReadonly ELSE ro(LastOver(p).options)
      \/ \E i \in DOMAIN spec.readonly :
           LET q == spec.readonly[i].path IN ByPath(q) /\ SpecifiedContent(q) \notin Absent

Masked(p) ==
  /\ \E i \in DOMAIN spec.masked : spec.masked[i].path = p
  /\ SpecifiedContent(p) \in Files

RootAsSpecified ==
  LET t == world.table
      devices == DEFAULT_DEVICES \o spec.devices
  IN  /\ \A p \in Probes :
           IF Masked(p) THEN Seen(t, p) = Seen(t, DevNull)
           ELSE Seen(t, p) = SpecifiedContent(p) /\ (ReadOnly(t, p) <=> SpecifiedReadOnly(p))
      /\ \A i \in DOMAIN devices :
           LET d == devices[i].path
           IN  Seen(t, d) \in world.nodes \cup {Seen(AgentMounts, d)}

NamespacesAsSpecified ==
  \A t \in NsTypes :
    proc[t] = CASE t = "pid" /\ spec.ns[t] = "none" -> "own"
                [] t # "pid" /\ spec.ns[t] = "none" -> "agent"
                [] t \in {"ipc", "uts"} /\ spec.ns[t] # "none" ->
                     IF guest.sandboxed THEN "sandbox" ELSE "own"
                [] t \notin {"ipc", "uts"} /\ spec.ns[t] = "new" -> "own"
                [] OTHER -> spec.ns[t]

(***************************************************************************)
(* The program finds what its specification says, however the process got  *)
(* there: it is in the right namespaces, one that is exec'ed in those of   *)
(* the init process (join_namespaces); every path leads to the mount the   *)
(* specification puts there and is read-only if and only if it says so,    *)
(* files that are masked are empty and the devices are there (init_rootfs, *)
(* finish_rootfs).  Masked directories are left out: mask_path ignores     *)
(* ENOTDIR.                                                                *)
(***************************************************************************)
SetUpAsSpecified ==
  fpc \in {"fifo", "exec"} =>
    /\ NamespacesAsSpecified
    /\ NewMounts => RootAsSpecified

\* The mounts are private before the first one is made (init_rootfs), unless
\* the specification wants them shared and the guest's are.
AgentMountsUntouched ==
  (guest.shared /\ spec.propagation = "shared") \/ world.agent = AgentMounts

\* What validate lets through is written in other namespaces (sethostname,
\* set_sysctls).
AgentNamesUntouched == \A t \in NsTypes : <<t, "agent">> \notin touched

(***************************************************************************)
(* Whatever is accepted, and wherever the start fails, the agent keeps its *)
(* own mounts, hostname and sysctls.                                       *)
(***************************************************************************)
AgentUntouched == AgentMountsUntouched /\ AgentNamesUntouched
=============================================================================
