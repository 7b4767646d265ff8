------------------------------- MODULE Rootfs -------------------------------
(***************************************************************************)
(* The root file system of a container (src/rustjail/src/mount.rs): which  *)
(* calls init_rootfs and finish_rootfs make for a specification, and what  *)
(* they do to the mount table of the process that makes them.              *)
(*                                                                         *)
(* A "world" is what the calls change:                                     *)
(*   table    the mount table of the process                               *)
(*   agent    the mount table of the agent                                 *)
(*   shared   whether the mounts of the first are peers of the agent's     *)
(*   nodes    the device nodes that have been made                         *)
(* "refuse" is the call that stands for what the code itself finds wrong.  *)
(***************************************************************************)
EXTENDS Sequences, SequencesExt, MountTable

CONSTANTS
  Root,         \* the canonical path of Root.Path
  Hierarchies,  \* the cgroup hierarchies
  CgroupOf,     \* the container's directory in each
  Files,        \* what is a file and not a directory, of all that is seen
  Absent        \* what does not exist

Dev == <<"dev">>
DevNull == <<"dev", "null">>

----------------------------------------------------------------------------
\* The calls.

bind(from, to, rec)  == [op |-> "bind", from |-> from, to |-> to, rec |-> rec]
mount(fs, to, ro)    == [op |-> "mount", fs |-> fs, to |-> to, ro |-> ro]
remount(at, ro)      == [op |-> "remount", at |-> at, ro |-> ro]
propagation(how)     == [op |-> "propagation", how |-> how]
mask(at)             == [op |-> "mask", at |-> at]
readonly(at)         == [op |-> "readonly", at |-> at]
mknod(at)            == [op |-> "mknod", at |-> at]
refuse               == [op |-> "refuse"]

\* What a call does to a table.
OnTable(table, c) ==
  CASE c.op = "bind"     -> Bind(table, c.from, c.to, c.rec)
    [] c.op = "mount"    -> Append(table, MountOf(c.fs, c.to, c.ro))
    [] c.op = "remount"  -> Remount(table, c.at, c.ro)
    [] c.op = "mask"     -> \* ENOENT and ENOTDIR are ignored
         IF Seen(table, c.at) \in Files THEN Bind(table, DevNull, c.at, FALSE) ELSE table
    [] c.op = "readonly" -> \* ENOENT is ignored
         IF Seen(table, c.at) \in Absent THEN table
         ELSE Remount(Bind(table, c.at, c.at, TRUE), c.at, TRUE)
    [] OTHER             -> table

\* Mounts propagate to the peers; flags do not.
Propagates(c) == c.op \in {"bind", "mount", "mask", "readonly"}

\* What the code finds wrong, and EINVAL for what is not a mount point.
Refused(w, c) ==
  c.op = "refuse" \/ (c.op = "remount" /\ ~ IsMountPoint(w.table, c.at))

Call(w, c) ==
  [table  |-> OnTable(w.table, c),
   agent  |-> IF w.shared /\ Propagates(c) THEN OnTable(w.agent, c) ELSE w.agent,
   shared |-> w.shared /\ (c.op = "propagation" => c.how = "shared"),
   nodes  |-> IF c.op = "mknod" THEN w.nodes \cup {Seen(w.table, c.at)} ELSE w.nodes]

----------------------------------------------------------------------------
\* Options.  The others of OPTIONS are flags that are set like "nosuid".
OPTIONS ==
  [defaults |-> [clear |-> FALSE, flags |-> {}],
   ro       |-> [clear |-> FALSE, flags |-> {"RDONLY"}],
   rw       |-> [clear |-> TRUE,  flags |-> {"RDONLY"}],
   suid     |-> [clear |-> TRUE,  flags |-> {"NOSUID"}],
   nosuid   |-> [clear |-> FALSE, flags |-> {"NOSUID"}],
   bind     |-> [clear |-> FALSE, flags |-> {"BIND"}],
   rbind    |-> [clear |-> FALSE, flags |-> {"BIND", "REC"}],
   private  |-> [clear |-> FALSE, flags |-> {"PRIVATE"}]]

\* One option after the other; the last word counts.
parse_mount(options) ==
  LET Apply(flags, o) ==
        IF OPTIONS[o].clear THEN flags \ OPTIONS[o].flags ELSE flags \cup OPTIONS[o].flags
  IN  FoldLeft(Apply, {}, options)

\* Mutation: a bind mount is not remounted with its flags.
MountsOnce(m, flags) ==
  IF "BIND" \in flags THEN <<bind(m.source, Root \o m.destination, "REC" \in flags)>>
  ELSE <<mount(m.type, Root \o m.destination, "RDONLY" \in flags)>>

\* A bind mount takes flags only when it is mounted again.
mount_from(m, flags) ==
  LET dest == Root \o m.destination
  IN  IF "BIND" \notin flags THEN <<mount(m.type, dest, "RDONLY" \in flags)>>
      ELSE <<bind(m.source, dest, "REC" \in flags)>>
             \o (IF flags \subseteq {"REC", "REMOUNT", "BIND", "PRIVATE", "SHARED", "SLAVE"}
                 THEN <<>> ELSE <<remount(dest, "RDONLY" \in flags)>>)

\* A tmpfs with the container's directory of every hierarchy in it.
mount_cgroups(m, flags) ==
  LET tmpfs   == [type |-> "tmpfs", destination |-> m.destination]
      one(h)  == mount_from([type |-> "bind", source |-> CgroupOf[h],
                             destination |-> Append(m.destination, h)],
                            flags \cup {"REC", "BIND"})
      all     == SetToSeq(Hierarchies)
  IN  mount_from(tmpfs, {})
        \o FlattenSeq([i \in DOMAIN all |-> one(all[i])])
        \o (IF "RDONLY" \in flags THEN <<remount(Root \o m.destination, TRUE)>> ELSE <<>>)

\* /dev stays writable until the devices are made.
mount_of(m) ==
  LET flags == parse_mount(m.options)
  IN  CASE ~ m.valid                -> <<refuse>>
        [] m.valid /\ m.type = "cgroup" -> mount_cgroups(m, flags)
        [] OTHER -> mount_from(m, IF m.destination = Dev THEN flags \ {"RDONLY"} ELSE flags)

\* Of the default devices two stand for all.
DEFAULT_DEVICES == <<[path |-> DevNull, valid |-> TRUE],
                     [path |-> <<"dev", "zero">>, valid |-> TRUE]>>

\* Nodes, or, where a user namespace forbids them, bind mounts of the guest's.
create_devices(devices, bind_device) ==
  LET one(d) == CASE ~ d.valid                 -> refuse
                  [] d.valid /\ bind_device    -> bind(d.path, Root \o d.path, FALSE)
                  [] OTHER                     -> mknod(Root \o d.path)
      all    == DEFAULT_DEVICES \o devices
  IN  [i \in DOMAIN all |-> one(all[i])]

\* Mutation: the propagation is left as it is.
RootfsPeers(spec, bind_device) ==
  <<bind(Root, Root, TRUE)>>
    \o FlattenSeq([i \in DOMAIN spec.mounts |-> mount_of(spec.mounts[i])])
    \o create_devices(spec.devices, bind_device)

\* The propagation of all mounts, the root on itself, the mounts in their
\* order, the devices.
init_rootfs(spec, bind_device) ==
  <<propagation(spec.propagation), bind(Root, Root, TRUE)>>
    \o FlattenSeq([i \in DOMAIN spec.mounts |-> mount_of(spec.mounts[i])])
    \o create_devices(spec.devices, bind_device)

\* pivot_rootfs and ms_move_root; a shared mount is refused by the kernel.
pivot_rootfs(w) == [w EXCEPT !.table = Pivot(w.table, Root)]

mask_path(p)     == IF p.valid THEN mask(p.path) ELSE refuse
readonly_path(p) == IF p.valid THEN readonly(p.path) ELSE refuse

\* /dev and the root become read-only last.
finish_rootfs(spec) ==
  LET IsReadOnlyDev(m) == m.destination = Dev /\ "RDONLY" \in parse_mount(m.options)
      one(m) == IF IsReadOnlyDev(m) THEN <<remount(Dev, TRUE)>> ELSE <<>>
  IN  [i \in DOMAIN spec.masked |-> mask_path(spec.masked[i])]
        \o [i \in DOMAIN spec.readonly |-> readonly_path(spec.readonly[i])]
        \o FlattenSeq([i \in DOMAIN spec.mounts |-> one(spec.mounts[i])])
        \o (IF spec.rootReadonly THEN <<remount(<<>>, TRUE)>> ELSE <<>>)
=============================================================================
