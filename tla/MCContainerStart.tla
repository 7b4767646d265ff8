-------------------------- MODULE MCContainerStart --------------------------
(***************************************************************************)
(* A guest with two cgroup hierarchies and a volume, and specifications    *)
(* that vary a usual one: all short lists of mounts, and one by one the    *)
(* namespaces, paths, devices, sysctls and mappings.                       *)
(***************************************************************************)
EXTENDS ContainerStart

MCRoot == <<"run", "c">>
MCCgroupOf == [memory |-> <<"sys", "fs", "cgroup", "memory", "c">>,
               cpu    |-> <<"sys", "fs", "cgroup", "cpu", "c">>]

MCAgentMounts ==
  <<MountOf("guest", <<>>, FALSE), MountOf("proc", <<"proc">>, FALSE),
    MountOf("sysfs", <<"sys">>, FALSE), MountOf("devtmpfs", <<"dev">>, FALSE),
    MountOf("cg1", <<"sys", "fs", "cgroup", "memory">>, FALSE),
    MountOf("cg2", <<"sys", "fs", "cgroup", "cpu">>, FALSE),
    MountOf("image", <<"run", "c">>, FALSE), MountOf("volume", <<"run", "v">>, FALSE)>>

MCFiles == {<<"proc", <<"kcore">>>>}
MCAbsent == {<<"proc", <<"latency">>>>, <<"image", <<"proc", "latency">>>>}

MCProbes ==
  {<<"etc">>, <<"dev">>, <<"dev", "shm">>, <<"proc", "kcore">>, <<"proc", "sys">>,
   <<"sys", "firmware">>, <<"sys", "fs", "cgroup">>, <<"sys", "fs", "cgroup", "cpu">>,
   <<"data", "a">>, <<"data", "sub">>}

----------------------------------------------------------------------------
NewFs(type, at, options) ==
  [type |-> type, source |-> <<>>, destination |-> at, options |-> options, valid |-> TRUE]
Volume(at, options) ==
  [type |-> "bind", source |-> <<"run", "v">>, destination |-> at, options |-> options,
   valid |-> TRUE]

Proc == NewFs("proc", <<"proc">>, <<"defaults">>)
OtherMounts ==
  {NewFs("tmpfs", Dev, <<"nosuid", "ro">>), Volume(Dev, <<"bind", "ro">>),
   NewFs("tmpfs", <<"dev", "shm">>, <<"nosuid">>),
   NewFs("sysfs", <<"sys">>, <<"ro">>),
   NewFs("cgroup", <<"sys", "fs", "cgroup">>, <<"ro">>),
   NewFs("cgroup", <<"sys", "fs", "cgroup">>, <<"nosuid", "suid">>),
   Volume(<<"data">>, <<"rbind">>), Volume(<<"data">>, <<"rbind", "private", "ro">>),
   Volume(<<"data", "sub">>, <<"ro", "bind", "rw", "nosuid">>),
   [NewFs("tmpfs", <<"data">>, <<>>) EXCEPT !.valid = FALSE]}

Lists ==
  {<<Proc>> \o l : l \in {s \in UNION {[1..n -> OtherMounts] : n \in 0..2} :
     \A i, j \in DOMAIN s : s[i].destination = s[j].destination => i = j}}

Path(p) == [path |-> p, valid |-> TRUE]
BadPath == [path |-> <<>>, valid |-> FALSE]

Usual ==
  [ns |-> [t \in NsTypes |-> IF t \in {"mount", "ipc", "uts", "pid"} THEN "new" ELSE "none"],
   mounts |-> <<Proc, NewFs("tmpfs", Dev, <<"nosuid">>), NewFs("sysfs", <<"sys">>, <<"ro">>)>>,
   devices |-> <<>>, propagation |-> "slave", rootReadonly |-> TRUE, rootCanonical |-> TRUE,
   masked |-> <<Path(<<"proc", "kcore">>), Path(<<"sys", "firmware">>)>>,
   readonly |-> <<Path(<<"proc", "sys">>), Path(<<"proc", "latency">>)>>,
   terminal |-> FALSE, resources |-> TRUE, hostname |-> FALSE, sysctls |-> {}, uidMappings |-> <<>>, gidMappings |-> <<>>]

Mapped(s) == [s EXCEPT !.uidMappings = <<0, 1>>, !.gidMappings = <<1>>, !.ns.user = "new"]

MCSpecs ==
  {[Usual EXCEPT !.mounts = l] : l \in Lists}
    \cup {[Usual EXCEPT !.terminal = t, !.resources = r] : t, r \in BOOLEAN}
    \cup {[Usual EXCEPT !.propagation = p] : p \in {"shared", "private"}}
    \cup {[Usual EXCEPT !.ns[t] = v] : t \in NsTypes, v \in {"none", "new", "other", "agent"}}
    \cup {[Usual EXCEPT !.sysctls = {k}, !.ns[t] = v] :
            k \in {"ipc", "net", "domainname", "other"}, t \in {"ipc", "network", "uts"},
            v \in {"none", "new", "agent"}}
    \cup {[Usual EXCEPT !.hostname = TRUE, !.ns.uts = v] : v \in {"none", "new"}}
    \cup {Mapped(Usual), [Mapped(Usual) EXCEPT !.gidMappings = <<0>>],
          [Mapped(Usual) EXCEPT !.ns.ipc = "none", !.ns.uts = "none"],
          [Mapped(Usual) EXCEPT !.ns.user = "other"],
          [Mapped(Usual) EXCEPT !.ns.user = "none"]}
    \cup {[Usual EXCEPT !.devices = <<d>>, !.rootReadonly = FALSE] :
            d \in {Path(<<"dev", "fuse">>), BadPath}}
    \cup {[Usual EXCEPT !.readonly = <<p>>] :
            p \in {Path(<<"proc">>), Path(<<"sys">>), BadPath}}
    \cup {[Usual EXCEPT !.masked = <<>>, !.readonly = <<>>, !.ns.mount = "none"],
          [Usual EXCEPT !.masked = <<BadPath>>], [Usual EXCEPT !.rootCanonical = FALSE]}
=============================================================================
