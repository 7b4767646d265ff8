--------------------------- MODULE SpecConversion ---------------------------
(***************************************************************************)
(* From the specification on the wire to config.json: grpc_to_oci of       *)
(* rustjail makes the structs of the oci crate out of the messages, and    *)
(* serde writes them.  An Option is a sequence of at most one.             *)
(***************************************************************************)
EXTENDS Integers, Sequences, SequencesExt

CONSTANTS
  Struct,     \* the structs of the oci crate, see OciTypes
  Bits        \* the width of a u16; u32 and u64 have two and four times as many

ASSUME WidthAssumption == Bits \in Nat \ {0}

Some(v) == <<v>>
None == <<>>
MapAll(Op(_), s) == [i \in DOMAIN s |-> Op(s[i])]

\* Conversions with "as": the low bits, of a signed type with its sign.
Low(v, w) == v % 2^w
WithSign(v, w) == IF Low(v, w) < 2^(w - 1) THEN Low(v, w) ELSE Low(v, w) - 2^w

AsU16(v) == Low(v, Bits)
AsU32(v) == Low(v, 2 * Bits)
AsI32(v) == WithSign(v, 2 * Bits)
AsI64(v) == WithSign(v, 4 * Bits)

----------------------------------------------------------------------------
\* grpc_to_oci.

box(b) == [height |-> b.Height, width |-> b.Width]

user(u) ==
  [uid |-> u.UID, gid |-> u.GID, additional_gids |-> u.AdditionalGids,
   username |-> u.Username]

\* MaybeUninit::zeroed(): zeros, and strings and vectors of length 0.
ZeroedUser == [uid |-> 0, gid |-> 0, additional_gids |-> <<>>, username |-> <<>>]

capabilities(c) ==
  [bounding |-> c.Bounding, effective |-> c.Effective, inheritable |-> c.Inheritable,
   permitted |-> c.Permitted, ambient |-> c.Ambient]

rlimit(l) == [type |-> l.Type, hard |-> l.Hard, soft |-> l.Soft]

process_grpc_to_oci(p) ==
  [terminal          |-> p.Terminal,
   console_size      |-> MapAll(box, p.ConsoleSize),
   user              |-> IF p.User = None THEN ZeroedUser ELSE user(p.User[1]),
   args              |-> p.Args,
   env               |-> p.Env,
   cwd               |-> p.Cwd,
   capabilities      |-> MapAll(capabilities, p.Capabilities),
   rlimits           |-> MapAll(rlimit, p.Rlimits),
   no_new_privileges |-> p.NoNewPrivileges,
   apparmor_profile  |-> p.ApparmorProfile,
   oom_score_adj     |-> Some(AsI32(p.OOMScoreAdj)),
   selinux_label     |-> p.SelinuxLabel]

root_grpc_to_oci(r) == [path |-> r.Path, readonly |-> r.Readonly]

mount_grpc_to_oci(m) ==
  [destination |-> m.destination, type |-> m.field_type, source |-> m.source,
   options |-> m.options]

hook_grpc_to_oci(h) ==
  [path |-> h.Path, args |-> h.Args, env |-> h.Env, timeout |-> Some(AsI32(h.Timeout))]

\* Mutation: the stop hooks are taken from the list of the start hooks.
hooks_copied_twice(h) ==
  [prestart  |-> MapAll(hook_grpc_to_oci, h.Prestart),
   poststart |-> MapAll(hook_grpc_to_oci, h.Poststart),
   poststop  |-> MapAll(hook_grpc_to_oci, h.Poststart)]

hooks_grpc_to_oci(h) ==
  [prestart  |-> MapAll(hook_grpc_to_oci, h.Prestart),
   poststart |-> MapAll(hook_grpc_to_oci, h.Poststart),
   poststop  |-> MapAll(hook_grpc_to_oci, h.Poststop)]

idmap_grpc_to_oci(im) ==
  [container_id |-> im.ContainerID, host_id |-> im.HostID, size |-> im.Size]

block_device(d) == [major |-> d.Major, minor |-> d.Minor]

throttle_device_grpc_to_oci(td) == [blk |-> block_device(td), rate |-> td.Rate]

weight_device_grpc_to_oci(wd) ==
  [blk |-> block_device(wd), weight |-> Some(AsU16(wd.Weight)),
   leaf_weight |-> Some(AsU16(wd.LeafWeight))]

blockio_grpc_to_oci(blk) ==
  LET throttles(tds) == MapAll(throttle_device_grpc_to_oci, tds)
  IN  [weight                     |-> Some(AsU16(blk.Weight)),
       leaf_weight                |-> Some(AsU16(blk.LeafWeight)),
       weight_device              |-> MapAll(weight_device_grpc_to_oci, blk.WeightDevice),
       throttle_read_bps_device   |-> throttles(blk.ThrottleReadBpsDevice),
       throttle_write_bps_device  |-> throttles(blk.ThrottleWriteBpsDevice),
       throttle_read_iops_device  |-> throttles(blk.ThrottleReadIOPSDevice),
       throttle_write_iops_device |-> throttles(blk.ThrottleWriteIOPSDevice)]

\* -1 stands for every number.
NumberOrAny(n) == IF n = -1 THEN None ELSE Some(n)

device_rule(d) ==
  [allow |-> d.Allow, type |-> d.Type, major |-> NumberOrAny(d.Major),
   minor |-> NumberOrAny(d.Minor), access |-> d.Access]

memory(m) ==
  [limit |-> Some(m.Limit), reservation |-> Some(m.Reservation), swap |-> Some(m.Swap),
   kernel |-> Some(m.Kernel), kernel_tcp |-> Some(m.KernelTCP),
   swapiness |-> Some(AsI64(m.Swappiness)), disable_oom_killer |-> Some(m.DisableOOMKiller)]

cpu(c) ==
  [shares |-> Some(c.Shares), quota |-> Some(c.Quota), period |-> Some(c.Period),
   realtime_runtime |-> Some(c.RealtimeRuntime),
   realtime_period |-> Some(c.RealtimePeriod), cpus |-> c.Cpus, mems |-> c.Mems]

network(n) ==
  LET priority(p) == [name |-> p.Name, priority |-> p.Priority]
  IN  [class_id |-> Some(n.ClassID), priorities |-> MapAll(priority, n.Priorities)]

resources_grpc_to_oci(res) ==
  LET pids(p)     == [limit |-> p.Limit]
      hugepage(l) == [page_size |-> l.Pagesize, limit |-> l.Limit]
  IN  [devices         |-> MapAll(device_rule, res.Devices),
       memory          |-> MapAll(memory, res.Memory),
       cpu             |-> MapAll(cpu, res.CPU),
       pids            |-> MapAll(pids, res.Pids),
       block_io        |-> MapAll(blockio_grpc_to_oci, res.BlockIO),
       hugepage_limits |-> MapAll(hugepage, res.HugepageLimits),
       network         |-> MapAll(network, res.Network),
       rdma            |-> <<>>]

seccomp_arg(a) ==
  [index |-> AsU32(a.Index), value |-> a.Value, value_two |-> a.ValueTwo, op |-> a.Op]

seccomp_grpc_to_oci(sec) ==
  LET syscall(s) == [names |-> s.Names, action |-> s.Action,
                     args |-> MapAll(seccomp_arg, s.Args)]
  IN  [default_action |-> sec.DefaultAction, architectures |-> sec.Architectures,
       syscalls |-> MapAll(syscall, sec.Syscalls)]

device(d) ==
  [path |-> d.Path, type |-> d.Type, major |-> d.Major, minor |-> d.Minor,
   file_mode |-> Some(d.FileMode), uid |-> Some(d.UID), gid |-> Some(d.GID)]

linux_grpc_to_oci(l) ==
  LET namespace(n) == [type |-> n.Type, path |-> n.Path]
      rdt(r)       == [l3_cache_schema |-> r.L3CacheSchema]
  IN  [uid_mappings       |-> MapAll(idmap_grpc_to_oci, l.UIDMappings),
       gid_mappings       |-> MapAll(idmap_grpc_to_oci, l.GIDMappings),
       sysctl             |-> l.Sysctl,
       resources          |-> MapAll(resources_grpc_to_oci, l.Resources),
       cgroups_path       |-> l.CgroupsPath,
       namespaces         |-> MapAll(namespace, l.Namespaces),
       devices            |-> MapAll(device, l.Devices),
       seccomp            |-> MapAll(seccomp_grpc_to_oci, l.Seccomp),
       rootfs_propagation |-> l.RootfsPropagation,
       masked_paths       |-> l.MaskedPaths,
       readonly_paths     |-> l.ReadonlyPaths,
       mount_label        |-> l.MountLabel,
       intel_rdt          |-> MapAll(rdt, l.IntelRdt)]

grpc_to_oci(s) ==
  [version     |-> s.Version,
   process     |-> MapAll(process_grpc_to_oci, s.Process),
   root        |-> MapAll(root_grpc_to_oci, s.Root),
   hostname    |-> s.Hostname,
   mounts      |-> MapAll(mount_grpc_to_oci, s.Mounts),
   hooks       |-> MapAll(hooks_grpc_to_oci, s.Hooks),
   annotations |-> s.Annotations,
   linux       |-> MapAll(linux_grpc_to_oci, s.Linux),
   solaris     |-> None,
   windows     |-> None,
   vm          |-> None]

----------------------------------------------------------------------------
\* serde.

\* What Default gives, and with that what skip_serializing_if leaves out.
Empty(a) ==
  CASE a.kind = "flag"   -> FALSE
    [] a.kind = "number" -> 0
    [] OTHER             -> <<>>

RECURSIVE Save(_, _)
RECURSIVE Load(_, _)

\* A value of a field as JSON; None that is not left out is null.
ToJson(a, v) ==
  CASE a.of = ""           -> v
    [] a.kind = "struct"   -> Save(a.of, v)
    [] OTHER               -> [i \in DOMAIN v |-> Save(a.of, v[i])]

\* The JSON object of a struct: a function of the keys it has.
Save(T, o) ==
  LET S       == Struct[T]
      written == {f \in DOMAIN S : ~ (S[f].skip /\ o[f] = Empty(S[f]))}
  IN  [k \in {S[f].key : f \in written} |->
         LET f == CHOOSE f \in written : S[f].key = k IN ToJson(S[f], o[f])]

FromJson(a, v) ==
  CASE a.of = ""           -> v
    [] a.kind = "struct"   -> Load(a.of, v)
    [] OTHER               -> [i \in DOMAIN v |-> Load(a.of, v[i])]

\* A field that is missing is filled in, if it may be.
Fillable(a) == a.default \/ a.kind = "option"

Load(T, j) ==
  LET S == Struct[T]
  IN  [f \in DOMAIN S |->
         IF S[f].key \in DOMAIN j THEN FromJson(S[f], j[S[f].key]) ELSE Empty(S[f])]

\* Whether the object can be read: nothing that has to be there is missing.
RECURSIVE Readable(_, _)
Readable(T, j) ==
  LET S == Struct[T]
  IN  \A f \in DOMAIN S :
        IF S[f].key \notin DOMAIN j THEN Fillable(S[f])
        ELSE CASE S[f].of = ""         -> TRUE
               [] S[f].kind = "struct" -> Readable(S[f].of, j[S[f].key])
               [] OTHER -> \A i \in DOMAIN j[S[f].key] : Readable(S[f].of, j[S[f].key][i])
=============================================================================
