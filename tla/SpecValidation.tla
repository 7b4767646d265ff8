--------------------------- MODULE SpecValidation ---------------------------
(***************************************************************************)
(* What CreateContainer makes of the namespaces of a specification         *)
(* (update_container_namespaces of src/src/grpc.rs) and which              *)
(* specifications it accepts (src/rustjail/src/validator.rs).              *)
(*                                                                         *)
(* ns[t] is "none" when the type is not listed, "new" when it is listed    *)
(* without a path, and otherwise the namespace its path leads to.          *)
(***************************************************************************)
EXTENDS Naturals, Sequences

\* NAMESPACES; the cgroup namespace is like that of the network.
NsTypes == {"user", "ipc", "pid", "network", "mount", "uts"}

\* ipc and uts namespaces become those of the sandbox, which have no path
\* before CreateSandbox; sandbox_pid_ns is never set, so every container has
\* a pid namespace.
update_container_namespaces(ns, sandboxed) ==
  [t \in NsTypes |->
     CASE t \in {"ipc", "uts"} /\ ns[t] # "none" -> IF sandboxed THEN "sandbox" ELSE "new"
       [] t = "pid" /\ ns[t] = "none"            -> "new"
       [] OTHER                                  -> ns[t]]

contain_namespace(ns, t) == ns[t] # "none"

hostname(spec, ns) == spec.hostname => contain_namespace(ns, "uts")

security(spec, ns) ==
  spec.masked # <<>> \/ spec.readonly # <<>> => contain_namespace(ns, "mount")

\* The mappings are given by their sizes.
idmapping(sizes) == \E i \in DOMAIN sizes : sizes[i] > 0

usernamespace(spec, ns) ==
  IF contain_namespace(ns, "user")
  THEN idmapping(spec.uidMappings) /\ idmapping(spec.gidMappings)
  ELSE spec.uidMappings = <<>> /\ spec.gidMappings = <<>>

\* Mutation: sysctls of ipc are let through.
sysctl_ipc_unchecked(spec, ns) ==
  \A k \in spec.sysctls :
    \/ k = "ipc"
    \/ k = "net" /\ ns.network = "new"
    \/ k = "domainname" /\ contain_namespace(ns, "uts")

\* Keys by what they belong to: "ipc" is SYSCTLS and fs.mqueue, "net",
\* "domainname", and "other", kernel.hostname included.  A key of the
\* network is accepted without a path only: with one the loop goes on to
\* its last statement, an error, whatever check_host_ns says.
sysctl(spec, ns) ==
  \A k \in spec.sysctls :
    \/ k = "ipc" /\ contain_namespace(ns, "ipc")
    \/ k = "net" /\ ns.network = "new"
    \/ k = "domainname" /\ contain_namespace(ns, "uts")

\* rootfs() wants a canonical path.  rootless_euid is never set.
validate(spec, ns) ==
  /\ spec.rootCanonical
  /\ hostname(spec, ns)
  /\ security(spec, ns)
  /\ usernamespace(spec, ns)
  /\ sysctl(spec, ns)
=============================================================================
