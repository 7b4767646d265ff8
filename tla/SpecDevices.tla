----------------------------- MODULE SpecDevices -----------------------------
(***************************************************************************)
(* The list of devices of an OCI spec (src/src/device.rs): add_devices,    *)
(* add_device, the handlers of the device types, and                       *)
(* update_spec_device_list, which puts the numbers devices have in the     *)
(* guest in the place of the host's.                                       *)
(*                                                                         *)
(* A pair of major and minor is one number.  A spec is a record:           *)
(*    devices   sequence of [path, type, num]                              *)
(*    rules     sequence of [allow, type, num, access], the rules of the   *)
(*              devices cgroup                                             *)
(* and a Device of a request is [id, type, vm_path, container_path].  The  *)
(* guest is given by                                                       *)
(*    hotplug   id -> the path of the node get_pci_device_name or          *)
(*              get_scsi_device_name find (DeviceHotplug)                  *)
(*    nodes     path of a node -> its number                               *)
(* each defined where the lookup succeeds.                                 *)
(***************************************************************************)
EXTENDS Integers, Sequences, SequencesExt

Empty == "empty"        \* the empty string
Error == [error |-> TRUE]
Done(spec) == [error |-> FALSE, spec |-> spec]

DEVICEHANDLERLIST == {"blk", "mmioblk", "nvdimm", "scsi"}

\* Mutation: the number is read after it has been replaced.
RenumberLate(spec, i, num) ==
    [devices |-> [spec.devices EXCEPT ![i].num = num],
     rules |-> [j \in DOMAIN spec.rules |->
                   IF spec.rules[j].num = num
                   THEN [spec.rules[j] EXCEPT !.num = num] ELSE spec.rules[j]]]

\* The i-th device gets its number, and so does every rule that has the one
\* it had: rules are not matched by type, and may have been changed before.
Renumber(spec, i, num) ==
    [devices |-> [spec.devices EXCEPT ![i].num = num],
     rules |-> [j \in DOMAIN spec.rules |->
                   IF spec.rules[j].num = spec.devices[i].num
                   THEN [spec.rules[j] EXCEPT !.num = num] ELSE spec.rules[j]]]

\* The same if it is the device with that path.
RenumberAt(spec, i, path, num) ==
    IF spec.devices[i].path = path THEN Renumber(spec, i, num) ELSE spec

RenumberAll(spec, path, num) ==
    FoldLeft(LAMBDA s, i : RenumberAt(s, i, path, num),
             spec, [i \in DOMAIN spec.devices |-> i])

update_spec_device_list(d, spec, nodes) ==
    IF d.container_path = Empty \/ d.vm_path \notin DOMAIN nodes THEN Error
    ELSE Done(RenumberAll(spec, d.container_path, nodes[d.vm_path]))

\* The handlers: of a hot-plugged device the node is looked up.
virtio_blk_device_handler(d, spec, hotplug, nodes) ==
    IF d.id \notin DOMAIN hotplug THEN Error
    ELSE update_spec_device_list([d EXCEPT !.vm_path = hotplug[d.id]], spec, nodes)

virtiommio_blk_device_handler(d, spec, nodes) ==
    IF d.vm_path = Empty THEN Error ELSE update_spec_device_list(d, spec, nodes)

add_device(d, spec, hotplug, nodes) ==
    IF \/ d.type = Empty \/ d.type \notin DEVICEHANDLERLIST
       \/ d.id = Empty /\ d.vm_path = Empty
       \/ d.container_path = Empty
    THEN Error
    ELSE CASE d.type \in {"blk", "scsi"} -> virtio_blk_device_handler(d, spec, hotplug, nodes)
           [] d.type = "mmioblk" -> virtiommio_blk_device_handler(d, spec, nodes)
           [] d.type = "nvdimm" -> update_spec_device_list(d, spec, nodes)

\* The first error ends it.
add_next(r, d, hotplug, nodes) ==
    IF r.error THEN r ELSE add_device(d, r.spec, hotplug, nodes)
add_devices(ds, spec, hotplug, nodes) ==
    FoldLeft(LAMBDA r, d : add_next(r, d, hotplug, nodes), Done(spec), ds)

-----------------------------------------------------------------------------
(* What the rules mean: a permission is <<type, number, access>>.          *)

CONSTANTS
    Numbers,            \* those of devices of containers
    DefaultNumbers      \* the sequence of those of DEFAULT_DEVICES and
                        \* DEFAULT_ALLOWED_DEVICES
ASSUME NumbersAssumption ==
    /\ Numbers \subseteq Nat
    /\ DefaultNumbers \in Seq(Nat)
    /\ Range(DefaultNumbers) \cap Numbers = {}

WILDCARD == -1                        \* "*"
Access == {"r", "w", "m"}
Permissions == {"b", "c"} \X (Numbers \cup Range(DefaultNumbers)) \X Access

Covered(rule) ==
    {p \in Permissions :
        \/ rule.type = Empty          \* written as "a": all of them
        \/ /\ rule.type = p[1]
           /\ rule.num \in {WILDCARD, p[2]}
           /\ p[3] \in rule.access}

Apply(q, r) == IF r.allow THEN q \cup Covered(r) ELSE q \ Covered(r)
Permitted(perms, rules) == FoldLeft(LAMBDA q, r : Apply(q, r), perms, rules)
=============================================================================
