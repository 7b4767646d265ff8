---------------------------- MODULE RequestPath ----------------------------
(***************************************************************************)
(* The way of a message: the runtime serialises it, the agent reads it,    *)
(* and a specification is converted and saved as config.json for the       *)
(* hooks (setup_bundle).  A behaviour takes a message all the way; its     *)
(* conversion is compared with that of a second message of the same type.  *)
(***************************************************************************)
EXTENDS ProtoWire, SpecConversion

CONSTANTS
  MessageTypes,     \* the types of message to send
  TextSizes,        \* lengths of the strings in them
  Unsigned, Signed  \* numbers in them

ASSUME SampleAssumption ==
  /\ MessageTypes \subseteq DOMAIN Schema
  /\ TextSizes \subseteq Nat \ {0}
  /\ \A v \in Unsigned : v # 0 /\ v = Low(v, 4 * Bits)
  /\ \A v \in Signed : v # 0 /\ v = AsI64(v)

VARIABLES
  phase,    \* "built", "sent", "received", "converted", "saved"
  type,     \* the type of the messages
  sent,     \* the message, and the one it is compared with
  form,     \* how the peer writes: "plain", "packed" or "newer"
  wire,     \* what is on the wire
  got,      \* what the agent has read
  oci,      \* the specifications made of the two messages
  config    \* config.json of the first

vars == <<phase, type, sent, form, wire, got, oci, config>>

----------------------------------------------------------------------------
\* The messages that are sent: all fields empty, one field set, all set.

Text(n) == <<n>>

ScalarValues(t) ==
  CASE t \in {"string", "bytes"}          -> {Text(n) : n \in TextSizes}
    [] t = "bool"                         -> {TRUE}
    [] t = "enum"                         -> {1}
    [] t = "uint32"                       -> {v \in Unsigned : v = AsU32(v)}
    [] t = "uint64"                       -> Unsigned
    [] t = "int32"                        -> {v \in Signed : v = AsI32(v)}
    [] t = "int64"                        -> Signed

RECURSIVE Sparest(_)
\* A message of type T with its first field set, if it has one, and long
\* enough for its length to take two bytes if that is a string.
Sparest(T) ==
  IF Fields(T) = {} THEN Default(T)
  ELSE LET fd == Schema[T][1]
           v  == CASE fd.type = "message"             -> Sparest(fd.of)
                   [] fd.type \in {"string", "bytes"} -> Text(Max(TextSizes))
                   [] OTHER -> CHOOSE x \in ScalarValues(fd.type) : TRUE
       IN  [Default(T) EXCEPT ![fd.name] =
              CASE fd.label = "map" -> (Text(1) :> v)
                [] fd.label = "repeated" \/ fd.type = "message" -> <<v>>
                [] OTHER -> v]

ElementValues(fd) ==
  IF fd.type = "message" THEN {Default(fd.of), Sparest(fd.of)}
  ELSE ScalarValues(fd.type)

FieldValues(fd) ==
  CASE fd.label = "map"      -> {(Text(1) :> v) : v \in ElementValues(fd)}
    [] fd.label = "repeated" -> {<<v, w>> : v, w \in ElementValues(fd)}
    [] fd.type = "message"   -> {<<v>> : v \in ElementValues(fd)}
    [] OTHER                 -> ElementValues(fd)

OneSet(T) ==
  UNION {{[Default(T) EXCEPT ![fd.name] = v] : v \in FieldValues(fd)} : fd \in Fields(T)}

AllSet(T) ==
  [f \in FieldNames(T) \cup {Unknown} |->
     IF f = Unknown THEN <<>>
     ELSE CHOOSE v \in FieldValues(CHOOSE fd \in Fields(T) : fd.name = f) : TRUE]

Samples(T) == OneSet(T) \cup {Default(T), AllSet(T)}

----------------------------------------------------------------------------
\* The runtime writes lists of numbers packed, and a newer one fields the
\* agent does not know.

IsPackable(fd) == fd.label = "repeated" /\ fd.type \in {"uint32", "uint64"}

PackedList(fd, v) ==
  IF v = <<>> THEN <<>>
  ELSE LET p == [i \in DOMAIN v |-> Varint(v[i])]
       IN  <<Tag(fd.number, WireLengthDelimited), Varint(Bytes(p))>> \o p

WritePacked(T, m) ==
  LET lists == SelectSeq(Schema[T], IsPackable)
      rest  == [f \in DOMAIN m |->
                  IF \E i \in DOMAIN lists : lists[i].name = f THEN <<>> ELSE m[f]]
  IN  WriteTo(T, rest)
        \o FlattenSeq([i \in DOMAIN lists |-> PackedList(lists[i], m[lists[i].name])])

NewField == <<Tag(99, WireLengthDelimited), Varint(1)>> \o Raw(Text(1))

Written(T, m, how) ==
  CASE how = "plain"  -> WriteTo(T, m)
    [] how = "packed" -> WritePacked(T, m)
    [] how = "newer"  -> NewField \o WriteTo(T, m)

\* The conversion of a message of each type that has one.
Conversion(T, m) ==
  CASE T = "Spec"                -> grpc_to_oci(m)
    [] T = "Process"             -> process_grpc_to_oci(m)
    [] T = "User"                -> user(m)
    [] T = "LinuxCapabilities"   -> capabilities(m)
    [] T = "POSIXRlimit"         -> rlimit(m)
    [] T = "Root"                -> root_grpc_to_oci(m)
    [] T = "Mount"               -> mount_grpc_to_oci(m)
    [] T = "Hook"                -> hook_grpc_to_oci(m)
    [] T = "Hooks"               -> hooks_grpc_to_oci(m)
    [] T = "Linux"               -> linux_grpc_to_oci(m)
    [] T = "LinuxIDMapping"      -> idmap_grpc_to_oci(m)
    [] T = "LinuxDevice"         -> device(m)
    [] T = "LinuxDeviceCgroup"   -> device_rule(m)
    [] T = "LinuxResources"      -> resources_grpc_to_oci(m)
    [] T = "LinuxMemory"         -> memory(m)
    [] T = "LinuxCPU"            -> cpu(m)
    [] T = "LinuxNetwork"        -> network(m)
    [] T = "LinuxBlockIO"        -> blockio_grpc_to_oci(m)
    [] T = "LinuxWeightDevice"   -> weight_device_grpc_to_oci(m)
    [] T = "LinuxThrottleDevice" -> throttle_device_grpc_to_oci(m)
    [] T = "LinuxSeccomp"        -> seccomp_grpc_to_oci(m)
    [] T = "LinuxSeccompArg"     -> seccomp_arg(m)

Convertible ==
  {"Spec", "Process", "User", "LinuxCapabilities", "POSIXRlimit", "Root", "Mount", "Hook",
   "Hooks", "Linux", "LinuxIDMapping", "LinuxDevice", "LinuxDeviceCgroup",
   "LinuxResources", "LinuxMemory", "LinuxCPU", "LinuxNetwork", "LinuxBlockIO",
   "LinuxWeightDevice", "LinuxThrottleDevice", "LinuxSeccomp", "LinuxSeccompArg"}

----------------------------------------------------------------------------
Nothing == <<>>

Init ==
  /\ phase = "built"
  /\ type \in MessageTypes
  /\ sent \in {<<m>> : m \in Samples(type)}
  /\ form = "plain"
  /\ wire = Nothing /\ got = Nothing /\ oci = Nothing /\ config = Nothing

\* pb_ser of the peer.
Serialize ==
  /\ phase = "built"
  /\ \E how \in {"plain", "packed", "newer"} :
       /\ how = "packed" => \E fd \in Fields(type) : IsPackable(fd)
       /\ form' = how
       /\ wire' = Written(type, sent[1], how)
  /\ phase' = "sent"
  /\ UNCHANGED <<type, sent, got, oci, config>>

\* pb_de of the agent.
Deserialize ==
  /\ phase = "sent"
  /\ got' = MergeFrom(type, Default(type), wire)
  /\ phase' = "received"
  /\ UNCHANGED <<type, sent, form, wire, oci, config>>

Convert ==
  /\ phase = "received" /\ form = "plain"
  /\ type \in Convertible
  /\ \E m \in OneSet(type) \cup {Default(type)} :
       /\ sent' = Append(sent, m)
       /\ oci' = <<Conversion(type, got.m), Conversion(type, m)>>
  /\ phase' = "converted"
  /\ UNCHANGED <<type, form, wire, got, config>>

\* setup_bundle: oci.save of config.json.  A specification has to have a
\* root (an error is returned) and a process (or the handler panics).
SaveConfig ==
  /\ phase = "converted"
  /\ type = "Spec" => oci[1].root # <<>> /\ oci[1].process # <<>>
  /\ config' = Save(type, oci[1])
  /\ phase' = "saved"
  /\ UNCHANGED <<type, sent, form, wire, got, oci>>

Next == Serialize \/ Deserialize \/ Convert \/ SaveConfig

Spec == Init /\ [][Next]_vars

----------------------------------------------------------------------------
\* What the agent reads is what the runtime has sent, with lists packed or
\* not; fields it does not know are kept and disturb nothing (merge_from).
ReadsWhatWasSent ==
  phase = "received" =>
    /\ got.ok
    /\ got.m = [sent[1] EXCEPT ![Unknown] = IF form = "newer" THEN <<NewField>> ELSE <<>>]

\* compute_size is the number of bytes that write_to_with_cached_sizes
\* writes, tags and lengths of nested messages included.
SizeExact ==
  phase = "sent" /\ form = "plain" => Bytes(wire) = ComputeSize(type, sent[1])

\* What a specification can hold of a message: nothing of what is for other
\* systems, a user that is left out like one that is all zero, and of a
\* number that is wider than its field the low bits.
Width(T, f) ==
  CASE <<T, f>> \in {<<"Process", "OOMScoreAdj">>, <<"Hook", "Timeout">>,
                    <<"LinuxSeccompArg", "Index">>} -> 2 * Bits
    [] T \in {"LinuxBlockIO", "LinuxWeightDevice"}
         /\ f \in {"Weight", "LeafWeight"}         -> Bits
    [] OTHER                                       -> 4 * Bits

RECURSIVE Held(_, _)
Held(T, m) ==
  LET Present(fd) == IF fd.of = "User" /\ m[fd.name] = <<>> THEN <<Default("User")>>
                     ELSE m[fd.name]
      OfField(fd) ==
        CASE fd.of \in {"Solaris", "Windows"} -> <<>>
          [] fd.type = "message" /\ fd.of \notin {"Solaris", "Windows"} ->
               LET v == Present(fd) IN [i \in DOMAIN v |-> Held(fd.of, v[i])]
          [] fd.type \in {"uint32", "uint64", "int64"} /\ fd.label = "one" ->
               Low(m[fd.name], Width(T, fd.name))
          [] OTHER -> m[fd.name]
  IN  [f \in FieldNames(T) |-> OfField(CHOOSE fd \in Fields(T) : fd.name = f)]

\* grpc_to_oci keeps what a specification can hold, field by field, and no
\* more: two messages give the same specification exactly if they are the
\* same as far as it can hold them.  A number out of the range of its field
\* is truncated without an error ("as" in grpc_to_oci).
SpecKept ==
  phase = "converted" =>
    (oci[1] = oci[2] <=> Held(type, sent[1]) = Held(type, sent[2]))

\* config.json can be read back and is the specification: what the
\* attributes leave out they fill in again, and no two keys collide.
ConfigReadBack ==
  phase = "saved" => Readable(type, config) /\ Load(type, config) = oci[1]
=============================================================================
