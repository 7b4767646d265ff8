----------------------------- MODULE ProtoWire -----------------------------
(***************************************************************************)
(* The generated protobuf code: merge_from, compute_size and               *)
(* write_to_with_cached_sizes of every message, driven by the schemas of   *)
(* ProtoAgent and ProtoOci.                                                *)
(*                                                                         *)
(* A message is a function of its fields.  An optional message is a        *)
(* sequence of at most one, a map a function, a string of n characters     *)
(* <<n>>, and <<>> if it is empty.  The wire is a sequence of tokens, each *)
(* with its size in bytes: a tag, a varint (which is also the length in    *)
(* front of a string or a message) or the raw characters of a string.      *)
(***************************************************************************)
EXTENDS Integers, Sequences, FiniteSets, SequencesExt, ProtoFields

CONSTANT Schema     \* type of message -> its fields, see ProtoAgent and ProtoOci

Unknown == "unknown_fields"

Fields(T) == Range(Schema[T])
FieldNames(T) == {fd.name : fd \in Fields(T)}

----------------------------------------------------------------------------
\* Messages.

\* The value of a field that is not there.
DefaultOf(fd) ==
  IF fd.label # "one" \/ fd.type \in {"string", "bytes", "message"} THEN <<>>
  ELSE IF fd.type = "bool" THEN FALSE
  ELSE 0

\* new() and clear().
Default(T) ==
  [f \in FieldNames(T) \cup {Unknown} |->
     IF f = Unknown THEN <<>>
     ELSE DefaultOf(CHOOSE fd \in Fields(T) : fd.name = f)]

----------------------------------------------------------------------------
\* Tokens.

VarintSize(v) ==
  CASE v < 0      -> 10
    [] v < 2^7    -> 1
    [] v < 2^14   -> 2
    [] v < 2^21   -> 3
    [] v < 2^28   -> 4
    [] OTHER      -> 5

WireVarint == 0
WireLengthDelimited == 2

WireType(type) ==
  IF type \in {"string", "bytes", "message"} THEN WireLengthDelimited ELSE WireVarint

TagSize(number) == VarintSize(8 * number)

Tag(number, wire) == [tok |-> "tag", v |-> <<number, wire>>, bytes |-> TagSize(number)]
Varint(v) == [tok |-> "varint", v |-> v, bytes |-> VarintSize(v)]
Raw(s)    == [i \in DOMAIN s |-> [tok |-> "raw", v |-> s, bytes |-> s[i]]]

TextLen(s) == IF s = <<>> THEN 0 ELSE s[1]

Bytes(w) ==
  LET upTo[i \in 0..Len(w)] == IF i = 0 THEN 0 ELSE upTo[i - 1] + w[i].bytes
  IN  upTo[Len(w)]

----------------------------------------------------------------------------
\* Writing.

SumOver(Op(_), s) ==
  LET upTo[i \in 0..Len(s)] == IF i = 0 THEN 0 ELSE upTo[i - 1] + Op(s[i])
  IN  upTo[Len(s)]

\* The two fields of the entry of a map.
KeyField == Str(1, "key")
ValueField(fd) == [fd EXCEPT !.number = 2, !.name = "value", !.label = "one"]

RECURSIVE ComputeSize(_, _)
RECURSIVE WriteTo(_, _)

\* Mutation: the length in front of a nested message is not counted.
SizeOfNoLength(fd, v) ==
  CASE fd.type = "bool"    -> 2
    [] fd.type = "message" -> 2 + ComputeSize(fd.of, v)
    [] fd.type \in {"string", "bytes"} ->
         TagSize(fd.number) + VarintSize(TextLen(v)) + TextLen(v)
    [] OTHER               -> TagSize(fd.number) + VarintSize(v)

\* What compute_size adds for one value of a field.
SizeOf(fd, v) ==
  CASE fd.type = "bool"    -> 2
    [] fd.type = "message" ->
         LET len == ComputeSize(fd.of, v) IN 1 + VarintSize(len) + len
    [] fd.type \in {"string", "bytes"} ->
         TagSize(fd.number) + VarintSize(TextLen(v)) + TextLen(v)
    [] OTHER               -> TagSize(fd.number) + VarintSize(v)

EntrySize(fd, map, k) == SizeOf(KeyField, k) + SizeOf(ValueField(fd), map[k])

Keys(map) == SetToSeq(DOMAIN map)

\* What compute_size adds for a field.
FieldSize(fd, v) ==
  CASE fd.label = "map" ->
         SumOver(LAMBDA k : LET n == EntrySize(fd, v, k)
                            IN  TagSize(fd.number) + VarintSize(n) + n, Keys(v))
    [] fd.label = "repeated" \/ fd.type = "message" ->
         SumOver(LAMBDA e : SizeOf(fd, e), v)
    [] OTHER -> IF v = DefaultOf(fd) THEN 0 ELSE SizeOf(fd, v)

ComputeSize(T, m) ==
  SumOver(LAMBDA fd : FieldSize(fd, m[fd.name]), Schema[T])
    + Bytes(FlattenSeq(m[Unknown]))

\* One value of a field.  The length in front of a message is the size that
\* compute_size has left in it.
Write(fd, v) ==
  <<Tag(fd.number, WireType(fd.type))>> \o
  CASE fd.type = "message" ->
         <<Varint(ComputeSize(fd.of, v))>> \o WriteTo(fd.of, v)
    [] fd.type \in {"string", "bytes"} -> <<Varint(TextLen(v))>> \o Raw(v)
    [] fd.type = "bool" -> <<Varint(IF v THEN 1 ELSE 0)>>
    [] OTHER -> <<Varint(v)>>

WriteEntry(fd, map, k) ==
  <<Tag(fd.number, WireLengthDelimited), Varint(EntrySize(fd, map, k))>>
    \o Write(KeyField, k) \o Write(ValueField(fd), map[k])

WriteField(fd, v) ==
  CASE fd.label = "map" ->
         FlattenSeq([i \in 1..Len(Keys(v)) |-> WriteEntry(fd, v, Keys(v)[i])])
    [] fd.label = "repeated" \/ fd.type = "message" ->
         FlattenSeq([i \in DOMAIN v |-> Write(fd, v[i])])
    [] OTHER -> IF v = DefaultOf(fd) THEN <<>> ELSE Write(fd, v)

WriteTo(T, m) ==
  FlattenSeq([i \in DOMAIN Schema[T] |-> WriteField(Schema[T][i], m[Schema[T][i].name])])
    \o FlattenSeq(m[Unknown])

----------------------------------------------------------------------------
\* Reading.

Failed == [ok |-> FALSE, m |-> <<>>]

\* The number of tokens from the i-th on that make up len bytes, -1 if the
\* input ends or a token goes on behind them.
RECURSIVE Extent(_, _, _)
Extent(w, i, len) ==
  CASE len = 0              -> 0
    [] len < 0 \/ i > Len(w) -> -1
    [] OTHER -> LET n == Extent(w, i + 1, len - w[i].bytes)
                IN  IF n = -1 THEN -1 ELSE n + 1

\* What is in front of w: the tag, the n tokens of the value behind it, its
\* length included, what is in the value, and the rest of w.
FieldOf(w, n) ==
  [number  |-> w[1].v[1],
   wire    |-> w[1].v[2],
   tokens  |-> n,
   payload |-> IF w[1].v[2] = WireVarint THEN <<w[2]>> ELSE SubSeq(w, 3, 1 + n),
   rest    |-> SubSeq(w, 2 + n, Len(w))]

NextField(w) ==
  FieldOf(w, IF w[1].v[2] = WireVarint THEN 1 ELSE 1 + Extent(w, 3, w[2].v))

RECURSIVE MergeFrom(_, _, _)

\* One value read from the payload.
Read(fd, p) ==
  CASE fd.type = "message" -> MergeFrom(fd.of, Default(fd.of), p)
    [] fd.type \in {"string", "bytes"} ->
         IF p = <<>> THEN [ok |-> TRUE, m |-> <<>>]
         ELSE [ok |-> Len(p) = 1 /\ p[1].tok = "raw", m |-> p[1].v]
    [] fd.type = "bool" -> [ok |-> p[1].tok = "varint", m |-> p[1].v # 0]
    [] OTHER            -> [ok |-> p[1].tok = "varint", m |-> p[1].v]

\* The entry of a map: key and value are fields 1 and 2 of a message.
Entered(old, k, v) == [ok |-> k.ok /\ v.ok, m |-> (k.m :> v.m) @@ old]
MergeEntry(fd, old, f) ==
  Entered(old, Read(KeyField, f.payload), Read(ValueField(fd), NextField(f.rest).payload))

\* Mutation: only lists that come one element at a time are read.
NeverPacked(fd, wire) == FALSE

\* A list of numbers may come packed into one payload.
Packed(fd, wire) ==
  /\ fd.label = "repeated"
  /\ WireType(fd.type) = WireVarint
  /\ wire = WireLengthDelimited

\* A value that has been read goes into the field.
Stored(fd, old, r) ==
  [ok |-> r.ok,
   m  |-> CASE fd.label = "repeated" -> Append(old, r.m)
            [] fd.type = "message"   -> <<r.m>>
            [] OTHER                 -> r.m]

Merged(fd, old, f) ==
  CASE fd.label = "map"    -> MergeEntry(fd, old, NextField(f.payload))
    [] Packed(fd, f.wire)  ->
         [ok |-> TRUE, m |-> old \o [i \in DOMAIN f.payload |-> f.payload[i].v]]
    [] OTHER               -> Stored(fd, old, Read(fd, f.payload))

\* The wire type merge_from insists on.
Expected(fd, wire) ==
  \/ wire = IF fd.label = "map" THEN WireLengthDelimited ELSE WireType(fd.type)
  \/ Packed(fd, wire)

MergeRead(T, m, fd, f, r) ==
  IF Expected(fd, f.wire) /\ r.ok THEN MergeFrom(T, [m EXCEPT ![fd.name] = r.m], f.rest)
  ELSE Failed

MergeKnown(T, m, fd, f) == MergeRead(T, m, fd, f, Merged(fd, m[fd.name], f))

\* A field nobody knows is kept as it came.
MergeUnknown(T, m, w, f) ==
  MergeFrom(T, [m EXCEPT ![Unknown] = Append(@, SubSeq(w, 1, 1 + f.tokens))], f.rest)

MergeField(T, m, w, f) ==
  CASE f.tokens = 0 -> Failed
    [] f.tokens # 0 /\ \E fd \in Fields(T) : fd.number = f.number ->
         MergeKnown(T, m, CHOOSE fd \in Fields(T) : fd.number = f.number, f)
    [] OTHER -> MergeUnknown(T, m, w, f)

\* merge_from: tag by tag until the end of the input (or of the length of a
\* message inside another).
MergeFrom(T, m, w) ==
  CASE w = <<>> -> [ok |-> TRUE, m |-> m]
    [] w # <<>> /\ (w[1].tok # "tag" \/ Len(w) < 2) -> Failed
    [] OTHER    -> MergeField(T, m, w, NextField(w))
=============================================================================
