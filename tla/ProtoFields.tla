---------------------------- MODULE ProtoFields ----------------------------
(***************************************************************************)
(* The kinds of field the generated protobuf code distinguishes.  A field  *)
(* has its number, its name, the type of one element, whether it is one    *)
(* value, a list or a map, and for a message the name of its type.         *)
(***************************************************************************)
EXTENDS Naturals

Field(number, name, type, label, of) ==
  [number |-> number, name |-> name, type |-> type, label |-> label, of |-> of]

Str(n, f)       == Field(n, f, "string", "one", "")
Byt(n, f)       == Field(n, f, "bytes", "one", "")
Bool(n, f)      == Field(n, f, "bool", "one", "")
U32(n, f)       == Field(n, f, "uint32", "one", "")
U64(n, f)       == Field(n, f, "uint64", "one", "")
I32(n, f)       == Field(n, f, "int32", "one", "")
I64(n, f)       == Field(n, f, "int64", "one", "")
Enum(n, f)      == Field(n, f, "enum", "one", "")
Msg(n, f, T)    == Field(n, f, "message", "one", T)
RepStr(n, f)    == Field(n, f, "string", "repeated", "")
RepU32(n, f)    == Field(n, f, "uint32", "repeated", "")
RepU64(n, f)    == Field(n, f, "uint64", "repeated", "")
RepMsg(n, f, T) == Field(n, f, "message", "repeated", T)
MapStr(n, f)    == Field(n, f, "string", "map", "")
MapU64(n, f)    == Field(n, f, "uint64", "map", "")
MapMsg(n, f, T) == Field(n, f, "message", "map", T)

\* A message without fields.
NoFields == <<>>
=============================================================================
