--------------------------- MODULE MCRequestPath ---------------------------
EXTENDS RequestPath

Agent == INSTANCE ProtoAgent
Oci   == INSTANCE ProtoOci
Types == INSTANCE OciTypes

MCSchema == Agent!Schemas @@ Oci!Schemas
MCStructs == Types!Structs

\* Every message of the protocol.
AllTypes == DOMAIN MCSchema

\* Numbers of every width, with Bits bits in a u16: one that is too wide for
\* each type, and as i64 or as i32 negative.  A negative one takes ten bytes
\* on the wire.
MCUnsigned == {1, 2^Bits + 1, 2^(2 * Bits) + 1, 2^(4 * Bits) - 1}
MCSigned == {-1, 1, 2^(2 * Bits) - 1}
=============================================================================
