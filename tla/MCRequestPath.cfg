SPECIFICATION Spec
CONSTANTS
  Schema <- MCSchema
  Struct <- MCStructs
  MessageTypes <- AllTypes
  TextSizes = {1, 130}
  Bits = 7
  Unsigned <- MCUnsigned
  Signed <- MCSigned
INVARIANTS
  ReadsWhatWasSent
  SizeExact
  SpecKept
  ConfigReadBack
CHECK_DEADLOCK FALSE
