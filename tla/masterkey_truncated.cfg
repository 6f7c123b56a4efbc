\* The master-key file on a 32-bit release build.
CONSTANTS
  Fns = {"parse_masterkey_file"}
  Code <- MCCode
  Fields <- MCFields
  BufLens <- MCBufLens
  U32s <- MCU32s
  U64s <- MCU64s
  UsizeMax <- MCU32Max
  MaxStep = 128
  OverflowChecks = FALSE
SPECIFICATION Spec
INVARIANTS AsDeclared
