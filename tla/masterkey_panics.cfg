\* The master-key file on a 64-bit build that checks for overflow.
CONSTANTS
  Fns = {"parse_masterkey_file"}
  Code <- MCCode
  Fields <- MCFields
  BufLens <- MCBufLens
  U32s <- MCU32s
  U64s <- MCU64s
  UsizeMax <- MCU64Max
  MaxStep = 128
  OverflowChecks = TRUE
SPECIFICATION Spec
INVARIANTS NoPanic
