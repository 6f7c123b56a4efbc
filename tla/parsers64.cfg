\* Every parser on a 64-bit release build.
CONSTANTS
  Fns = {"parse_dpapi_blob", "parse_masterkey_file", "parse_master_key",
         "parse_credential_file", "parse_credential_blob", "parse_vpol_file",
         "VAULT_VPOL_KEYS", "parse_internet_explorer"}
  Code <- MCCode
  Fields <- MCFields
  BufLens <- MCBufLens
  U32s <- MCU32s
  U64s <- MCU64s
  UsizeMax <- MCU64Max
  MaxStep = 128
  OverflowChecks = FALSE
SPECIFICATION Spec
INVARIANTS TypeOK NoPanic NoSilentZero AsDeclared ExactRefusal SignedCoverage
