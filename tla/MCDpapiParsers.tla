--------------------------- MODULE MCDpapiParsers ---------------------------
(* Instances of DpapiParsers.  Integers are scaled: a u32 holds 0 .. 8191,   *)
(* and a u64 0 .. 2^20 - 1, so a 64-bit usize holds both and a 32-bit usize  *)
(* (UsizeMax = 8191) cuts a u64.  Buffers run past every layout's minimum,   *)
(* and length words are empty, small, or as large as their type allows.      *)
EXTENDS DpapiParsers

MCCode == [f \in Fns |-> CodeOf(f)]
MCFields == FieldsOf(Fns)
MCBufLens == 0 .. 142
MCU32Max == 8191
MCU64Max == 1048575
MCU32s == {0, 3, MCU32Max}
MCU64s == {0, 3, MCU32Max + 1 + 3, MCU64Max}
=============================================================================
