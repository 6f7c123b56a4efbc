---------------------------- MODULE CursorParser ----------------------------
(* The way every parser of dpapi-core walks a byte buffer: a cursor `pos`,   *)
(* readers that move it, and length words taken from the buffer itself.  The *)
(* code is written with three disciplines side by side: reads that fall back *)
(* to 0 past the end (blob.rs, credential.rs, vault.rs), reads that return   *)
(* an error (masterkey.rs), and direct indexing after an up-front size check *)
(* (blob.rs, masterkey.rs); with additions that are plain, checked or        *)
(* saturating.  This module is that machine for any sequence of reads;       *)
(* DpapiParsers gives it the sequences the parsers perform.                  *)
(*                                                                           *)
(* The bytes are abstracted to their number (len) and to the values of the   *)
(* length words, chosen when they are read.  Integers keep their width:      *)
(* usize arithmetic wraps at UsizeMax + 1, or panics where the build enables *)
(* overflow checks (OverflowChecks).                                         *)
EXTENDS Naturals, Sequences

CONSTANTS
  Fns,             \* the parsers, by name
  Fields,          \* the names of the fields they read
  Code,            \* Code[f]: the sequence of reads parser f performs
  BufLens,         \* the lengths of the buffers handed to a parser
  U32s,            \* the values a u32 length word may hold
  U64s,            \* the values a u64 length word may hold
  UsizeMax,        \* usize::MAX on the target
  MaxStep,         \* the widest fixed-width read
  OverflowChecks   \* the build panics on arithmetic overflow (debug, fuzzing)

Ops == {"need", "check", "index", "skip", "word", "wordE", "len32", "len64",
        "adv", "take", "ctake", "mark", "region", "rest"}
Instrs == [op : Ops, n : 0 .. MaxStep, f : Fields]

ASSUME CodeShape == Code \in [Fns -> Seq(Instrs)]
ASSUME Sizes == /\ UsizeMax \in Nat
                /\ MaxStep \in Nat
                /\ BufLens \subseteq 0 .. UsizeMax
                /\ U32s \subseteq 0 .. UsizeMax
                /\ U64s \subseteq Nat
                /\ OverflowChecks \in BOOLEAN

\* A read that succeeds only if it ends inside the buffer, and one that leaves
\* the cursor alone; BoundsAt(c, i): once read i of c is done, pos <= len.
Bounding == {"index", "wordE", "len64", "adv", "take", "ctake", "rest"}
Still == {"need", "check", "mark", "region"}
BoundsAt(c, i) == /\ i \in 1 .. Len(c)
                  /\ \/ c[i].op \in Bounding
                     \/ i > 1 /\ c[i].op \in Still /\ c[i - 1].op \in Bounding

\* Every parser ends in a bounded read: no fallback read is its last word.
ASSUME EndsBounded == \A f \in Fns : BoundsAt(Code[f], Len(Code[f]))

\* A slice is at most isize::MAX bytes: the fixed-width reads of one parser,
\* added to a cursor inside its buffer, stay within usize.
ASSUME Roomy == \A f \in Fns, n \in BufLens :
                  n + MaxStep * (Len(Code[f]) + 1) <= UsizeMax

\* Where each read of c starts when its length words are d: a field takes as
\* many bytes as its length word says, and every other read its own width.
Takes == {"take", "ctake"}
Bytes(r, d) == CASE r.op \in Takes -> d[r.f]
                 [] r.op \in Still \cup {"rest"} -> 0
                 [] OTHER -> r.n
Extent(c, d) == LET at[i \in 1 .. Len(c) + 1] ==
                      IF i = 1 THEN 0 ELSE at[i - 1] + Bytes(c[i - 1], d)
                IN at

\* The part of the layout no length word moves.
NoLengths == [f \in Fields |-> 0]
Fixed(c) == Extent(c, NoLengths)

\* The up-front size check asks for no more than the layout itself, and an
\* index is behind one that covers it, with no field taken in between.
ASSUME SizesChecked ==
  \A f \in Fns : \A i \in DOMAIN Code[f] :
    /\ Code[f][i].op = "need" => Code[f][i].n <= Fixed(Code[f])[Len(Code[f]) + 1]
    /\ Code[f][i].op = "index" =>
         /\ \A k \in 1 .. i : Code[f][k].op \notin Takes
         /\ \E j \in 1 .. i - 1 : /\ Code[f][j].op = "need"
                                 /\ Fixed(Code[f])[i + 1] <= Code[f][j].n

\* The rest of the buffer is taken last, and from a cursor inside it; a region
\* ends at a position noted before it, inside the buffer and past its start.
ASSUME EndsChecked ==
  \A f \in Fns : \A i \in DOMAIN Code[f] :
    /\ Code[f][i].op = "rest" => i = Len(Code[f]) /\ BoundsAt(Code[f], i - 1)
    /\ Code[f][i].op = "region" =>
         /\ \E j \in 1 .. i - 1 : /\ Code[f][j].op = "mark"
                                 /\ Code[f][j].f = Code[f][i].f
         /\ \A j \in DOMAIN Code[f] : Code[f][j].f = Code[f][i].f =>
              \/ Code[f][j].op = "region"
              \/ /\ Code[f][j].op = "mark"
                 /\ BoundsAt(Code[f], j)
                 /\ Code[f][i].n <= Fixed(Code[f])[j]

\* A field is taken once, and only the read of its length, before, names it.
ASSUME TakenOnce ==
  \A f \in Fns : \A i, j \in DOMAIN Code[f] :
    Code[f][i].op \in Takes /\ Code[f][j].f = Code[f][i].f =>
      \/ i = j
      \/ /\ Code[f][j].op \in {"len32", "len64"}
         /\ j < i

VARIABLES
  fn,         \* the parser that runs
  len,        \* data.len()
  ip,         \* the next read of Code[fn]
  pos,        \* the cursor
  declared,   \* the value of each length word read so far
  span,       \* the range of the buffer each field was taken from
  fellBack,   \* some read past the end returned its fallback 0
  outcome     \* "running" until the parser returns or panics

vars == <<fn, len, ip, pos, declared, span, fellBack, outcome>>

Outcomes == {"running", "ok", "tooShort", "invalid", "overflow", "oob"}

-----------------------------------------------------------------------------
(* Helpers of the readers.                                                   *)

Instr == Code[fn][ip]

\* `v as usize`: a u64 is cut to the width of the target.
Usize(v) == v % (UsizeMax + 1)

\* How far the current read moves the cursor.
Width == IF Instr.op \in Takes THEN Usize(declared[Instr.f]) ELSE Instr.n

\* `pos + width` written with the plain operator: panics or wraps.
PlainAdds == {"index", "word", "wordE", "len32", "len64", "take"}
\* A bug: the cursor is kept in a narrower type than usize.
Traps_NarrowCursor ==
  OverflowChecks /\ Instr.op \in PlainAdds /\ pos + Width > UsizeMax \div 64
Traps == OverflowChecks /\ Instr.op \in PlainAdds /\ pos + Width > UsizeMax
Sum == Usize(pos + Width)

\* `data.get(pos..end)` is Some.
Gets(end) == pos <= end /\ end <= len

At(ops) == /\ outcome = "running"
           /\ ip <= Len(Code[fn])
           /\ Instr.op \in ops

Moves(end) == /\ pos' = end
              /\ ip' = ip + 1
              /\ UNCHANGED <<fn, len, outcome>>

Keeps(end) == span' = [span EXCEPT ![Instr.f] = <<pos, end>>]

Return(o) == /\ outcome' = o
             /\ UNCHANGED <<fn, len, ip, pos, declared, span, fellBack>>

-----------------------------------------------------------------------------
Init == /\ fn \in Fns
        /\ len \in BufLens
        /\ ip = 1
        /\ pos = 0
        /\ declared = [f \in Fields |-> 0]
        /\ span = [f \in Fields |-> <<0, 0>>]
        /\ fellBack = FALSE
        /\ outcome = "running"

\* An addition overflows in a build that checks for it: the parser panics.
Overflow == At(PlainAdds) /\ Traps /\ Return("overflow")

\* Bugs: the size check is forgotten, or refuses a buffer of exactly that size.
Need_Forgotten == At({"need"}) /\ Moves(pos) /\ UNCHANGED <<declared, span, fellBack>>
Need_OffByOne == At({"need"}) /\ \/ len <= Instr.n /\ Return("tooShort")
                                 \/ /\ len > Instr.n
                                    /\ Moves(pos)
                                    /\ UNCHANGED <<declared, span, fellBack>>

\* `if data.len() < n { return Err(TooShort) }`
Need == At({"need"}) /\ \/ len < Instr.n /\ Return("tooShort")
                        \/ /\ len >= Instr.n
                           /\ Moves(pos)
                           /\ UNCHANGED <<declared, span, fellBack>>

\* A version or provider GUID is compared; its value is the buffer's choice.
Check == At({"check"}) /\ \/ Return("invalid")
                          \/ Moves(pos) /\ UNCHANGED <<declared, span, fellBack>>

\* `data[pos..pos + n]` panics outside the buffer.
Index == At({"index"}) /\ ~Traps /\ \/ ~Gets(Sum) /\ Return("oob")
                                    \/ /\ Gets(Sum)
                                       /\ Moves(Sum)
                                       /\ Keeps(Sum)
                                       /\ UNCHANGED <<declared, fellBack>>

\* `pos.saturating_add(n)`, or a cursor that starts past a fixed header.
Skip == /\ At({"skip"})
        /\ Moves(IF pos + Width > UsizeMax THEN UsizeMax ELSE pos + Width)
        /\ UNCHANGED <<declared, span, fellBack>>

\* The fallback read of a word that is not a length.
Word == /\ At({"word"})
        /\ ~Traps
        /\ Moves(Sum)
        /\ Keeps(Sum)
        /\ fellBack' = (fellBack \/ ~Gets(Sum))
        /\ UNCHANGED declared

\* The fallback read of a u32 length: 0 past the end, never an error.
LenWord == /\ At({"len32"})
           /\ ~Traps
           /\ Moves(Sum)
           /\ \E v \in IF Gets(Sum) THEN U32s ELSE {0} :
                declared' = [declared EXCEPT ![Instr.f] = v]
           /\ fellBack' = (fellBack \/ ~Gets(Sum))
           /\ UNCHANGED span

\* The erroring read of a word that is not a length.
WordOrErr == At({"wordE"}) /\ ~Traps /\ \/ ~Gets(Sum) /\ Return("tooShort")
                                        \/ /\ Gets(Sum)
                                           /\ Moves(Sum)
                                           /\ Keeps(Sum)
                                           /\ UNCHANGED <<declared, fellBack>>

\* The erroring read of a u64 length.
LenOrErr == At({"len64"}) /\ ~Traps /\ \/ ~Gets(Sum) /\ Return("tooShort")
                                       \/ /\ Gets(Sum)
                                          /\ Moves(Sum)
                                          /\ \E v \in U64s :
                                               declared' = [declared EXCEPT ![Instr.f] = v]
                                          /\ UNCHANGED <<span, fellBack>>

\* A bug: `unwrap_or_default()` where `ok_or(TooShort)?` belongs.
Take_OrDefault == At({"take"}) /\ ~Traps /\ Moves(pos + Width)
                               /\ UNCHANGED <<declared, span, fellBack>>

\* `data.get(*pos..*pos + len)`: plain addition, checked slice.
Take == At({"take"}) /\ ~Traps /\ \/ ~Gets(Sum) /\ Return("tooShort")
                                  \/ /\ Gets(Sum)
                                     /\ Moves(Sum)
                                     /\ Keeps(Sum)
                                     /\ UNCHANGED <<declared, fellBack>>

\* Bugs: a field that runs past the buffer is read as empty, or cut at its end.
CheckedTake_OrEmpty ==
  LET end == pos + Width
  IN At({"ctake"}) /\ \/ ~Gets(end) /\ Moves(pos) /\ UNCHANGED <<declared, span, fellBack>>
                      \/ Gets(end) /\ Moves(end) /\ Keeps(end) /\ UNCHANGED <<declared, fellBack>>
CheckedTake_Cut ==
  LET end == IF pos + Width > len THEN len ELSE pos + Width
  IN At({"ctake"}) /\ \/ pos > end /\ Return("tooShort")
                      \/ pos <= end /\ Moves(end) /\ Keeps(end) /\ UNCHANGED <<declared, fellBack>>

\* `pos.checked_add(len)` then `data.get(pos..end)`.
CheckedTake ==
  LET end == pos + Width
  IN At({"ctake"}) /\ \/ (end > UsizeMax \/ ~Gets(end)) /\ Return("tooShort")
                      \/ /\ end <= UsizeMax
                         /\ Gets(end)
                         /\ Moves(end)
                         /\ Keeps(end)
                         /\ UNCHANGED <<declared, fellBack>>

\* `advance(pos, n, len)?`: checked addition, then `end > len` is an error.
Advance ==
  LET end == pos + Width
  IN At({"adv"}) /\ \/ (end > UsizeMax \/ end > len) /\ Return("tooShort")
                    \/ /\ end <= UsizeMax
                       /\ end <= len
                       /\ Moves(end)
                       /\ UNCHANGED <<declared, span, fellBack>>

\* A bug: the position is noted after the length word of Sign.
Mark_AfterLength == /\ At({"mark"})
                    /\ Moves(pos)
                    /\ Keeps(pos + 4)
                    /\ UNCHANGED <<declared, fellBack>>

\* `let sign_len_pos = pos`: where the region named f will stop.
Mark == At({"mark"}) /\ Moves(pos) /\ Keeps(pos) /\ UNCHANGED <<declared, fellBack>>

\* `data[n..sign_len_pos]`: indexes from a fixed offset up to the mark.
Region ==
  LET stop == span[Instr.f][2]
  IN At({"region"}) /\ \/ stop < Instr.n /\ Return("tooShort")
                       \/ stop >= Instr.n /\ stop > len /\ Return("oob")
                       \/ /\ stop >= Instr.n
                          /\ stop <= len
                          /\ Moves(pos)
                          /\ span' = [span EXCEPT ![Instr.f] = <<Instr.n, stop>>]
                          /\ UNCHANGED <<declared, fellBack>>

\* `data[pos..]` panics past the end.
Rest == At({"rest"}) /\ \/ pos > len /\ Return("oob")
                        \/ /\ pos <= len
                           /\ Moves(len)
                           /\ Keeps(len)
                           /\ UNCHANGED <<declared, fellBack>>

\* Every read went through: the parser returns Ok.
Finish == outcome = "running" /\ ip > Len(Code[fn]) /\ Return("ok")

Returned == outcome # "running" /\ UNCHANGED vars

Next == \/ Overflow \/ Need \/ Check \/ Index \/ Skip \/ Word \/ LenWord
        \/ WordOrErr \/ LenOrErr \/ Take \/ CheckedTake \/ Advance
        \/ Mark \/ Region \/ Rest \/ Finish \/ Returned

Spec == Init /\ [][Next]_vars

-----------------------------------------------------------------------------
TypeOK == /\ fn \in Fns
          /\ len \in BufLens
          /\ ip \in 1 .. Len(Code[fn]) + 1
          /\ pos \in 0 .. UsizeMax
          /\ declared \in [Fields -> Nat]
          /\ span \in [Fields -> Nat \X Nat]
          /\ fellBack \in BOOLEAN
          /\ outcome \in Outcomes

\* A parser neither indexes outside its buffer nor lets an addition panic.
NoPanic == outcome \notin {"overflow", "oob"}

\* The fallback 0 of a read past the end is never part of a value the parser
\* returns: "a 0 here is a defensive fallback, not a silent success"
\* (blob.rs:168).  It holds only because a checked slice always follows.
NoSilentZero == outcome = "ok" => ~fellBack

\* A length that was honoured is the length the buffer declares: no
\* truncation to usize and no wrapped end makes a field shorter.
LengthFields == {Code[fn][i].f : i \in {j \in DOMAIN Code[fn] :
                                          Code[fn][j].op \in Takes}}
AsDeclared == outcome = "ok" => \A f \in LengthFields :
                span[f][1] + declared[f] = span[f][2] /\ span[f][2] <= len

\* The bytes the layout asks for, given the lengths read so far.
Needed == Extent(Code[fn], declared)[Len(Code[fn]) + 1]

\* A buffer is refused as too short only when it cannot hold the layout its
\* own length words declare, and accepted only when it does: "a truncated
\* file is rejected loudly" (masterkey.rs:109), and nothing else is.
ExactRefusal == /\ outcome = "tooShort" => Needed > len
                /\ outcome = "ok" => Needed <= len

\* Where the build checks for overflow, a panic only ever replaces the refusal
\* of a buffer that is too short: no well-formed input is lost to it.
OverflowOnlyWhenShort == outcome = "overflow" => Needed > len
=============================================================================
