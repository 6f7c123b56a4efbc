----------------------------- MODULE VcrdParser -----------------------------
(* parse_vcrd_attributes: the walk over a Vault record.  A map of absolute    *)
(* offsets stands behind the header, and an attribute is the slice from its   *)
(* offset to the next entry's, the last one to the end of the record.         *)
(*                                                                            *)
(* A file is its length and the words that were written into it, by position, *)
(* one of them perhaps damaged.  A read elsewhere (inside an IV, a name, an   *)
(* encrypted payload) yields noise; one past the end yields the fallback 0.   *)
(* Integers keep the width of the target.                                     *)
EXTENDS Naturals, Sequences

CONSTANTS
  Records,    \* the records that were written
  Files,      \* what is left of them: [record, len, words, damaged, noise]
  Noise,      \* Noise[f.noise][p]: what a read at p yields where no word stands
  Targets,    \* [usize, isize: their largest values; narrow: usize is a u32;
              \* checks: the build panics on overflow; entry, attribute: the
              \* bytes of a vector element]
  LowHalf     \* 2^16, the values of half a word

ASSUME FileShape == \A f \in Files : /\ f.record \in Records
                                     /\ f.damaged \in BOOLEAN
                                     /\ f.len \in Nat
                                     /\ f.words \in [DOMAIN f.words -> Nat]
                                     /\ f.noise \in DOMAIN Noise
                                     /\ 0 .. f.len \subseteq DOMAIN Noise[f.noise]
ASSUME NoiseShape == \A n \in DOMAIN Noise : Noise[n] \in [DOMAIN Noise[n] -> Nat]

\* A slice is at most isize::MAX bytes, half of usize::MAX, and a u32 fits in
\* usize.
ASSUME TargetShape ==
  \A t \in Targets :
    /\ {t.usize, t.isize, t.entry, t.attribute} \subseteq Nat
    /\ 2 * t.isize <= t.usize
    /\ {t.checks, t.narrow} \subseteq BOOLEAN
    /\ \A f \in Files : f.len <= t.isize /\ \A p \in DOMAIN f.words : f.words[p] <= t.usize
    /\ \A n \in DOMAIN Noise : \A p \in DOMAIN Noise[n] : Noise[n][p] <= t.usize

\* Where usize is wider than a word, any word fits behind any buffer, and so
\* does a vector of as many elements as a map of that many bytes has entries.
Roomy(t, len, v) == /\ len + v <= t.usize
                    /\ (v \div 12) * t.entry <= t.isize
                    /\ (v \div 12) * t.attribute <= t.isize
ASSUME WideShape ==
  \A t \in Targets, f \in Files : ~t.narrow =>
    /\ \A p \in DOMAIN f.words : Roomy(t, f.len, f.words[p])
    /\ \A p \in 0 .. f.len : Roomy(t, f.len, Noise[f.noise][p])

-----------------------------------------------------------------------------
(* The record as it is written: name bytes of friendly name, and attributes   *)
(* with an id, padded or not, with iv bytes of IV (0: none) and data bytes.   *)

PadLen(a) == IF a.pad THEN 6 ELSE 0
Unknown5Len(a) == IF a.id >= 100 THEN 4 ELSE 0
SizeAt(a) == 16 + PadLen(a) + Unknown5Len(a)
AttributeLen(a) == SizeAt(a) + 9 + a.iv + a.data
SizeWord(a) == IF a.iv = 0 THEN a.data + 1 ELSE a.iv + a.data + 5

MapStart(r) == 44 + r.name

\* Where each attribute starts, and the record ends.
Offsets(r) ==
  LET at[i \in 1 .. Len(r.attrs) + 1] ==
        IF i = 1 THEN MapStart(r) + 12 * Len(r.attrs)
                 ELSE at[i - 1] + AttributeLen(r.attrs[i - 1])
  IN at
RecordLen(r) == Offsets(r)[Len(r.attrs) + 1]

MapId(r, i) == r.attrs[i].id + i - 1

\* The words of attribute a at position p, as pairs of position and value.  The
\* pad is a word and a half of zeros.
AttributeWords(a, p) ==
  {<<p, a.id>>, <<p + SizeAt(a), SizeWord(a)>>,
   <<p + SizeAt(a) + 4, IF a.iv = 0 THEN 0 ELSE 1>>, <<p + SizeAt(a) + 5, a.iv>>}
  \cup (IF a.pad THEN {<<p + 16, 0>>, <<p + 20, 0>>} ELSE {})
  \cup (IF a.id >= 100 THEN {<<p + 16 + PadLen(a), 0>>} ELSE {})

RecordWords(r) ==
  {<<36, r.name>>, <<MapStart(r) - 4, 12 * Len(r.attrs)>>}
  \cup UNION {{<<MapStart(r) + 12 * (i - 1), MapId(r, i)>>,
               <<MapStart(r) + 12 * (i - 1) + 4, Offsets(r)[i]>>}
                \cup AttributeWords(r.attrs[i], Offsets(r)[i]) : i \in DOMAIN r.attrs}

Words(r) == LET written == RecordWords(r)
            IN [p \in {w[1] : w \in written} |-> (CHOOSE w \in written : w[1] = p)[2]]

\* An attribute without padding starts with six zero bytes after all when its
\* Unknown5 and the low half of its Size are 0: the parser could not tell.
Ambiguous(a) == ~a.pad /\ a.id >= 100 /\ SizeWord(a) % LowHalf = 0
ASSUME RecordShape ==
  /\ LowHalf \in Nat \ {0}
  /\ \A r \in Records :
       /\ r.name \in Nat
       /\ r.attrs \in Seq([id : Nat, pad : BOOLEAN, iv : Nat, data : Nat])
       /\ \A i \in DOMAIN r.attrs : ~Ambiguous(r.attrs[i])

\* An undamaged file is its record up to some length, every word as written; the
\* record was a buffer itself, and an element of a vector takes no more bytes
\* than an attribute and its map entry do.
ASSUME IntactShape ==
  \A f \in Files : ~f.damaged =>
    /\ f.len <= RecordLen(f.record)
    /\ \A w \in RecordWords(f.record) : w[1] \in DOMAIN f.words /\ f.words[w[1]] = w[2]
    /\ \A t \in Targets : /\ RecordLen(f.record) <= t.isize
                          /\ t.narrow => t.entry <= 37 /\ t.attribute <= 37

-----------------------------------------------------------------------------
VARIABLES
  target,    \* where the code runs
  file,      \* the buffer
  phase,     \* "header", "map", "attributes", "done"
  maps,      \* where the map starts and how many entries it declares
  offsets,   \* the entries read: id and start of the attribute
  next,      \* the attribute to be read next
  attrs,     \* the attributes extracted: id, and the spans of IV and data
  outcome    \* "running", "ok", "tooShort", or the panic

vars == <<target, file, phase, maps, offsets, next, attrs, outcome>>

input == <<target, file>>

Phases == {"header", "map", "attributes", "done"}
Panics == {"overflow", "capacity", "oob"}

Init == /\ target \in Targets
        /\ file \in Files
        /\ phase = "header"
        /\ maps = [start |-> 0, count |-> 0]
        /\ offsets = <<>>
        /\ next = 1
        /\ attrs = <<>>
        /\ outcome = "running"

Return(o) == /\ outcome' = o
             /\ phase' = "done"
             /\ UNCHANGED <<input, maps, offsets, next, attrs>>

Stored(p) == IF p \in DOMAIN file.words THEN file.words[p] ELSE Noise[file.noise][p]

\* read_u32, and its fallback.
Word(p) == IF p + 4 > file.len THEN 0 ELSE Stored(p)

\* usize addition: at most one wrap, since both operands fit.
Wrap(n) == IF n > target.usize THEN n - (target.usize + 1) ELSE n
Traps(n) == target.checks /\ n > target.usize

\* Vec::with_capacity(n) for elements of that many bytes.
Reserves(n, bytes) == n * bytes <= target.isize

-----------------------------------------------------------------------------
(* The header and the map.                                                    *)

\* The size of the map is a fallback read that no check follows: a record cut
\* there has a map of 0 entries.
Header ==
  LET fn_len == Word(36)
      maps_size == Word(40 + fn_len)
      start == 44 + fn_len
      count == maps_size \div 12
  IN /\ phase = "header"
     /\ IF 36 > file.len \/ 40 + fn_len > target.usize \/ 40 + fn_len > file.len
          THEN Return("tooShort")
        ELSE IF start + maps_size > target.usize \/ maps_size % 12 # 0
          THEN Return("tooShort")
        ELSE IF ~Reserves(count, target.entry) THEN Return("capacity")
        ELSE /\ maps' = [start |-> start, count |-> count]
             /\ phase' = "map"
             /\ UNCHANGED <<input, offsets, next, attrs, outcome>>

\* An entry past the end of the record is (0, 0).
Entry(i) == LET p == maps.start + 12 * i
            IN [id |-> Word(p), start |-> Word(p + 4)]

\* A bug: one entry too many, `for _ in 0..=count`.
ReadEntry_Inclusive ==
  /\ phase = "map" /\ Len(offsets) <= maps.count
  /\ offsets' = Append(offsets, Entry(Len(offsets)))
  /\ UNCHANGED <<input, phase, maps, next, attrs, outcome>>

ReadEntry ==
  /\ phase = "map" /\ Len(offsets) < maps.count
  /\ offsets' = Append(offsets, Entry(Len(offsets)))
  /\ UNCHANGED <<input, phase, maps, next, attrs, outcome>>

EndOfMap ==
  /\ phase = "map" /\ Len(offsets) = maps.count
  /\ IF ~Reserves(maps.count, target.attribute) THEN Return("capacity")
     ELSE phase' = "attributes" /\ UNCHANGED <<input, maps, offsets, next, attrs, outcome>>

-----------------------------------------------------------------------------
(* One attribute, in the slice vcrd[start..end].                              *)

None == [kind |-> "none"]
Panic == [kind |-> "overflow"]
Some(iv, data) == [kind |-> "some", iv |-> iv, data |-> data]

\* Bugs: the slice is taken from the whole record; it starts before its end.
Slice_OfRecord(start, end, pos, n) ==
  pos <= Wrap(pos + n) /\ start + Wrap(pos + n) <= file.len

\* `attr.get(pos..pos + n)` is Some, for attr = vcrd[start..end].
Slice(start, end, pos, n) == pos <= Wrap(pos + n) /\ start + Wrap(pos + n) <= end

\* A bug: the padding is not looked for.
PadSeen_Never(p) == FALSE

\* Whether the six bytes at p are zero.  Where the attribute is not padded they
\* are its Unknown5 or Size and the low half of what follows.
PadSeen(p) == Stored(p) = 0 /\ Stored(p + 4) % LowHalf = 0

\* Data behind the IV: Size counts the IV, its length word and its flag.
DataOf(start, end, iv, size, overhead) ==
  LET from == iv[2] - start
      n == size - overhead
  IN IF overhead > size THEN None
     ELSE IF Traps(from + n) THEN Panic
     ELSE IF ~Slice(start, end, from, n) THEN None
     ELSE Some(iv, <<iv[2], iv[2] + n>>)

\* Size, IVPresent and IVSize stand at pos in the attribute; IVSize is read
\* whether or not an IV is present.
PayloadAt(start, end, pos) ==
  LET size == Stored(start + pos)
      iv_size == Stored(start + pos + 5)
      from == start + pos + 9
  IN IF ~Slice(start, end, pos, 9) THEN None
     ELSE IF Stored(start + pos + 4) = 0 THEN DataOf(start, end, <<from, from>>, size, 1)
     ELSE IF Traps(pos + 9 + iv_size) THEN Panic
     ELSE IF ~Slice(start, end, pos + 9, iv_size) THEN None
     ELSE DataOf(start, end, <<from, from + iv_size>>, size, iv_size + 5)

\* An attribute of 28 bytes or less carries no payload.
parse_attribute_payload(start, end) ==
  IF end - start <= 28 THEN None
  ELSE PayloadAt(start, end, 16 + (IF PadSeen(start + 16) THEN 6 ELSE 0)
                                + (IF Stored(start) >= 100 THEN 4 ELSE 0))

EndOf(i) == IF i < maps.count THEN offsets[i + 1].start ELSE file.len

Extract(start, end) ==
  LET r == parse_attribute_payload(start, end)
  IN IF r = Panic THEN Return("overflow")
     ELSE /\ attrs' = IF r = None THEN attrs
                      ELSE Append(attrs, [id |-> offsets[next].id, iv |-> r.iv, data |-> r.data])
          /\ next' = next + 1
          /\ UNCHANGED <<input, phase, maps, offsets, outcome>>

\* Bugs: the slice is indexed; an attribute that runs past the end is cut there.
ReadAttribute_Indexed ==
  /\ phase = "attributes" /\ next <= maps.count
  /\ LET start == offsets[next].start
     IN IF start <= EndOf(next) /\ EndOf(next) <= file.len THEN Extract(start, EndOf(next))
                                                        ELSE Return("oob")
ReadAttribute_Cut ==
  /\ phase = "attributes" /\ next <= maps.count
  /\ LET start == offsets[next].start
         end == IF EndOf(next) > file.len THEN file.len ELSE EndOf(next)
     IN IF start <= end THEN Extract(start, end) ELSE Extract(end, end)

ReadAttribute ==
  /\ phase = "attributes" /\ next <= maps.count
  /\ LET start == offsets[next].start
     IN IF start <= EndOf(next) /\ EndOf(next) <= file.len THEN Extract(start, EndOf(next))
                                                        ELSE Return("tooShort")

Finish == phase = "attributes" /\ next > maps.count /\ Return("ok")

Returned == phase = "done" /\ UNCHANGED vars

Next == Header \/ ReadEntry \/ EndOfMap \/ ReadAttribute \/ Finish \/ Returned

Spec == Init /\ [][Next]_vars

-----------------------------------------------------------------------------
(* What the record holds, as only its writer knows.                           *)

Extracted(r, i) ==
  LET a == r.attrs[i]
      iv == Offsets(r)[i] + SizeAt(a) + 9
  IN [id |-> MapId(r, i), iv |-> <<iv, iv + a.iv>>, data |-> <<iv + a.iv, iv + a.iv + a.data>>]

\* Payloads(r)[i]: the attributes of r before the i-th that carry a payload.
Payloads(r) ==
  LET found[i \in 1 .. Len(r.attrs) + 1] ==
        IF i = 1 THEN <<>>
        ELSE IF AttributeLen(r.attrs[i - 1]) <= 28 THEN found[i - 1]
        ELSE Append(found[i - 1], Extracted(r, i - 1))
  IN found

Spans == {s \in Nat \X Nat : s[1] <= s[2]}
Attribute(a) == a.id \in Nat /\ a.iv \in Spans /\ a.data \in Spans

TypeOK ==
  /\ target \in Targets
  /\ phase \in Phases
  /\ outcome \in {"running", "ok", "tooShort"} \cup Panics
  /\ (outcome = "running") = (phase # "done")
  /\ maps.start \in Nat /\ maps.count \in Nat
  /\ Len(offsets) <= maps.count
  /\ next \in 1 .. maps.count + 1
  /\ \A i \in DOMAIN attrs : Attribute(attrs[i])

\* From an undamaged record exactly its payloads are extracted, each at its
\* place: no other word passes for a pad, and every attribute ends where the
\* next one starts (vault.rs:155, 183).
IntactRecovered ==
  phase = "done" /\ ~file.damaged /\ file.len = RecordLen(file.record) =>
    /\ outcome = "ok"
    /\ attrs = Payloads(file.record)[Len(file.record.attrs) + 1]

\* Whatever a damaged record says, the pieces taken from it lie inside it, the
\* IV before its data and one attribute before the next: no byte is used twice.
Disjoint ==
  /\ \A i \in DOMAIN attrs : /\ attrs[i].iv[1] <= attrs[i].iv[2]
                             /\ attrs[i].iv[2] <= attrs[i].data[1]
                             /\ attrs[i].data[1] <= attrs[i].data[2]
                             /\ attrs[i].data[2] <= file.len
  /\ \A i, j \in DOMAIN attrs : i < j => attrs[i].data[2] <= attrs[j].iv[1]

\* A record cut behind its first map offset is refused, or loses its last
\* attribute and no other.  (Cut before, it passes for an empty record, or for
\* one attribute that fills it: vault.rs:126 and 140 read 0 there.)
CutLosesAtMostLast ==
  LET r == file.record
      n == Len(r.attrs)
  IN outcome = "ok" /\ ~file.damaged /\ n > 0 /\ file.len >= MapStart(r) + 8 =>
       attrs \in {Payloads(r)[n + 1], Payloads(r)[n]}

\* The parser panics only where usize is no wider than the words of the file,
\* and only on a damaged word or one read where no word was written: a sum
\* overflows, or a vector is reserved for a map no buffer could hold
\* (vault.rs:137, 151, 196).
PanicOnlyNarrow ==
  outcome \in Panics => /\ outcome # "oob"
                        /\ target.narrow
                        /\ file.damaged \/ file.len < MapStart(file.record) + 8
=============================================================================
