------------------------- MODULE VcrdParser_proofs --------------------------
(* The walk over a Vault record, for any records, damage, noise and targets:  *)
(* its pieces are disjoint (IInv), its counts right (Counted), a wide target  *)
(* never panics (Wide), and an undamaged record is read as written (Reading). *)
EXTENDS VcrdParser, Induction_proofs, SequenceTheorems, TLAPS

Here == target \in Targets /\ file \in Files

Fits(v) == v \in Nat /\ v <= target.usize

\* A word of the file is a number that fits in usize.
LEMMA StoredFits ==
  ASSUME Here, NEW p \in 0 .. file.len
  PROVE  Fits(Stored(p))
<1>1. CASE p \in DOMAIN file.words
  <2>1. file.words[p] \in Nat
    BY <1>1, FileShape DEF Here
  <2>2. file.words[p] <= target.usize
    BY <1>1, TargetShape DEF Here
  <2> QED
    BY <1>1, <2>1, <2>2 DEF Stored, Fits
<1>2. CASE p \notin DOMAIN file.words
  <2> DEFINE noise == Noise[file.noise]
  <2>1. file.noise \in DOMAIN Noise /\ p \in DOMAIN noise
    BY FileShape DEF Here
  <2>2. noise[p] \in Nat
    BY <2>1, NoiseShape
  <2>3. noise[p] <= target.usize
    BY <2>1, TargetShape DEF Here
  <2> QED
    BY <1>2, <2>2, <2>3 DEF Stored, Fits
<1> QED
  BY <1>1, <1>2

LEMMA WidthPlain ==
  ASSUME Here
  PROVE  /\ target.usize \in Nat /\ file.len \in Nat
         /\ 2 * file.len <= target.usize
<1>1. target.usize \in Nat /\ target.isize \in Nat /\ 2 * target.isize <= target.usize
  BY TargetShape DEF Here
<1>2. file.len \in Nat /\ file.len <= target.isize
  BY FileShape, TargetShape DEF Here
<1> QED
  BY <1>1, <1>2

\* A slice that is Some was not wrapped: it lies inside vcrd[start..end].
LEMMA SliceInside ==
  ASSUME Here, NEW start \in Nat, NEW end \in Nat, NEW pos \in Nat, NEW n,
         Fits(n), pos <= target.usize, Slice(start, end, pos, n)
  PROVE  start + pos + n <= end
<1>1. target.usize \in Nat /\ n \in Nat /\ n <= target.usize
  BY WidthPlain DEF Fits
<1>2. CASE pos + n > target.usize
  <2>1. Wrap(pos + n) = pos + n - (target.usize + 1)
    BY <1>1, <1>2 DEF Wrap
  <2>2. FALSE
    BY <1>1, <1>2, <2>1 DEF Slice
  <2> QED
    BY <2>2
<1>3. CASE ~(pos + n > target.usize)
  BY <1>1, <1>3 DEF Slice, Wrap
<1> QED
  BY <1>2, <1>3

\* What an attribute yields lies in its slice, the IV before the data.
Inside(r, start, end) ==
  \/ r = None
  \/ r = Panic
  \/ \E a, b, c, d \in Nat : /\ r = Some(<<a, b>>, <<c, d>>)
                             /\ start <= a /\ a <= b /\ b <= c /\ c <= d /\ d <= end

LEMMA DataInside ==
  ASSUME Here, NEW start \in Nat, NEW end \in Nat, end <= file.len,
         NEW a \in Nat, NEW b \in Nat, start <= a, a <= b, b <= end,
         NEW size, Fits(size), NEW overhead \in Nat
  PROVE  Inside(DataOf(start, end, <<a, b>>, size, overhead), start, end)
<1> DEFINE n == size - overhead
           from == b - start
           r == DataOf(start, end, <<a, b>>, size, overhead)
<1>1. /\ size \in Nat /\ size <= target.usize
      /\ target.usize \in Nat /\ file.len \in Nat /\ 2 * file.len <= target.usize
  BY WidthPlain DEF Fits
<1>2. CASE overhead > size
  BY <1>2 DEF DataOf, Inside
<1>3. CASE ~(overhead > size)
  <2>1. n \in Nat /\ n <= target.usize /\ from \in Nat /\ from <= target.usize
    BY <1>1, <1>3
  <2>2. CASE Traps(from + n)
    BY <1>3, <2>2 DEF DataOf, Inside
  <2>3. CASE ~Traps(from + n) /\ ~Slice(start, end, from, n)
    BY <1>3, <2>3 DEF DataOf, Inside
  <2>4. CASE ~Traps(from + n) /\ Slice(start, end, from, n)
    <3>1. r = Some(<<a, b>>, <<b, b + n>>)
      BY <1>3, <2>4 DEF DataOf
    <3>2. start + from + n <= end
      <4> HIDE DEF n, from
      <4> QED
        BY <2>1, <2>4, SliceInside DEF Fits
    <3>3. PICK d \in Nat : d = b + n
      BY <2>1
    <3>4. b <= d /\ d <= end
      BY <2>1, <3>2, <3>3
    <3>5. r = Some(<<a, b>>, <<b, d>>)
      BY <3>1, <3>3
    <3>6. Inside(r, start, end)
      <4> HIDE DEF r, n
      <4> USE DEF Inside
      <4>1. start <= a /\ a <= b /\ b <= b /\ b <= d /\ d <= end
        BY <3>4
      <4> QED
        BY <3>5, <4>1, Zenon
    <3> QED
      BY <3>6
  <2> QED
    BY <2>2, <2>3, <2>4
<1> QED
  BY <1>2, <1>3

LEMMA PayloadInside ==
  ASSUME Here, NEW start \in Nat, NEW end \in Nat, end <= file.len,
         NEW pos \in Nat, pos <= 26, end - start > 28, start <= end
  PROVE  Inside(PayloadAt(start, end, pos), start, end)
<1> DEFINE size == Stored(start + pos)
           iv_size == Stored(start + pos + 5)
           from == start + pos + 9
           r == PayloadAt(start, end, pos)
<1>1. /\ target.usize \in Nat /\ file.len \in Nat /\ 2 * file.len <= target.usize
  BY WidthPlain
<1>2. CASE ~Slice(start, end, pos, 9)
  BY <1>2 DEF PayloadAt, Inside
<1>3. CASE Slice(start, end, pos, 9)
  <2>1. from <= end
    <3>1. Fits(9) /\ pos <= target.usize
      BY <1>1 DEF Fits
    <3> QED
      BY <1>3, <3>1, SliceInside
  <2>2. Fits(size) /\ Fits(iv_size)
    <3>1. start + pos \in 0 .. file.len /\ start + pos + 5 \in 0 .. file.len
      BY <1>1, <2>1
    <3> QED
      BY <3>1, StoredFits
  <2>3. CASE Stored(start + pos + 4) = 0
    <3>1. r = DataOf(start, end, <<from, from>>, size, 1)
      BY <1>3, <2>3 DEF PayloadAt
    <3>2. Inside(r, start, end)
      <4> HIDE DEF r, size
      <4> QED
        BY <2>1, <2>2, <3>1, DataInside
    <3> QED
      BY <3>2
  <2>4. CASE Stored(start + pos + 4) # 0
    <3>1. CASE Traps(pos + 9 + iv_size)
      BY <1>3, <2>4, <3>1 DEF PayloadAt, Inside
    <3>2. CASE ~Traps(pos + 9 + iv_size) /\ ~Slice(start, end, pos + 9, iv_size)
      BY <1>3, <2>4, <3>2 DEF PayloadAt, Inside
    <3>3. CASE ~Traps(pos + 9 + iv_size) /\ Slice(start, end, pos + 9, iv_size)
      <4>1. r = DataOf(start, end, <<from, from + iv_size>>, size, iv_size + 5)
        BY <1>3, <2>4, <3>3 DEF PayloadAt
      <4> HIDE DEF iv_size
      <4>2. iv_size \in Nat
        BY <2>2 DEF Fits
      <4>3. pos + 9 <= target.usize /\ pos + 9 \in Nat
        BY <1>1
      <4>4. start + (pos + 9) + iv_size <= end
        BY <2>2, <3>3, <4>3, SliceInside
      <4>5. from + iv_size <= end /\ from + iv_size \in Nat /\ iv_size + 5 \in Nat
        BY <4>2, <4>4
      <4>6. Inside(r, start, end)
        <5> HIDE DEF r, size
        <5> QED
          BY <2>1, <2>2, <4>1, <4>2, <4>5, DataInside
      <4> QED
        BY <4>6
    <3> QED
      BY <3>1, <3>2, <3>3
  <2> QED
    BY <2>3, <2>4
<1> QED
  BY <1>2, <1>3

LEMMA AttributeInside ==
  ASSUME Here, NEW start \in Nat, NEW end \in Nat, start <= end, end <= file.len
  PROVE  Inside(parse_attribute_payload(start, end), start, end)
<1>1. CASE end - start <= 28
  BY <1>1 DEF parse_attribute_payload, Inside
<1>2. CASE ~(end - start <= 28)
  <2> DEFINE pos == 16 + (IF PadSeen(start + 16) THEN 6 ELSE 0)
                       + (IF Stored(start) >= 100 THEN 4 ELSE 0)
  <2>1. pos \in Nat /\ pos <= 26
    OBVIOUS
  <2>2. parse_attribute_payload(start, end) = PayloadAt(start, end, pos)
    BY <1>2 DEF parse_attribute_payload
  <2>3. end - start > 28
    BY <1>2
  <2> HIDE DEF pos
  <2> QED
    BY <2>1, <2>2, <2>3, PayloadInside
<1> QED
  BY <1>1, <1>2

LEMMA WordNat ==
  ASSUME Here, NEW p \in Nat
  PROVE  Word(p) \in Nat
<1>1. CASE p + 4 > file.len
  BY <1>1 DEF Word
<1>2. CASE ~(p + 4 > file.len)
  <2>1. p \in 0 .. file.len
    BY <1>2, WidthPlain
  <2> QED
    BY <1>2, <2>1, StoredFits DEF Word, Fits
<1> QED
  BY <1>1, <1>2

-----------------------------------------------------------------------------
(* The walk.                                                                  *)

Entries == [id : Nat, start : Nat]
Pieces == [id : Nat, iv : Nat \X Nat, data : Nat \X Nat]

Walk == /\ Here
        /\ phase \in Phases
        /\ maps.start \in Nat /\ maps.count \in Nat
        /\ offsets \in Seq(Entries)
        /\ next \in Nat \ {0}
        /\ attrs \in Seq(Pieces)
        /\ phase = "attributes" => Len(offsets) = maps.count

\* No attribute is looked at before the map is read.
NoneYet == phase \in {"header", "map"} => attrs = <<>>

\* What was extracted ends where the next attribute starts, or before.
Behind == phase = "attributes" /\ next <= maps.count =>
            \A i \in DOMAIN attrs : attrs[i].data[2] <= offsets[next].start

IInv == Walk /\ NoneYet /\ Behind /\ Disjoint

LEMMA InitInv == Init => IInv
<1> SUFFICES ASSUME Init PROVE IInv
  OBVIOUS
<1>1. Walk
  BY DEF Init, Walk, Here, Phases
<1>2. NoneYet /\ Behind /\ Disjoint
  BY DEF Init, NoneYet, Behind, Disjoint
<1> QED
  BY <1>1, <1>2 DEF IInv

LEMMA ReturnInv ==
  ASSUME IInv, NEW o, Return(o)
  PROVE  IInv'
<1>1. Walk'
  BY DEF IInv, Walk, Here, Return, input, Phases
<1>2. NoneYet' /\ Behind' /\ Disjoint'
  BY DEF IInv, Return, input, NoneYet, Behind, Disjoint
<1> QED
  BY <1>1, <1>2 DEF IInv

\* The next entry, and where its attribute ends.
LEMMA NextSlice ==
  ASSUME Walk, phase = "attributes", next <= maps.count
  PROVE  /\ offsets[next] \in Entries
         /\ EndOf(next) \in Nat
         /\ next < maps.count => EndOf(next) = offsets[next + 1].start
<1>1. next \in 1 .. Len(offsets) /\ (next < maps.count => next + 1 \in 1 .. Len(offsets))
  BY DEF Walk
<1>2. offsets[next] \in Entries
  BY <1>1, ElementOfSeq DEF Walk
<1>3. CASE next < maps.count
  <2>1. offsets[next + 1] \in Entries
    BY <1>1, <1>3, ElementOfSeq DEF Walk
  <2> QED
    BY <1>2, <1>3, <2>1 DEF EndOf, Entries
<1>4. CASE ~(next < maps.count)
  BY <1>2, <1>4, WidthPlain DEF EndOf, Walk
<1> QED
  BY <1>3, <1>4

\* One attribute extracted: it lies behind those before it.
LEMMA ExtractInv ==
  ASSUME IInv, phase = "attributes", next <= maps.count,
         offsets[next].start <= EndOf(next), EndOf(next) <= file.len,
         Extract(offsets[next].start, EndOf(next))
  PROVE  IInv'
<1> DEFINE start == offsets[next].start
           end == EndOf(next)
           r == parse_attribute_payload(start, end)
<1>1. Walk /\ Here /\ Behind /\ Disjoint
  BY DEF IInv, Walk
<1>2. offsets[next] \in Entries /\ end \in Nat
      /\ (next < maps.count => end = offsets[next + 1].start)
  BY <1>1, NextSlice
<1>3. start \in Nat /\ offsets[next].id \in Nat /\ file.len \in Nat
  BY <1>1, <1>2, WidthPlain DEF Entries
<1>4. Inside(r, start, end)
  <2> HIDE DEF start, end
  <2>1. start <= end /\ end <= file.len
    BY DEF start, end
  <2> QED
    BY <1>1, <1>2, <1>3, <2>1, AttributeInside
<1>5. CASE r = Panic
  <2>1. Return("overflow")
    BY <1>5 DEF Extract
  <2> QED
    BY <2>1, ReturnInv
<1> DEFINE Moved == /\ next' = next + 1
                    /\ UNCHANGED <<target, file, phase, maps, offsets, outcome>>
<1>6. CASE r # Panic
  <2>1. Moved /\ attrs' = IF r = None THEN attrs
                          ELSE Append(attrs, [id |-> offsets[next].id, iv |-> r.iv, data |-> r.data])
    BY <1>6 DEF Extract, input
  <2>2. \A i \in DOMAIN attrs : attrs[i].data[2] <= start /\ attrs[i].data[2] \in Nat
    <3> TAKE i \in DOMAIN attrs
    <3>1. attrs[i] \in Pieces
      BY <1>1, ElementOfSeq DEF Walk
    <3> QED
      BY <1>1, <3>1 DEF Behind, Pieces
  <2>3. NoneYet'
    BY <2>1 DEF NoneYet
  <2>4. EndOf(next) <= file.len /\ (next' <= maps'.count => offsets'[next'].start = end)
    BY <1>1, <1>2, <2>1 DEF Walk
  <2>5. CASE r = None
    <3>1. attrs' = attrs
      BY <2>1, <2>5
    <3>2. Walk'
      BY <1>1, <2>1, <3>1 DEF Walk, Here
    <3>3. Behind'
      BY <1>2, <1>3, <2>1, <2>2, <2>4, <3>1 DEF Behind
    <3>4. Disjoint'
      BY <1>1, <2>1, <3>1 DEF Disjoint
    <3> QED
      BY <2>3, <3>2, <3>3, <3>4 DEF IInv
  <2>6. CASE r # None
    <3>1. PICK a, b, c, d \in Nat : /\ r = Some(<<a, b>>, <<c, d>>)
                                    /\ start <= a /\ a <= b /\ b <= c /\ c <= d /\ d <= end
      <4> HIDE DEF r, start, end
      <4> QED
        BY <1>4, <1>6, <2>6 DEF Inside
    <3> DEFINE piece == [id |-> offsets[next].id, iv |-> <<a, b>>, data |-> <<c, d>>]
    <3>2. attrs' = Append(attrs, piece)
      <4>1. r.iv = <<a, b>> /\ r.data = <<c, d>>
        <5> HIDE DEF r
        <5> QED
          BY <3>1 DEF Some
      <4> QED
        BY <2>1, <2>6, <4>1
    <3>3. piece \in Pieces
      BY <1>3 DEF Pieces
    <3>4. /\ piece.iv[1] = a /\ piece.iv[2] = b /\ piece.data[1] = c /\ piece.data[2] = d
      OBVIOUS
    <3> HIDE DEF piece, r, start, end
    <3>5. /\ attrs' \in Seq(Pieces)
          /\ Len(attrs') = Len(attrs) + 1
          /\ \A i \in 1 .. Len(attrs) : attrs'[i] = attrs[i]
          /\ attrs'[Len(attrs) + 1] = piece
      BY <1>1, <3>2, <3>3, AppendProperties DEF Walk
    <3>6. Len(attrs) \in Nat /\ DOMAIN attrs = 1 .. Len(attrs)
          /\ DOMAIN attrs' = 1 .. Len(attrs) + 1
      BY <1>1, <3>5, LenProperties DEF Walk
    <3>7. \A i \in DOMAIN attrs' : i \in DOMAIN attrs \/ i = Len(attrs) + 1
      BY <3>6
    <3>8. Walk'
      BY <1>1, <2>1, <3>5 DEF Walk, Here
    <3>9. Behind'
      <4>1. \A i \in DOMAIN attrs' : attrs'[i].data[2] <= end
        <5> TAKE i \in DOMAIN attrs'
        <5>1. CASE i \in DOMAIN attrs
          <6>1. attrs'[i] = attrs[i] /\ attrs[i].data[2] <= start /\ attrs[i].data[2] \in Nat
            BY <2>2, <3>5, <3>6, <5>1
          <6> QED
            BY <1>2, <1>3, <6>1 DEF start, end
        <5>2. CASE i = Len(attrs) + 1
          BY <3>1, <3>4, <3>5, <5>2
        <5> QED
          BY <3>7, <5>1, <5>2
      <4> QED
        BY <2>4, <4>1 DEF Behind
    <3>10. \A i \in DOMAIN attrs' : /\ attrs'[i].iv[1] <= attrs'[i].iv[2]
                                    /\ attrs'[i].iv[2] <= attrs'[i].data[1]
                                    /\ attrs'[i].data[1] <= attrs'[i].data[2]
                                    /\ attrs'[i].data[2] <= file'.len
      <4> TAKE i \in DOMAIN attrs'
      <4>1. CASE i \in DOMAIN attrs
        BY <1>1, <2>1, <3>5, <3>6, <4>1 DEF Disjoint
      <4>2. CASE i = Len(attrs) + 1
        <5>1. d <= file'.len
          BY <1>2, <1>3, <2>1, <3>1 DEF end
        <5> QED
          BY <3>1, <3>4, <3>5, <4>2, <5>1
      <4> QED
        BY <3>7, <4>1, <4>2
    <3>11. \A i, j \in DOMAIN attrs' : i < j => attrs'[i].data[2] <= attrs'[j].iv[1]
      <4> SUFFICES ASSUME NEW i \in DOMAIN attrs', NEW j \in DOMAIN attrs', i < j
                   PROVE  attrs'[i].data[2] <= attrs'[j].iv[1]
        OBVIOUS
      <4>1. i \in DOMAIN attrs
        BY <3>6
      <4>2. CASE j \in DOMAIN attrs
        BY <1>1, <3>5, <3>6, <4>1, <4>2 DEF Disjoint
      <4>3. CASE j = Len(attrs) + 1
        <5>1. attrs'[j].iv[1] = a /\ attrs'[i] = attrs[i]
          BY <3>4, <3>5, <3>6, <4>1, <4>3
        <5>2. attrs[i].data[2] <= start /\ attrs[i].data[2] \in Nat /\ start <= a
          BY <2>2, <3>1, <4>1
        <5> QED
          BY <1>3, <5>1, <5>2 DEF start
      <4> QED
        BY <3>7, <4>2, <4>3
    <3>12. Disjoint'
      BY <3>10, <3>11 DEF Disjoint
    <3> QED
      BY <2>3, <3>8, <3>9, <3>12 DEF IInv
  <2> QED
    BY <2>5, <2>6
<1> QED
  BY <1>5, <1>6

LEMMA StepInv == IInv /\ [Next]_vars => IInv'
<1> SUFFICES ASSUME IInv, [Next]_vars PROVE IInv'
  OBVIOUS
<1>1. CASE Header
  <2> DEFINE start == 44 + Word(36)
             count == Word(40 + Word(36)) \div 12
  <2>1. CASE \E o : Return(o)
    BY <2>1, ReturnInv
  <2>2. CASE ~ \E o : Return(o)
    <3>1. /\ phase = "header" /\ phase' = "map"
          /\ maps' = [start |-> start, count |-> count]
          /\ UNCHANGED <<target, file, offsets, next, attrs, outcome>>
      BY <1>1, <2>2 DEF Header, input
    <3>2. start \in Nat /\ count \in Nat
      <4>1. Word(36) \in Nat
        BY WordNat DEF IInv, Walk
      <4> DEFINE p == 40 + Word(36)
      <4>2. p \in Nat
        BY <4>1
      <4>3. Word(p) \in Nat
        <5> HIDE DEF p
        <5> QED
          BY <4>2, WordNat DEF IInv, Walk
      <4> QED
        BY <4>1, <4>3
    <3> HIDE DEF start, count
    <3>3. Walk'
      BY <3>1, <3>2 DEF IInv, Walk, Here, Phases
    <3>4. NoneYet' /\ Behind' /\ Disjoint'
      BY <3>1 DEF IInv, NoneYet, Behind, Disjoint
    <3> QED
      BY <3>3, <3>4 DEF IInv
  <2> QED
    BY <2>1, <2>2
<1>2. CASE ReadEntry
  <2>1. Entry(Len(offsets)) \in Entries
    <3>1. Len(offsets) \in Nat
      BY LenProperties DEF IInv, Walk
    <3> DEFINE p == maps.start + 12 * Len(offsets)
    <3>2. p \in Nat /\ p + 4 \in Nat
      BY <3>1 DEF IInv, Walk
    <3>3. Word(p) \in Nat /\ Word(p + 4) \in Nat
      <4> HIDE DEF p
      <4> QED
        BY <3>2, WordNat DEF IInv, Walk
    <3> QED
      BY <3>3 DEF Entry, Entries
  <2>2. offsets' \in Seq(Entries)
    BY <1>2, <2>1, AppendProperties DEF ReadEntry, IInv, Walk
  <2>3. Walk'
    BY <1>2, <2>2 DEF ReadEntry, input, IInv, Walk, Here
  <2>4. NoneYet' /\ Behind' /\ Disjoint'
    BY <1>2 DEF ReadEntry, input, IInv, NoneYet, Behind, Disjoint
  <2> QED
    BY <2>3, <2>4 DEF IInv
<1>3. CASE EndOfMap
  <2>1. CASE Return("capacity")
    BY <2>1, ReturnInv
  <2>2. CASE ~Return("capacity")
    <3>1. /\ phase = "map" /\ Len(offsets) = maps.count /\ phase' = "attributes"
          /\ UNCHANGED <<target, file, maps, offsets, next, attrs, outcome>>
      BY <1>3, <2>2 DEF EndOfMap, input
    <3>2. Walk'
      BY <3>1 DEF IInv, Walk, Here, Phases
    <3>3. attrs' = <<>>
      BY <3>1 DEF IInv, NoneYet
    <3>4. NoneYet' /\ Behind' /\ Disjoint'
      BY <3>1, <3>3 DEF NoneYet, Behind, Disjoint
    <3> QED
      BY <3>2, <3>4 DEF IInv
  <2> QED
    BY <2>1, <2>2
<1>4. CASE ReadAttribute
  <2>1. CASE Return("tooShort")
    BY <2>1, ReturnInv
  <2>2. CASE ~Return("tooShort")
    <3>1. /\ phase = "attributes" /\ next <= maps.count
          /\ offsets[next].start <= EndOf(next) /\ EndOf(next) <= file.len
          /\ Extract(offsets[next].start, EndOf(next))
      BY <1>4, <2>2 DEF ReadAttribute
    <3> QED
      BY <3>1, ExtractInv
  <2> QED
    BY <2>1, <2>2
<1>5. CASE Finish
  BY <1>5, ReturnInv DEF Finish
<1>6. CASE Returned \/ UNCHANGED vars
  <2>1. UNCHANGED <<target, file, phase, maps, offsets, next, attrs, outcome>>
    BY <1>6 DEF Returned, vars
  <2>2. Walk'
    BY <2>1 DEF IInv, Walk, Here
  <2>3. NoneYet' /\ Behind' /\ Disjoint'
    BY <2>1 DEF IInv, NoneYet, Behind, Disjoint
  <2> QED
    BY <2>2, <2>3 DEF IInv
<1> QED
  BY <1>1, <1>2, <1>3, <1>4, <1>5, <1>6 DEF Next

\* For any record, damage, noise and target: what parse_vcrd_attributes extracts
\* lies inside the record, in order, and no byte of it is used twice.
THEOREM DisjointHolds == Spec => []Disjoint
<1>1. Init => IInv
  BY InitInv
<1>2. IInv /\ [Next]_vars => IInv'
  BY StepInv
<1>3. IInv => Disjoint
  BY DEF IInv
<1> QED
  BY <1>1, <1>2, <1>3, PTL DEF Spec
-----------------------------------------------------------------------------
(* Type correctness.                                                          *)

Counted == /\ outcome \in {"running", "ok", "tooShort"} \cup Panics
           /\ outcome = "running" <=> phase # "done"
           /\ Len(offsets) <= maps.count
           /\ next <= maps.count + 1
           /\ phase = "header" => offsets = <<>>
           /\ phase \in {"header", "map"} => next = 1

LEMMA InitCounted == Init => Counted
<1> SUFFICES ASSUME Init PROVE Counted
  OBVIOUS
<1>1. Len(offsets) = 0
  BY DEF Init
<1> QED
  BY <1>1 DEF Init, Counted

\* A parser that returns keeps all it has read.
LEMMA ReturnCounted ==
  ASSUME Counted, phase # "done", NEW o \in {"ok", "tooShort"} \cup Panics, Return(o)
  PROVE  Counted'
BY DEF Counted, Return, Panics

LEMMA StepCounted == IInv /\ Counted /\ [Next]_vars => Counted'
<1> SUFFICES ASSUME IInv, Counted, [Next]_vars PROVE Counted'
  OBVIOUS
<1>1. CASE Header
  <2> DEFINE start == 44 + Word(36)
             count == Word(40 + Word(36)) \div 12
  <2>1. phase = "header"
    BY <1>1 DEF Header
  <2>2. CASE Return("tooShort") \/ Return("capacity")
    BY <2>1, <2>2, ReturnCounted DEF Panics
  <2>3. CASE ~(Return("tooShort") \/ Return("capacity"))
    <3>1. /\ phase' = "map" /\ maps' = [start |-> start, count |-> count]
          /\ UNCHANGED <<target, file, offsets, next, attrs, outcome>>
      BY <1>1, <2>3 DEF Header, input
    <3>2. IInv'
      BY StepInv
    <3>3. maps'.count \in Nat
      BY <3>2 DEF IInv, Walk
    <3>4. Len(offsets) = 0 /\ next = 1
      BY <2>1 DEF Counted
    <3> HIDE DEF start, count
    <3> QED
      BY <2>1, <3>1, <3>3, <3>4 DEF Counted
  <2> QED
    BY <2>2, <2>3
<1>2. CASE ReadEntry
  <2>1. /\ phase = "map" /\ Len(offsets) < maps.count
        /\ offsets' = Append(offsets, Entry(Len(offsets)))
        /\ UNCHANGED <<phase, maps, next, attrs, outcome>>
    BY <1>2 DEF ReadEntry
  <2>2. Len(offsets') = Len(offsets) + 1
    <3>1. offsets \in Seq(Entries)
      BY DEF IInv, Walk
    <3>2. IInv'
      BY StepInv
    <3>3. offsets' \in Seq(Entries)
      BY <3>2 DEF IInv, Walk
    <3> QED
      BY <2>1, <3>1, <3>3
  <2>3. Len(offsets) \in Nat /\ maps.count \in Nat
    BY LenProperties DEF IInv, Walk
  <2> QED
    BY <2>1, <2>2, <2>3 DEF Counted
<1>3. CASE EndOfMap
  <2>1. phase = "map"
    BY <1>3 DEF EndOfMap
  <2>2. CASE Return("capacity")
    BY <2>1, <2>2, ReturnCounted DEF Panics
  <2>3. CASE ~Return("capacity")
    <3>1. phase' = "attributes" /\ UNCHANGED <<maps, offsets, next, attrs, outcome>>
      BY <1>3, <2>3 DEF EndOfMap
    <3> QED
      BY <2>1, <3>1 DEF Counted
  <2> QED
    BY <2>2, <2>3
<1>4. CASE ReadAttribute
  <2>1. phase = "attributes" /\ next <= maps.count
    BY <1>4 DEF ReadAttribute
  <2>2. CASE Return("tooShort") \/ Return("overflow")
    BY <2>1, <2>2, ReturnCounted DEF Panics
  <2>3. CASE ~(Return("tooShort") \/ Return("overflow"))
    <3>1. next' = next + 1 /\ UNCHANGED <<phase, maps, offsets, outcome>>
      BY <1>4, <2>3 DEF ReadAttribute, Extract
    <3>2. next \in Nat /\ maps.count \in Nat
      BY DEF IInv, Walk
    <3> QED
      BY <2>1, <3>1, <3>2 DEF Counted
  <2> QED
    BY <2>2, <2>3
<1>5. CASE Finish
  <2>1. phase = "attributes" /\ Return("ok")
    BY <1>5 DEF Finish
  <2> QED
    BY <2>1, ReturnCounted
<1>6. CASE Returned \/ UNCHANGED vars
  BY <1>6 DEF Returned, vars, Counted
<1> QED
  BY <1>1, <1>2, <1>3, <1>4, <1>5, <1>6 DEF Next

\* The walk keeps its counts and types, and every piece is a pair of spans.
THEOREM TypeCorrect == Spec => []TypeOK
<1>1. Init => IInv /\ Counted
  BY InitInv, InitCounted
<1>2. IInv /\ Counted /\ [Next]_vars => (IInv /\ Counted)'
  BY StepInv, StepCounted
<1>3. IInv /\ Counted => TypeOK
  <2> SUFFICES ASSUME IInv, Counted PROVE TypeOK
    OBVIOUS
  <2>1. \A i \in DOMAIN attrs : Attribute(attrs[i])
    <3> TAKE i \in DOMAIN attrs
    <3>1. attrs[i] \in Pieces
      BY ElementOfSeq DEF IInv, Walk
    <3>2. /\ attrs[i].iv[1] <= attrs[i].iv[2]
          /\ attrs[i].data[1] <= attrs[i].data[2]
      BY DEF IInv, Disjoint
    <3> QED
      BY <3>1, <3>2 DEF Attribute, Pieces, Spans
  <2>2. next \in 1 .. maps.count + 1
    BY DEF IInv, Walk, Counted
  <2>3. (outcome = "running") = (phase # "done")
    BY DEF Counted
  <2> QED
    BY <2>1, <2>2, <2>3 DEF IInv, Walk, Here, Counted, TypeOK
<1> QED
  BY <1>1, <1>2, <1>3, PTL DEF Spec

-----------------------------------------------------------------------------
(* Panics.  Where usize is wider than the words of a file nothing overflows.  *)

Room(v) == ~target.narrow => Roomy(target, file.len, v)

LEMMA StoredRoom ==
  ASSUME Here, NEW p \in 0 .. file.len
  PROVE  Room(Stored(p))
<1>1. CASE p \in DOMAIN file.words
  BY <1>1, WideShape DEF Here, Stored, Room
<1>2. CASE p \notin DOMAIN file.words
  BY <1>2, WideShape DEF Here, Stored, Room
<1> QED
  BY <1>1, <1>2

LEMMA KindsDiffer == None # Panic /\ \A iv, data : Some(iv, data) # Panic /\ Some(iv, data) # None
<1>1. None.kind = "none" /\ Panic.kind = "overflow"
  BY DEF None, Panic
<1>2. \A iv, data : Some(iv, data).kind = "some"
  BY DEF Some
<1> QED
  BY <1>1, <1>2

LEMMA DataPanics ==
  ASSUME Here, NEW start \in Nat, NEW end \in Nat, end <= file.len,
         NEW a, NEW b \in Nat, start <= b, b <= end,
         NEW size, Fits(size), Room(size), NEW overhead \in Nat,
         DataOf(start, end, <<a, b>>, size, overhead) = Panic
  PROVE  target.narrow
<1> DEFINE n == size - overhead
           from == b - start
<1>1. /\ size \in Nat /\ target.usize \in Nat /\ file.len \in Nat
  BY WidthPlain DEF Fits
<1>2. overhead <= size /\ Traps(from + n)
  BY <1>1, KindsDiffer DEF DataOf
<1>3. from + n <= file.len + size
  BY <1>1, <1>2
<1>4. from + n > target.usize /\ from + n \in Nat
  BY <1>1, <1>2 DEF Traps
<1>5. ~target.narrow => file.len + size <= target.usize
  BY DEF Room, Roomy
<1> HIDE DEF from, n
<1> QED
  BY <1>1, <1>3, <1>4, <1>5

LEMMA PayloadPanics ==
  ASSUME Here, NEW start \in Nat, NEW end \in Nat, end <= file.len, start <= end,
         NEW pos \in Nat, pos <= 26, PayloadAt(start, end, pos) = Panic
  PROVE  target.narrow \/ end - start <= 28
<1> SUFFICES ASSUME end - start > 28 PROVE target.narrow
  OBVIOUS
<1> DEFINE size == Stored(start + pos)
           iv_size == Stored(start + pos + 5)
           from == start + pos + 9
<1>1. /\ target.usize \in Nat /\ file.len \in Nat /\ 2 * file.len <= target.usize
  BY WidthPlain
<1>2. Slice(start, end, pos, 9)
  BY KindsDiffer DEF PayloadAt
<1>3. from <= end
  <2>1. Fits(9) /\ pos <= target.usize
    BY <1>1 DEF Fits
  <2> QED
    BY <1>2, <2>1, SliceInside
<1>4. Fits(size) /\ Fits(iv_size) /\ Room(size) /\ Room(iv_size)
  <2>1. start + pos \in 0 .. file.len /\ start + pos + 5 \in 0 .. file.len
    BY <1>1, <1>3
  <2> QED
    BY <2>1, StoredFits, StoredRoom
<1>5. CASE Stored(start + pos + 4) = 0
  <2>1. DataOf(start, end, <<from, from>>, size, 1) = Panic
    BY <1>2, <1>5 DEF PayloadAt
  <2> HIDE DEF size
  <2> QED
    BY <1>3, <1>4, <2>1, DataPanics
<1>6. CASE Stored(start + pos + 4) # 0
  <2> HIDE DEF iv_size, size
  <2>1. iv_size \in Nat
    BY <1>4 DEF Fits
  <2>2. CASE Traps(pos + 9 + iv_size)
    <3>1. pos + 9 <= file.len
      BY <1>1, <1>3
    <3>2. pos + 9 + iv_size > target.usize
      BY <2>2 DEF Traps
    <3>3. ~target.narrow => file.len + iv_size <= target.usize
      BY <1>4 DEF Room, Roomy
    <3> QED
      BY <1>1, <2>1, <3>1, <3>2, <3>3
  <2>3. CASE ~Traps(pos + 9 + iv_size)
    <3>1. Slice(start, end, pos + 9, iv_size)
      BY <1>2, <1>6, <2>3, KindsDiffer DEF PayloadAt, iv_size
    <3>2. DataOf(start, end, <<from, from + iv_size>>, size, iv_size + 5) = Panic
      BY <1>2, <1>6, <2>3, <3>1 DEF PayloadAt, iv_size, size
    <3>3. pos + 9 <= target.usize /\ pos + 9 \in Nat
      BY <1>1
    <3>4. start + (pos + 9) + iv_size <= end
      BY <1>4, <3>1, <3>3, SliceInside
    <3>5. from + iv_size <= end /\ from + iv_size \in Nat /\ iv_size + 5 \in Nat
          /\ start <= from + iv_size
      BY <2>1, <3>4
    <3> QED
      BY <1>4, <3>2, <3>5, DataPanics
  <2> QED
    BY <2>2, <2>3
<1> QED
  BY <1>5, <1>6

LEMMA AttributePanics ==
  ASSUME Here, NEW start \in Nat, NEW end \in Nat, start <= end, end <= file.len,
         parse_attribute_payload(start, end) = Panic
  PROVE  target.narrow
<1> DEFINE pos == 16 + (IF PadSeen(start + 16) THEN 6 ELSE 0)
                     + (IF Stored(start) >= 100 THEN 4 ELSE 0)
<1>1. pos \in Nat /\ pos <= 26
  OBVIOUS
<1>2. ~(end - start <= 28) /\ PayloadAt(start, end, pos) = Panic
  BY KindsDiffer DEF parse_attribute_payload
<1> HIDE DEF pos
<1> QED
  BY <1>1, <1>2, PayloadPanics
-----------------------------------------------------------------------------
(* The record as it was written.                                              *)

Attrs == [id : Nat, pad : BOOLEAN, iv : Nat, data : Nat]

LEMMA AttrShape ==
  ASSUME NEW a \in Attrs
  PROVE  /\ a.id \in Nat /\ a.iv \in Nat /\ a.data \in Nat /\ a.pad \in BOOLEAN
         /\ PadLen(a) = IF a.pad THEN 6 ELSE 0
         /\ SizeAt(a) \in Nat /\ 16 <= SizeAt(a) /\ SizeAt(a) <= 26
         /\ SizeAt(a) = 16 + (IF a.pad THEN 6 ELSE 0) + (IF a.id >= 100 THEN 4 ELSE 0)
         /\ AttributeLen(a) \in Nat /\ 25 <= AttributeLen(a)
         /\ AttributeLen(a) = SizeAt(a) + 9 + a.iv + a.data
         /\ SizeWord(a) \in Nat /\ SizeWord(a) # 0
<1>1. a.id \in Nat /\ a.iv \in Nat /\ a.data \in Nat /\ a.pad \in BOOLEAN
  BY DEF Attrs
<1>2. SizeWord(a) \in Nat /\ SizeWord(a) # 0
  BY <1>1 DEF SizeWord
<1>3. SizeAt(a) \in Nat /\ 16 <= SizeAt(a) /\ SizeAt(a) <= 26
      /\ SizeAt(a) = 16 + (IF a.pad THEN 6 ELSE 0) + (IF a.id >= 100 THEN 4 ELSE 0)
      /\ PadLen(a) = IF a.pad THEN 6 ELSE 0
  BY <1>1 DEF SizeAt, PadLen, Unknown5Len
<1> QED
  BY <1>1, <1>2, <1>3 DEF AttributeLen

LEMMA RecordParts ==
  ASSUME NEW r \in Records
  PROVE  /\ r.name \in Nat /\ MapStart(r) \in Nat /\ MapStart(r) = 44 + r.name
         /\ r.attrs \in Seq(Attrs) /\ Len(r.attrs) \in Nat
         /\ DOMAIN r.attrs = 1 .. Len(r.attrs)
         /\ \A i \in 1 .. Len(r.attrs) : r.attrs[i] \in Attrs
<1>1. r.name \in Nat /\ r.attrs \in Seq(Attrs)
  BY RecordShape DEF Attrs
<1>2. Len(r.attrs) \in Nat /\ DOMAIN r.attrs = 1 .. Len(r.attrs)
  BY <1>1, LenProperties
<1>3. \A i \in 1 .. Len(r.attrs) : r.attrs[i] \in Attrs
  BY <1>1, ElementOfSeq
<1> QED
  BY <1>1, <1>2, <1>3 DEF MapStart

\* Where the attributes start, one behind the other.
LEMMA OffsetsUnfold ==
  ASSUME NEW r \in Records
  PROVE  \A i \in 1 .. Len(r.attrs) + 1 :
           /\ Offsets(r)[i] \in Nat
           /\ Offsets(r)[i] = IF i = 1 THEN MapStart(r) + 12 * Len(r.attrs)
                              ELSE Offsets(r)[i - 1] + AttributeLen(r.attrs[i - 1])
<1> DEFINE m == Len(r.attrs)
           a == MapStart(r) + 12 * m
           d == [i \in 1 .. m |-> AttributeLen(r.attrs[i])]
           at == Sums(a, d, m)
           Is(x) == x = [i \in 1 .. m + 1 |->
                           IF i = 1 THEN a ELSE x[i - 1] + AttributeLen(r.attrs[i - 1])]
<1>1. m \in Nat /\ a \in Nat
  BY RecordParts
<1>2. d \in [1 .. m -> Nat] /\ \A i \in 1 .. m : d[i] = AttributeLen(r.attrs[i])
  BY RecordParts, AttrShape
<1>3. at \in [1 .. m + 1 -> Nat] /\ AreSums(at, a, d, m + 1)
  <2> HIDE DEF m, a, d
  <2> QED
    BY <1>1, <1>2, SumsExist
<1>4. \A i \in 1 .. m + 1 : i # 1 => i - 1 \in 1 .. m
  <2> HIDE DEF m
  <2> QED
    BY <1>1
<1> HIDE DEF m, a, d, at
<1>5. \A i \in 1 .. m + 1 :
        at[i] = IF i = 1 THEN a ELSE at[i - 1] + AttributeLen(r.attrs[i - 1])
  BY <1>2, <1>3, <1>4 DEF AreSums
<1>6. Is(at)
  BY <1>3, <1>5
<1>7. Offsets(r) = CHOOSE x : Is(x)
  BY DEF Offsets, m, a
<1>8. Is(Offsets(r))
  <2> HIDE DEF Is
  <2> QED
    BY <1>6, <1>7
<1> DEFINE o == Offsets(r)
<1>9. o = [i \in 1 .. m + 1 |-> IF i = 1 THEN a ELSE o[i - 1] + AttributeLen(r.attrs[i - 1])]
  BY <1>8
<1> HIDE DEF o
<1>10. \A i \in 1 .. m + 1 :
         o[i] = IF i = 1 THEN a ELSE o[i - 1] + AttributeLen(r.attrs[i - 1])
  BY <1>9
<1> DEFINE S == {i \in 1 .. m + 1 : o[i] \in Nat}
<1>11. \A i \in 1 .. m : AttributeLen(r.attrs[i]) \in Nat
  BY <1>2
<1>12. 1 .. m + 1 \subseteq S
  <2> DEFINE n == m + 1
  <2>1. n \in Nat /\ (1 <= n => 1 \in S)
    BY <1>1, <1>10
  <2>2. \A i \in 1 .. n : i + 1 <= n /\ i \in S => i + 1 \in S
    <3> SUFFICES ASSUME NEW i \in 1 .. n, i + 1 <= n, o[i] \in Nat
                 PROVE  i + 1 \in 1 .. n /\ o[i + 1] \in Nat
      OBVIOUS
    <3>1. i + 1 \in 1 .. n /\ (i + 1) - 1 = i /\ i + 1 # 1 /\ i \in 1 .. m
      BY <1>1
    <3>2. o[i + 1] = o[i] + AttributeLen(r.attrs[i])
      BY <1>10, <3>1
    <3> QED
      BY <1>11, <3>1, <3>2
  <2> HIDE DEF S, n
  <2>3. 1 .. n \subseteq S
    BY <2>1, <2>2, Induct
  <2> QED
    BY <2>3 DEF n
<1> QED
  BY <1>10, <1>12 DEF o, m, a, S

\* Each attribute takes 25 bytes or more, and none ends behind the record.
LEMMA OffsetsGrow ==
  ASSUME NEW r \in Records
  PROVE  /\ RecordLen(r) \in Nat
         /\ MapStart(r) + 37 * Len(r.attrs) <= RecordLen(r)
         /\ \A i \in 1 .. Len(r.attrs) :
              /\ MapStart(r) + 12 * Len(r.attrs) <= Offsets(r)[i]
              /\ Offsets(r)[i + 1] = Offsets(r)[i] + AttributeLen(r.attrs[i])
              /\ Offsets(r)[i + 1] \in Nat
              /\ Offsets(r)[i + 1] <= RecordLen(r)
<1> DEFINE m == Len(r.attrs)
           n == m + 1
           o == Offsets(r)
           first == MapStart(r) + 12 * m
           A == {i \in 1 .. n : first + 25 * (i - 1) <= o[i]}
<1>1. m \in Nat /\ n \in Nat /\ n \in 1 .. n /\ first \in Nat /\ MapStart(r) \in Nat
  BY RecordParts
<1>2. \A i \in 1 .. n : o[i] \in Nat /\ (i = 1 => o[i] = first)
  BY OffsetsUnfold
<1>3. ASSUME NEW i \in 1 .. m
      PROVE  /\ i \in 1 .. n /\ i + 1 \in 1 .. n
             /\ o[i + 1] = o[i] + AttributeLen(r.attrs[i])
             /\ AttributeLen(r.attrs[i]) \in Nat /\ 25 <= AttributeLen(r.attrs[i])
  <2>1. i \in 1 .. n /\ i + 1 \in 1 .. n /\ i + 1 # 1 /\ (i + 1) - 1 = i
    BY <1>1
  <2>2. o[i + 1] = o[i] + AttributeLen(r.attrs[i])
    BY <2>1, OffsetsUnfold
  <2> QED
    BY <2>1, <2>2, RecordParts, AttrShape
<1>4. RecordLen(r) = o[n]
  BY DEF RecordLen
<1> HIDE DEF m, o, first
<1>5. 1 .. n \subseteq A
  <2>1. 1 <= n => 1 \in A
    BY <1>1, <1>2
  <2>2. \A i \in 1 .. n : i + 1 <= n /\ i \in A => i + 1 \in A
    <3> SUFFICES ASSUME NEW i \in 1 .. n, i + 1 <= n, first + 25 * (i - 1) <= o[i]
                 PROVE  i + 1 \in 1 .. n /\ first + 25 * ((i + 1) - 1) <= o[i + 1]
      OBVIOUS
    <3>1. i \in 1 .. m
      BY <1>1
    <3>2. o[i] \in Nat /\ o[i + 1] \in Nat
      BY <1>2, <1>3, <3>1
    <3> QED
      BY <1>1, <1>3, <3>1, <3>2
  <2> HIDE DEF A, n
  <2> QED
    BY <1>1, <2>1, <2>2, Induct
<1>6. ASSUME NEW k \in 1 .. n
      PROVE  o[k] <= o[n]
  <2> DEFINE S == {i \in 1 .. n : k <= i => o[k] <= o[i]}
  <2>1. 1 <= n => 1 \in S
    BY <1>1, <1>2
  <2>2. \A i \in 1 .. n : i + 1 <= n /\ i \in S => i + 1 \in S
    <3> SUFFICES ASSUME NEW i \in 1 .. n, i + 1 <= n, k <= i => o[k] <= o[i], k <= i + 1
                 PROVE  i + 1 \in 1 .. n /\ o[k] <= o[i + 1]
      BY <1>1
    <3>1. i \in 1 .. m
      BY <1>1
    <3>2. o[i] \in Nat /\ o[i + 1] \in Nat /\ o[k] \in Nat
      BY <1>2, <1>3, <3>1
    <3>3. CASE k <= i
      BY <1>3, <3>1, <3>2, <3>3
    <3>4. CASE k = i + 1
      BY <1>3, <3>1, <3>2, <3>4
    <3> QED
      BY <1>1, <3>3, <3>4
  <2> HIDE DEF S, n
  <2>3. 1 .. n \subseteq S
    BY <1>1, <2>1, <2>2, Induct
  <2> QED
    BY <1>1, <2>3 DEF S
<1>7. \A i \in 1 .. m : first <= o[i]
  <2> SUFFICES ASSUME NEW i \in 1 .. m PROVE first <= o[i]
    OBVIOUS
  <2>1. i \in A /\ i \in 1 .. n
    BY <1>3, <1>5
  <2> QED
    BY <1>1, <1>2, <2>1
<1>8. first + 25 * m <= o[n] /\ o[n] \in Nat
  <2>1. n \in A
    BY <1>1, <1>5
  <2> QED
    BY <1>1, <1>2, <2>1
<1>9. MapStart(r) + 37 * m <= o[n]
  BY <1>1, <1>8 DEF first
<1>10. \A i \in 1 .. m : /\ o[i + 1] = o[i] + AttributeLen(r.attrs[i])
                         /\ o[i + 1] \in Nat /\ o[i + 1] <= o[n]
  BY <1>2, <1>3, <1>6
<1> QED
  BY <1>4, <1>7, <1>8, <1>9, <1>10 DEF m, o, first

LEMMA ExtractedPiece ==
  ASSUME NEW r \in Records, NEW i \in 1 .. Len(r.attrs)
  PROVE  Extracted(r, i) \in Pieces
<1> DEFINE a == r.attrs[i]
           iv == Offsets(r)[i] + SizeAt(a) + 9
<1>1. a \in Attrs /\ Len(r.attrs) \in Nat /\ i \in 1 .. Len(r.attrs) + 1
  BY RecordParts
<1>2. Offsets(r)[i] \in Nat
  BY <1>1, OffsetsUnfold
<1>3. a.id \in Nat /\ a.iv \in Nat /\ a.data \in Nat /\ SizeAt(a) \in Nat
  BY <1>1, AttrShape
<1>4. iv \in Nat /\ iv + a.iv \in Nat /\ iv + a.iv + a.data \in Nat
  <2>1. \A o, s, m, n \in Nat : /\ o + s + 9 \in Nat /\ o + s + 9 + m \in Nat
                               /\ o + s + 9 + m + n \in Nat
    OBVIOUS
  <2> HIDE DEF a
  <2> QED
    BY <1>2, <1>3, <2>1
<1>5. MapId(r, i) \in Nat
  BY <1>3 DEF MapId
<1>6. Extracted(r, i) = [id |-> MapId(r, i), iv |-> <<iv, iv + a.iv>>,
                         data |-> <<iv + a.iv, iv + a.iv + a.data>>]
  BY DEF Extracted
<1> HIDE DEF iv, a
<1> QED
  BY <1>4, <1>5, <1>6 DEF Pieces

\* The payloads before each attribute, one after another.
LEMMA PayloadsUnfold ==
  ASSUME NEW r \in Records
  PROVE  \A i \in 1 .. Len(r.attrs) + 1 :
           /\ Payloads(r)[i] \in Seq(Pieces)
           /\ Payloads(r)[i] = IF i = 1 THEN <<>>
                               ELSE IF AttributeLen(r.attrs[i - 1]) <= 28 THEN Payloads(r)[i - 1]
                               ELSE Append(Payloads(r)[i - 1], Extracted(r, i - 1))
<1> DEFINE m == Len(r.attrs)
           T == Seq(Pieces)
           After(i, s) == IF AttributeLen(r.attrs[i]) <= 28 THEN s
                          ELSE Append(s, Extracted(r, i))
           g == [i \in 1 .. m |-> [s \in T |-> After(i, s)]]
           e == <<>>
           at == Iterates(e, g, m, T)
           Is(x) == x = [i \in 1 .. m + 1 |->
                           IF i = 1 THEN <<>>
                           ELSE IF AttributeLen(r.attrs[i - 1]) <= 28 THEN x[i - 1]
                           ELSE Append(x[i - 1], Extracted(r, i - 1))]
<1>1. m \in Nat /\ e \in T
  BY RecordParts
<1>2. \A i \in 1 .. m : \A s \in T : After(i, s) \in T
  <2> SUFFICES ASSUME NEW i \in 1 .. m, NEW s \in Seq(Pieces) PROVE After(i, s) \in Seq(Pieces)
    OBVIOUS
  <2>1. Extracted(r, i) \in Pieces
    BY ExtractedPiece
  <2>2. Append(s, Extracted(r, i)) \in Seq(Pieces)
    BY <2>1, AppendProperties
  <2> QED
    BY <2>2
<1>3. g \in [1 .. m -> [T -> T]]
  <2> HIDE DEF m, T, After
  <2> QED
    BY <1>2
<1>4. at \in [1 .. m + 1 -> T] /\ AreIterates(at, e, g, m + 1)
  <2> HIDE DEF m, T, g, e
  <2> QED
    BY <1>1, <1>3, IteratesExist
<1> HIDE DEF at
<1>5. \A i \in 1 .. m + 1 :
        at[i] = IF i = 1 THEN <<>>
                ELSE IF AttributeLen(r.attrs[i - 1]) <= 28 THEN at[i - 1]
                ELSE Append(at[i - 1], Extracted(r, i - 1))
  <2> SUFFICES ASSUME NEW i \in 1 .. m + 1, i # 1
               PROVE  at[i] = After(i - 1, at[i - 1])
    <3>1. 1 \in 1 .. m + 1 => at[1] = <<>>
      <4> HIDE DEF g, m
      <4> QED
        BY <1>4 DEF AreIterates
    <3> QED
      BY <3>1
  <2>1. i - 1 \in 1 .. m /\ i - 1 \in 1 .. m + 1
    BY <1>1
  <2>2. at[i] = g[i - 1][at[i - 1]]
    <3> HIDE DEF g, m
    <3> QED
      BY <1>4 DEF AreIterates
  <2>3. at[i - 1] \in T
    BY <1>4, <2>1
  <2> HIDE DEF After, T, m
  <2> QED
    BY <2>1, <2>2, <2>3
<1>6. Is(at)
  <2> HIDE DEF m, T
  <2> QED
    BY <1>4, <1>5
<1>7. Payloads(r) = CHOOSE x : Is(x)
  BY DEF Payloads
<1>8. Is(Payloads(r))
  <2> HIDE DEF Is
  <2> QED
    BY <1>6, <1>7
<1> DEFINE o == Payloads(r)
<1> HIDE DEF m, T
<1>9. o = [i \in 1 .. m + 1 |->
             IF i = 1 THEN <<>>
             ELSE IF AttributeLen(r.attrs[i - 1]) <= 28 THEN o[i - 1]
             ELSE Append(o[i - 1], Extracted(r, i - 1))]
  BY <1>8 DEF m
<1> HIDE DEF o
<1>10. \A i \in 1 .. m + 1 :
         o[i] = IF i = 1 THEN <<>>
                ELSE IF AttributeLen(r.attrs[i - 1]) <= 28 THEN o[i - 1]
                ELSE Append(o[i - 1], Extracted(r, i - 1))
  BY <1>9
<1> DEFINE S == {i \in 1 .. m + 1 : o[i] \in T}
           n == m + 1
<1>11. 1 .. n \subseteq S
  <2>1. n \in Nat /\ (1 <= n => 1 \in S)
    BY <1>1, <1>10
  <2>2. \A i \in 1 .. n : i + 1 <= n /\ i \in S => i + 1 \in S
    <3> SUFFICES ASSUME NEW i \in 1 .. n, i + 1 <= n, o[i] \in T
                 PROVE  i + 1 \in 1 .. n /\ o[i + 1] \in T
      OBVIOUS
    <3>1. i + 1 \in 1 .. n /\ (i + 1) - 1 = i /\ i + 1 # 1 /\ i \in 1 .. m
      BY <1>1
    <3>2. o[i + 1] = After(i, o[i])
      BY <1>10, <3>1
    <3> HIDE DEF After
    <3> QED
      BY <1>2, <3>1, <3>2
  <2> HIDE DEF S, n
  <2> QED
    BY <2>1, <2>2, Induct
<1> QED
  BY <1>10, <1>11 DEF o, m, T, S

-----------------------------------------------------------------------------
(* The file of an undamaged record.                                           *)

Written == file.record
Count == Len(Written.attrs)

\* A word of the record stands where it was written.
LEMMA WordStored ==
  ASSUME Here, ~file.damaged, NEW p, NEW v, <<p, v>> \in RecordWords(Written)
  PROVE  Stored(p) = v
<1> DEFINE w == <<p, v>>
<1>1. w \in RecordWords(file.record) /\ w[1] = p /\ w[2] = v
  BY DEF Written
<1>2. w[1] \in DOMAIN file.words /\ file.words[w[1]] = w[2]
  <2> HIDE DEF w
  <2> QED
    BY <1>1, IntactShape DEF Here
<1> QED
  BY <1>1, <1>2 DEF Stored

LEMMA WrittenParts ==
  ASSUME Here
  PROVE  /\ Written \in Records /\ Count \in Nat
         /\ MapStart(Written) \in Nat /\ MapStart(Written) = 44 + Written.name
         /\ Written.name \in Nat
         /\ file.len \in Nat
         /\ RecordLen(Written) \in Nat
         /\ MapStart(Written) + 37 * Count <= RecordLen(Written)
         /\ ~file.damaged => /\ file.len <= RecordLen(Written)
                             /\ RecordLen(Written) <= target.isize
                             /\ target.narrow => target.entry <= 37 /\ target.attribute <= 37
<1>1. Written \in Records /\ file.len \in Nat
  BY FileShape DEF Here, Written
<1>2. ~file.damaged => /\ file.len <= RecordLen(Written)
                       /\ RecordLen(Written) <= target.isize
                       /\ target.narrow => target.entry <= 37 /\ target.attribute <= 37
  BY IntactShape DEF Here, Written
<1>3. Written.name \in Nat /\ MapStart(Written) \in Nat /\ MapStart(Written) = 44 + Written.name
      /\ Count \in Nat
  BY <1>1, RecordParts DEF Count
<1>4. RecordLen(Written) \in Nat /\ MapStart(Written) + 37 * Count <= RecordLen(Written)
  BY <1>1, OffsetsGrow DEF Count
<1> QED
  BY <1>1, <1>2, <1>3, <1>4

LEMMA HeaderStored ==
  ASSUME Here, ~file.damaged
  PROVE  /\ Stored(36) = Written.name
         /\ Stored(MapStart(Written) - 4) = 12 * Count
<1>1. <<36, Written.name>> \in RecordWords(Written)
  BY DEF RecordWords
<1>2. <<MapStart(Written) - 4, 12 * Count>> \in RecordWords(Written)
  BY DEF RecordWords, Count
<1>3. Stored(36) = Written.name
  BY <1>1, WordStored
<1>4. Stored(MapStart(Written) - 4) = 12 * Count
  BY <1>2, WordStored
<1> QED
  BY <1>3, <1>4

LEMMA EntryStored ==
  ASSUME Here, ~file.damaged, NEW i \in 1 .. Count
  PROVE  /\ Stored(MapStart(Written) + 12 * (i - 1)) = MapId(Written, i)
         /\ Stored(MapStart(Written) + 12 * (i - 1) + 4) = Offsets(Written)[i]
<1> DEFINE W(k) == {<<MapStart(Written) + 12 * (k - 1), MapId(Written, k)>>,
                    <<MapStart(Written) + 12 * (k - 1) + 4, Offsets(Written)[k]>>}
                   \cup AttributeWords(Written.attrs[k], Offsets(Written)[k])
<1>1. i \in DOMAIN Written.attrs
  BY WrittenParts, RecordParts DEF Count
<1>2. W(i) \subseteq RecordWords(Written)
  BY <1>1 DEF RecordWords
<1>3. /\ <<MapStart(Written) + 12 * (i - 1), MapId(Written, i)>> \in RecordWords(Written)
      /\ <<MapStart(Written) + 12 * (i - 1) + 4, Offsets(Written)[i]>> \in RecordWords(Written)
  BY <1>2
<1>4. Stored(MapStart(Written) + 12 * (i - 1)) = MapId(Written, i)
  BY <1>3, WordStored
<1>5. Stored(MapStart(Written) + 12 * (i - 1) + 4) = Offsets(Written)[i]
  BY <1>3, WordStored
<1> QED
  BY <1>4, <1>5

LEMMA AttributeStored ==
  ASSUME Here, ~file.damaged, NEW i \in 1 .. Count,
         NEW p, p = Offsets(Written)[i], NEW a, a = Written.attrs[i]
  PROVE  /\ Stored(p) = a.id
         /\ Stored(p + SizeAt(a)) = SizeWord(a)
         /\ Stored(p + SizeAt(a) + 4) = IF a.iv = 0 THEN 0 ELSE 1
         /\ Stored(p + SizeAt(a) + 5) = a.iv
         /\ a.pad => Stored(p + 16) = 0 /\ Stored(p + 20) = 0
         /\ a.id >= 100 => Stored(p + 16 + PadLen(a)) = 0
<1> DEFINE W(k) == {<<MapStart(Written) + 12 * (k - 1), MapId(Written, k)>>,
                    <<MapStart(Written) + 12 * (k - 1) + 4, Offsets(Written)[k]>>}
                   \cup AttributeWords(Written.attrs[k], Offsets(Written)[k])
<1>1. i \in DOMAIN Written.attrs
  BY WrittenParts, RecordParts DEF Count
<1>2. W(i) \subseteq RecordWords(Written)
  BY <1>1 DEF RecordWords
<1>3. AttributeWords(a, p) \subseteq RecordWords(Written)
  BY <1>2
<1>4. \A q, v : <<q, v>> \in AttributeWords(a, p) => Stored(q) = v
  BY <1>3, WordStored
<1>5. /\ <<p, a.id>> \in AttributeWords(a, p)
      /\ <<p + SizeAt(a), SizeWord(a)>> \in AttributeWords(a, p)
      /\ <<p + SizeAt(a) + 4, IF a.iv = 0 THEN 0 ELSE 1>> \in AttributeWords(a, p)
      /\ <<p + SizeAt(a) + 5, a.iv>> \in AttributeWords(a, p)
  BY DEF AttributeWords
<1>6. a.pad => <<p + 16, 0>> \in AttributeWords(a, p) /\ <<p + 20, 0>> \in AttributeWords(a, p)
  BY DEF AttributeWords
<1>7. a.id >= 100 => <<p + 16 + PadLen(a), 0>> \in AttributeWords(a, p)
  BY DEF AttributeWords
<1> QED
  BY <1>4, <1>5, <1>6, <1>7, Zenon

-----------------------------------------------------------------------------
(* One attribute of an undamaged record.                                      *)

\* Where the walk looks for Size is where it was written: six zero bytes are
\* seen exactly where the attribute is padded.
LEMMA SizeFound ==
  ASSUME Here, ~file.damaged, NEW i \in 1 .. Count,
         NEW p, p = Offsets(Written)[i], NEW a, a = Written.attrs[i]
  PROVE  16 + (IF PadSeen(p + 16) THEN 6 ELSE 0) + (IF Stored(p) >= 100 THEN 4 ELSE 0) = SizeAt(a)
<1>1. a \in Attrs /\ i \in 1 .. Count + 1
  BY WrittenParts, RecordParts DEF Count
<1>2. /\ a.id \in Nat /\ a.pad \in BOOLEAN /\ SizeWord(a) \in Nat /\ SizeWord(a) # 0
      /\ PadLen(a) = IF a.pad THEN 6 ELSE 0
      /\ SizeAt(a) = 16 + (IF a.pad THEN 6 ELSE 0) + (IF a.id >= 100 THEN 4 ELSE 0)
  BY <1>1, AttrShape
<1>3. ~Ambiguous(a) /\ LowHalf \in Nat \ {0}
  BY WrittenParts, RecordParts, RecordShape DEF Count
<1>4. p \in Nat
  BY <1>1, WrittenParts, OffsetsUnfold DEF Count
<1>5. /\ Stored(p) = a.id
      /\ Stored(p + SizeAt(a)) = SizeWord(a)
      /\ a.pad => Stored(p + 16) = 0 /\ Stored(p + 20) = 0
      /\ a.id >= 100 => Stored(p + 16 + PadLen(a)) = 0
  BY AttributeStored
<1>6. PadSeen(p + 16) <=> a.pad
  <2>1. p + 16 + 4 = p + 20 /\ p + 16 + 0 = p + 16
    BY <1>4
  <2>2. CASE a.pad
    <3>1. 0 % LowHalf = 0
      BY <1>3
    <3> QED
      BY <1>5, <2>1, <2>2, <3>1 DEF PadSeen
  <2>3. CASE ~a.pad /\ a.id >= 100
    <3>1. SizeAt(a) = 20
      BY <1>2, <2>3
    <3>2. Stored(p + 20) % LowHalf # 0
      BY <1>3, <1>5, <2>3, <3>1 DEF Ambiguous
    <3> QED
      BY <2>1, <2>3, <3>2 DEF PadSeen
  <2>4. CASE ~a.pad /\ ~(a.id >= 100)
    <3>1. SizeAt(a) = 16
      BY <1>2, <2>4
    <3>2. Stored(p + 16) # 0
      BY <1>2, <1>5, <3>1
    <3> QED
      BY <2>4, <3>2 DEF PadSeen
  <2> QED
    BY <2>2, <2>3, <2>4
<1> QED
  BY <1>2, <1>5, <1>6

\* Sums inside an undamaged record fit.
LEMMA SumFits ==
  ASSUME Here, NEW n \in Nat, n <= target.isize
  PROVE  ~Traps(n) /\ Wrap(n) = n
<1>1. target.usize \in Nat /\ target.isize \in Nat /\ 2 * target.isize <= target.usize
  BY TargetShape DEF Here
<1> QED
  BY <1>1 DEF Traps, Wrap

\* What a whole slice of an attribute yields: its payload.  A slice that is cut
\* yields nothing, or the payload if only bytes behind it are missing.
Yields(p, end, i) ==
  IF end - p > 28 /\ p + AttributeLen(Written.attrs[i]) <= end
  THEN Some(Extracted(Written, i).iv, Extracted(Written, i).data)
  ELSE None

LEMMA AttributeParsed ==
  ASSUME Here, ~file.damaged, NEW i \in 1 .. Count,
         NEW p, p = Offsets(Written)[i],
         NEW end \in Nat, p <= end, end <= RecordLen(Written)
  PROVE  parse_attribute_payload(p, end) = Yields(p, end, i)
<1>1. PICK a : a = Written.attrs[i]
  OBVIOUS
<1>2. a \in Attrs /\ i \in 1 .. Count + 1
  BY <1>1, WrittenParts, RecordParts DEF Count
<1>3. PICK s : s = SizeAt(a)
  OBVIOUS
<1>4. /\ a.iv \in Nat /\ a.data \in Nat /\ s \in Nat /\ 16 <= s /\ s <= 26
      /\ AttributeLen(a) = s + 9 + a.iv + a.data
  BY <1>2, <1>3, AttrShape
<1>5. p \in Nat
  BY <1>2, WrittenParts, OffsetsUnfold DEF Count
<1>6. /\ RecordLen(Written) \in Nat /\ RecordLen(Written) <= target.isize
      /\ target.isize \in Nat
      /\ p + AttributeLen(a) <= RecordLen(Written)
  BY <1>1, WrittenParts, OffsetsGrow, TargetShape DEF Count, Here
<1>7. /\ Stored(p + s) = SizeWord(a)
      /\ Stored(p + s + 4) = IF a.iv = 0 THEN 0 ELSE 1
      /\ Stored(p + s + 5) = a.iv
  BY <1>1, <1>3, AttributeStored
<1>8. 16 + (IF PadSeen(p + 16) THEN 6 ELSE 0) + (IF Stored(p) >= 100 THEN 4 ELSE 0) = s
  BY <1>1, <1>3, SizeFound
<1>9. CASE end - p <= 28
  BY <1>5, <1>9 DEF parse_attribute_payload, Yields
<1>10. CASE ~(end - p <= 28)
  <2>1. parse_attribute_payload(p, end) = PayloadAt(p, end, s)
    BY <1>8, <1>10 DEF parse_attribute_payload
  <2>2. PICK f : f = p + s + 9
    OBVIOUS
  <2>3. f \in Nat
    BY <1>4, <1>5, <2>2
  <2>4. Extracted(Written, i).iv = <<f, f + a.iv>>
        /\ Extracted(Written, i).data = <<f + a.iv, f + a.iv + a.data>>
    BY <1>1, <1>3, <2>2 DEF Extracted
  <2>5. \A n \in Nat : n <= AttributeLen(a) => ~Traps(n) /\ Wrap(n) = n
    <3> SUFFICES ASSUME NEW n \in Nat, n <= AttributeLen(a) PROVE n <= target.isize
      BY SumFits
    <3> QED
      BY <1>4, <1>5, <1>6
  <2>6. \A q \in Nat, n \in Nat : q + n <= AttributeLen(a) =>
          (Slice(p, end, q, n) <=> p + (q + n) <= end)
    BY <2>5 DEF Slice
  <2>7. Slice(p, end, s, 9) <=> f <= end
    BY <1>4, <1>5, <2>2, <2>6
  <2> DEFINE whole == p + AttributeLen(a) <= end
             result == IF whole THEN Some(<<f, f + a.iv>>, <<f + a.iv, f + a.iv + a.data>>)
                       ELSE None
  <2>8. end - p > 28
    BY <1>5, <1>10
  <2>9. Yields(p, end, i) = result
    BY <1>1, <2>4, <2>8 DEF Yields
  <2>10. whole => f <= end
    BY <1>4, <1>5, <2>2
  <2>11. CASE ~(f <= end)
    <3>1. PayloadAt(p, end, s) = None
      BY <2>7, <2>11 DEF PayloadAt
    <3> QED
      BY <2>1, <2>9, <2>10, <2>11, <3>1
  \* Data of the length that Size leaves, behind an IV of n bytes.
  <2>12. ASSUME NEW n \in Nat, n = a.iv, NEW overhead \in Nat, NEW b,
                b = f + n, SizeWord(a) - overhead = a.data, overhead <= SizeWord(a)
         PROVE  DataOf(p, end, <<f, b>>, SizeWord(a), overhead)
                  = IF whole THEN Some(<<f, b>>, <<b, b + a.data>>) ELSE None
    <3>1. b - p = s + 9 + n /\ b \in Nat
      BY <1>4, <1>5, <2>2, <2>12
    <3>2. ~Traps(b - p + a.data)
      BY <1>4, <2>5, <2>12, <3>1
    <3>3. Slice(p, end, b - p, a.data) <=> whole
      <4>1. (b - p) + a.data = AttributeLen(a) /\ b - p \in Nat
        BY <1>4, <2>12, <3>1
      <4> QED
        BY <1>4, <2>6, <4>1
    <3>4. SizeWord(a) \in Nat /\ ~(overhead > SizeWord(a))
      BY <1>2, <2>12, AttrShape
    <3>5. <<f, b>>[2] = b
      OBVIOUS
    <3> HIDE DEF whole
    <3>6. DataOf(p, end, <<f, b>>, SizeWord(a), overhead)
            = IF ~Slice(p, end, b - p, a.data) THEN None
              ELSE Some(<<f, b>>, <<b, b + a.data>>)
      BY <2>12, <3>2, <3>4 DEF DataOf
    <3> QED
      BY <3>3, <3>6
  <2>13. CASE f <= end /\ a.iv = 0
    <3>1. Stored(p + s + 4) = 0
      BY <1>7, <2>13
    <3>2. PayloadAt(p, end, s) = DataOf(p, end, <<f, f>>, SizeWord(a), 1)
      BY <1>7, <2>2, <2>7, <2>13, <3>1 DEF PayloadAt
    <3>3. SizeWord(a) - 1 = a.data /\ 1 <= SizeWord(a)
      BY <1>4, <2>13 DEF SizeWord
    <3>4. f = f + a.iv
      BY <2>3, <2>13
    <3>5. DataOf(p, end, <<f, f>>, SizeWord(a), 1)
            = IF whole THEN Some(<<f, f>>, <<f, f + a.data>>) ELSE None
      <4> HIDE DEF whole
      <4> QED
        BY <1>4, <2>12, <3>3, <3>4
    <3> QED
      BY <2>1, <2>9, <3>2, <3>4, <3>5
  <2>14. CASE f <= end /\ a.iv # 0
    <3>1. Stored(p + s + 4) # 0
      BY <1>7, <2>14
    <3>2. ~Traps(s + 9 + a.iv)
      BY <1>4, <2>5
    <3>3. Slice(p, end, s + 9, a.iv) <=> f + a.iv <= end
      <4>1. s + 9 \in Nat /\ (s + 9) + a.iv <= AttributeLen(a)
            /\ p + ((s + 9) + a.iv) = f + a.iv
        BY <1>4, <1>5, <2>2
      <4> QED
        BY <1>4, <2>6, <4>1
    <3>4. CASE ~(f + a.iv <= end)
      <4>1. PayloadAt(p, end, s) = None
        BY <1>7, <2>7, <2>14, <3>1, <3>2, <3>3, <3>4 DEF PayloadAt
      <4>2. ~whole
        BY <1>4, <1>5, <2>2, <3>4
      <4> QED
        BY <2>1, <2>9, <4>1, <4>2
    <3>5. CASE f + a.iv <= end
      <4>1. PayloadAt(p, end, s) = DataOf(p, end, <<f, f + a.iv>>, SizeWord(a), a.iv + 5)
        BY <1>7, <2>2, <2>7, <2>14, <3>1, <3>2, <3>3, <3>5 DEF PayloadAt
      <4>2. SizeWord(a) - (a.iv + 5) = a.data /\ a.iv + 5 <= SizeWord(a) /\ a.iv + 5 \in Nat
        BY <1>4, <2>14 DEF SizeWord
      <4>3. PICK b : b = f + a.iv
        OBVIOUS
      <4>4. DataOf(p, end, <<f, b>>, SizeWord(a), a.iv + 5)
              = IF whole THEN Some(<<f, b>>, <<b, b + a.data>>) ELSE None
        <5> HIDE DEF whole
        <5> QED
          BY <1>4, <2>12, <4>2, <4>3
      <4> QED
        BY <2>1, <2>9, <4>1, <4>3, <4>4
    <3> QED
      BY <3>4, <3>5
  <2> QED
    BY <2>11, <2>13, <2>14
<1> QED
  BY <1>9, <1>10

-----------------------------------------------------------------------------
(* Nothing panics where usize is wider than the words of the file.            *)

\* The map that was read has room in both vectors.
MapRoom == phase = "map" /\ ~target.narrow => Reserves(maps.count, target.attribute)
Wide == outcome # "oob" /\ (~target.narrow => outcome \notin Panics)

LEMMA WordRoom ==
  ASSUME Here, NEW p \in Nat, ~target.narrow
  PROVE  /\ Reserves(Word(p) \div 12, target.entry)
         /\ Reserves(Word(p) \div 12, target.attribute)
<1>1. target.entry \in Nat /\ target.attribute \in Nat /\ target.isize \in Nat
  BY TargetShape DEF Here
<1>2. CASE p + 4 > file.len
  <2>1. Word(p) = 0
    BY <1>2 DEF Word
  <2>2. 0 \div 12 = 0 /\ 0 * target.entry = 0 /\ 0 * target.attribute = 0
    BY <1>1
  <2> QED
    BY <1>1, <2>1, <2>2 DEF Reserves
<1>3. CASE ~(p + 4 > file.len)
  <2>1. p \in 0 .. file.len
    BY <1>3, WidthPlain
  <2> QED
    BY <1>3, <2>1, StoredRoom DEF Word, Room, Roomy, Reserves
<1> QED
  BY <1>2, <1>3

LEMMA StepWide == IInv /\ Counted /\ MapRoom /\ Wide /\ [Next]_vars => (MapRoom /\ Wide)'
<1> SUFFICES ASSUME IInv, Counted, MapRoom, Wide, [Next]_vars PROVE (MapRoom /\ Wide)'
  OBVIOUS
<1>1. ASSUME NEW o, Return(o), o # "oob", ~target.narrow => o \notin Panics
      PROVE  (MapRoom /\ Wide)'
  BY <1>1 DEF Return, input, MapRoom, Wide
<1>2. Here
  BY DEF IInv, Walk
<1>3. CASE Header
  <2> DEFINE p == 40 + Word(36)
             count == Word(p) \div 12
  <2>1. p \in Nat
    BY <1>2, WordNat
  <2>2. ~target.narrow => Reserves(count, target.entry) /\ Reserves(count, target.attribute)
    <3> HIDE DEF p
    <3> QED
      BY <1>2, <2>1, WordRoom
  <2>3. CASE Return("tooShort")
    BY <1>1, <2>3 DEF Panics
  <2>4. CASE ~Return("tooShort") /\ ~Reserves(count, target.entry)
    <3>1. Return("capacity") /\ target.narrow
      BY <1>3, <2>2, <2>4 DEF Header
    <3> QED
      BY <1>1, <3>1
  <2>5. CASE ~Return("tooShort") /\ Reserves(count, target.entry)
    <3>1. /\ maps'.count = count
          /\ UNCHANGED <<target, outcome>>
      BY <1>3, <2>5 DEF Header, input
    <3> QED
      BY <2>2, <3>1 DEF MapRoom, Wide, Reserves
  <2> QED
    BY <2>3, <2>4, <2>5
<1>4. CASE ReadEntry
  BY <1>4 DEF ReadEntry, input, MapRoom, Wide, Reserves
<1>5. CASE EndOfMap
  <2>1. CASE Return("capacity")
    <3>1. target.narrow
      BY <1>5, <2>1 DEF EndOfMap, MapRoom, Return
    <3> QED
      BY <1>1, <2>1, <3>1
  <2>2. CASE ~Return("capacity")
    BY <1>5, <2>2 DEF EndOfMap, input, MapRoom, Wide
  <2> QED
    BY <2>1, <2>2
<1>6. CASE ReadAttribute
  <2> DEFINE start == offsets[next].start
             end == EndOf(next)
  <2>1. CASE Return("tooShort")
    BY <1>1, <2>1 DEF Panics
  <2>2. CASE ~Return("tooShort")
    <3>1. phase = "attributes" /\ next <= maps.count /\ start <= end /\ end <= file.len
          /\ Extract(start, end)
      BY <1>6, <2>2 DEF ReadAttribute
    <3>2. start \in Nat /\ end \in Nat
      BY <3>1, NextSlice DEF IInv, Entries
    <3>3. parse_attribute_payload(start, end) = Panic => target.narrow
      <4> HIDE DEF start, end
      <4> QED
        BY <1>2, <3>1, <3>2, AttributePanics
    <3>4. CASE parse_attribute_payload(start, end) = Panic
      BY <1>1, <3>1, <3>3, <3>4 DEF Extract
    <3>5. CASE parse_attribute_payload(start, end) # Panic
      BY <3>1, <3>5 DEF Extract, input, MapRoom, Wide
    <3> QED
      BY <3>4, <3>5
  <2> QED
    BY <2>1, <2>2
<1>7. CASE Finish
  BY <1>1, <1>7 DEF Finish, Panics
<1>8. CASE Returned \/ UNCHANGED vars
  BY <1>8 DEF Returned, vars, MapRoom, Wide, Reserves
<1> QED
  BY <1>3, <1>4, <1>5, <1>6, <1>7, <1>8 DEF Next

-----------------------------------------------------------------------------
(* The walk over an undamaged record, whole or cut behind its first offset.   *)

Legible == /\ ~file.damaged
           /\ IF Count = 0 THEN file.len = RecordLen(Written)
              ELSE file.len >= MapStart(Written) + 8

\* The i-th map entry is not cut.
Whole(i) == MapStart(Written) + 12 * (i - 1) + 8 <= file.len

\* All payloads, or all but that of the last attribute.
Recovered == \/ attrs = Payloads(Written)[Count + 1]
             \/ /\ Count # 0
                /\ file.len < RecordLen(Written)
                /\ attrs = Payloads(Written)[Count]

MapRead == phase \in {"map", "attributes"} => /\ maps.start = MapStart(Written)
                                              /\ maps.count = Count

EntriesRead ==
  \A i \in DOMAIN offsets :
    IF Whole(i) THEN offsets[i] = [id |-> MapId(Written, i), start |-> Offsets(Written)[i]]
    ELSE offsets[i].start = 0

\* An attribute whose own entry is cut is never reached: the one before it would
\* end at 0.
Walked == phase = "attributes" =>
            IF next <= Count THEN Whole(next) /\ attrs = Payloads(Written)[next]
            ELSE Recovered

Ended(o) == /\ o \notin Panics
            /\ file.len = RecordLen(Written) => o = "ok"
            /\ o = "ok" => Recovered

Reading == Legible => /\ MapRead
                      /\ EntriesRead
                      /\ Walked
                      /\ phase = "done" => Ended(outcome)

LEMMA EmptyRecord ==
  ASSUME Here
  PROVE  Count = 0 => RecordLen(Written) = MapStart(Written)
<1>1. 1 \in 1 .. Count + 1
  BY WrittenParts
<1>2. Offsets(Written)[1] = MapStart(Written) + 12 * Count
  BY <1>1, WrittenParts, OffsetsUnfold DEF Count
<1>3. Count = 0 => RecordLen(Written) = Offsets(Written)[1]
  BY DEF RecordLen, Count
<1> QED
  BY <1>2, <1>3, WrittenParts

LEMMA LegibleParts ==
  ASSUME Here, Legible
  PROVE  /\ ~file.damaged
         /\ MapStart(Written) <= file.len
         /\ Count = 0 => MapStart(Written) = RecordLen(Written)
         /\ Count # 0 => Whole(1)
<1>1. Count = 0 => RecordLen(Written) = MapStart(Written)
  BY EmptyRecord
<1>2. MapStart(Written) \in Nat /\ file.len \in Nat /\ Count \in Nat
  BY WrittenParts
<1>3. Count # 0 => file.len >= MapStart(Written) + 8
  BY DEF Legible
<1>4. Count = 0 => MapStart(Written) <= file.len
  BY <1>1, <1>2 DEF Legible
<1> QED
  BY <1>1, <1>2, <1>3, <1>4 DEF Legible, Whole

\* The header of a legible record is read as it was written, and its map has
\* room in both vectors.
LEMMA HeaderRead ==
  ASSUME Here, Legible
  PROVE  /\ Word(36) = Written.name
         /\ Word(40 + Written.name) = 12 * Count
         /\ ~(36 > file.len \/ 40 + Written.name > target.usize \/ 40 + Written.name > file.len)
         /\ 44 + Written.name = MapStart(Written)
         /\ ~(MapStart(Written) + 12 * Count > target.usize \/ (12 * Count) % 12 # 0)
         /\ (12 * Count) \div 12 = Count
         /\ Reserves(Count, target.entry) /\ Reserves(Count, target.attribute)
<1> DEFINE k == Written.name
           start == MapStart(Written)
<1>1. /\ k \in Nat /\ Count \in Nat /\ start = 44 + k /\ file.len \in Nat
      /\ start + 37 * Count <= RecordLen(Written) /\ RecordLen(Written) \in Nat
      /\ RecordLen(Written) <= target.isize
      /\ target.narrow => target.entry <= 37 /\ target.attribute <= 37
  BY WrittenParts, LegibleParts
<1>2. /\ target.isize \in Nat /\ target.usize \in Nat /\ 2 * target.isize <= target.usize
      /\ target.entry \in Nat /\ target.attribute \in Nat /\ file.len <= target.isize
  BY TargetShape DEF Here
<1>3. start <= file.len
  BY LegibleParts
<1>4. Stored(36) = k /\ Stored(start - 4) = 12 * Count
  BY LegibleParts, HeaderStored
<1>5. \A n \in Nat : (12 * n) % 12 = 0 /\ (12 * n) \div 12 = n
  OBVIOUS
<1> HIDE DEF k, start
<1>6. Word(36) = k
  BY <1>1, <1>3, <1>4 DEF Word
<1>7. Word(40 + k) = 12 * Count
  <2>1. 40 + k = start - 4 /\ ~(40 + k + 4 > file.len)
    BY <1>1, <1>3
  <2> QED
    BY <1>4, <2>1 DEF Word
<1>8. (12 * Count) % 12 = 0 /\ (12 * Count) \div 12 = Count
  BY <1>1, <1>5
<1>9. ~(start + 12 * Count > target.usize)
  BY <1>1, <1>2
<1>10. ~(36 > file.len) /\ ~(40 + k > target.usize) /\ ~(40 + k > file.len)
  BY <1>1, <1>2, <1>3
<1>11. Reserves(Count, target.entry) /\ Reserves(Count, target.attribute)
  <2>1. CASE ~target.narrow
    <3>1. 40 + k \in Nat
      BY <1>1
    <3> QED
      BY <1>7, <1>8, <2>1, <3>1, WordRoom
  <2>2. CASE target.narrow
    <3>1. \A n, b \in Nat : b <= 37 => n * b <= 37 * n
      OBVIOUS
    <3>2. 37 * Count <= target.isize
      BY <1>1, <1>2
    <3>3. Count * target.entry <= 37 * Count /\ Count * target.attribute <= 37 * Count
      BY <1>1, <1>2, <2>2, <3>1
    <3>4. \A n, b, c \in Nat : n * b <= c /\ c <= target.isize => n * b <= target.isize
      BY <1>2
    <3> QED
      BY <1>1, <1>2, <3>2, <3>3, <3>4 DEF Reserves
  <2> QED
    BY <2>1, <2>2
<1> QED
  BY <1>1, <1>6, <1>7, <1>8, <1>9, <1>10, <1>11 DEF k, start

\* A map entry of a legible record is read as it was written, or is 0 where it
\* is cut.
LEMMA EntryRead ==
  ASSUME Here, Legible, NEW i \in 1 .. Count,
         maps.start = MapStart(Written), NEW e, e = Entry(i - 1)
  PROVE  IF Whole(i) THEN e = [id |-> MapId(Written, i), start |-> Offsets(Written)[i]]
         ELSE e.start = 0
<1> DEFINE p == MapStart(Written) + 12 * (i - 1)
<1>1. MapStart(Written) \in Nat /\ file.len \in Nat /\ Count \in Nat
  BY WrittenParts
<1>2. p \in Nat
  BY <1>1
<1>3. e = [id |-> Word(p), start |-> Word(p + 4)]
  BY DEF Entry
<1>4. CASE Whole(i)
  <2>1. p + 8 <= file.len
    BY <1>4 DEF Whole
  <2>2. Stored(p) = MapId(Written, i) /\ Stored(p + 4) = Offsets(Written)[i]
    BY LegibleParts, EntryStored
  <2> HIDE DEF p
  <2>3. Word(p) = Stored(p) /\ Word(p + 4) = Stored(p + 4)
    BY <1>1, <1>2, <2>1 DEF Word
  <2> QED
    BY <1>3, <1>4, <2>2, <2>3
<1>5. CASE ~Whole(i)
  <2>1. ~(p + 8 <= file.len)
    BY <1>5 DEF Whole
  <2> HIDE DEF p
  <2>2. Word(p + 4) = 0
    BY <1>1, <1>2, <2>1 DEF Word
  <2> QED
    BY <1>3, <1>5, <2>2
<1> QED
  BY <1>4, <1>5

LEMMA ReturnReading ==
  ASSUME Here, Reading, NEW o, Return(o), Legible => Ended(o)
  PROVE  Reading'
<1>1. /\ outcome' = o /\ phase' = "done"
      /\ UNCHANGED <<target, file, maps, offsets, next, attrs>>
  BY DEF Return, input
<1> SUFFICES ASSUME Legible' PROVE Reading'
  BY DEF Reading
<1>2. Written' = Written /\ Count' = Count
  BY <1>1 DEF Written, Count
<1>3. Legible
  BY <1>1, <1>2 DEF Legible
<1>4. Ended(o)' /\ EntriesRead'
  BY <1>1, <1>2, <1>3 DEF Ended, Recovered, Reading, EntriesRead, Whole
<1>5. MapRead' /\ Walked'
  BY <1>1 DEF MapRead, Walked
<1>6. Ended(outcome)'
  BY <1>1, <1>4 DEF Ended
<1> QED
  BY <1>4, <1>5, <1>6 DEF Reading

LEMMA InitReading == Init => Reading
<1> SUFFICES ASSUME Init PROVE Reading
  OBVIOUS
<1>1. MapRead /\ EntriesRead /\ Walked /\ (phase = "done" => Ended(outcome))
  BY DEF Init, MapRead, EntriesRead, Walked
<1> QED
  BY <1>1 DEF Reading

\* The attribute reached is sliced where it was written.
LEMMA SliceRead ==
  ASSUME IInv, Counted, Reading, Legible, phase = "attributes", next <= maps.count,
         NEW start, start = offsets[next].start, NEW end, end = EndOf(next)
  PROVE  /\ next \in 1 .. Count /\ maps.count = Count
         /\ offsets[next].id = MapId(Written, next)
         /\ start = Offsets(Written)[next] /\ start \in Nat /\ start # 0
         /\ end \in Nat
         /\ next = Count => end = file.len
         /\ next < Count => /\ Whole(next + 1) => end = Offsets(Written)[next + 1]
                            /\ ~Whole(next + 1) => end = 0
<1>1. /\ Here /\ next \in Nat \ {0} /\ Len(offsets) = maps.count /\ offsets \in Seq(Entries)
  BY DEF IInv, Walk
<1>2. maps.count = Count /\ Count \in Nat
  BY <1>1, WrittenParts DEF Reading, MapRead
<1>3. next \in 1 .. Count /\ DOMAIN offsets = 1 .. Count
  BY <1>1, <1>2
<1>4. Whole(next)
  BY <1>1, <1>2, <1>3 DEF Reading, Walked
<1>5. offsets[next] = [id |-> MapId(Written, next), start |-> Offsets(Written)[next]]
  BY <1>3, <1>4 DEF Reading, EntriesRead
<1>6. Offsets(Written)[next] \in Nat /\ Offsets(Written)[next] # 0
  <2>1. /\ Offsets(Written)[next] \in Nat
        /\ MapStart(Written) + 12 * Count <= Offsets(Written)[next]
    <3>1. next \in 1 .. Count + 1
      BY <1>2, <1>3
    <3> QED
      BY <1>1, <1>3, <3>1, WrittenParts, OffsetsUnfold, OffsetsGrow DEF Count
  <2>2. MapStart(Written) = 44 + Written.name /\ Written.name \in Nat
    BY <1>1, WrittenParts
  <2> QED
    BY <1>2, <2>1, <2>2
<1>7. end \in Nat
  BY NextSlice DEF IInv
<1>8. next = Count => end = file.len
  BY <1>2 DEF EndOf
<1>9. CASE next < Count
  <2>1. end = offsets[next + 1].start /\ next + 1 \in DOMAIN offsets
    BY <1>2, <1>3, <1>9 DEF EndOf
  <2>2. Whole(next + 1) => end = Offsets(Written)[next + 1]
    BY <2>1 DEF Reading, EntriesRead
  <2>3. ~Whole(next + 1) => end = 0
    BY <2>1 DEF Reading, EntriesRead
  <2> QED
    BY <1>2, <1>3, <1>5, <1>6, <1>7, <1>9, <2>2, <2>3
<1> QED
  BY <1>2, <1>3, <1>5, <1>6, <1>7, <1>8, <1>9

\* An attribute of a legible record is read whole, or it is the last one.
LEMMA AttributeRead ==
  ASSUME IInv, Counted, Reading, Legible, ReadAttribute
  PROVE  Reading'
<1>1. phase = "attributes" /\ next <= maps.count
  BY DEF ReadAttribute
<1>2. Here /\ ~file.damaged /\ Written \in Records /\ Count \in Nat /\ file.len \in Nat
  BY WrittenParts DEF IInv, Walk, Legible
<1>3. PICK start : start = offsets[next].start
  OBVIOUS
<1>4. PICK end : end = EndOf(next)
  OBVIOUS
<1>5. /\ next \in 1 .. Count /\ maps.count = Count
      /\ offsets[next].id = MapId(Written, next)
      /\ start = Offsets(Written)[next] /\ start \in Nat /\ start # 0
      /\ end \in Nat
      /\ next = Count => end = file.len
      /\ next < Count => /\ Whole(next + 1) => end = Offsets(Written)[next + 1]
                         /\ ~Whole(next + 1) => end = 0
  BY <1>1, <1>3, <1>4, SliceRead
<1>6. PICK len : len = AttributeLen(Written.attrs[next])
  OBVIOUS
<1>7. /\ start + len <= RecordLen(Written)
      /\ Offsets(Written)[next + 1] = start + len
      /\ len \in Nat
      /\ MapStart(Written) \in Nat /\ MapStart(Written) + 37 * Count <= RecordLen(Written)
      /\ RecordLen(Written) \in Nat /\ file.len <= RecordLen(Written)
      /\ next = Count => start + len = RecordLen(Written)
  <2>1. /\ Offsets(Written)[next + 1] = start + len
        /\ Offsets(Written)[next + 1] <= RecordLen(Written)
    BY <1>2, <1>5, <1>6, OffsetsGrow DEF Count
  <2>2. len \in Nat
    BY <1>2, <1>5, <1>6, RecordParts, AttrShape DEF Count
  <2>3. next = Count => RecordLen(Written) = Offsets(Written)[next + 1]
    BY DEF RecordLen, Count
  <2> QED
    BY <1>2, <2>1, <2>2, <2>3, WrittenParts
<1>8. attrs = Payloads(Written)[next]
  BY <1>1, <1>5 DEF Reading, Walked
<1>9. CASE ~(start <= end /\ end <= file.len)
  <2>1. Return("tooShort")
    BY <1>3, <1>4, <1>9 DEF ReadAttribute
  <2>2. file.len # RecordLen(Written)
    <3> SUFFICES ASSUME file.len = RecordLen(Written) PROVE FALSE
      OBVIOUS
    <3>1. CASE next = Count
      BY <1>5, <1>7, <1>9, <3>1
    <3>2. CASE next < Count
      <4>1. Whole(next + 1)
        BY <1>2, <1>5, <1>7, <3>2 DEF Whole
      <4> QED
        BY <1>5, <1>7, <1>9, <3>2, <4>1
    <3> QED
      BY <1>2, <1>5, <3>1, <3>2
  <2>3. Ended("tooShort")
    BY <2>2 DEF Ended, Panics
  <2> QED
    BY <1>2, <2>1, <2>3, ReturnReading
<1>10. CASE start <= end /\ end <= file.len
  <2> DEFINE r == parse_attribute_payload(start, end)
             piece == Extracted(Written, next)
  <2>1. Extract(start, end)
    BY <1>3, <1>4, <1>10 DEF ReadAttribute
  <2>2. r = Yields(start, end, next)
    <3>1. end <= RecordLen(Written)
      BY <1>2, <1>5, <1>7, <1>10
    <3> QED
      BY <1>2, <1>5, <1>10, <3>1, AttributeParsed
  <2> DEFINE found == end - start > 28 /\ start + len <= end
  <2>3. /\ found => r = Some(piece.iv, piece.data)
        /\ ~found => r = None
    BY <1>6, <2>2 DEF Yields
  <2>4. piece.id = offsets[next].id
        /\ piece = [id |-> piece.id, iv |-> piece.iv, data |-> piece.data]
    BY <1>5 DEF Extracted
  <2>5. r # Panic
    BY <2>3, KindsDiffer
  <2>6. /\ next' = next + 1
        /\ UNCHANGED <<target, file, phase, maps, offsets, outcome>>
        /\ attrs' = IF found THEN Append(attrs, piece) ELSE attrs
    <3>1. /\ attrs' = IF r = None THEN attrs
                      ELSE Append(attrs, [id |-> offsets[next].id, iv |-> r.iv, data |-> r.data])
          /\ next' = next + 1 /\ UNCHANGED <<target, file, phase, maps, offsets, outcome>>
      BY <2>1, <2>5 DEF Extract, input
    <3>2. CASE found
      <4>1. r # None /\ r.iv = piece.iv /\ r.data = piece.data
        <5> HIDE DEF r, found, piece
        <5>1. r = Some(piece.iv, piece.data)
          BY <2>3, <3>2
        <5> QED
          BY <5>1, KindsDiffer DEF Some
      <4> HIDE DEF r, piece, found
      <4> QED
        BY <2>4, <3>1, <3>2, <4>1
    <3>3. CASE ~found
      BY <2>3, <3>1, <3>3
    <3> QED
      BY <3>2, <3>3
  <2>7. Payloads(Written)[next + 1] = IF len <= 28 THEN attrs ELSE Append(attrs, piece)
    <3>1. next + 1 \in 1 .. Count + 1 /\ next + 1 # 1 /\ (next + 1) - 1 = next
      BY <1>2, <1>5
    <3> QED
      BY <1>2, <1>6, <1>8, <3>1, PayloadsUnfold DEF Count
  <2>8. Written' = Written /\ Count' = Count
    BY <2>6 DEF Written, Count
  <2>9. MapRead' /\ EntriesRead'
    BY <2>6, <2>8 DEF Reading, MapRead, EntriesRead, Whole
  <2>10. phase' # "done"
    BY <1>1, <2>6
  <2> HIDE DEF r, piece
  <2>11. found <=> len > 28 /\ start + len <= end
    <3>1. CASE next = Count
      BY <1>5, <1>7, <1>10, <3>1
    <3>2. CASE next < Count
      <4>1. end = start + len
        BY <1>5, <1>7, <1>10, <3>2
      <4> QED
        BY <1>5, <1>7, <4>1
    <3> QED
      BY <1>2, <1>5, <3>1, <3>2
  <2> HIDE DEF found
  <2>12. CASE next < Count
    <3>1. Whole(next + 1) /\ end = start + len
      BY <1>5, <1>7, <1>10, <2>12
    <3>2. attrs' = Payloads(Written)[next + 1]
      <4>1. start + len <= end
        BY <1>5, <1>7, <3>1
      <4> QED
        BY <1>7, <2>6, <2>7, <2>11, <4>1
    <3>3. Walked'
      <4>1. next' <= Count'
        BY <1>2, <1>5, <2>6, <2>8, <2>12
      <4> QED
        BY <2>6, <2>8, <3>1, <3>2, <4>1 DEF Walked, Whole
    <3> QED
      BY <2>9, <2>10, <3>3 DEF Reading
  <2>13. CASE next = Count
    <3>1. Count # 0 /\ end = file.len /\ start + len = RecordLen(Written)
      BY <1>5, <1>7, <2>13
    <3>2. CASE len > 28 /\ ~(start + len <= end)
      <4>1. attrs' = Payloads(Written)[Count]
        BY <1>8, <2>6, <2>11, <2>13, <3>2
      <4>2. file.len < RecordLen(Written)
        BY <1>2, <1>7, <3>1, <3>2
      <4>3. Recovered'
        BY <2>6, <2>8, <3>1, <4>1, <4>2 DEF Recovered
      <4>4. ~(next' <= Count')
        BY <1>2, <2>6, <2>8, <2>13
      <4>5. Walked'
        BY <4>3, <4>4 DEF Walked
      <4> QED
        BY <2>9, <2>10, <4>5 DEF Reading
    <3>3. CASE ~(len > 28 /\ ~(start + len <= end))
      <4>1. attrs' = Payloads(Written)[Count + 1]
        BY <1>7, <2>6, <2>7, <2>11, <2>13, <3>3
      <4>2. Recovered'
        BY <2>8, <4>1 DEF Recovered
      <4>3. ~(next' <= Count')
        BY <1>2, <2>6, <2>8, <2>13
      <4>4. Walked'
        BY <4>2, <4>3 DEF Walked
      <4> QED
        BY <2>9, <2>10, <4>4 DEF Reading
    <3> QED
      BY <3>2, <3>3
  <2> QED
    BY <1>2, <1>5, <2>12, <2>13
<1> QED
  BY <1>9, <1>10

LEMMA StepReading == IInv /\ Counted /\ Reading /\ [Next]_vars => Reading'
<1> SUFFICES ASSUME IInv, Counted, Reading, [Next]_vars PROVE Reading'
  OBVIOUS
<1>1. Here
  BY DEF IInv, Walk
<1>2. UNCHANGED <<target, file>>
  BY DEF Next, Header, ReadEntry, EndOfMap, ReadAttribute, Extract, Finish, Returned, Return,
         input, vars
<1>3. Written' = Written /\ Count' = Count /\ Legible' = Legible
  BY <1>2 DEF Written, Count, Legible
<1>4. CASE ~Legible
  BY <1>3, <1>4 DEF Reading
<1>5. CASE Legible /\ Header
  <2>1. phase = "header" /\ offsets = <<>>
    BY <1>5 DEF Header, Counted
  <2> DEFINE k == Word(36)
  <2>2. /\ k = Written.name
        /\ Word(40 + k) = 12 * Count
        /\ ~(36 > file.len \/ 40 + k > target.usize \/ 40 + k > file.len)
        /\ 44 + k = MapStart(Written)
        /\ ~(44 + k + 12 * Count > target.usize \/ (12 * Count) % 12 # 0)
        /\ (12 * Count) \div 12 = Count
        /\ Reserves(Count, target.entry)
    BY <1>1, <1>5, HeaderRead
  <2>3. /\ maps' = [start |-> MapStart(Written), count |-> Count] /\ phase' = "map"
        /\ UNCHANGED <<offsets, outcome>>
    BY <1>5, <2>2 DEF Header
  <2>4. MapRead' /\ EntriesRead' /\ Walked'
    BY <1>3, <2>1, <2>3 DEF MapRead, EntriesRead, Walked
  <2> QED
    BY <2>3, <2>4 DEF Reading
<1>6. CASE Legible /\ ReadEntry
  <2>1. /\ phase = "map" /\ Len(offsets) < maps.count
        /\ offsets' = Append(offsets, Entry(Len(offsets)))
        /\ UNCHANGED <<target, file, phase, maps, next, attrs, outcome>>
    BY <1>6 DEF ReadEntry, input
  <2>2. /\ offsets \in Seq(Entries) /\ Len(offsets) \in Nat
        /\ DOMAIN offsets = 1 .. Len(offsets)
    BY LenProperties DEF IInv, Walk
  <2>3. maps.start = MapStart(Written) /\ maps.count = Count /\ Count \in Nat
    BY <1>1, <1>6, <2>1, WrittenParts DEF Reading, MapRead
  <2>4. PICK i : i = Len(offsets) + 1
    OBVIOUS
  <2>5. i \in 1 .. Count /\ i - 1 = Len(offsets)
    BY <2>1, <2>2, <2>3, <2>4
  <2>6. PICK e : e = Entry(i - 1)
    OBVIOUS
  <2>7. IF Whole(i) THEN e = [id |-> MapId(Written, i), start |-> Offsets(Written)[i]]
        ELSE e.start = 0
    BY <1>1, <1>6, <2>3, <2>5, <2>6, EntryRead
  <2>8. IInv'
    BY StepInv
  <2>9. /\ offsets' = Append(offsets, e)
        /\ offsets' \in Seq(Entries)
    BY <2>1, <2>5, <2>6, <2>8 DEF IInv, Walk
  <2>10. /\ Len(offsets') = i
         /\ \A j \in 1 .. Len(offsets) : offsets'[j] = offsets[j]
         /\ offsets'[i] = e
    BY <2>2, <2>4, <2>9
  <2>11. \A j \in DOMAIN offsets' : j \in DOMAIN offsets \/ j = i
    <3>1. DOMAIN offsets' = 1 .. i
      BY <2>9, <2>10, LenProperties
    <3> QED
      BY <2>2, <2>4, <3>1
  <2>12. EntriesRead'
    <3> SUFFICES ASSUME NEW j \in DOMAIN offsets'
                 PROVE  IF Whole(j)
                        THEN offsets'[j] = [id |-> MapId(Written, j), start |-> Offsets(Written)[j]]
                        ELSE offsets'[j].start = 0
      BY <1>2, <1>3 DEF EntriesRead, Whole
    <3>1. CASE j = i
      BY <2>7, <2>10, <3>1
    <3>2. CASE j \in DOMAIN offsets
      BY <1>6, <2>2, <2>10, <3>2 DEF Reading, EntriesRead
    <3> QED
      BY <2>11, <3>1, <3>2
  <2>13. MapRead' /\ Walked'
    BY <1>3, <2>1, <2>3 DEF MapRead, Walked
  <2> QED
    BY <2>1, <2>12, <2>13 DEF Reading
<1>7. CASE Legible /\ EndOfMap
  <2>1. phase = "map" /\ maps.start = MapStart(Written) /\ maps.count = Count
    BY <1>7 DEF EndOfMap, Reading, MapRead
  <2>2. phase' = "attributes" /\ UNCHANGED <<maps, offsets, next, attrs, outcome>>
    BY <1>1, <1>7, <2>1, HeaderRead DEF EndOfMap
  <2>3. attrs = <<>> /\ next = 1
    BY <2>1 DEF IInv, NoneYet, Counted
  <2>4. Payloads(Written)[1] = <<>>
    <3>1. Written \in Records /\ 1 \in 1 .. Count + 1
      BY <1>1, WrittenParts
    <3> QED
      BY <3>1, PayloadsUnfold DEF Count
  <2>5. Count \in Nat /\ (Count # 0 => Whole(1))
    BY <1>1, <1>7, WrittenParts, LegibleParts
  <2>6. Walked'
    BY <1>2, <1>3, <2>2, <2>3, <2>4, <2>5 DEF Walked, Whole, Recovered
  <2>7. MapRead' /\ EntriesRead'
    BY <1>2, <1>3, <1>7, <2>1, <2>2 DEF Reading, MapRead, EntriesRead, Whole
  <2> QED
    BY <2>2, <2>6, <2>7 DEF Reading
<1>8. CASE Legible /\ ReadAttribute
  BY <1>8, AttributeRead
<1>9. CASE Legible /\ Finish
  <2>1. phase = "attributes" /\ next > maps.count /\ maps.count = Count
        /\ Return("ok")
    BY <1>9 DEF Finish, Reading, MapRead
  <2>2. next \in Nat /\ Count \in Nat
    BY <1>1, WrittenParts DEF IInv, Walk
  <2>3. Recovered
    BY <1>9, <2>1, <2>2 DEF Reading, Walked
  <2>4. Ended("ok")
    BY <2>3 DEF Ended, Panics
  <2> QED
    BY <1>1, <2>1, <2>4, ReturnReading
<1>10. CASE Legible /\ (Returned \/ UNCHANGED vars)
  <2>1. UNCHANGED <<target, file, phase, maps, offsets, next, attrs, outcome>>
    BY <1>10 DEF Returned, vars
  <2> QED
    BY <1>3, <2>1 DEF Reading, MapRead, EntriesRead, Walked, Whole, Recovered, Ended
<1> QED
  BY <1>4, <1>5, <1>6, <1>7, <1>8, <1>9, <1>10 DEF Next

LEMMA Walks == Spec => [](IInv /\ Counted /\ MapRoom /\ Wide /\ Reading)
<1>1. Init => MapRoom /\ Wide
  BY DEF Init, MapRoom, Wide, Panics
<1>2. Init => IInv /\ Counted /\ MapRoom /\ Wide /\ Reading
  BY <1>1, InitInv, InitCounted, InitReading
<1>3. IInv /\ Counted /\ MapRoom /\ Wide /\ Reading /\ [Next]_vars
        => (IInv /\ Counted /\ MapRoom /\ Wide /\ Reading)'
  BY StepInv, StepCounted, StepWide, StepReading
<1> QED
  BY <1>2, <1>3, PTL DEF Spec

\* For any record of any number of attributes, any noise between its words and
\* any target: from the whole, undamaged record parse_vcrd_attributes extracts
\* exactly its payloads, in order, each at its place.
THEOREM IntactRecoveredHolds == Spec => []IntactRecovered
<1>1. IInv /\ Reading => IntactRecovered
  <2> SUFFICES ASSUME IInv, Reading, phase = "done", ~file.damaged,
                      file.len = RecordLen(file.record)
               PROVE  /\ outcome = "ok"
                      /\ attrs = Payloads(file.record)[Len(file.record.attrs) + 1]
    BY DEF IntactRecovered
  <2>1. Here
    BY DEF IInv, Walk
  <2>2. file.len = RecordLen(Written) /\ ~(file.len < RecordLen(Written))
    BY <2>1, WrittenParts DEF Written
  <2>3. Legible
    <3>1. Count # 0 => file.len >= MapStart(Written) + 8
      BY <2>1, <2>2, WrittenParts
    <3> QED
      BY <2>2, <3>1 DEF Legible
  <2>4. Ended(outcome)
    BY <2>3 DEF Reading
  <2>5. outcome = "ok"
    BY <2>2, <2>4 DEF Ended
  <2>6. attrs = Payloads(Written)[Count + 1]
    BY <2>2, <2>4, <2>5 DEF Ended, Recovered
  <2> QED
    BY <2>5, <2>6 DEF Written, Count
<1> QED
  BY <1>1, Walks, PTL

\* For any record cut behind its first map offset: it is refused, or loses the
\* payload of its last attribute and no other.
THEOREM CutLosesAtMostLastHolds == Spec => []CutLosesAtMostLast
<1>1. IInv /\ Counted /\ Reading => CutLosesAtMostLast
  <2> SUFFICES ASSUME IInv, Counted, Reading, outcome = "ok", ~file.damaged, Count > 0,
                      file.len >= MapStart(Written) + 8
               PROVE  attrs \in {Payloads(Written)[Count + 1], Payloads(Written)[Count]}
    BY DEF CutLosesAtMostLast, Written, Count
  <2>1. Legible
    BY DEF Legible
  <2>2. phase = "done"
    BY DEF Counted
  <2>3. Recovered
    BY <2>1, <2>2 DEF Reading, Ended
  <2> QED
    BY <2>3 DEF Recovered
<1> QED
  BY <1>1, Walks, PTL

\* For any file and target: parse_vcrd_attributes panics only where usize is no
\* wider than a word, on a damaged word or one read where none was written.
THEOREM PanicOnlyNarrowHolds == Spec => []PanicOnlyNarrow
<1>1. IInv /\ Counted /\ Wide /\ Reading => PanicOnlyNarrow
  <2> SUFFICES ASSUME IInv, Counted, Wide, Reading, outcome \in Panics
               PROVE  /\ outcome # "oob"
                      /\ target.narrow
                      /\ file.damaged \/ file.len < MapStart(file.record) + 8
    BY DEF PanicOnlyNarrow
  <2>1. outcome # "oob" /\ target.narrow
    <3>1. Here /\ target.narrow \in BOOLEAN
      BY TargetShape DEF IInv, Walk, Here
    <3> QED
      BY <3>1 DEF Wide
  <2>2. file.damaged \/ file.len < MapStart(Written) + 8
    <3> SUFFICES ASSUME ~file.damaged, ~(file.len < MapStart(Written) + 8) PROVE FALSE
      OBVIOUS
    <3>1. Here /\ file.len \in Nat /\ MapStart(Written) \in Nat /\ Count \in Nat
          /\ file.len <= RecordLen(Written) /\ RecordLen(Written) \in Nat
      BY WrittenParts DEF IInv, Walk
    <3>2. file.len >= MapStart(Written) + 8
      BY <3>1
    <3>3. Count = 0 => RecordLen(Written) = MapStart(Written)
      BY <3>1, EmptyRecord
    <3>4. Legible
      BY <3>1, <3>2, <3>3 DEF Legible
    <3>5. phase = "done"
      BY DEF Counted, Panics
    <3> QED
      BY <3>4, <3>5 DEF Reading, Ended
  <2> QED
    BY <2>1, <2>2 DEF Written
<1> QED
  BY <1>1, Walks, PTL
=============================================================================
