---------------------------- MODULE MCVcrdParser ----------------------------
(* Records of no to three attributes, padded and not, under ids on either     *)
(* side of 100, with and without an IV and a payload; cut at every length, or *)
(* whole with one word damaged.  A u32 is scaled to 0..1023.                  *)
EXTENDS VcrdParser

U32Max == 1023

Attr(id, pad, iv, data) == [id |-> id, pad |-> pad, iv |-> iv, data |-> data]
Web == Attr(100, TRUE, 16, 16)
Plain == Attr(100, FALSE, 0, 16)
Low == Attr(1, FALSE, 16, 32)
Bare == Attr(1, FALSE, 0, 0)
Record(name, list) == [name |-> name, attrs |-> list]

MCRecords == {Record(4, <<>>), Record(0, <<Bare>>)}
               \cup {Record(2, <<a>>) : a \in {Web, Plain, Low}}
               \cup {Record(2, <<p[1], p[2]>>)
                       : p \in {<<Web, Web>>, <<Web, Bare>>, <<Bare, Plain>>, <<Low, Plain>>}}
               \cup {Record(0, <<Web, Bare, Low>>), Record(0, <<Low, Web, Plain>>)}

\* The bytes no word was written to: all alike, a ladder of offsets, or steps
\* in which the header itself reads as an attribute.
NoiseLen == 400
MCNoise == [zero |-> [p \in 0 .. NoiseLen |-> 0],
            steps |-> [p \in 0 .. NoiseLen |-> IF p % 5 = 0 THEN 0 ELSE 12],
            ladder |-> [p \in 0 .. NoiseLen |-> p + 24],
            large |-> [p \in 0 .. NoiseLen |-> U32Max]]

Left(r, len, words, damaged) ==
  {[record |-> r, len |-> len, words |-> words, damaged |-> damaged, noise |-> n]
     : n \in DOMAIN MCNoise}

Cut(r) == LET words == Words(r)
          IN UNION {Left(r, n, words, FALSE) : n \in 0 .. RecordLen(r)}

\* What a damaged word may hold: an off-by-one, an offset inside the record, the
\* length of a map no 32-bit target can reserve, the largest value.
Wrong(r, v) == {0, v + 1, MapStart(r), RecordLen(r), 228, 768, U32Max - 3, U32Max} \ {v}
Damage(r) ==
  LET words == Words(r)
  IN UNION {UNION {Left(r, RecordLen(r), [words EXCEPT ![p] = v], TRUE)
                     : v \in Wrong(r, words[p])} : p \in DOMAIN words}

MCFiles == UNION {Cut(r) \cup Damage(r) : r \in MCRecords}

Target(usize, narrow, checks) ==
  [usize |-> usize, isize |-> usize \div 2, narrow |-> narrow, checks |-> checks,
   entry |-> IF narrow THEN 8 ELSE 16, attribute |-> IF narrow THEN 28 ELSE 56]
MCTargets == {Target(U32Max, TRUE, c) : c \in BOOLEAN}
               \cup {Target(1048575, FALSE, TRUE)}
=============================================================================
