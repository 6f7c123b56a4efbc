------------------------ MODULE DpapiParsers_proofs -------------------------
(* Where the fields of a buffer lie: each at the place its layout gives it;   *)
(* and so what the Sign MAC of a blob covers.                                 *)
EXTENDS DpapiParsers, CursorParser_proofs

\* Read i is the last to keep the bytes of its field, apart from a region that
\* starts elsewhere and ends where they do; or the only one.
SameField(i, j) == Code[fn][j].f = Code[fn][i].f
EndsAt(i) == /\ i \in DOMAIN Code[fn]
             /\ Code[fn][i].op \in Keeping
             /\ \A j \in DOMAIN Code[fn] :
                  j # i /\ SameField(i, j) => Code[fn][j].op \notin Keeping \cup {"rest"}
LiesAt(i) == /\ EndsAt(i)
             /\ \A j \in DOMAIN Code[fn] : SameField(i, j) => Code[fn][j].op # "region"
IsRegion(i) == /\ i \in DOMAIN Code[fn]
               /\ Code[fn][i].op = "region"
               /\ \A j \in DOMAIN Code[fn] : i < j => ~SameField(i, j)

Laid == Extent(Code[fn], declared)

\* Whatever length words were read since, a field that was taken still lies
\* where the layout they describe places it.
Placed ==
  Uncut => \A i \in 1 .. ip - 1 :
             /\ EndsAt(i) => span[Code[fn][i].f][2] = Laid[i + 1]
             /\ LiesAt(i) => span[Code[fn][i].f][1] = Laid[i]
             /\ IsRegion(i) => span[Code[fn][i].f][1] = Code[fn][i].n

LEMMA InitPlaced == Init => Placed
BY DEF Init, Placed

\* The read that goes through is kept where the layout places it.
LEMMA KeptHere ==
  ASSUME Inv, Layout, Uncut, [Next]_vars, ip' # ip, Instr.op \in Keeping
  PROVE  span'[Instr.f] = <<Laid[ip], Laid[ip + 1]>>
<1>1. ip <= Len(Code[fn]) /\ TypeOK /\ CursorBound
  BY MovedCursor DEF Inv, Steps
<1>2. span'[Instr.f] = <<pos, pos'>>
  BY <1>1, MovedRecords
<1>3. /\ pos \in Nat /\ ip \in 1 .. Len(Code[fn]) + 1
      /\ Extent(Code[fn], declared)[ip] \in Nat
  BY <1>1, LayoutShape
<1>4. pos = Extent(Code[fn], declared)[ip]
  BY <1>1, <1>3 DEF Layout, Cursor, AtMost, AtLeast
<1>5. Extent(Code[fn], declared)[ip + 1]
        = Extent(Code[fn], declared)[ip] + Bytes(Instr, declared)
  BY <1>1, ExtentNext
<1>6. CASE Instr.op = "mark"
  <2>1. Bytes(Instr, declared) = 0 /\ pos' = pos
    BY <1>1, <1>6, MovedCursor DEF Bytes, Still, Takes
  <2> QED
    BY <1>2, <1>3, <1>4, <1>5, <2>1 DEF Laid
<1>7. CASE Instr.op # "mark"
  <2>1. Instr.op \notin Still \cup {"rest"}
    BY <1>7 DEF Keeping, Still
  <2>2. pos' = pos + Width
    BY <1>1, <2>1, MovedCursor
  <2>3. declared[Instr.f] <= UsizeMax
    BY <1>1, InstrShape DEF Layout, Records, Narrow
  <2>4. Width = Bytes(Instr, declared)
    BY <1>1, <2>1, <2>3, WidthBytes
  <2> QED
    BY <1>2, <1>4, <1>5, <2>2, <2>4 DEF Laid
<1> QED
  BY <1>6, <1>7

LEMMA StepPlaced == Inv /\ Layout /\ Placed /\ [Next]_vars => Placed'
<1> SUFFICES ASSUME Inv, Layout, Placed, [Next]_vars PROVE Placed'
  OBVIOUS
<1>1. TypeOK /\ CursorBound
  BY DEF Inv
<1>2. CASE ip' = ip
  <2>1. UNCHANGED <<fn, len, ip, pos, declared, span>>
    BY <1>1, <1>2, Stopped
  <2> QED
    BY <2>1 DEF Placed, Uncut, ReadsNoU64, EndsAt, LiesAt, IsRegion, SameField, Laid
<1>3. CASE ip' # ip
  <2>1. ip <= Len(Code[fn]) /\ ip' = ip + 1 /\ fn' = fn
    BY <1>1, <1>3, MovedCursor DEF Steps
  <2>2. /\ Code[fn] \in Seq(Instrs) /\ Len(Code[fn]) \in Nat
        /\ ip \in 1 .. Len(Code[fn]) /\ DOMAIN Code[fn] = 1 .. Len(Code[fn])
    BY <1>1, <2>1, LayoutShape
  <2>3. \A k \in 1 .. ip + 1 : Laid'[k] = Laid[k]
    BY <1>1, <1>3, <2>1, ExtentKept DEF Laid
  <2>4. \A j \in 1 .. Len(Code[fn]) : Code[fn][j] \in Instrs
    BY <2>2
  <2> SUFFICES ASSUME Uncut, NEW i \in 1 .. ip
               PROVE  /\ EndsAt(i) => span'[Code[fn][i].f][2] = Laid[i + 1]
                      /\ LiesAt(i) => span'[Code[fn][i].f][1] = Laid[i]
                      /\ IsRegion(i) => span'[Code[fn][i].f][1] = Code[fn][i].n
    <3>1. /\ Uncut' <=> Uncut
          /\ \A i \in 1 .. ip : /\ EndsAt(i)' <=> EndsAt(i)
                                /\ LiesAt(i)' <=> LiesAt(i)
                                /\ IsRegion(i)' <=> IsRegion(i)
      BY <2>1 DEF Uncut, ReadsNoU64, EndsAt, LiesAt, IsRegion, SameField
    <3>2. ip' - 1 = ip /\ \A i \in 1 .. ip : i \in 1 .. ip + 1 /\ i + 1 \in 1 .. ip + 1
      BY <2>1, <2>2
    <3> QED
      BY <2>1, <2>3, <3>1, <3>2 DEF Placed
  <2>5. i \in DOMAIN Code[fn] /\ Code[fn][i].f \in Fields
        /\ Instr.f \in Fields /\ Instr.op \in Ops
    <3>1. i \in 1 .. Len(Code[fn])
      BY <2>2
    <3> QED
      BY <2>2, <2>4, <3>1 DEF Instr, Instrs
  <2>6. CASE i = ip
    <3>1. Instr = Code[fn][i]
      BY <2>6 DEF Instr
    <3>2. EndsAt(i) => span'[Code[fn][i].f] = <<Laid[i], Laid[i + 1]>>
      BY <1>3, <2>6, <3>1, KeptHere DEF EndsAt
    <3>3. IsRegion(i) => span'[Code[fn][i].f][1] = Code[fn][i].n
      BY <1>1, <1>3, <3>1, MovedRecords DEF IsRegion
    <3> QED
      BY <3>2, <3>3 DEF LiesAt
  <2>7. CASE i \in 1 .. ip - 1
    <3>1. /\ EndsAt(i) => span[Code[fn][i].f][2] = Laid[i + 1]
          /\ LiesAt(i) => span[Code[fn][i].f][1] = Laid[i]
          /\ IsRegion(i) => span[Code[fn][i].f][1] = Code[fn][i].n
      BY <2>7 DEF Placed
    <3>2. i # ip /\ i < ip /\ ip \in DOMAIN Code[fn]
      BY <2>2, <2>7
    <3>3. CASE ~SameField(i, ip)
      <4>1. span'[Code[fn][i].f] = span[Code[fn][i].f]
        BY <1>1, <1>3, <2>5, <3>3, MovedRecords DEF SameField, Instr
      <4> QED
        BY <3>1, <4>1
    <3>4. CASE SameField(i, ip)
      <4>1. ~IsRegion(i)
        BY <3>2, <3>4 DEF IsRegion
      <4>2. CASE Instr.op = "region"
        <5>1. span'[Code[fn][i].f][2] = span[Code[fn][i].f][2]
          BY <1>1, <1>3, <3>4, <4>2, MovedRecords DEF SameField, Instr
        <5>2. ~LiesAt(i)
          BY <3>2, <3>4, <4>2 DEF LiesAt, Instr
        <5> QED
          BY <3>1, <4>1, <5>1, <5>2
      <4>3. CASE Instr.op \in LengthOps \cup {"need", "check", "skip", "adv"}
        <5>1. span' = span
          BY <1>1, <1>3, <4>3, MovedRecords
        <5> QED
          BY <3>1, <5>1
      <4>4. CASE Instr.op \in Keeping \cup {"rest"}
        <5>1. ~EndsAt(i)
          BY <3>2, <3>4, <4>4 DEF EndsAt, Instr
        <5> QED
          BY <4>1, <5>1 DEF LiesAt
      <4> QED
        BY <2>5, <4>2, <4>3, <4>4 DEF Ops, Keeping, LengthOps
    <3> QED
      BY <3>3, <3>4
  <2> QED
    BY <2>2, <2>6, <2>7
<1> QED
  BY <1>2, <1>3

-----------------------------------------------------------------------------
(* The blob.                                                                  *)

LEMMA BlobReads ==
  /\ Len(parse_dpapi_blob) = 26
  /\ parse_dpapi_blob[1] = Read("need", 48, "none")
  /\ parse_dpapi_blob[2] = Read("word", 4, "version")
  /\ parse_dpapi_blob[3] = Read("check", 0, "version")
  /\ parse_dpapi_blob[4] = Read("index", 16, "provider_guid")
  /\ parse_dpapi_blob[5] = Read("check", 0, "provider_guid")
  /\ parse_dpapi_blob[6] = Read("word", 4, "mk_version")
  /\ parse_dpapi_blob[7] = Read("index", 16, "master_key_guid")
  /\ parse_dpapi_blob[8] = Read("word", 4, "flags")
  /\ parse_dpapi_blob[9] = Read("len32", 4, "description")
  /\ parse_dpapi_blob[10] = Read("take", 0, "description")
  /\ parse_dpapi_blob[11] = Read("word", 4, "alg_id_encrypt")
  /\ parse_dpapi_blob[12] = Read("word", 4, "crypt_algo_len")
  /\ parse_dpapi_blob[13] = Read("len32", 4, "salt")
  /\ parse_dpapi_blob[14] = Read("take", 0, "salt")
  /\ parse_dpapi_blob[15] = Read("len32", 4, "hmac_key")
  /\ parse_dpapi_blob[16] = Read("take", 0, "hmac_key")
  /\ parse_dpapi_blob[17] = Read("word", 4, "alg_id_hash")
  /\ parse_dpapi_blob[18] = Read("word", 4, "hash_algo_len")
  /\ parse_dpapi_blob[19] = Read("len32", 4, "hmac")
  /\ parse_dpapi_blob[20] = Read("take", 0, "hmac")
  /\ parse_dpapi_blob[21] = Read("len32", 4, "ciphertext")
  /\ parse_dpapi_blob[22] = Read("take", 0, "ciphertext")
  /\ parse_dpapi_blob[23] = Read("mark", 0, "to_sign")
  /\ parse_dpapi_blob[24] = Read("len32", 4, "sign")
  /\ parse_dpapi_blob[25] = Read("take", 0, "sign")
  /\ parse_dpapi_blob[26] = Read("region", 20, "to_sign")
BY DEF parse_dpapi_blob, Prefixed, U32At

LEMMA BlobIndices ==
  \A j \in 1 .. 26 :
    \/ j = 1 \/ j = 2 \/ j = 3 \/ j = 4 \/ j = 5 \/ j = 6 \/ j = 7 \/ j = 8 \/ j = 9
    \/ j = 10 \/ j = 11 \/ j = 12 \/ j = 13 \/ j = 14 \/ j = 15 \/ j = 16 \/ j = 17
    \/ j = 18 \/ j = 19 \/ j = 20 \/ j = 21 \/ j = 22 \/ j = 23 \/ j = 24 \/ j = 25
    \/ j = 26
OBVIOUS

LEMMA BlobDomain == DOMAIN parse_dpapi_blob = 1 .. 26
BY BlobReads DEF parse_dpapi_blob, Prefixed, U32At, Read

LEMMA BlobNoU64 == \A j \in 1 .. 26 : parse_dpapi_blob[j].op # "len64"
BY BlobIndices, BlobReads DEF Read

\* Every field the MAC covers is kept by one read, before the end of the region.
LEMMA SignedReads ==
  ASSUME TypeOK, fn = "parse_dpapi_blob"
  PROVE  /\ Code[fn] = parse_dpapi_blob
         /\ DOMAIN Code[fn] = 1 .. 26
         /\ Uncut
         /\ \A f \in Signed : \E i \in 7 .. 22 : Code[fn][i].f = f /\ LiesAt(i)
         /\ EndsAt(23) /\ LiesAt(25) /\ IsRegion(26)
<1> DEFINE c == parse_dpapi_blob
<1>1. Code[fn] = c
  BY OwnReads DEF TypeOK, CodeOf
<1>2. DOMAIN c = 1 .. 26
  BY BlobDomain
<1> HIDE DEF c
<1>3. Uncut
  BY <1>1, <1>2, BlobNoU64 DEF Uncut, ReadsNoU64, c
\* No other read of the blob keeps that field.
<1>4. ASSUME NEW i \in {7, 10, 11, 14, 17, 20, 22, 25}
      PROVE  LiesAt(i)
  <2>1. \A j \in 1 .. 26 : c[j].f = c[i].f => j = i \/ c[j].op = "len32"
    BY BlobIndices, BlobReads DEF Read, c
  <2>2. c[i].op \in {"index", "word", "take"}
    BY BlobReads DEF Read, c
  <2> QED
    BY <1>1, <1>2, <2>1, <2>2 DEF LiesAt, EndsAt, SameField, Keeping
<1>5. EndsAt(23) /\ IsRegion(26)
  <2>1. \A j \in 1 .. 26 : c[j].f = "to_sign" => j = 23 \/ j = 26
    BY BlobIndices, BlobReads DEF Read, c
  <2>2. /\ c[23].op = "mark" /\ c[23].f = "to_sign"
        /\ c[26].op = "region" /\ c[26].f = "to_sign"
    BY BlobReads DEF Read, c
  <2> QED
    BY <1>1, <1>2, <2>1, <2>2 DEF EndsAt, IsRegion, SameField, Keeping
<1>6. \A f \in Signed : \E i \in {7, 10, 11, 14, 17, 20, 22, 25} : i \in 7 .. 22 /\ c[i].f = f
  BY BlobReads DEF Read, c, Signed
<1> QED
  BY <1>1, <1>2, <1>3, <1>4, <1>5, <1>6 DEF c

\* For any blob, any length words and any width of usize: the region the Sign
\* MAC is computed over holds every field the decryption uses, each in bytes of
\* its own, and stops right before the length word of Sign.
THEOREM SignedCoverageHolds == Spec => []SignedCoverage
<1>1. Init => Inv /\ Layout /\ Placed
  BY InitInv, InitLayout, InitPlaced
<1>2. Inv /\ Layout /\ Placed /\ [Next]_vars => (Inv /\ Layout /\ Placed)'
  BY StepInv, StepLayout, StepPlaced
<1>3. Inv /\ Layout /\ Placed => SignedCoverage
  <2> SUFFICES ASSUME Inv, Layout, Placed, fn = "parse_dpapi_blob", outcome = "ok"
               PROVE  /\ \A f \in Signed : /\ span["to_sign"][1] <= span[f][1]
                                           /\ span[f][2] <= span["to_sign"][2]
                      /\ \A f, g \in Signed : f # g => \/ span[f][2] <= span[g][1]
                                                       \/ span[g][2] <= span[f][1]
                      /\ span["to_sign"][2] + 4 = span["sign"][1]
    BY DEF SignedCoverage
  <2>1. TypeOK /\ Code[fn] \in Seq(Instrs) /\ declared \in [Fields -> Nat]
    BY LayoutShape DEF Inv
  <2>2. /\ Code[fn] = parse_dpapi_blob /\ DOMAIN Code[fn] = 1 .. 26 /\ Uncut
        /\ \A f \in Signed : \E i \in 7 .. 22 : Code[fn][i].f = f /\ LiesAt(i)
        /\ EndsAt(23) /\ LiesAt(25) /\ IsRegion(26)
    BY <2>1, SignedReads
  <2>3. Len(Code[fn]) = 26 /\ ip = 27
    BY <2>2, BlobReads DEF Inv, OkAtEnd
  <2>4. \A i \in 1 .. 26 : /\ EndsAt(i) => span[Code[fn][i].f][2] = Laid[i + 1]
                           /\ LiesAt(i) => span[Code[fn][i].f][1] = Laid[i]
                           /\ IsRegion(i) => span[Code[fn][i].f][1] = Code[fn][i].n
    BY <2>2, <2>3 DEF Placed
  <2>5. /\ \A i \in 1 .. 27 : Laid[i] \in Nat
        /\ \A i, j \in 1 .. 27 : i <= j => Laid[i] <= Laid[j]
        /\ \A i \in 1 .. 27 : Laid[i] = IF i = 1 THEN 0
                                         ELSE Laid[i - 1] + Bytes(Code[fn][i - 1], declared)
    <3> DEFINE c == Code[fn]
    <3>1. c \in Seq(Instrs) /\ Len(c) + 1 = 27
      BY <2>1, <2>3
    <3>2. Laid = Extent(c, declared)
      BY DEF Laid
    <3> HIDE DEF c
    <3>3. \A i \in 1 .. 27 : Extent(c, declared)[i] \in Nat
      BY <2>1, <3>1, ExtentNat
    <3>4. \A i, j \in 1 .. 27 : i <= j => Extent(c, declared)[i] <= Extent(c, declared)[j]
      BY <2>1, <3>1, ExtentGrows
    <3>5. \A i \in 1 .. 27 :
            Extent(c, declared)[i] = IF i = 1 THEN 0
                                     ELSE Extent(c, declared)[i - 1] + Bytes(c[i - 1], declared)
      BY <2>1, <3>1, ExtentUnfolds
    <3> QED
      BY <3>2, <3>3, <3>4, <3>5 DEF c
  <2>6. Laid[5] = 20 /\ Laid[25] = Laid[24] + 4
    <3>1. /\ Bytes(Code[fn][1], declared) = 0 /\ Bytes(Code[fn][2], declared) = 4
          /\ Bytes(Code[fn][3], declared) = 0 /\ Bytes(Code[fn][4], declared) = 16
          /\ Bytes(Code[fn][24], declared) = 4
      BY <2>2, BlobReads DEF Bytes, Read, Takes, Still
    <3>2. Laid[1] = 0 /\ Laid[2] = Laid[1] + 0 /\ Laid[3] = Laid[2] + 4
          /\ Laid[4] = Laid[3] + 0 /\ Laid[5] = Laid[4] + 16 /\ Laid[25] = Laid[24] + 4
      BY <2>5, <3>1
    <3> QED
      BY <2>5, <3>2
  <2>7. /\ span["to_sign"][1] = 20 /\ span["to_sign"][2] = Laid[24]
        /\ span["sign"][1] = Laid[25]
    <3>1. /\ Code[fn][23].f = "to_sign" /\ Code[fn][25].f = "sign"
          /\ Code[fn][26].f = "to_sign" /\ Code[fn][26].n = 20
      BY <2>2, BlobReads DEF Read
    <3> QED
      BY <2>2, <2>4, <3>1
  <2>8. ASSUME NEW f \in Signed
        PROVE  \E i \in 7 .. 22 : /\ Code[fn][i].f = f
                                  /\ span[f][1] = Laid[i] /\ span[f][2] = Laid[i + 1]
    BY <2>2, <2>4 DEF LiesAt
  <2>9. \A f \in Signed : span["to_sign"][1] <= span[f][1] /\ span[f][2] <= span["to_sign"][2]
    <3> TAKE f \in Signed
    <3>1. PICK i \in 7 .. 22 : span[f][1] = Laid[i] /\ span[f][2] = Laid[i + 1]
      BY <2>8
    <3>2. Laid[5] <= Laid[i] /\ Laid[i + 1] <= Laid[24]
      BY <2>5
    <3> QED
      BY <2>6, <2>7, <3>1, <3>2
  <2>10. \A f, g \in Signed : f # g => span[f][2] <= span[g][1] \/ span[g][2] <= span[f][1]
    <3> SUFFICES ASSUME NEW f \in Signed, NEW g \in Signed, f # g
                 PROVE  span[f][2] <= span[g][1] \/ span[g][2] <= span[f][1]
      OBVIOUS
    <3>1. PICK i \in 7 .. 22 : /\ Code[fn][i].f = f
                               /\ span[f][1] = Laid[i] /\ span[f][2] = Laid[i + 1]
      BY <2>8
    <3>2. PICK j \in 7 .. 22 : /\ Code[fn][j].f = g
                               /\ span[g][1] = Laid[j] /\ span[g][2] = Laid[j + 1]
      BY <2>8
    <3>3. i + 1 <= j \/ j + 1 <= i
      BY <3>1, <3>2
    <3>4. Laid[i + 1] <= Laid[j] \/ Laid[j + 1] <= Laid[i]
      BY <2>5, <3>3
    <3> QED
      BY <3>1, <3>2, <3>4
  <2> QED
    BY <2>6, <2>7, <2>9, <2>10
<1> QED
  BY <1>1, <1>2, <1>3, PTL DEF Spec

-----------------------------------------------------------------------------
(* Which parsers panic, and which cut a length.                               *)

CheckedParsers == AllParsers \ {"parse_dpapi_blob", "parse_masterkey_file"}

\* Only the master-key file is read with u64 lengths, and only it and the blob
\* are taken apart with a plain sum.
LEMMA ParserReads ==
  ASSUME NEW f \in AllParsers, NEW i \in DOMAIN CodeOf(f)
  PROVE  /\ f # "parse_masterkey_file" => CodeOf(f)[i].op # "len64"
         /\ f \in CheckedParsers => CodeOf(f)[i].op # "take"
<1>1. CASE f = "parse_master_key"
  BY <1>1 DEF CodeOf, parse_master_key, Read
<1>2. CASE f = "parse_credential_file"
  BY <1>2 DEF CodeOf, parse_credential_file, Read
<1>3. CASE f = "parse_credential_blob"
  BY <1>3 DEF CodeOf, parse_credential_blob, Read, Prefixed
<1>4. CASE f = "parse_vpol_file"
  BY <1>4 DEF CodeOf, parse_vpol_file, Read, Prefixed, U32At
<1>5. CASE f = "VAULT_VPOL_KEYS"
  BY <1>5 DEF CodeOf, VAULT_VPOL_KEYS, read_bcrypt_key, Read, Prefixed, U32At
<1>6. CASE f = "parse_internet_explorer"
  BY <1>6 DEF CodeOf, parse_internet_explorer, read_id_len_utf16, Read, Prefixed, U32At
<1>7. CASE f = "parse_dpapi_blob"
  BY <1>7, BlobDomain, BlobNoU64 DEF CodeOf, CheckedParsers
<1>8. CASE f = "parse_masterkey_file"
  BY <1>8 DEF CheckedParsers
<1> QED
  BY <1>1, <1>2, <1>3, <1>4, <1>5, <1>6, <1>7, <1>8 DEF AllParsers

LEMMA OwnCode ==
  ASSUME TypeOK
  PROVE  /\ fn # "parse_masterkey_file" => Uncut
         /\ fn \in CheckedParsers => Untrapped
<1>1. fn \in AllParsers /\ Code[fn] = CodeOf(fn)
  BY OwnReads DEF TypeOK
<1> QED
  BY <1>1, ParserReads DEF Uncut, ReadsNoU64, Untrapped, AddsChecked

\* No credential or vault parser, and not parse_master_key, panics on any
\* buffer, target or build: only the two parsers whose sums are plain can.
THEOREM CheckedNeverPanics == Spec => [](fn \in CheckedParsers => NoPanic)
<1>1. Inv => (fn \in CheckedParsers => Untrapped)
  BY OwnCode DEF Inv
<1> QED
  BY <1>1, LayoutAlways, NoPanicWhere, PTL

\* On any target, every parser but parse_masterkey_file takes each field at the
\* length the buffer declares and refuses exactly the buffers that are too short.
THEOREM OnlyMasterKeyCuts ==
  Spec => [](fn # "parse_masterkey_file" => AsDeclared /\ ExactRefusal)
<1>1. Inv => (fn # "parse_masterkey_file" => Uncut)
  BY OwnCode DEF Inv
<1> QED
  BY <1>1, LayoutAlways, AsDeclaredWhere, ExactWhere, PTL
=============================================================================
