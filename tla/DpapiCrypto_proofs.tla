------------------------- MODULE DpapiCrypto_proofs -------------------------
(* What a digest determines, for any keys and messages: the lemmas the proofs *)
(* about blobs and about master-key files share.                              *)
EXTENDS DpapiCrypto, SequenceTheorems, TLAPS

\* Two concatenations whose second parts are equally long agree part by part.
LEMMA ConcatSplit ==
  ASSUME NEW S, NEW u \in Seq(S), NEW v \in Seq(S), NEW w \in Seq(S), NEW x \in Seq(S),
         u \o w = v \o x, Len(w) = Len(x)
  PROVE  u = v /\ w = x
<1>1. Len(u) \in Nat /\ Len(v) \in Nat /\ Len(w) \in Nat
  BY LenProperties
<1>2. Len(u) + Len(w) = Len(v) + Len(w)
  <2>1. Len(u \o w) = Len(u) + Len(w)
    BY ConcatProperties
  <2>2. Len(v \o x) = Len(v) + Len(x)
    BY ConcatProperties
  <2> QED
    BY <2>1, <2>2
<1>3. Len(u) = Len(v)
  BY <1>1, <1>2
<1>4. \A i \in 1 .. Len(w) : w[i] = x[i]
  <2> TAKE i \in 1 .. Len(w)
  <2>1. (u \o w)[Len(u) + i] = w[i] /\ (v \o x)[Len(v) + i] = x[i]
    BY <1>1, <1>3, ConcatProperties
  <2> QED
    BY <1>3, <2>1
<1>5. w = x
  BY <1>4, SeqEqual
<1> QED
  BY <1>5, ConcatSimplifications

\* A digest determines the hash and the message.
LEMMA HashInjective ==
  ASSUME NEW a, NEW b, NEW x, NEW y, Hash(a, x) = Hash(b, y)
  PROVE  a.module = b.module /\ x = y
  BY DEF Hash

LEMMA DigestNotJunk == ASSUME NEW a, NEW x PROVE Hash(a, x) # Junk
<1>1. DOMAIN Hash(a, x) = {"module", "msg"}
  BY DEF Hash
<1>2. DOMAIN Junk = {"junk"}
  BY DEF Junk
<1> QED
  BY <1>1, <1>2

LEMMA PaddedInjective ==
  ASSUME NEW k, NEW l, NEW p, NEW q, NEW m, NEW n, Padded(k, p, m) = Padded(l, q, n)
  PROVE  k = l
  BY DEF Padded

LEMMA KeyHashInjective ==
  ASSUME NEW k, NEW l, key_hash(k) = key_hash(l)
  PROVE  k = l
<1>1. <<k>> = <<l>>
  BY HashInjective DEF key_hash
<1> QED
  BY <1>1

\* An HMAC determines the hash module, the key and the message.
LEMMA HmacInjective ==
  ASSUME NEW a, NEW a2, NEW k, NEW l, NEW T, NEW m \in Seq(T), NEW n \in Seq(T),
         Hmac(a, k, m) = Hmac(a2, l, n)
  PROVE  a.module = a2.module /\ k = l /\ m = n
<1> DEFINE o1 == Padded(k, "opad", a.hash_block_len)
           o2 == Padded(l, "opad", a2.hash_block_len)
           q1 == <<Padded(k, "ipad", a.hash_block_len)>>
           q2 == <<Padded(l, "ipad", a2.hash_block_len)>>
           h1 == Hash(a, q1 \o m)
           h2 == Hash(a2, q2 \o n)
           S == T \cup {q1[1]}
<1>1. Hash(a, <<o1, h1>>) = Hash(a2, <<o2, h2>>)
  BY DEF Hmac
<1>2. a.module = a2.module /\ <<o1, h1>> = <<o2, h2>>
  <2> HIDE DEF o1, o2, h1, h2
  <2> QED
    BY <1>1 DEF Hash
<1>3. o1 = o2 /\ h1 = h2
  <2> HIDE DEF o1, o2, h1, h2
  <2> QED
    BY <1>2
<1>4. k = l /\ a.hash_block_len = a2.hash_block_len
  BY <1>3 DEF Padded
<1>5. q1 = q2
  BY <1>4
<1>6. q1 \o m = q2 \o n
  <2> HIDE DEF q1, q2
  <2> QED
    BY <1>3 DEF Hash
<1>7. q1 \in Seq(S) /\ m \in Seq(S) /\ n \in Seq(S)
  BY SeqMonotonic
<1>8. m = n
  <2> HIDE DEF S, q1, q2
  <2> QED
    BY <1>5, <1>6, <1>7, ConcatSimplifications
<1> QED
  BY <1>2, <1>4, <1>8

-----------------------------------------------------------------------------
(* What the Sign of a blob determines.                                       *)

\* Byte strings of a file: pieces of protected blobs, or junk.
FileBytes == Bytes \cup {Junk}

LEMMA RegionFields ==
  ASSUME NEW b, NEW c, to_sign(b) = to_sign(c), NEW f \in SignedFields
  PROVE  b[f] = c[f]
  BY DEF to_sign

\* Equal HMac, entropy and region together mean equal entropies: the region
\* holds the HMac once more, so the boundary between the two cannot shift.
LEMMA BoundaryFixed ==
  ASSUME NEW b, NEW c, NEW e \in Seq(FileBytes), NEW d \in Seq(FileBytes),
         b.hmac \in Seq(FileBytes), c.hmac \in Seq(FileBytes),
         b.hmac \o e \o <<to_sign(b)>> = c.hmac \o d \o <<to_sign(c)>>
  PROVE  e = d /\ to_sign(b) = to_sign(c)
<1> DEFINE S == FileBytes \cup {to_sign(b), to_sign(c)}
           u == b.hmac \o e
           v == c.hmac \o d
           w == <<to_sign(b)>>
           x == <<to_sign(c)>>
<1>1. /\ e \in Seq(S) /\ d \in Seq(S) /\ b.hmac \in Seq(S) /\ c.hmac \in Seq(S)
  BY SeqMonotonic
<1>2. u \in Seq(S) /\ v \in Seq(S)
  BY <1>1, ConcatProperties
<1>3. w \in Seq(S) /\ x \in Seq(S) /\ Len(w) = Len(x)
  OBVIOUS
<1>4. u = v /\ w = x
  <2>1. u \o w = v \o x
    OBVIOUS
  <2> HIDE DEF S, u, v, w, x
  <2>2. u = v
    BY <1>2, <1>3, <2>1, ConcatSplit
  <2>3. w = x
    BY <1>2, <1>3, <2>1, <2>2, ConcatSimplifications
  <2> QED
    BY <2>2, <2>3
<1>5. to_sign(b) = to_sign(c) /\ b.hmac = c.hmac
  BY <1>4, RegionFields DEF SignedFields
<1>6. e = d
  <2> HIDE DEF S
  <2> QED
    BY <1>1, <1>4, <1>5, ConcatSimplifications
<1> QED
  BY <1>5, <1>6

\* A standard HMAC over HMac, entropy and region determines the hash module,
\* the key, the entropy and the region.
LEMMA PlainBinds ==
  ASSUME NEW a, NEW a2, NEW k, NEW l, NEW b, NEW c,
         NEW e \in Seq(FileBytes), NEW d \in Seq(FileBytes),
         b.hmac \in Seq(FileBytes), c.hmac \in Seq(FileBytes),
         SignPlain(a, k, b, e) = SignPlain(a2, l, c, d)
  PROVE  a.module = a2.module /\ k = l /\ e = d /\ to_sign(b) = to_sign(c)
<1> DEFINE m == b.hmac \o e \o <<to_sign(b)>>
           n == c.hmac \o d \o <<to_sign(c)>>
           S == FileBytes \cup {to_sign(b), to_sign(c)}
<1>1. m \in Seq(S) /\ n \in Seq(S)
  <2>1. /\ e \in Seq(S) /\ d \in Seq(S) /\ b.hmac \in Seq(S) /\ c.hmac \in Seq(S)
    BY SeqMonotonic
  <2>2. <<to_sign(b)>> \in Seq(S) /\ <<to_sign(c)>> \in Seq(S)
    OBVIOUS
  <2> HIDE DEF S
  <2>3. b.hmac \o e \in Seq(S) /\ c.hmac \o d \in Seq(S)
    BY <2>1, ConcatProperties
  <2> QED
    BY <2>2, <2>3, ConcatProperties
<1>2. Hmac(a, key_hash(k), m) = Hmac(a2, key_hash(l), n)
  BY DEF SignPlain
<1>3. a.module = a2.module /\ key_hash(k) = key_hash(l) /\ m = n
  <2> HIDE DEF m, n, S
  <2>1. a.module = a2.module
    BY <1>1, <1>2, HmacInjective
  <2>2. key_hash(k) = key_hash(l)
    BY <1>1, <1>2, HmacInjective
  <2>3. m = n
    BY <1>1, <1>2, HmacInjective
  <2> QED
    BY <2>1, <2>2, <2>3
<1>4. k = l
  BY <1>3, KeyHashInjective
<1>5. e = d /\ to_sign(b) = to_sign(c)
  BY <1>3, BoundaryFixed
<1> QED
  BY <1>3, <1>4, <1>5

\* So does the nested form, where the entropy stands beside the inner digest.
LEMMA NestedBinds ==
  ASSUME NEW a, NEW a2, NEW k, NEW l, NEW b, NEW c,
         NEW e \in Seq(FileBytes), NEW d \in Seq(FileBytes),
         SignNested(a, k, b, e) = SignNested(a2, l, c, d)
  PROVE  a.module = a2.module /\ k = l /\ e = d /\ to_sign(b) = to_sign(c)
<1> DEFINE o1 == Padded(key_hash(k), "opad", a.hash_block_len)
           o2 == Padded(key_hash(l), "opad", a2.hash_block_len)
           i1 == Hash(a, <<Padded(key_hash(k), "ipad", a.hash_block_len)>> \o b.hmac)
           i2 == Hash(a2, <<Padded(key_hash(l), "ipad", a2.hash_block_len)>> \o c.hmac)
           p1 == <<o1, i1>>
           p2 == <<o2, i2>>
           w1 == <<to_sign(b)>>
           w2 == <<to_sign(c)>>
           S == FileBytes \cup {o1, o2, i1, i2, to_sign(b), to_sign(c)}
<1>1. a.module = a2.module /\ (p1 \o e) \o w1 = (p2 \o d) \o w2
  <2> DEFINE x == (p1 \o e) \o w1
             y == (p2 \o d) \o w2
  <2>1. Hash(a, x) = Hash(a2, y)
    BY DEF SignNested
  <2>2. a.module = a2.module /\ x = y
    <3> HIDE DEF x, y
    <3> QED
      BY <2>1 DEF Hash
  <2> QED
    BY <2>2
<1>2. /\ e \in Seq(S) /\ d \in Seq(S) /\ p1 \in Seq(S) /\ p2 \in Seq(S)
      /\ w1 \in Seq(S) /\ w2 \in Seq(S)
      /\ Len(w1) = 1 /\ Len(w2) = 1 /\ Len(p1) = 2 /\ Len(p2) = 2
  <2>1. e \in Seq(S) /\ d \in Seq(S)
    BY SeqMonotonic
  <2> QED
    BY <2>1
<1>3. p1 \o e \in Seq(S) /\ p2 \o d \in Seq(S)
  <2> HIDE DEF S, p1, p2
  <2> QED
    BY <1>2, ConcatProperties
<1>4. p1 \o e = p2 \o d
  <2> HIDE DEF S, p1, p2, w1, w2
  <2> DEFINE u == p1 \o e
             v == p2 \o d
  <2>1. u \in Seq(S) /\ v \in Seq(S) /\ u \o w1 = v \o w2
    BY <1>1, <1>3
  <2> HIDE DEF u, v
  <2>2. u = v
    BY <1>2, <2>1, ConcatSplit
  <2> QED
    BY <2>2 DEF u, v
<1>5. w1 = w2
  <2> HIDE DEF S, p1, p2, w1, w2
  <2> QED
    BY <1>1, <1>2, <1>3, <1>4, ConcatSimplifications
<1>6. to_sign(b) = to_sign(c)
  BY <1>5
<1>7. p1 = p2
  <2> HIDE DEF S, p1, p2
  <2>1. Len(p1 \o e) = Len(p1) + Len(e)
    BY <1>2, ConcatProperties
  <2>2. Len(p2 \o d) = Len(p2) + Len(d)
    BY <1>2, ConcatProperties
  <2>3. Len(e) \in Nat /\ Len(d) \in Nat
    BY <1>2, LenProperties
  <2>4. Len(e) = Len(d)
    BY <1>2, <1>4, <2>1, <2>2, <2>3
  <2> QED
    BY <1>2, <1>4, <2>4, ConcatSplit
<1>8. k = l
  BY <1>7, PaddedInjective, KeyHashInjective
<1>9. e = d
  <2> HIDE DEF S, p1, p2
  <2> QED
    BY <1>2, <1>4, <1>7, ConcatSimplifications
<1> QED
  BY <1>1, <1>6, <1>8, <1>9

\* No digest is of both forms: a standard HMAC hashes two parts, the nested
\* form at least three.
LEMMA FormsDiffer ==
  ASSUME NEW a, NEW a2, NEW k, NEW l, NEW b, NEW c,
         NEW e, NEW d \in Seq(FileBytes)
  PROVE  SignPlain(a, k, b, e) # SignNested(a2, l, c, d)
<1> DEFINE o == Padded(key_hash(k), "opad", a.hash_block_len)
           i == Hash(a, <<Padded(key_hash(k), "ipad", a.hash_block_len)>>
                          \o (b.hmac \o e \o <<to_sign(b)>>))
           o2 == Padded(key_hash(l), "opad", a2.hash_block_len)
           i2 == Hash(a2, <<Padded(key_hash(l), "ipad", a2.hash_block_len)>> \o c.hmac)
           p == <<o, i>>
           p2 == <<o2, i2>>
           w == <<to_sign(c)>>
           S == FileBytes \cup {o2, i2, to_sign(c)}
<1>1. SUFFICES ASSUME SignPlain(a, k, b, e) = SignNested(a2, l, c, d) PROVE FALSE
  OBVIOUS
<1>2. p = (p2 \o d) \o w
  <2> DEFINE x == (p2 \o d) \o w
  <2>1. Hash(a, p) = Hash(a2, x)
    BY <1>1 DEF SignPlain, SignNested, Hmac
  <2>2. p = x
    <3> HIDE DEF p, x
    <3> QED
      BY <2>1 DEF Hash
  <2> QED
    BY <2>2
<1>3. d \in Seq(S) /\ p2 \in Seq(S) /\ w \in Seq(S)
      /\ Len(p) = 2 /\ Len(p2) = 2 /\ Len(w) = 1
  <2>1. d \in Seq(S)
    BY SeqMonotonic
  <2> QED
    BY <2>1
<1>4. Len((p2 \o d) \o w) = 2 + Len(d) + 1 /\ Len(d) \in Nat
  <2> HIDE DEF S, p2, w
  <2>1. p2 \o d \in Seq(S) /\ Len(p2 \o d) = 2 + Len(d) /\ Len(d) \in Nat
    <3>1. p2 \o d \in Seq(S)
      BY <1>3, ConcatProperties
    <3>2. Len(p2 \o d) = Len(p2) + Len(d)
      BY <1>3, ConcatProperties
    <3>3. Len(d) \in Nat
      BY <1>3, LenProperties
    <3> QED
      BY <1>3, <3>1, <3>2, <3>3
  <2> DEFINE u == p2 \o d
  <2>2. u \in Seq(S) /\ Len(u) = 2 + Len(d)
    BY <2>1
  <2> HIDE DEF u
  <2>3. Len(u \o w) = Len(u) + Len(w)
    BY <1>3, <2>2, ConcatProperties
  <2> QED
    BY <1>3, <2>1, <2>2, <2>3 DEF u
<1>5. Len(p) = 2 + Len(d) + 1
  <2> HIDE DEF p, p2, w
  <2> QED
    BY <1>2, <1>4
<1> QED
  BY <1>3, <1>4, <1>5

-----------------------------------------------------------------------------
(* From an accepted signature to the protection it comes from.                *)

\* The ids the code and Windows hash alike are those of the table, and their
\* digests fit their derive block.
LEMMA SameModule ==
  ASSUME NEW id, hash_alg(id).module = WindowsHash(id).module
  PROVE  /\ hash_alg(id) = WindowsHash(id)
         /\ hash_alg(id).output_len <= hash_alg(id).derive_block_len
         /\ hash_alg(id).output_len \in Nat /\ hash_alg(id).derive_block_len \in Nat
<1>1. CASE id \in DOMAIN hash_alg_info
  <2>1. hash_alg(id) = hash_alg_info[id] /\ WindowsHash(id) = hash_alg_info[id]
    BY <1>1 DEF hash_alg, WindowsHash
  <2>2. id \in {"CALG_SHA1", "CALG_HMAC", "CALG_SHA_512"}
    BY <1>1 DEF hash_alg_info
  <2> QED
    BY <2>1, <2>2 DEF hash_alg_info, SHA1, Alg
<1>2. CASE id \notin DOMAIN hash_alg_info
  BY <1>2 DEF hash_alg, WindowsHash, SHA1, Alg
<1> QED
  BY <1>1, <1>2

\* With such a hash the code derives the cipher key the protection used.
LEMMA SameKey ==
  ASSUME NEW alg, NEW s, NEW need \in Nat,
         alg.output_len \in Nat, alg.derive_block_len \in Nat,
         alg.output_len <= alg.derive_block_len
  PROVE  derive_key(alg, s, need).bytes = protectKey(alg, s, need)
<1>1. ~(alg.output_len > alg.derive_block_len)
  OBVIOUS
<1>2. CASE alg.output_len < need
  BY <1>1, <1>2 DEF derive_key, protectKey
<1>3. CASE alg.output_len >= need
  BY <1>1, <1>3 DEF derive_key, protectKey
<1> QED
  BY <1>2, <1>3

\* Nobody forges: the Sign of b is junk or that of one of the protections M.
SignIn(b, M) == b.sign = Junk \/ \E m \in M : b.sign = ProtectedSign(m)

LEMMA UnsignedHmac ==
  ASSUME NEW m, IsProtection(m)
  PROVE  Unsigned(m).hmac \in Seq(FileBytes) /\ m.entropy \in Seq(FileBytes)
<1>1. Unsigned(m).hmac = m.hmac
  BY DEF Unsigned, SignedFields
<1>2. m.hmac \in Seq(Bytes) /\ m.entropy \in Seq(Bytes)
  BY DEF IsProtection
<1> QED
  BY <1>1, <1>2, SeqMonotonic DEF FileBytes

\* The region of a protected blob is the region its Sign was made over.
LEMMA ProtectedRegion ==
  ASSUME NEW m PROVE to_sign(Protected(m)) = to_sign(Unsigned(m))
  BY DEF to_sign, Protected, BlobFields, SignedFields

\* An accepted signature names a protection with this key, entropy and region.
LEMMA AcceptedIsProtected ==
  ASSUME NEW M, \A m \in M : IsProtection(m), NEW b, b.hmac \in Seq(FileBytes),
         SignIn(b, M), NEW alg, NEW mk, NEW e \in Seq(FileBytes),
         verify_blob_signature(alg, mk, b, e)
  PROVE  \E m \in M : /\ m.mk = mk /\ m.entropy = e
                      /\ to_sign(b) = to_sign(Unsigned(m))
                      /\ alg.module = WindowsHash(m.alg_id_hash).module
<1>1. b.sign # Junk
  BY DigestNotJunk DEF verify_blob_signature, SignNested, SignPlain, Hmac
<1>2. PICK m \in M : b.sign = ProtectedSign(m)
  BY <1>1 DEF SignIn
<1> DEFINE u == Unsigned(m)
           w == WindowsHash(m.alg_id_hash)
<1>3. b.hmac \in Seq(FileBytes) /\ u.hmac \in Seq(FileBytes)
      /\ m.entropy \in Seq(FileBytes)
  BY UnsignedHmac
<1>4. \/ b.sign = SignNested(w, m.mk, u, m.entropy)
      \/ b.sign = SignPlain(w, m.mk, u, m.entropy)
  BY <1>2 DEF ProtectedSign
<1>5. \/ b.sign = SignNested(alg, mk, b, e)
      \/ b.sign = SignPlain(alg, mk, b, e)
  BY DEF verify_blob_signature
<1> HIDE DEF u, w
<1> DEFINE Same == /\ alg.module = w.module /\ mk = m.mk /\ e = m.entropy
                   /\ to_sign(b) = to_sign(u)
<1>6. ASSUME b.sign = SignNested(w, m.mk, u, m.entropy),
             b.sign = SignNested(alg, mk, b, e)
      PROVE  Same
  <2>1. SignNested(alg, mk, b, e) = SignNested(w, m.mk, u, m.entropy)
    BY <1>6
  <2>2. alg.module = w.module
    BY <1>3, <2>1, NestedBinds
  <2>3. mk = m.mk
    BY <1>3, <2>1, NestedBinds
  <2>4. e = m.entropy
    BY <1>3, <2>1, NestedBinds
  <2>5. to_sign(b) = to_sign(u)
    BY <1>3, <2>1, NestedBinds
  <2> QED
    BY <2>2, <2>3, <2>4, <2>5
<1>7. ASSUME b.sign = SignPlain(w, m.mk, u, m.entropy),
             b.sign = SignPlain(alg, mk, b, e)
      PROVE  Same
  <2>1. SignPlain(alg, mk, b, e) = SignPlain(w, m.mk, u, m.entropy)
    BY <1>7
  <2>2. alg.module = w.module
    BY <1>3, <2>1, PlainBinds
  <2>3. mk = m.mk
    BY <1>3, <2>1, PlainBinds
  <2>4. e = m.entropy
    BY <1>3, <2>1, PlainBinds
  <2>5. to_sign(b) = to_sign(u)
    BY <1>3, <2>1, PlainBinds
  <2> QED
    BY <2>2, <2>3, <2>4, <2>5
<1>8. ~ /\ b.sign = SignPlain(w, m.mk, u, m.entropy)
        /\ b.sign = SignNested(alg, mk, b, e)
  BY FormsDiffer
<1>9. ~ /\ b.sign = SignNested(w, m.mk, u, m.entropy)
        /\ b.sign = SignPlain(alg, mk, b, e)
  BY <1>3, FormsDiffer
<1>10. Same
  BY <1>4, <1>5, <1>6, <1>7, <1>8, <1>9
<1> QED
  BY <1>10 DEF u, w

\* Under its own key the code derives the cipher key its ciphertext was made with.
LEMMA OwnCiphertext ==
  ASSUME NEW m, IsProtection(m),
         hash_alg(m.alg_id_hash).module = WindowsHash(m.alg_id_hash).module,
         NEW alg, alg = hash_alg(m.alg_id_hash),
         NEW need, need = cipher_key_len[m.alg_id_encrypt]
  PROVE  ProtectedCiphertext(m) =
           Enc(m.alg_id_encrypt,
               CipherKey(m.alg_id_encrypt,
                         derive_key(alg, SessionKey(alg, m.mk, m.salt, m.entropy), need)),
               m.pt)
<1> DEFINE session == SessionKey(alg, m.mk, m.salt, m.entropy)
           derived == derive_key(alg, session, need)
<1>1. /\ alg = WindowsHash(m.alg_id_hash) /\ alg.output_len <= alg.derive_block_len
      /\ alg.output_len \in Nat /\ alg.derive_block_len \in Nat
  BY SameModule
<1>2. m.alg_id_encrypt \in DOMAIN cipher_key_len /\ need \in Nat
  BY DEF cipher_key_len, IsProtection
<1>3. derived.bytes = protectKey(alg, session, need)
  <2> HIDE DEF session
  <2> QED
    BY <1>1, <1>2, SameKey
<1>4. ProtectedCiphertext(m)
        = Enc(m.alg_id_encrypt, [bytes |-> derived.bytes, odd |-> FALSE], m.pt)
  BY <1>1, <1>3 DEF ProtectedCiphertext
<1>5. ~(derived.odd /\ m.alg_id_encrypt # "CALG_3DES")
  <2>1. m.alg_id_encrypt = "CALG_3DES" \/ alg.output_len >= need
    BY <1>1, <1>2 DEF cipher_key_len, IsProtection
  <2>2. alg.output_len >= need => ~derived.odd
    <3> HIDE DEF session
    <3> QED
      BY <1>1, <1>2 DEF derive_key
  <2> QED
    BY <2>1, <2>2
<1> HIDE DEF derived
<1>6. CipherKey(m.alg_id_encrypt, derived) = [bytes |-> derived.bytes, odd |-> FALSE]
  BY <1>5 DEF CipherKey
<1> QED
  BY <1>4, <1>6 DEF derived

\* The right cipher key yields the plaintext and nothing else.
LEMMA DeciphersOwn ==
  ASSUME NEW c, NEW k, NEW pt \in Plaintexts
  PROVE  Decipher(c, k, Enc(c, k, pt)) = {pt}
<1> DEFINE pts == {p \in Plaintexts : Enc(c, k, pt) = Enc(c, k, p)}
<1>1. \A p \in Plaintexts : Enc(c, k, pt) = Enc(c, k, p) <=> pt = p
  BY DEF Enc
<1>2. pts = {pt}
  BY <1>1
<1> QED
  BY <1>2 DEF Decipher

\* Any other yields one at most, or garbage that may pass for one, or nothing.
LEMMA DecipherOutcomes ==
  ASSUME NEW c, NEW k, NEW ct, NEW p \in Decipher(c, k, ct)
  PROVE  p \in Plaintexts \cup {Failed, Garbage}
  BY DEF Decipher

\* A plaintext is returned only for the protection it comes from.
LEMMA DecryptSound ==
  ASSUME NEW M, \A m \in M : IsProtection(m), NEW b, b.hmac \in Seq(FileBytes),
         SignIn(b, M), NEW mk, NEW e \in Seq(FileBytes),
         NEW r \in decrypt_dpapi_blob(b, mk, e), r.ok
  PROVE  \E m \in M : /\ m.mk = mk /\ m.entropy = e /\ m.pt = r.value
                      /\ to_sign(b) = to_sign(Protected(m))
<1> DEFINE alg == hash_alg(b.alg_id_hash)
           need == cipher_key_len[b.alg_id_encrypt]
           derived == derive_key(alg, SessionKey(alg, mk, b.salt, e), need)
           key == CipherKey(b.alg_id_encrypt, derived)
           clear == Decipher(b.alg_id_encrypt, key, b.ciphertext)
<1>1. b.alg_id_encrypt \in DOMAIN cipher_key_len
  BY DEF decrypt_dpapi_blob, Err
<1>2. PICK c \in clear : r = Ok(c) /\ verify_blob_signature(alg, mk, b, e)
  BY <1>1 DEF decrypt_dpapi_blob, Err
<1>3. PICK m \in M : /\ m.mk = mk /\ m.entropy = e
                     /\ to_sign(b) = to_sign(Unsigned(m))
                     /\ alg.module = WindowsHash(m.alg_id_hash).module
  BY <1>2, AcceptedIsProtected
<1>4. IsProtection(m) /\ m.pt \in Plaintexts
  BY DEF IsProtection
<1>5. \A f \in SignedFields : b[f] = Unsigned(m)[f]
  BY <1>3, RegionFields
<1>6. /\ b.alg_id_hash = m.alg_id_hash /\ b.salt = m.salt
      /\ b.alg_id_encrypt = m.alg_id_encrypt
      /\ b.ciphertext = ProtectedCiphertext(m)
  BY <1>5 DEF SignedFields, Unsigned
<1>7. b.ciphertext = Enc(b.alg_id_encrypt, key, m.pt)
  BY <1>3, <1>4, <1>6, OwnCiphertext
<1>8. clear = {m.pt}
  <2> HIDE DEF key
  <2> QED
    BY <1>4, <1>7, DeciphersOwn
<1> QED
  BY <1>2, <1>3, <1>8, ProtectedRegion DEF Ok

\* However long the digest, the derived key is long enough for the cipher.
LEMMA DerivedLongEnough ==
  ASSUME NEW id, NEW c \in DOMAIN cipher_key_len, NEW s
  PROVE  ~(derive_key(hash_alg(id), s, cipher_key_len[c]).len < cipher_key_len[c])
<1>1. hash_alg(id).output_len \in {20, 64}
  BY DEF hash_alg, hash_alg_info, SHA1, Alg
<1>2. cipher_key_len[c] \in {24, 32}
  BY DEF cipher_key_len
<1> DEFINE a == hash_alg(id)
           n == cipher_key_len[c]
<1> HIDE DEF a, n
<1>3. derive_key(a, s, n).len = IF a.output_len < n THEN 2 * a.output_len ELSE a.output_len
  BY DEF derive_key
<1> QED
  BY <1>1, <1>2, <1>3 DEF a, n

\* What a call may return: an unknown cipher, a refusal, or what the cipher
\* yielded if the Sign is accepted; never a key that is too short.
LEMMA DecryptOutcomes ==
  ASSUME NEW b, NEW mk, NEW e, NEW r \in decrypt_dpapi_blob(b, mk, e)
  PROVE  \/ r = Err("UnsupportedAlgId") /\ b.alg_id_encrypt \notin DOMAIN cipher_key_len
         \/ r \in {Err("HmacMismatch"), Err("DecryptionFailed")}
         \/ \E p \in Plaintexts \cup {Garbage} : r = Ok(p)
<1> DEFINE alg == hash_alg(b.alg_id_hash)
           need == cipher_key_len[b.alg_id_encrypt]
           derived == derive_key(alg, SessionKey(alg, mk, b.salt, e), need)
           key == CipherKey(b.alg_id_encrypt, derived)
           clear == Decipher(b.alg_id_encrypt, key, b.ciphertext)
<1>1. CASE b.alg_id_encrypt \notin DOMAIN cipher_key_len
  BY <1>1 DEF decrypt_dpapi_blob
<1>2. CASE b.alg_id_encrypt \in DOMAIN cipher_key_len
  <2>1. ~(derived.len < need)
    BY <1>2, DerivedLongEnough
  <2>2. PICK c \in clear : r = IF c = Failed THEN Err("DecryptionFailed")
                               ELSE IF verify_blob_signature(alg, mk, b, e) THEN Ok(c)
                               ELSE Err("HmacMismatch")
    BY <1>2, <2>1 DEF decrypt_dpapi_blob
  <2>3. c \in Plaintexts \cup {Failed, Garbage}
    BY DecipherOutcomes
  <2> QED
    BY <2>2, <2>3 DEF Ok
<1> QED
  BY <1>1, <1>2

LEMMA ProtectedFields ==
  ASSUME NEW m, IsProtection(m)
  PROVE  /\ Protected(m) = [f \in BlobFields |-> Protected(m)[f]]
         /\ Protected(m).hmac \in Seq(FileBytes)
         /\ Protected(m).sign = ProtectedSign(m)
         /\ \A f \in SignedFields \ {"ciphertext"} : Protected(m)[f] = m[f]
         /\ Protected(m).ciphertext = ProtectedCiphertext(m)
<1>1. Protected(m).hmac = Unsigned(m).hmac
  BY DEF Protected, BlobFields, SignedFields
<1> QED
  BY <1>1, UnsignedHmac DEF Protected, BlobFields, SignedFields, Unsigned

\* An untouched blob opens under its own key and entropy.
LEMMA RightKeyDecrypts ==
  ASSUME NEW m, IsProtection(m), m.alg_id_hash \in DOMAIN hash_alg_info
  PROVE  decrypt_dpapi_blob(Protected(m), m.mk, m.entropy) = {Ok(m.pt)}
<1> DEFINE b == Protected(m)
           alg == hash_alg(m.alg_id_hash)
           need == cipher_key_len[m.alg_id_encrypt]
           derived == derive_key(alg, SessionKey(alg, m.mk, m.salt, m.entropy), need)
           key == CipherKey(m.alg_id_encrypt, derived)
<1>1. /\ b.alg_id_hash = m.alg_id_hash /\ b.alg_id_encrypt = m.alg_id_encrypt
      /\ b.salt = m.salt /\ b.ciphertext = ProtectedCiphertext(m)
      /\ b.sign = ProtectedSign(m)
  BY ProtectedFields DEF SignedFields
<1>2. m.alg_id_encrypt \in DOMAIN cipher_key_len /\ m.pt \in Plaintexts
  BY DEF IsProtection
<1>3. alg = WindowsHash(m.alg_id_hash)
  BY DEF hash_alg, WindowsHash
<1>4. Decipher(b.alg_id_encrypt, key, b.ciphertext) = {m.pt}
  <2>1. b.ciphertext = Enc(b.alg_id_encrypt, key, m.pt)
    BY <1>1, <1>3, OwnCiphertext
  <2> HIDE DEF key
  <2> QED
    BY <1>2, <2>1, DeciphersOwn
<1>5. verify_blob_signature(alg, m.mk, b, m.entropy)
  BY <1>1, <1>3, ProtectedRegion, ProtectedFields
     DEF verify_blob_signature, ProtectedSign, SignNested, SignPlain, Unsigned, SignedFields
<1>6. ~(derived.len < need)
  BY <1>2, DerivedLongEnough
<1>7. m.pt # Failed
  BY <1>2, PlaintextShape
<1> QED
  BY <1>1, <1>2, <1>4, <1>5, <1>6, <1>7 DEF decrypt_dpapi_blob

\* Any other key or entropy is refused as a mismatch.
LEMMA WrongKeyRefuses ==
  ASSUME NEW m, IsProtection(m), NEW mk, NEW e \in Seq(FileBytes),
         <<mk, e>> # <<m.mk, m.entropy>>,
         NEW r \in decrypt_dpapi_blob(Protected(m), mk, e)
  PROVE  r \in {Err("HmacMismatch"), Err("DecryptionFailed")}
<1>1. Protected(m).hmac \in Seq(FileBytes) /\ SignIn(Protected(m), {m})
  BY ProtectedFields DEF SignIn
<1>2. ~r.ok
  BY <1>1, DecryptSound
<1>3. Protected(m).alg_id_encrypt \in DOMAIN cipher_key_len
  BY ProtectedFields DEF SignedFields, IsProtection
<1> QED
  BY <1>2, <1>3, DecryptOutcomes DEF Ok

\* Protections with one ciphertext have one master key and one plaintext.
LEMMA CiphertextBinds ==
  ASSUME NEW m, NEW n, IsProtection(m), IsProtection(n),
         ProtectedCiphertext(m) = ProtectedCiphertext(n)
  PROVE  m.mk = n.mk /\ m.pt = n.pt
<1> DEFINE am == WindowsHash(m.alg_id_hash)
           an == WindowsHash(n.alg_id_hash)
           sm == SessionKey(am, m.mk, m.salt, m.entropy)
           sn == SessionKey(an, n.mk, n.salt, n.entropy)
           km == protectKey(am, sm, cipher_key_len[m.alg_id_encrypt])
           kn == protectKey(an, sn, cipher_key_len[n.alg_id_encrypt])
<1>1. km = kn /\ m.pt = n.pt
  <2> HIDE DEF km, kn
  <2>1. Enc(m.alg_id_encrypt, [bytes |-> km, odd |-> FALSE], m.pt)
          = Enc(n.alg_id_encrypt, [bytes |-> kn, odd |-> FALSE], n.pt)
    BY DEF ProtectedCiphertext, km, kn
  <2> QED
    BY <2>1 DEF Enc
<1>2. sm = sn
  <2> HIDE DEF am, an, sm, sn
  <2> DEFINE pm(byte) == Padded(sm, byte, am.derive_block_len)
             pn(byte) == Padded(sn, byte, an.derive_block_len)
  <2>1. km = <<sm>> \/ km = <<Hash(am, <<pm("ipad")>>), Hash(am, <<pm("opad")>>)>>
    BY DEF protectKey
  <2>2. kn = <<sn>> \/ kn = <<Hash(an, <<pn("ipad")>>), Hash(an, <<pn("opad")>>)>>
    BY DEF protectKey
  <2> DEFINE hm(byte) == Hash(am, <<pm(byte)>>)
             hn(byte) == Hash(an, <<pn(byte)>>)
  <2>3. hm("ipad") = hn("ipad") => sm = sn
    <3>1. hm("ipad") = hn("ipad") => <<pm("ipad")>> = <<pn("ipad")>>
      <4> HIDE DEF pm, pn
      <4> QED
        BY HashInjective
    <3>2. <<pm("ipad")>> = <<pn("ipad")>> => pm("ipad") = pn("ipad")
      <4> HIDE DEF pm, pn
      <4> QED
        OBVIOUS
    <3> QED
      BY <3>1, <3>2, PaddedInjective
  <2>4. \/ km = <<sm>> /\ kn = <<sn>>
        \/ km = <<hm("ipad"), hm("opad")>> /\ kn = <<hn("ipad"), hn("opad")>>
    <3>1. km = <<sm>> \/ km = <<hm("ipad"), hm("opad")>>
      BY <2>1
    <3>2. kn = <<sn>> \/ kn = <<hn("ipad"), hn("opad")>>
      BY <2>2
    <3> HIDE DEF hm, hn, km, kn
    <3> QED
      BY <1>1, <3>1, <3>2
  <2> HIDE DEF hm, hn, km, kn
  <2> QED
    BY <1>1, <2>3, <2>4
<1>3. /\ m.salt \in Seq(Bytes) /\ m.entropy \in Seq(Bytes)
      /\ n.salt \in Seq(Bytes) /\ n.entropy \in Seq(Bytes)
  BY DEF IsProtection
<1>4. m.salt \o m.entropy \in Seq(Bytes) /\ n.salt \o n.entropy \in Seq(Bytes)
  BY <1>3, ConcatProperties
<1>5. key_hash(m.mk) = key_hash(n.mk)
  <2> DEFINE um == m.salt \o m.entropy
             un == n.salt \o n.entropy
  <2>1. um \in Seq(Bytes) /\ un \in Seq(Bytes)
    BY <1>4
  <2>2. Hmac(am, key_hash(m.mk), um) = Hmac(an, key_hash(n.mk), un)
    BY <1>2 DEF SessionKey
  <2> HIDE DEF am, an, um, un
  <2> QED
    BY <2>1, <2>2, HmacInjective
<1> QED
  BY <1>1, <1>5, KeyHashInjective

\* A call for one protection, whose Sign is there or junk.
LEMMA DecryptSoundOne ==
  ASSUME NEW m, IsProtection(m), NEW b, b.hmac \in Seq(FileBytes),
         b.sign \in {Junk, ProtectedSign(m)}, NEW mk, NEW e \in Seq(FileBytes),
         NEW r \in decrypt_dpapi_blob(b, mk, e), r.ok
  PROVE  m.mk = mk /\ m.entropy = e /\ m.pt = r.value /\ to_sign(b) = to_sign(Protected(m))
<1> DEFINE M == {m}
<1>1. (\A n \in M : IsProtection(n)) /\ SignIn(b, M) /\ \A n \in M : n = m
  BY DEF SignIn
<1> HIDE DEF M
<1>2. PICK n \in M : /\ n.mk = mk /\ n.entropy = e /\ n.pt = r.value
                     /\ to_sign(b) = to_sign(Protected(n))
  BY <1>1, DecryptSound
<1> QED
  BY <1>1, <1>2

\* A blob with a field damaged, or swapped for another blob's, opens only with
\* the key it was protected under, and only to what was protected in it: a Sign
\* of another comes with the ciphertext it was made over, or is refused.
LEMMA DamagedOpensOwn ==
  ASSUME NEW m, IsProtection(m), NEW n, IsProtection(n), NEW f \in BlobFields,
         NEW b, b[f] = Noise(f) \/ b[f] = Protected(n)[f],
         \A g \in BlobFields \ {f} : b[g] = Protected(m)[g],
         NEW mk, NEW e \in Seq(FileBytes), NEW r \in decrypt_dpapi_blob(b, mk, e), r.ok
  PROVE  mk = m.mk /\ r.value = m.pt
<1> DEFINE p == Protected(m)
           q == Protected(n)
<1>1. p.hmac \in Seq(FileBytes) /\ p.sign = ProtectedSign(m)
  BY ProtectedFields
<1>2. q.hmac \in Seq(FileBytes) /\ q.sign = ProtectedSign(n)
  BY ProtectedFields
<1>3. "hmac" \in BlobFields /\ "sign" \in BlobFields /\ "ciphertext" \in BlobFields
  BY DEF BlobFields, SignedFields
<1>4. \A g \in BlobFields : b[g] \in IF g = f THEN {Noise(f), q[f]} ELSE {p[g]}
  OBVIOUS
<1>5. Noise("hmac") = <<Junk>> /\ Noise("sign") = Junk
  BY DEF Noise
<1>6. <<Junk>> \in Seq(FileBytes)
  BY DEF FileBytes
<1>7. b.hmac \in Seq(FileBytes)
  BY <1>1, <1>2, <1>3, <1>4, <1>5, <1>6
<1>8. CASE b.sign \in {Junk, ProtectedSign(m)}
  BY <1>7, <1>8, DecryptSoundOne
<1>9. CASE f = "sign" /\ b.sign = ProtectedSign(n)
  <2>1. n.mk = mk /\ n.pt = r.value /\ to_sign(b) = to_sign(q)
    BY <1>7, <1>9, DecryptSoundOne
  <2>2. b.ciphertext = q.ciphertext
    BY <2>1, RegionFields DEF SignedFields
  <2>3. b.ciphertext = p.ciphertext
    BY <1>3, <1>4, <1>9
  <2>4. ProtectedCiphertext(m) = ProtectedCiphertext(n)
    BY <2>2, <2>3, ProtectedFields
  <2> QED
    BY <2>1, <2>4, CiphertextBinds
<1> QED
  BY <1>1, <1>2, <1>3, <1>4, <1>5, <1>8, <1>9
=============================================================================
