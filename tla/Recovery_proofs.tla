-------------------------- MODULE Recovery_proofs ---------------------------
(* KeyringAuthentic, for any files, credentials, damage and mixture.          *)
EXTENDS Recovery, DpapiCrypto_proofs

PartNames == {"salt", "mac", "fill", "key"}
Words == [of : PartNames, word : Nat]
MacWord == [of |-> "mac", word |-> 1]

\* What matters of a payload: its parts were sealed in one of the files, and the
\* first word after the salt is the MAC's, if anything.
Genuine(a, sl) ==
  /\ DOMAIN sl = {"cipher", "key", "parts", "clear"}
  /\ \E g \in Files : sl.parts = SealedParts(SealOf(a[g]))
  /\ 5 \in DOMAIN sl.clear
  /\ sl.clear[5] \in {MacWord, Lost}

FileShape == /\ DOMAIN file = Files
             /\ \A f \in Files : /\ DOMAIN file[f] = SealFields
                                 /\ Genuine(seal, file[f].sealed)
                                 /\ file[f].len \in Nat

Evidence == seal \in Acquisitions /\ FileShape /\ KeyringAuthentic

-----------------------------------------------------------------------------
LEMMA WordsOfSeq ==
  ASSUME NEW p \in PartNames, NEW n \in Nat
  PROVE  WordsOf(p, n) \in Seq(Words) /\ Len(WordsOf(p, n)) = n \div 4
<1> DEFINE k == n \div 4
           w == WordsOf(p, n)
<1>1. k \in Nat
  OBVIOUS
<1>2. w = [i \in 1 .. k |-> [of |-> p, word |-> i]]
  BY DEF WordsOf, Word
<1> HIDE DEF k, w
<1>3. w \in [1 .. k -> Words]
  BY <1>2 DEF Words
<1>4. w \in Seq(Words)
  BY <1>1, <1>3
<1>5. Len(w) = k
  BY <1>1, <1>3, <1>4, LenProperties
<1>6. WordsOf(p, n) \in Seq(Words)
  BY <1>4 DEF w
<1>7. Len(WordsOf(p, n)) = n \div 4
  BY <1>5 DEF w, k
<1> QED
  BY <1>6, <1>7

LEMMA Algorithms ==
  ASSUME NEW id \in DOMAIN hash_alg_info
  PROVE  /\ MkModule(id).output_len \in {20, 64}
         /\ WindowsMkModule(id).output_len \in {20, 64}
         /\ digest_len[id] \in Nat /\ digest_len[id] >= 4
<1>1. id \in {"CALG_SHA1", "CALG_HMAC", "CALG_SHA_512"}
  BY DEF hash_alg_info
<1>2. MkModule(id).output_len \in {20, 64} /\ WindowsMkModule(id).output_len \in {20, 64}
  BY <1>1 DEF MkModule, WindowsMkModule, hash_alg_info, SHA1, Alg
<1>3. digest_len[id] \in 4 .. MkModule(id).output_len
  BY TableFits
<1> QED
  BY <1>2, <1>3

LEMMA Parts ==
  ASSUME NEW a \in Acquisitions, NEW g \in Files
  PROVE  LET s == SealOf(a[g]) IN
         /\ s.mk = a[g].mk /\ s.pre_key = WindowsPreKey(a[g].credential)
         /\ s.alg_id_hash \in DOMAIN hash_alg_info
         /\ s.alg_id_encrypt \in DOMAIN iv_len
<1>1. DOMAIN cipher_key_len = DOMAIN iv_len
  BY DEF cipher_key_len, iv_len
<1> QED
  BY <1>1, SealShape DEF SealOf

\* Where the parts of a payload stand: the salt, the MAC of m bytes, and the key
\* at the end.
Layout(z, m) ==
  /\ z \in Seq(Words)
  /\ Len(z) >= 20 + m \div 4
  /\ \A i \in 1 .. 4 : z[i] = [of |-> "salt", word |-> i]
  /\ \A i \in 1 .. m \div 4 : z[4 + i] = [of |-> "mac", word |-> i]
  /\ \A i \in 1 .. 16 : z[Len(z) - 16 + i] = [of |-> "key", word |-> i]

MacLen(s) == WindowsMkModule(s.alg_id_hash).output_len

\* The fill ends a block, whatever the length of the MAC.
LEMMA WholeBlocks ==
  ASSUME NEW m \in {20, 64}, NEW block \in {8, 16},
         NEW fill, fill = (block - ((SALT_LEN + m + MASTER_KEY_LEN) % block)) % block
  PROVE  fill \in {0, 4, 12} /\ (4 * (20 + m \div 4 + fill \div 4)) % block = 0
<1>1. CASE m = 20 /\ block = 8
  <2>1. fill = 4
    BY <1>1 DEF SALT_LEN, MASTER_KEY_LEN
  <2> QED
    BY <1>1, <2>1
<1>2. CASE m = 20 /\ block = 16
  <2>1. fill = 12
    BY <1>2 DEF SALT_LEN, MASTER_KEY_LEN
  <2> QED
    BY <1>2, <2>1
<1>3. CASE m = 64
  <2>1. fill = 0
    BY <1>3 DEF SALT_LEN, MASTER_KEY_LEN
  <2> QED
    BY <1>3, <2>1
<1> QED
  BY <1>1, <1>2, <1>3

LEMMA ClearLayout ==
  ASSUME NEW s, s.alg_id_hash \in DOMAIN hash_alg_info, s.alg_id_encrypt \in DOMAIN iv_len
  PROVE  /\ MacLen(s) \in {20, 64}
         /\ Layout(SealedClear(s), MacLen(s))
         /\ (4 * Len(SealedClear(s))) % iv_len[s.alg_id_encrypt] = 0
<1> DEFINE m == MacLen(s)
           block == iv_len[s.alg_id_encrypt]
           fill == (block - ((SALT_LEN + m + MASTER_KEY_LEN) % block)) % block
           w1 == WordsOf("salt", SALT_LEN)
           w2 == WordsOf("mac", m)
           w3 == WordsOf("fill", fill)
           w4 == WordsOf("key", MASTER_KEY_LEN)
           u == w1 \o w2
           v == u \o w3
           z == v \o w4
<1>1. m \in {20, 64} /\ block \in {8, 16}
  BY Algorithms DEF iv_len, MacLen
<1>2. fill \in {0, 4, 12} /\ (4 * (20 + m \div 4 + fill \div 4)) % block = 0
  <2> HIDE DEF m, block
  <2> QED
    BY <1>1, WholeBlocks
<1>3. SealedClear(s) = z
  BY DEF SealedClear, MacLen
<1> HIDE DEF m, fill, block
<1>4. /\ w1 \in Seq(Words) /\ w2 \in Seq(Words) /\ w3 \in Seq(Words) /\ w4 \in Seq(Words)
      /\ Len(w1) = 4 /\ Len(w2) = m \div 4 /\ Len(w3) = fill \div 4 /\ Len(w4) = 16
  <2>1. {"salt", "mac", "fill", "key"} \subseteq PartNames
    BY DEF PartNames
  <2>2. /\ SALT_LEN \in Nat /\ SALT_LEN \div 4 = 4 /\ MASTER_KEY_LEN \in Nat
        /\ MASTER_KEY_LEN \div 4 = 16 /\ m \in Nat /\ fill \in Nat
    BY <1>1, <1>2 DEF SALT_LEN, MASTER_KEY_LEN
  <2>3. w1 \in Seq(Words) /\ Len(w1) = 4
    BY <2>1, <2>2, WordsOfSeq
  <2>4. w2 \in Seq(Words) /\ Len(w2) = m \div 4
    BY <2>1, <2>2, WordsOfSeq
  <2>5. w3 \in Seq(Words) /\ Len(w3) = fill \div 4
    BY <2>1, <2>2, WordsOfSeq
  <2>6. w4 \in Seq(Words) /\ Len(w4) = 16
    BY <2>1, <2>2, WordsOfSeq
  <2> QED
    BY <2>3, <2>4, <2>5, <2>6
<1>5. \A i \in 1 .. 4 : w1[i] = [of |-> "salt", word |-> i]
  BY DEF WordsOf, Word, SALT_LEN
<1>6. \A i \in 1 .. m \div 4 : w2[i] = [of |-> "mac", word |-> i]
  BY DEF WordsOf, Word
<1>7. \A i \in 1 .. 16 : w4[i] = [of |-> "key", word |-> i]
  BY DEF WordsOf, Word, MASTER_KEY_LEN
<1>8. m \div 4 \in {5, 16} /\ fill \div 4 \in {0, 1, 3}
  BY <1>1, <1>2
<1> HIDE DEF w1, w2, w3, w4
<1>9. u \in Seq(Words)
  BY <1>4, ConcatProperties
<1>10. Len(u) = 4 + m \div 4
  <2>1. Len(w1 \o w2) = Len(w1) + Len(w2)
    BY <1>4, ConcatProperties
  <2> QED
    BY <1>4, <2>1
<1>11. \A i \in 1 .. 4 + m \div 4 : u[i] = IF i <= 4 THEN w1[i] ELSE w2[i - 4]
  <2>1. \A i \in 1 .. Len(w1) + Len(w2) :
          (w1 \o w2)[i] = IF i <= Len(w1) THEN w1[i] ELSE w2[i - Len(w1)]
    BY <1>4, ConcatProperties
  <2> QED
    BY <1>4, <2>1
<1> HIDE DEF u
<1>12. v \in Seq(Words)
  BY <1>4, <1>9, ConcatProperties
<1>13. Len(v) = 4 + m \div 4 + fill \div 4
  <2>1. Len(u \o w3) = Len(u) + Len(w3)
    BY <1>4, <1>9, ConcatProperties
  <2> QED
    BY <1>4, <1>10, <2>1
<1>14. \A i \in 1 .. 4 + m \div 4 : v[i] = u[i]
  <2>1. \A i \in 1 .. Len(u) + Len(w3) :
          (u \o w3)[i] = IF i <= Len(u) THEN u[i] ELSE w3[i - Len(u)]
    BY <1>4, <1>9, ConcatProperties
  <2> QED
    BY <1>4, <1>8, <1>10, <2>1
<1> HIDE DEF v
<1>15. z \in Seq(Words)
  BY <1>4, <1>12, ConcatProperties
<1>16. Len(z) = 20 + m \div 4 + fill \div 4
  <2>1. Len(v \o w4) = Len(v) + Len(w4)
    BY <1>4, <1>12, ConcatProperties
  <2> QED
    BY <1>4, <1>8, <1>13, <2>1
<1>17. \A i \in 1 .. Len(v) + 16 : z[i] = IF i <= Len(v) THEN v[i] ELSE w4[i - Len(v)]
  <2>1. \A i \in 1 .. Len(v) + Len(w4) :
          (v \o w4)[i] = IF i <= Len(v) THEN v[i] ELSE w4[i - Len(v)]
    BY <1>4, <1>12, ConcatProperties
  <2> QED
    BY <1>4, <2>1
<1> HIDE DEF z
<1>18. \A i \in 1 .. 4 : z[i] = [of |-> "salt", word |-> i]
  BY <1>5, <1>8, <1>11, <1>13, <1>14, <1>17
<1>19. \A i \in 1 .. m \div 4 : z[4 + i] = [of |-> "mac", word |-> i]
  <2> TAKE i \in 1 .. m \div 4
  <2>1. 4 + i \in 1 .. 4 + m \div 4 /\ 4 + i \in 1 .. Len(v) + 16
        /\ 4 + i <= Len(v) /\ ~(4 + i <= 4) /\ (4 + i) - 4 = i
    BY <1>8, <1>13
  <2> QED
    BY <1>6, <1>11, <1>14, <1>17, <2>1
<1>20. \A i \in 1 .. 16 : z[Len(z) - 16 + i] = [of |-> "key", word |-> i]
  <2> TAKE i \in 1 .. 16
  <2> DEFINE lv == Len(v)
  <2>0. lv \in Nat /\ Len(z) = lv + 16
    BY <1>8, <1>13, <1>16
  <2>1. Len(z) - 16 + i = Len(v) + i /\ Len(v) + i \in 1 .. Len(v) + 16
        /\ ~(Len(v) + i <= Len(v)) /\ (Len(v) + i) - Len(v) = i
    <3> HIDE DEF lv
    <3>1. /\ Len(z) - 16 + i = lv + i /\ lv + i \in 1 .. lv + 16
          /\ ~(lv + i <= lv) /\ (lv + i) - lv = i
      BY <2>0
    <3> QED
      BY <3>1 DEF lv
  <2> QED
    BY <1>7, <1>17, <2>1
<1>21. Layout(z, m)
  <2>1. Len(z) >= 20 + m \div 4
    BY <1>8, <1>16
  <2> QED
    BY <1>15, <2>1, <1>18, <1>19, <1>20 DEF Layout
<1> QED
  BY <1>1, <1>2, <1>3, <1>16, <1>21 DEF m, block

\* In a payload as written the MAC follows the salt, at the fifth word.
LEMMA ClearFifth ==
  ASSUME NEW s, s.alg_id_hash \in DOMAIN hash_alg_info, s.alg_id_encrypt \in DOMAIN iv_len
  PROVE  /\ 5 \in DOMAIN SealedClear(s)
         /\ SealedClear(s)[5] = MacWord
         /\ Len(SealedClear(s)) \in Nat
<1> DEFINE z == SealedClear(s)
           m == MacLen(s)
<1>1. Layout(z, m) /\ m \in {20, 64}
  BY ClearLayout
<1> HIDE DEF z, m
<1>2. Len(z) \in Nat /\ DOMAIN z = 1 .. Len(z) /\ Len(z) >= 25
  BY <1>1, LenProperties DEF Layout
<1>3. z[5] = MacWord
  <2>1. 1 \in 1 .. m \div 4 /\ 4 + 1 = 5
    BY <1>1
  <2> QED
    BY <1>1, <2>1 DEF Layout, MacWord
<1> QED
  BY <1>2, <1>3 DEF z

\* A written file has the shape of the invariant.
LEMMA WrittenGenuine ==
  ASSUME seal \in Acquisitions, NEW g \in Files
  PROVE  /\ DOMAIN Written[seal][g] = SealFields
         /\ Genuine(seal, Written[seal][g].sealed)
         /\ Written[seal][g].len \in Nat
<1> DEFINE s == SealOf(seal[g])
           sl == Written[seal][g].sealed
<1>1. Written[seal][g] = Sealed(s)
  BY DEF Written
<1>2. s.alg_id_hash \in DOMAIN hash_alg_info /\ s.alg_id_encrypt \in DOMAIN iv_len
  BY Parts
<1> HIDE DEF s
<1>3. sl = [cipher |-> s.alg_id_encrypt, key |-> SealKey(s),
            parts |-> SealedParts(s), clear |-> SealedClear(s)]
  BY <1>1 DEF Sealed, SealFields
<1>4. 5 \in DOMAIN SealedClear(s) /\ SealedClear(s)[5] = MacWord /\ Len(SealedClear(s)) \in Nat
  BY <1>2, ClearFifth
<1>5. Genuine(seal, sl)
  BY <1>3, <1>4 DEF Genuine, s
<1>6. Written[seal][g].len = HEADER_LEN + Bytelen(SealedClear(s))
  BY <1>1 DEF Sealed, SealFields
<1>7. Written[seal][g].len \in Nat
  BY <1>4, <1>6 DEF HEADER_LEN, Bytelen, Word
<1>8. DOMAIN Written[seal][g] = SealFields
  BY <1>1 DEF Sealed
<1> QED
  BY <1>5, <1>7, <1>8

\* Whatever cleartext comes out, its fifth word is the MAC's first or junk.
LEMMA CleartextFifth ==
  ASSUME NEW mk, NEW key, NEW words \in cbc_decrypt_no_pad(mk, key),
         Genuine(seal, mk.sealed), mk.len \in Nat, mk.len >= HEADER_LEN,
         5 <= Len(words)
  PROVE  /\ words \in Seq({words[i] : i \in DOMAIN words})
         /\ words[5] \in {MacWord, Lost}
<1> DEFINE n == (mk.len - HEADER_LEN) \div Word
           S == {words[i] : i \in DOMAIN words}
<1>1. n \in Nat
  BY DEF HEADER_LEN, Word
<1>2. Payload(mk) = [i \in 1 .. n |-> IF i <= Len(mk.sealed.clear)
                                       THEN mk.sealed.clear[i] ELSE Lost]
  BY DEF Payload
<1> HIDE DEF n
<1>3. words = Payload(mk) \/ words = [i \in 1 .. n |-> Lost]
  BY <1>2 DEF cbc_decrypt_no_pad
<1>4. words = [i \in 1 .. n |-> words[i]]
  BY <1>2, <1>3
<1>5. words \in [1 .. n -> S]
  BY <1>4
<1>6. words \in Seq(S)
  <2> HIDE DEF S
  <2> QED
    BY <1>1, <1>5
<1>7. Len(words) = n
  <2> HIDE DEF S
  <2>1. DOMAIN words = 1 .. Len(words) /\ Len(words) \in Nat
    BY <1>6, LenProperties
  <2> QED
    BY <1>1, <1>5, <2>1
<1>8. 5 \in 1 .. n
  BY <1>1, <1>7
<1>9. words[5] \in {MacWord, Lost}
  BY <1>2, <1>3, <1>8 DEF Genuine
<1> QED
  BY <1>6, <1>9

\* A MAC that matches is the sealed one: the slice it is compared with starts at
\* the fifth word.
LEMMA StoredMac ==
  ASSUME NEW S, NEW words \in Seq(S), NEW dlen \in Nat, dlen >= 4,
         NEW parts, DOMAIN parts = {"salt", "mac", "key"},
         LongEnough(words, dlen), words[5] \in {MacWord, Lost},
         PartAt(parts, words, SALT_LEN, SALT_LEN + dlen) # Junk
  PROVE  PartAt(parts, words, SALT_LEN, SALT_LEN + dlen) = parts.mac
<1> DEFINE b == (SALT_LEN + dlen) \div Word
           slice == Cut(words, SALT_LEN, SALT_LEN + dlen)
           n == (SALT_LEN + dlen) - SALT_LEN
           whole == PartsAt(parts, words, SALT_LEN, SALT_LEN + dlen)
<1>1. whole # {} /\ PartAt(parts, words, SALT_LEN, SALT_LEN + dlen)
                       = parts[CHOOSE p \in whole : TRUE]
  BY DEF PartAt
<1>2. PICK p \in whole : p = CHOOSE q \in whole : TRUE
  BY <1>1
<1>3. Len(words) \in Nat
  BY LenProperties
<1>4. b \in 5 .. Len(words)
  BY <1>3 DEF LongEnough, Bytelen, SALT_LEN, Word
<1>5. slice = SubSeq(words, 5, b)
  BY DEF Cut, SALT_LEN, Word
<1>6. slice[1] = words[5]
  <2> HIDE DEF b, slice
  <2> QED
    BY <1>3, <1>4, <1>5
<1>7. WordsOf(p, n)[1] = [of |-> p, word |-> 1]
  <2>1. n = dlen /\ 1 \in 1 .. n \div Word
    BY DEF SALT_LEN, Word
  <2> QED
    BY <2>1 DEF WordsOf
<1>8. p \in DOMAIN parts /\ slice = WordsOf(p, n)
  <2>1. p \in {q \in DOMAIN parts : slice = WordsOf(q, n)}
    BY <1>2, Zenon DEF PartsAt
  <2> HIDE DEF slice, n
  <2> QED
    BY <2>1
<1>9. [of |-> p, word |-> 1] \in {MacWord, Lost}
  BY <1>6, <1>7, <1>8
<1>10. p = "mac"
  BY <1>8, <1>9 DEF MacWord, Lost
<1> QED
  BY <1>1, <1>2, <1>10

\* A master key that is returned was sealed in one of the files, under the
\* pre-key supplied.
LEMMA DeriveSound ==
  ASSUME seal \in Acquisitions, FileShape, NEW f \in Files, NEW pre,
         NEW r \in derive_master_key(file[f], pre), r.ok
  PROVE  \E g \in Files : r.value = seal[g].mk /\ pre = WindowsPreKey(seal[g].credential)
<1> DEFINE mk == file[f]
           parts == mk.sealed.parts
           alg == MkModule(mk.alg_id_hash)
           dlen == digest_len[mk.alg_id_hash]
           keylen == cipher_key_len[mk.alg_id_encrypt] + iv_len[mk.alg_id_encrypt]
           key == masterkey_derive_key(alg, pre, mk.salt, keylen, mk.rounds)
<1>1. mk.len \in Nat /\ Genuine(seal, mk.sealed)
  BY DEF FileShape
<1>2. ~(mk.len < HEADER_LEN) /\ r \in derive_master_key_from_prekey(mk, pre)
  BY DEF derive_master_key, Err
<1>3. mk.alg_id_hash \in DOMAIN hash_alg_info
  BY <1>2 DEF derive_master_key_from_prekey, Err
<1>4. PICK words \in cbc_decrypt_no_pad(mk, key) :
        r = OpenCleartext(alg, dlen, pre, parts, words)
  BY <1>2 DEF derive_master_key_from_prekey, Panic, Err
<1>5. dlen \in Nat /\ dlen >= 4
  BY <1>3, Algorithms
<1> DEFINE out == MasterKeyIn(parts, words, dlen)
           stored == PartAt(parts, words, SALT_LEN, SALT_LEN + dlen)
           salt == PartAt(parts, words, 0, SALT_LEN)
<1>6. /\ LongEnough(words, dlen)
      /\ MacMatches(alg, dlen, pre, parts, words)
      /\ r.value = out
  BY <1>4 DEF OpenCleartext, Panic, Err, Ok
<1>7. Hmac(alg, Hmac(alg, pre, <<salt>>), <<out>>) = stored
  BY <1>6 DEF MacMatches
<1>8. stored # Junk
  BY <1>7, DigestNotJunk DEF Hmac
<1>9. PICK g \in Files : parts = SealedParts(SealOf(seal[g]))
  BY <1>1 DEF Genuine
<1> DEFINE s == SealOf(seal[g])
           walg == WindowsMkModule(s.alg_id_hash)
<1>10. DOMAIN parts = {"salt", "mac", "key"}
  BY <1>9 DEF SealedParts
<1>11. parts.mac = Hmac(walg, Hmac(walg, s.pre_key, <<s.hmac_salt>>), <<s.mk>>)
  BY <1>9 DEF SealedParts
<1>12. 5 <= Len(words)
  BY <1>5, <1>6 DEF LongEnough, Bytelen, SALT_LEN, Word
<1>13. /\ words \in Seq({words[i] : i \in DOMAIN words})
       /\ words[5] \in {MacWord, Lost}
  <2> HIDE DEF mk, key
  <2>1. mk.len >= HEADER_LEN
    BY <1>1, <1>2 DEF HEADER_LEN
  <2>2. words \in Seq({words[i] : i \in DOMAIN words})
    BY <1>1, <1>4, <1>12, <2>1, CleartextFifth
  <2>3. words[5] \in {MacWord, Lost}
    BY <1>1, <1>4, <1>12, <2>1, CleartextFifth
  <2> QED
    BY <2>2, <2>3
<1>14. stored = parts.mac
  <2> HIDE DEF mk, parts, dlen
  <2> QED
    BY <1>5, <1>6, <1>8, <1>10, <1>13, StoredMac
<1>15. Hmac(alg, Hmac(alg, pre, <<salt>>), <<out>>)
         = Hmac(walg, Hmac(walg, s.pre_key, <<s.hmac_salt>>), <<s.mk>>)
  BY <1>7, <1>11, <1>14
<1>16. pre = s.pre_key /\ out = s.mk
  <2> HIDE DEF mk, parts, alg, dlen, out, salt, s, walg
  <2> DEFINE T == {salt, out, s.hmac_salt, s.mk}
             k1 == Hmac(alg, pre, <<salt>>)
             k2 == Hmac(walg, s.pre_key, <<s.hmac_salt>>)
             m1 == <<out>>
             m2 == <<s.mk>>
             n1 == <<salt>>
             n2 == <<s.hmac_salt>>
  <2>1. m1 \in Seq(T) /\ m2 \in Seq(T) /\ n1 \in Seq(T) /\ n2 \in Seq(T)
    OBVIOUS
  <2>2. Hmac(alg, k1, m1) = Hmac(walg, k2, m2)
    BY <1>15
  <2>3. k1 = Hmac(alg, pre, n1) /\ k2 = Hmac(walg, s.pre_key, n2)
    OBVIOUS
  <2>4. m1 = m2 => out = s.mk
    OBVIOUS
  <2> HIDE DEF T, k1, k2, m1, m2, n1, n2
  <2>5. k1 = k2
    BY <2>1, <2>2, HmacInjective
  <2>6. m1 = m2
    BY <2>1, <2>2, HmacInjective
  <2>7. Hmac(alg, pre, n1) = Hmac(walg, s.pre_key, n2)
    BY <2>3, <2>5
  <2>8. pre = s.pre_key
    BY <2>1, <2>7, HmacInjective
  <2> QED
    BY <2>4, <2>6, <2>8
<1>17. s.mk = seal[g].mk /\ s.pre_key = WindowsPreKey(seal[g].credential)
  BY Parts
<1> QED
  BY <1>6, <1>16, <1>17

-----------------------------------------------------------------------------
LEMMA InitEvidence == Init => Evidence
<1> SUFFICES ASSUME Init PROVE Evidence
  OBVIOUS
<1>1. seal \in Acquisitions /\ file = Written[seal] /\ keyring = {}
  BY DEF Init
<1>2. DOMAIN file = Files
  BY <1>1 DEF Written
<1>3. FileShape
  BY <1>1, <1>2, WrittenGenuine DEF FileShape
<1> QED
  BY <1>1, <1>3 DEF Evidence, KeyringAuthentic

\* Garbling a block leaves the parts, and the fifth word the MAC's or junk.
LEMMA GarbledGenuine ==
  ASSUME NEW a, NEW sl, Genuine(a, sl), NEW i PROVE Genuine(a, Garbled(sl, i))
<1> DEFINE block == iv_len[sl.cipher] \div Word
           clear == [w \in DOMAIN sl.clear |-> IF (w - 1) \div block \in {i, i + 1}
                                               THEN Lost ELSE sl.clear[w]]
<1>1. Garbled(sl, i) = [sl EXCEPT !.clear = clear]
  BY DEF Garbled
<1>2. DOMAIN clear = DOMAIN sl.clear /\ clear[5] \in {sl.clear[5], Lost}
  BY DEF Genuine
<1> HIDE DEF clear
<1> QED
  BY <1>1, <1>2 DEF Genuine

\* A field of a file may become anything that leaves the shape.
LEMMA ReplaceInv ==
  ASSUME Evidence, NEW f \in Files, NEW field \in SealFields, NEW v, Replace(f, field, v),
         field = "sealed" => Genuine(seal, v), field = "len" => v \in Nat
  PROVE  Evidence'
<1>1. /\ file' = [file EXCEPT ![f] = [file[f] EXCEPT ![field] = v]]
      /\ seal' = seal /\ keyring' = keyring
  BY DEF Replace
<1>2. DOMAIN file' = Files
  BY <1>1 DEF Evidence, FileShape
<1>3. ASSUME NEW g \in Files
      PROVE  DOMAIN file'[g] = SealFields /\ Genuine(seal', file'[g].sealed) /\ file'[g].len \in Nat
  <2>1. CASE g # f
    BY <1>1, <1>3, <2>1 DEF Evidence, FileShape, Genuine
  <2>2. CASE g = f
    <3>1. file'[g] = [file[f] EXCEPT ![field] = v] /\ DOMAIN file[f] = SealFields
      BY <1>1, <2>2 DEF Evidence, FileShape
    <3>2. DOMAIN file'[g] = SealFields
      BY <3>1
    <3>3. /\ file'[g].sealed = IF field = "sealed" THEN v ELSE file[f].sealed
          /\ file'[g].len = IF field = "len" THEN v ELSE file[f].len
      BY <3>1 DEF SealFields
    <3>4. Genuine(seal', file'[g].sealed)
      BY <1>1, <3>3 DEF Evidence, FileShape
    <3> QED
      BY <3>2, <3>3, <3>4 DEF Evidence, FileShape
  <2> QED
    BY <2>1, <2>2
<1>4. FileShape'
  BY <1>2, <1>3 DEF FileShape
<1> QED
  BY <1>1, <1>4 DEF Evidence, KeyringAuthentic

LEMMA StepEvidence == Evidence /\ [Next]_vars => Evidence'
<1> SUFFICES ASSUME Evidence, [Next]_vars PROVE Evidence'
  OBVIOUS
<1>1. ASSUME NEW f \in Files, NEW g \in Files, NEW field \in SealFields, Mix(f, g, field)
      PROVE  Evidence'
  <2>1. /\ Genuine(seal, Written[seal][g].sealed) /\ Written[seal][g].len \in Nat
    BY WrittenGenuine DEF Evidence
  <2> QED
    BY <1>1, <2>1, ReplaceInv DEF Mix
<1>2. ASSUME NEW f \in Files, NEW i, DamagePayload(f, i) PROVE Evidence'
  <2>1. Genuine(seal, Garbled(file[f].sealed, i))
    BY GarbledGenuine DEF Evidence, FileShape
  <2>2. "sealed" \in SealFields
    BY DEF SealFields
  <2> QED
    BY <1>2, <2>1, <2>2, ReplaceInv DEF DamagePayload
<1>3. ASSUME NEW f \in Files, Damage(f) PROVE Evidence'
  <2>1. PICK field \in DOMAIN Damaged : \E v \in Damaged[field] : Replace(f, field, v)
    BY <1>3 DEF Damage
  <2>2. PICK v \in Damaged[field] : Replace(f, field, v)
    BY <2>1
  <2>3. field \in SealFields /\ field # "sealed"
    BY DEF Damaged, SealFields
  <2>4. field = "len" => v \in Nat
    BY SizesShape DEF Damaged
  <2> QED
    BY <2>2, <2>3, <2>4, ReplaceInv
<1>4. ASSUME NEW f \in Files, NEW c \in Credentials, Derive(f, c) PROVE Evidence'
  <2>1. seal' = seal /\ file' = file
    BY <1>4 DEF Derive
  <2>2. PICK r \in derive(f, c) :
          keyring' = IF r.ok THEN keyring \cup {[guid |-> file[f].guid, credential |-> c,
                                                  key |-> r.value]}
                             ELSE keyring
    BY <1>4 DEF Derive
  <2>3. r \in derive_master_key(file[f], WindowsPreKey(c))
    BY <2>2 DEF derive, derive_master_key_from_password, prekey_from_password,
                prekey_from_sha1, WindowsPreKey
  <2>4. FileShape'
    BY <2>1 DEF Evidence, FileShape, Genuine
  <2>5. KeyringAuthentic'
    <3>1. CASE ~r.ok
      BY <2>1, <2>2, <3>1 DEF Evidence, KeyringAuthentic
    <3>2. CASE r.ok
      <4>1. \E g \in Files : r.value = seal[g].mk
                             /\ WindowsPreKey(c) = WindowsPreKey(seal[g].credential)
        BY <2>3, <3>2, DeriveSound DEF Evidence
      <4> QED
        BY <2>1, <2>2, <3>2, <4>1 DEF Evidence, KeyringAuthentic
    <3> QED
      BY <3>1, <3>2
  <2> QED
    BY <2>1, <2>4, <2>5 DEF Evidence
<1>5. ASSUME NEW f \in Files, DeriveFromBackup(f) PROVE Evidence'
  BY <1>5 DEF DeriveFromBackup, Evidence, FileShape, Genuine, KeyringAuthentic
<1>6. ASSUME NEW b \in Blobs, NEW mk, Decrypt(b, mk) PROVE Evidence'
  BY <1>6 DEF Decrypt, Evidence, FileShape, Genuine, KeyringAuthentic
<1>7. CASE UNCHANGED vars
  BY <1>7 DEF vars, Evidence, FileShape, Genuine, KeyringAuthentic
<1> QED
  BY <1>1, <1>2, <1>3, <1>4, <1>5, <1>6, <1>7 DEF Next

-----------------------------------------------------------------------------
(* An undamaged file.                                                         *)

\* The slice of a cleartext where the words of a part stand is that part.
LEMMA PartIs ==
  ASSUME NEW S, NEW words \in Seq(S), NEW parts, NEW p \in DOMAIN parts,
         NEW a \in Nat, NEW b \in Nat, a % 4 = 0, b % 4 = 0, a < b, b <= 4 * Len(words),
         \A i \in 1 .. (b - a) \div 4 : words[a \div 4 + i] = [of |-> p, word |-> i]
  PROVE  PartAt(parts, words, a, b) = parts[p]
<1> DEFINE x == a \div 4
           y == b \div 4
           slice == SubSeq(words, x + 1, y)
           T == S \cup {[of |-> p, word |-> i] : i \in 1 .. y - x}
<1>1. /\ x \in Nat /\ y \in Nat /\ a = 4 * x /\ b = 4 * y
      /\ (b - a) \div 4 = y - x /\ y - x >= 1
  OBVIOUS
<1>2. Len(words) \in Nat /\ y <= Len(words)
  BY <1>1, LenProperties
<1> HIDE DEF x, y
<1>3. \A i \in 1 .. y - x : words[x + i] = [of |-> p, word |-> i]
  BY <1>1 DEF x
<1>4. \A i \in x + 1 .. y : words[i] \in T
  <2> TAKE i \in x + 1 .. y
  <2>1. words[i] \in S
    BY <1>1, <1>2, ElementOfSeq
  <2> QED
    BY <2>1
<1> HIDE DEF T
<1>5. /\ slice \in Seq(T)
      /\ Len(slice) = y - x
      /\ \A i \in 1 .. y - x : slice[i] = words[x + i]
  <2> DEFINE u == x + 1
  <2>1. u \in Int /\ y \in Int /\ u <= y /\ y - u + 1 = y - x
    <3>1. x \in Nat /\ y \in Nat /\ y - x >= 1
      BY <1>1
    <3> QED
      BY ONLY <3>1 DEF u
  <2>2. \A i \in u .. y : words[i] \in T
    BY <1>4
  <2>3. slice = SubSeq(words, u, y)
    OBVIOUS
  <2>4. \A i \in 1 .. y - x : u + i - 1 = x + i
    BY <1>1
  <2> HIDE DEF u, slice
  <2>5. slice \in Seq(T)
    BY <2>1, <2>2, <2>3, SubSeqProperties
  <2>6. Len(slice) = y - x
    BY <2>1, <2>2, <2>3, SubSeqProperties
  <2>7. \A i \in 1 .. y - u + 1 : slice[i] = words[u + i - 1]
    BY <2>1, <2>2, <2>3, SubSeqProperties
  <2> QED
    BY <2>1, <2>4, <2>5, <2>6, <2>7
<1>6. Cut(words, a, b) = slice
  BY DEF Cut, Word, x, y
<1> HIDE DEF slice
<1>7. \A q : WordsOf(q, b - a) = [i \in 1 .. y - x |-> [of |-> q, word |-> i]]
  BY <1>1 DEF WordsOf, Word
<1>8. slice = WordsOf(p, b - a)
  <2>1. slice = [i \in 1 .. y - x |-> slice[i]]
    BY <1>5, LenProperties
  <2>2. \A i \in 1 .. y - x : slice[i] = [of |-> p, word |-> i]
    BY <1>3, <1>5
  <2>3. slice = [i \in 1 .. y - x |-> [of |-> p, word |-> i]]
    BY <2>1, <2>2
  <2>4. WordsOf(p, b - a) = [i \in 1 .. y - x |-> [of |-> p, word |-> i]]
    BY <1>7
  <2> QED
    BY <2>3, <2>4
<1>9. \A q : slice = WordsOf(q, b - a) => q = p
  <2> TAKE q
  <2>1. 1 \in 1 .. y - x
    BY <1>1
  <2>2. WordsOf(q, b - a)[1] = [of |-> q, word |-> 1]
    <3>1. WordsOf(q, b - a) = [i \in 1 .. y - x |-> [of |-> q, word |-> i]]
      BY <1>7
    <3> QED
      BY <2>1, <3>1
  <2>3. slice[1] = [of |-> p, word |-> 1]
    BY <1>3, <1>5, <2>1
  <2> QED
    BY <2>2, <2>3
<1>10. PartsAt(parts, words, a, b) = {p}
  BY <1>6, <1>8, <1>9 DEF PartsAt
<1> QED
  BY <1>10 DEF PartAt

\* In words that are all lost no part is found.
LEMMA NoPartIs ==
  ASSUME NEW words, NEW n \in Nat, words = [i \in 1 .. n |-> Lost], NEW parts,
         DOMAIN parts = {"salt", "mac", "key"},
         NEW a \in Nat, NEW b \in Nat, a % 4 = 0, b % 4 = 0, a < b, b <= 4 * n
  PROVE  PartAt(parts, words, a, b) = Junk
<1> DEFINE x == a \div 4
           y == b \div 4
           slice == SubSeq(words, x + 1, y)
<1>1. /\ x \in Nat /\ y \in Nat /\ (b - a) \div 4 = y - x /\ y - x >= 1 /\ y <= n
  OBVIOUS
<1> HIDE DEF x, y
<1>2. slice[1] = Lost
  <2> DEFINE u == x + 1
  <2>1. u \in Int /\ y \in Int /\ 1 \in 1 .. y - u + 1 /\ u + 1 - 1 = u /\ u \in 1 .. n
    BY <1>1
  <2>2. \A i \in u .. y : words[i] \in {Lost}
    BY <1>1
  <2>3. slice = SubSeq(words, u, y)
    OBVIOUS
  <2>4. words[u] = Lost
    BY <2>1
  <2> HIDE DEF u, slice
  <2>5. \A i \in 1 .. y - u + 1 : slice[i] = words[u + i - 1]
    BY <2>1, <2>2, <2>3, SubSeqProperties
  <2> QED
    BY <2>1, <2>4, <2>5
<1>3. Cut(words, a, b) = slice
  BY DEF Cut, Word, x, y
<1>4. \A q : WordsOf(q, b - a)[1] = [of |-> q, word |-> 1]
  BY <1>1 DEF WordsOf, Word
<1> HIDE DEF slice
<1>5. \A q \in DOMAIN parts : slice # WordsOf(q, b - a)
  <2> SUFFICES ASSUME NEW q \in DOMAIN parts, slice = WordsOf(q, b - a) PROVE FALSE
    OBVIOUS
  <2>1. Lost = [of |-> q, word |-> 1]
    BY <1>2, <1>4
  <2>2. q = "lost"
    BY <2>1 DEF Lost
  <2> QED
    BY <2>2
<1>6. PartsAt(parts, words, a, b) = {}
  BY <1>3, <1>5 DEF PartsAt
<1> QED
  BY <1>6 DEF PartAt

IsSeal(s) == /\ s.alg_id_hash \in DOMAIN hash_alg_info
             /\ s.alg_id_encrypt \in DOMAIN iv_len
             /\ s.rounds \in Nat \ {0}

\* What the file of a sealing says, and that its payload is all there.
LEMMA SealedFile ==
  ASSUME NEW s, IsSeal(s)
  PROVE  /\ Sealed(s).salt = s.salt /\ Sealed(s).rounds = s.rounds
         /\ Sealed(s).alg_id_hash = s.alg_id_hash
         /\ Sealed(s).alg_id_encrypt = s.alg_id_encrypt
         /\ Sealed(s).sealed = [cipher |-> s.alg_id_encrypt, key |-> SealKey(s),
                                parts |-> SealedParts(s), clear |-> SealedClear(s)]
         /\ ~(Sealed(s).len < HEADER_LEN)
         /\ (Sealed(s).len - HEADER_LEN) % iv_len[s.alg_id_encrypt] = 0
         /\ Payload(Sealed(s)) = SealedClear(s)
<1> DEFINE z == SealedClear(s)
           mk == Sealed(s)
<1>1. /\ mk.salt = s.salt /\ mk.rounds = s.rounds /\ mk.alg_id_hash = s.alg_id_hash
      /\ mk.alg_id_encrypt = s.alg_id_encrypt
      /\ mk.sealed = [cipher |-> s.alg_id_encrypt, key |-> SealKey(s),
                      parts |-> SealedParts(s), clear |-> z]
      /\ mk.len = HEADER_LEN + Bytelen(z)
  BY DEF Sealed, SealFields
<1>2. z \in Seq(Words) /\ (4 * Len(z)) % iv_len[s.alg_id_encrypt] = 0
  BY ClearLayout DEF IsSeal, Layout
<1>3. Len(z) \in Nat /\ z = [i \in 1 .. Len(z) |-> z[i]]
  <2> HIDE DEF z
  <2> QED
    BY <1>2, LenProperties
<1> HIDE DEF z, mk
<1>4. mk.len = 32 + 4 * Len(z)
  BY <1>1, <1>3 DEF HEADER_LEN, Bytelen, Word
<1>5. /\ ~(mk.len < HEADER_LEN) /\ mk.len - HEADER_LEN = 4 * Len(z)
      /\ (mk.len - HEADER_LEN) \div Word = Len(z)
  <2>1. \A k \in Nat : /\ ~(32 + 4 * k < 32) /\ (32 + 4 * k) - 32 = 4 * k
                       /\ (4 * k) \div 4 = k
    OBVIOUS
  <2> QED
    BY <1>3, <1>4, <2>1 DEF HEADER_LEN, Word
<1>6. Payload(mk) = z
  <2>1. Payload(mk) = [i \in 1 .. Len(z) |-> IF i <= Len(z) THEN z[i] ELSE Lost]
    BY <1>1, <1>5 DEF Payload
  <2> QED
    BY <1>3, <2>1
<1> QED
  BY <1>1, <1>2, <1>5, <1>6 DEF mk, z

\* The guard on the length of the cleartext is enough for each slice of it.
LEMMA GuardHolds ==
  ASSUME NEW words, Len(words) \in Nat, NEW dlen \in Nat, LongEnough(words, dlen)
  PROVE  InRange(Slices(words, dlen), Bytelen(words))
<1>1. /\ 64 <= Bytelen(words) /\ 16 + dlen <= Bytelen(words) /\ Bytelen(words) \in Nat
      /\ Slices(words, dlen) = {<<Bytelen(words) - 64, Bytelen(words)>>, <<0, 16>>,
                               <<16, 16 + dlen>>}
  BY DEF LongEnough, Slices, Bytelen, Word, SALT_LEN, MASTER_KEY_LEN
<1> QED
  BY <1>1 DEF InRange

\* The blocks derived are enough for key and IV.
LEMMA BlocksSuffice ==
  ASSUME NEW id \in DOMAIN hash_alg_info, NEW cipher \in DOMAIN cipher_key_len,
         NEW pre, NEW salt, NEW rounds
  PROVE  LET keylen == cipher_key_len[cipher] + iv_len[cipher]
         IN InRange(KeySlices(cipher),
                    masterkey_derive_key(MkModule(id), pre, salt, keylen, rounds).len)
<1> DEFINE keylen == cipher_key_len[cipher] + iv_len[cipher]
           out == MkModule(id).output_len
           blocks == (keylen + out - 1) \div out
           len == masterkey_derive_key(MkModule(id), pre, salt, keylen, rounds).len
<1>1. out \in {20, 64}
  BY Algorithms
<1>2. /\ cipher_key_len[cipher] \in {24, 32} /\ iv_len[cipher] \in {8, 16}
      /\ keylen \in {32, 48, 40}
  BY DEF iv_len, cipher_key_len
<1>3. len = IF blocks * out < keylen THEN blocks * out ELSE keylen
  BY DEF masterkey_derive_key, IteratedKey, KeyMaterial
<1>4. ~(blocks * out < keylen)
  <2>1. \A o \in {20, 64}, k \in {32, 48, 40} : ~(((k + o - 1) \div o) * o < k)
    OBVIOUS
  <2> HIDE DEF keylen, out
  <2> QED
    BY <1>1, <1>2, <2>1
<1>5. len = keylen
  BY <1>3, <1>4
<1> HIDE DEF len
<1> QED
  BY <1>2, <1>5 DEF InRange, KeySlices, len

\* What the derivation slices by: the digest the table declares is not longer
\* than the MAC the file holds.
LEMMA SliceLengths ==
  ASSUME NEW s, IsSeal(s)
  PROVE  LET dlen == digest_len[s.alg_id_hash]
             z == SealedClear(s)
         IN /\ dlen \in Nat /\ dlen >= 4 /\ dlen % 4 = 0 /\ dlen <= MacLen(s)
            /\ Len(z) \in Nat /\ 64 + 16 + dlen <= 4 * Len(z)
            /\ LongEnough(z, dlen) /\ InRange(Slices(z, dlen), Bytelen(z))
            /\ s.alg_id_encrypt \in DOMAIN cipher_key_len
            /\ MkModule(s.alg_id_hash) = WindowsMkModule(s.alg_id_hash)
<1> DEFINE dlen == digest_len[s.alg_id_hash]
           z == SealedClear(s)
           m == MacLen(s)
<1>1. MkModule(s.alg_id_hash) = WindowsMkModule(s.alg_id_hash)
  BY DEF MkModule, WindowsMkModule
<1>2. m \in {20, 64} /\ Layout(z, m)
  BY ClearLayout DEF IsSeal
<1>3. dlen \in 4 .. m /\ dlen % 4 = 0
  BY <1>1, TableFits DEF IsSeal, MacLen
<1>4. s.alg_id_encrypt \in DOMAIN cipher_key_len
  BY DEF IsSeal, iv_len, cipher_key_len
<1> HIDE DEF dlen, z, m
<1>5. Len(z) \in Nat /\ Len(z) >= 20 + m \div 4
  BY <1>2, LenProperties DEF Layout
<1>6. 64 + 16 + dlen <= 4 * Len(z)
  BY <1>2, <1>3, <1>5
<1>8. dlen \in Nat /\ dlen >= 4 /\ dlen <= m
  BY <1>2, <1>3
<1>7. LongEnough(z, dlen) /\ InRange(Slices(z, dlen), Bytelen(z))
  <2>1. LongEnough(z, dlen)
    BY <1>2, <1>3, <1>5, <1>6 DEF LongEnough, Bytelen, Word, SALT_LEN, MASTER_KEY_LEN
  <2> QED
    BY <1>5, <1>8, <2>1, GuardHolds
<1> QED
  BY <1>1, <1>3, <1>4, <1>5, <1>6, <1>7, <1>8 DEF dlen, z, m

\* The parts are found where they were put.
LEMMA PartsFound ==
  ASSUME NEW s, IsSeal(s), NEW dlen, dlen = digest_len[s.alg_id_hash]
  PROVE  /\ PartAt(SealedParts(s), SealedClear(s), 0, SALT_LEN) = s.hmac_salt
         /\ PartAt(SealedParts(s), SealedClear(s), SALT_LEN, SALT_LEN + dlen)
              = SealedParts(s).mac
         /\ MasterKeyIn(SealedParts(s), SealedClear(s), dlen) = s.mk
<1> DEFINE z == SealedClear(s)
           m == MacLen(s)
           parts == SealedParts(s)
<1>1. m \in {20, 64} /\ Layout(z, m)
  BY ClearLayout DEF IsSeal
<1>2. /\ dlen \in Nat /\ dlen >= 4 /\ dlen % 4 = 0 /\ dlen <= m
      /\ Len(z) \in Nat /\ 64 + 16 + dlen <= 4 * Len(z)
  BY SliceLengths
<1>3. DOMAIN parts = {"salt", "mac", "key"} /\ parts.salt = s.hmac_salt /\ parts.key = s.mk
  BY DEF SealedParts
<1> HIDE DEF z, m, parts
<1>4. z \in Seq(Words)
  BY <1>1 DEF Layout
<1>5. PartAt(parts, z, 0, 16) = parts["salt"]
  <2> DEFINE p == "salt"
             a == 0
             b == 16
  <2>1. /\ a \in Nat /\ b \in Nat /\ a % 4 = 0 /\ b % 4 = 0 /\ a < b
        /\ a \div 4 = 0 /\ (b - a) \div 4 = 4
    OBVIOUS
  <2>2. b <= 4 * Len(z)
    BY <1>2
  <2>3. \A i \in 1 .. 4 : z[0 + i] = [of |-> p, word |-> i]
    <3> TAKE i \in 1 .. 4
    <3>1. 0 + i = i
      OBVIOUS
    <3>2. z[i] = [of |-> p, word |-> i]
      BY <1>1 DEF Layout
    <3> QED
      BY <3>1, <3>2
  <2>4. p \in DOMAIN parts
    BY <1>3
  <2> HIDE DEF p, a, b
  <2>5. \A i \in 1 .. (b - a) \div 4 : z[a \div 4 + i] = [of |-> p, word |-> i]
    BY <2>1, <2>3
  <2>6. PartAt(parts, z, a, b) = parts[p]
    <3>1. /\ a \in Nat /\ b \in Nat /\ a % 4 = 0 /\ b % 4 = 0 /\ a < b
          /\ b <= 4 * Len(z)
      BY <2>1, <2>2
    <3> QED
      BY <1>4, <2>4, <2>5, <3>1, PartIs
  <2> QED
    BY <2>6 DEF p, a, b
<1>6. PartAt(parts, z, 16, 16 + dlen) = parts["mac"]
  <2> DEFINE p == "mac"
             a == 16
             b == 16 + dlen
  <2>1. /\ a \in Nat /\ b \in Nat /\ a % 4 = 0 /\ b % 4 = 0 /\ a < b
        /\ a \div 4 = 4 /\ (b - a) \div 4 = dlen \div 4
    BY <1>2
  <2>2. b <= 4 * Len(z)
    BY <1>2
  <2>3. \A i \in 1 .. m \div 4 : z[4 + i] = [of |-> p, word |-> i]
    BY <1>1 DEF Layout
  <2>4. p \in DOMAIN parts
    BY <1>3
  <2> HIDE DEF p, a, b
  <2>6. \A i \in 1 .. dlen \div 4 : i \in 1 .. m \div 4
    BY <1>1, <1>2
  <2>7. \A i \in 1 .. (b - a) \div 4 : z[a \div 4 + i] = [of |-> p, word |-> i]
    BY <2>1, <2>3, <2>6
  <2>8. PartAt(parts, z, a, b) = parts[p]
    <3>1. /\ a \in Nat /\ b \in Nat /\ a % 4 = 0 /\ b % 4 = 0 /\ a < b
          /\ b <= 4 * Len(z)
      BY <2>1, <2>2
    <3> QED
      BY <1>4, <2>4, <2>7, <3>1, PartIs
  <2> QED
    BY <2>8 DEF p, a, b
<1>7. PartAt(parts, z, 4 * Len(z) - 64, 4 * Len(z)) = parts["key"]
  <2> DEFINE p == "key"
             a == 4 * Len(z) - 64
             b == 4 * Len(z)
  <2>1. /\ a \in Nat /\ b \in Nat /\ a % 4 = 0 /\ b % 4 = 0 /\ a < b
        /\ a \div 4 = Len(z) - 16 /\ (b - a) \div 4 = 16
    BY <1>2
  <2>2. b <= 4 * Len(z)
    BY <1>2
  <2>3. \A i \in 1 .. 16 : z[Len(z) - 16 + i] = [of |-> p, word |-> i]
    BY <1>1 DEF Layout
  <2>4. p \in DOMAIN parts
    BY <1>3
  <2> HIDE DEF p, a, b
  <2>5. \A i \in 1 .. (b - a) \div 4 : z[a \div 4 + i] = [of |-> p, word |-> i]
    BY <2>1, <2>3
  <2>6. PartAt(parts, z, a, b) = parts[p]
    <3>1. /\ a \in Nat /\ b \in Nat /\ a % 4 = 0 /\ b % 4 = 0 /\ a < b
          /\ b <= 4 * Len(z)
      BY <2>1, <2>2
    <3> QED
      BY <1>4, <2>4, <2>5, <3>1, PartIs
  <2> QED
    BY <2>6 DEF p, a, b
<1>8. MasterKeyIn(parts, z, dlen) = parts["key"]
  BY <1>7 DEF MasterKeyIn, Bytelen, Word, MASTER_KEY_LEN
<1> QED
  BY <1>3, <1>5, <1>6, <1>8 DEF SALT_LEN, z, parts

\* The pre-key a file was sealed under opens it.
LEMMA SealedOpens ==
  ASSUME NEW s, IsSeal(s)
  PROVE  derive_master_key(Sealed(s), s.pre_key) = {Ok(s.mk)}
<1> DEFINE mk == Sealed(s)
           z == SealedClear(s)
           parts == SealedParts(s)
           alg == MkModule(s.alg_id_hash)
           dlen == digest_len[s.alg_id_hash]
           keylen == cipher_key_len[s.alg_id_encrypt] + iv_len[s.alg_id_encrypt]
           key == masterkey_derive_key(alg, s.pre_key, s.salt, keylen, s.rounds)
<1>0. s.alg_id_hash \in DOMAIN hash_alg_info /\ s.alg_id_encrypt \in DOMAIN cipher_key_len
  BY SliceLengths DEF IsSeal
<1>1. key = SealKey(s)
  <2>1. saturating_sub(s.rounds, 1) = s.rounds - 1
    BY DEF saturating_sub, IsSeal
  <2> QED
    BY <2>1, SliceLengths DEF masterkey_derive_key, SealKey
<1>2. cbc_decrypt_no_pad(mk, key) = {z}
  <2>1. /\ mk.sealed.cipher = s.alg_id_encrypt /\ mk.sealed.key = SealKey(s)
        /\ mk.alg_id_encrypt = s.alg_id_encrypt /\ Payload(mk) = z
    <3> HIDE DEF mk, z
    <3>1. /\ mk.sealed = [cipher |-> s.alg_id_encrypt, key |-> SealKey(s),
                          parts |-> parts, clear |-> z]
          /\ mk.alg_id_encrypt = s.alg_id_encrypt /\ Payload(mk) = z
      BY SealedFile DEF mk, z
    <3> QED
      BY <3>1
  <2> HIDE DEF mk, z, key
  <2> QED
    BY <1>1, <2>1 DEF cbc_decrypt_no_pad
<1>3. derive_master_key(mk, s.pre_key) = {OpenCleartext(alg, dlen, s.pre_key, parts, z)}
  <2>1. mk.sealed.parts = parts
    <3> HIDE DEF mk, parts
    <3>1. mk.sealed = [cipher |-> s.alg_id_encrypt, key |-> SealKey(s),
                      parts |-> parts, clear |-> z]
      BY SealedFile DEF mk, parts
    <3> QED
      BY <3>1
  <2>2. derive_master_key(mk, s.pre_key)
          = {OpenCleartext(alg, dlen, s.pre_key, mk.sealed.parts, words)
               : words \in cbc_decrypt_no_pad(mk, key)}
    <3> HIDE DEF mk
    <3>1. /\ mk.salt = s.salt /\ mk.rounds = s.rounds /\ mk.alg_id_hash = s.alg_id_hash
          /\ mk.alg_id_encrypt = s.alg_id_encrypt
          /\ ~(mk.len < HEADER_LEN)
          /\ (mk.len - HEADER_LEN) % iv_len[s.alg_id_encrypt] = 0
      BY SealedFile DEF mk
    <3>2. InRange(KeySlices(s.alg_id_encrypt), key.len)
      BY <1>0, BlocksSuffice
    <3>3. s.alg_id_hash \in DOMAIN hash_alg_info /\ s.alg_id_encrypt \in DOMAIN cipher_key_len
      BY <1>0
    <3> QED
      BY <3>1, <3>2, <3>3 DEF derive_master_key, derive_master_key_from_prekey
  <2> HIDE DEF mk, key, parts, z, alg, dlen
  <2> QED
    BY <1>2, <2>1, <2>2
<1>4. MacMatches(alg, dlen, s.pre_key, parts, z)
  BY PartsFound, SliceLengths DEF MacMatches, SealedParts
<1>5. OpenCleartext(alg, dlen, s.pre_key, parts, z) = Ok(s.mk)
  BY <1>4, PartsFound, SliceLengths DEF OpenCleartext
<1> QED
  BY <1>3, <1>5

\* Any other derives another key, whose cleartext is lost, and is refused by the
\* MAC that is not found there: never as a file too short or not supported.
LEMMA SealedRefuses ==
  ASSUME NEW s, IsSeal(s), NEW pre, pre # s.pre_key,
         NEW r \in derive_master_key(Sealed(s), pre)
  PROVE  r = Err("HmacMismatch")
<1> DEFINE mk == Sealed(s)
           z == SealedClear(s)
           parts == SealedParts(s)
           alg == MkModule(s.alg_id_hash)
           dlen == digest_len[s.alg_id_hash]
           keylen == cipher_key_len[s.alg_id_encrypt] + iv_len[s.alg_id_encrypt]
           key == masterkey_derive_key(alg, pre, s.salt, keylen, s.rounds)
           lost == [i \in DOMAIN z |-> Lost]
<1>0. s.alg_id_hash \in DOMAIN hash_alg_info /\ s.alg_id_encrypt \in DOMAIN cipher_key_len
  BY SliceLengths DEF IsSeal
<1>1. key # SealKey(s)
  <2> DEFINE first(p) == Hmac(alg, p, <<[salt |-> s.salt, block |-> 1]>>)
             blocks == 1 .. (keylen + alg.output_len - 1) \div alg.output_len
  <2>1. key.blocks = [i \in blocks |-> Iterated(alg, pre, s.salt, i, saturating_sub(s.rounds, 1))]
    BY DEF masterkey_derive_key, IteratedKey, KeyMaterial
  <2>2. SealKey(s).blocks = [i \in blocks |-> Iterated(alg, s.pre_key, s.salt, i, s.rounds - 1)]
    BY SliceLengths DEF SealKey, IteratedKey, KeyMaterial
  <2>3. 1 \in blocks
    <3>1. keylen \in {32, 48, 40}
      BY DEF IsSeal, iv_len, cipher_key_len
    <3>2. alg.output_len \in {20, 64}
      BY Algorithms DEF IsSeal
    <3> HIDE DEF keylen, alg
    <3> QED
      BY <3>1, <3>2
  <2> HIDE DEF blocks, key, alg
  <2>4. key.blocks[1].first = first(pre) /\ SealKey(s).blocks[1].first = first(s.pre_key)
    BY <2>1, <2>2, <2>3 DEF Iterated
  <2>5. first(pre) # first(s.pre_key)
    <3> DEFINE m == <<[salt |-> s.salt, block |-> 1]>>
               T == {[salt |-> s.salt, block |-> 1]}
    <3>1. m \in Seq(T)
      OBVIOUS
    <3> HIDE DEF m, T
    <3>2. Hmac(alg, pre, m) # Hmac(alg, s.pre_key, m)
      BY <3>1, HmacInjective
    <3> QED
      BY <3>2 DEF m
  <2> QED
    BY <2>4, <2>5
<1>2. z \in Seq(Words) /\ DOMAIN z = 1 .. Len(z) /\ Len(z) \in Nat
  <2>1. z \in Seq(Words)
    BY ClearLayout DEF IsSeal, Layout
  <2> HIDE DEF z
  <2> QED
    BY <2>1, LenProperties
<1>3. cbc_decrypt_no_pad(mk, key) = {lost}
  <2>1. /\ mk.sealed.key = SealKey(s) /\ Payload(mk) = z
    <3> HIDE DEF mk, z
    <3>1. /\ mk.sealed = [cipher |-> s.alg_id_encrypt, key |-> SealKey(s),
                          parts |-> parts, clear |-> z]
          /\ Payload(mk) = z
      BY SealedFile DEF mk, z
    <3> QED
      BY <3>1
  <2> HIDE DEF mk, z, key
  <2> QED
    BY <1>1, <2>1 DEF cbc_decrypt_no_pad
<1>4. r = OpenCleartext(alg, dlen, pre, parts, lost)
  <2>1. mk.sealed.parts = parts
    <3> HIDE DEF mk, parts
    <3>1. mk.sealed = [cipher |-> s.alg_id_encrypt, key |-> SealKey(s),
                      parts |-> parts, clear |-> z]
      BY SealedFile DEF mk, parts
    <3> QED
      BY <3>1
  <2>2. derive_master_key(mk, pre)
          = {OpenCleartext(alg, dlen, pre, mk.sealed.parts, words)
               : words \in cbc_decrypt_no_pad(mk, key)}
    <3> HIDE DEF mk
    <3>1. /\ mk.salt = s.salt /\ mk.rounds = s.rounds /\ mk.alg_id_hash = s.alg_id_hash
          /\ mk.alg_id_encrypt = s.alg_id_encrypt
          /\ ~(mk.len < HEADER_LEN)
          /\ (mk.len - HEADER_LEN) % iv_len[s.alg_id_encrypt] = 0
      BY SealedFile DEF mk
    <3>2. InRange(KeySlices(s.alg_id_encrypt), key.len)
      BY <1>0, BlocksSuffice
    <3>3. s.alg_id_hash \in DOMAIN hash_alg_info /\ s.alg_id_encrypt \in DOMAIN cipher_key_len
      BY <1>0
    <3> QED
      BY <3>1, <3>2, <3>3 DEF derive_master_key, derive_master_key_from_prekey
  <2>3. r \in derive_master_key(mk, pre)
    OBVIOUS
  <2> HIDE DEF mk, key, parts, z, alg, dlen, lost
  <2> QED
    BY <1>3, <2>1, <2>2, <2>3
<1>5. /\ dlen \in Nat /\ dlen >= 4 /\ dlen % 4 = 0 /\ 64 + 16 + dlen <= 4 * Len(z)
  BY SliceLengths
<1>6. DOMAIN parts = {"salt", "mac", "key"}
  BY DEF SealedParts
<1> HIDE DEF z, dlen, parts, alg
<1>7. Len(lost) = Len(z)
  <2>1. lost = [i \in 1 .. Len(z) |-> Lost]
    BY <1>2
  <2>2. lost \in Seq({Lost})
    BY <1>2, <2>1
  <2>3. DOMAIN lost = 1 .. Len(lost) /\ Len(lost) \in Nat /\ DOMAIN lost = 1 .. Len(z)
    <3> HIDE DEF lost
    <3>1. DOMAIN lost = 1 .. Len(lost) /\ Len(lost) \in Nat
      BY <2>2, LenProperties
    <3> QED
      BY <2>1, <3>1
  <2>4. \A k, n \in Nat : 1 .. k = 1 .. n => k = n
    <3> SUFFICES ASSUME NEW k \in Nat, NEW n \in Nat, 1 .. k = 1 .. n PROVE k = n
      OBVIOUS
    <3>1. k \in 1 .. k <=> k \in 1 .. n
      OBVIOUS
    <3>2. n \in 1 .. n <=> n \in 1 .. k
      OBVIOUS
    <3> QED
      BY <3>1, <3>2
  <2> HIDE DEF lost
  <2> QED
    BY <1>2, <2>3, <2>4
<1>8. LongEnough(lost, dlen) /\ InRange(Slices(lost, dlen), Bytelen(lost))
  <2> HIDE DEF lost
  <2>1. LongEnough(lost, dlen)
    BY <1>2, <1>5, <1>7 DEF LongEnough, Bytelen, Word, SALT_LEN, MASTER_KEY_LEN
  <2> QED
    BY <1>2, <1>5, <1>7, <2>1, GuardHolds
<1>9. PartAt(parts, lost, SALT_LEN, SALT_LEN + dlen) = Junk
  <2> DEFINE a == 16
             b == 16 + dlen
             n == Len(z)
  <2>1. /\ a \in Nat /\ b \in Nat /\ a % 4 = 0 /\ b % 4 = 0 /\ a < b /\ b <= 4 * n
        /\ n \in Nat
    BY <1>2, <1>5
  <2>2. lost = [i \in 1 .. n |-> Lost]
    BY <1>2
  <2> HIDE DEF a, b, n, lost
  <2>3. PartAt(parts, lost, a, b) = Junk
    BY <1>6, <2>1, <2>2, NoPartIs
  <2> QED
    BY <2>3 DEF a, b, SALT_LEN
<1>10. ~MacMatches(alg, dlen, pre, parts, lost)
  <2> HIDE DEF lost
  <2> QED
    BY <1>9, DigestNotJunk DEF MacMatches, Hmac
<1> HIDE DEF lost
<1> QED
  BY <1>4, <1>8, <1>10 DEF OpenCleartext

\* No call leaves what it slices: the derived bytes are as many as the slices
\* need, and the cleartext is guarded for each of its own (masterkey.rs:281).
LEMMA DeriveOutcomes ==
  ASSUME seal \in Acquisitions, FileShape, NEW f \in Files, NEW pre,
         NEW r \in derive_master_key(file[f], pre)
  PROVE  r # Panic
<1> DEFINE mk == file[f]
           alg == MkModule(mk.alg_id_hash)
           dlen == digest_len[mk.alg_id_hash]
           keylen == cipher_key_len[mk.alg_id_encrypt] + iv_len[mk.alg_id_encrypt]
           key == masterkey_derive_key(alg, pre, mk.salt, keylen, mk.rounds)
<1>1. CASE \E e \in {"TooShort", "UnsupportedAlgId", "DecryptionFailed"} : r = Err(e)
  BY <1>1 DEF Err, Panic
<1>2. CASE ~ \E e \in {"TooShort", "UnsupportedAlgId", "DecryptionFailed"} : r = Err(e)
  <2>0. /\ mk.alg_id_hash \in DOMAIN hash_alg_info
        /\ mk.alg_id_encrypt \in DOMAIN cipher_key_len
    BY <1>2 DEF derive_master_key, derive_master_key_from_prekey
  <2>9. InRange(KeySlices(mk.alg_id_encrypt), key.len)
    <3> DEFINE id == mk.alg_id_hash
               cipher == mk.alg_id_encrypt
               salt == mk.salt
               rounds == mk.rounds
    <3> HIDE DEF mk
    <3> QED
      BY <2>0, BlocksSuffice
  <2>1. /\ ~(mk.len < HEADER_LEN) /\ mk.alg_id_hash \in DOMAIN hash_alg_info
        /\ \E words \in cbc_decrypt_no_pad(mk, key) :
             r = OpenCleartext(alg, dlen, pre, mk.sealed.parts, words)
    BY <1>2, <2>9 DEF derive_master_key, derive_master_key_from_prekey
  <2>2. PICK words \in cbc_decrypt_no_pad(mk, key) :
          r = OpenCleartext(alg, dlen, pre, mk.sealed.parts, words)
    BY <2>1
  <2>3. mk.len \in Nat
    BY DEF FileShape
  <2>4. Len(words) \in Nat
    <3> DEFINE n == (mk.len - HEADER_LEN) \div Word
    <3>1. n \in Nat
      BY <2>1, <2>3 DEF HEADER_LEN, Word
    <3>2. DOMAIN words = 1 .. n /\ words = [i \in 1 .. n |-> words[i]]
      BY DEF cbc_decrypt_no_pad, Payload
    <3> DEFINE S == {words[i] : i \in 1 .. n}
    <3>3. words \in [1 .. n -> S]
      BY <3>2
    <3> HIDE DEF n, S
    <3> QED
      BY <3>1, <3>3, LenProperties
  <2>5. dlen \in Nat
    BY <2>1, Algorithms
  <2>6. LongEnough(words, dlen) => InRange(Slices(words, dlen), Bytelen(words))
    <3> HIDE DEF dlen
    <3> QED
      BY <2>4, <2>5, GuardHolds
  <2>7. Err("HmacMismatch") # Panic /\ Err("DecryptionFailed") # Panic
    BY DEF Err, Panic
  <2>8. \A v : Ok(v) # Panic
    BY DEF Err, Panic, Ok
  <2> HIDE DEF mk, alg, dlen, key
  <2> QED
    BY <2>2, <2>6, <2>7, <2>8 DEF OpenCleartext
<1> QED
  BY <1>1, <1>2

-----------------------------------------------------------------------------
(* The rest of the invariant: the blobs stay as they are, what was opened is  *)
(* what was protected, and the last call is one on the files as they are.     *)

Backup == [kind |-> "backup"]

CallCurrent ==
  call # NoCall =>
    \E f \in Files : \/ \E c \in Credentials : \E r \in derive(f, c) : call = Called(f, c, r)
                     \/ call = Called(f, Backup, Err("DomainBackupUnsupported"))

BlobsKept == blob = [b \in Blobs |-> Protected(b)]
OpenedOwn == \A o \in opened : o.blob \in Blobs /\ o.value = o.blob.pt
AtHand == \A e \in keyring : e.credential \in Credentials

IInv == /\ Evidence
        /\ faults \in 0 .. MaxFaults
        /\ BlobsKept /\ OpenedOwn /\ AtHand
        /\ CallCurrent

LEMMA InitInv == Init => IInv
<1> SUFFICES ASSUME Init PROVE IInv
  OBVIOUS
<1>1. Evidence
  BY InitEvidence
<1>2. faults \in 0 .. MaxFaults
  BY BoundShape DEF Init
<1> QED
  BY <1>1, <1>2 DEF Init, IInv, BlobsKept, OpenedOwn, AtHand, CallCurrent

\* What damage and mixture leave alone.
LEMMA ReplaceKeeps ==
  ASSUME IInv, NEW f, NEW field, NEW v, Replace(f, field, v)
  PROVE  /\ faults' \in 0 .. MaxFaults
         /\ BlobsKept' /\ OpenedOwn' /\ AtHand' /\ CallCurrent'
<1>1. faults' \in 0 .. MaxFaults
  BY BoundShape DEF Replace, IInv
<1>2. BlobsKept' /\ OpenedOwn' /\ AtHand' /\ CallCurrent'
  BY DEF Replace, IInv, BlobsKept, OpenedOwn, AtHand, CallCurrent
<1> QED
  BY <1>1, <1>2

LEMMA StepInv == IInv /\ [Next]_vars => IInv'
<1> SUFFICES ASSUME IInv, [Next]_vars PROVE IInv'
  OBVIOUS
<1>1. Evidence'
  BY StepEvidence DEF IInv
<1>2. ASSUME NEW f \in Files, NEW g \in Files, NEW field \in SealFields, Mix(f, g, field)
      PROVE  IInv'
  BY <1>1, <1>2, ReplaceKeeps DEF Mix, IInv
<1>3. ASSUME NEW f \in Files, NEW i, DamagePayload(f, i) PROVE IInv'
  BY <1>1, <1>3, ReplaceKeeps DEF DamagePayload, IInv
<1>4. ASSUME NEW f \in Files, Damage(f) PROVE IInv'
  <2>1. PICK field, v : Replace(f, field, v)
    BY <1>4 DEF Damage
  <2> QED
    BY <1>1, <2>1, ReplaceKeeps DEF IInv
<1>5. ASSUME NEW f \in Files, NEW c \in Credentials, Derive(f, c) PROVE IInv'
  <2>1. UNCHANGED <<seal, file, blob, faults, opened>>
    BY <1>5 DEF Derive
  <2>2. PICK r \in derive(f, c) :
          /\ call' = Called(f, c, r)
          /\ keyring' = IF r.ok THEN keyring \cup {[guid |-> file[f].guid, credential |-> c,
                                                    key |-> r.value]}
                                ELSE keyring
    BY <1>5 DEF Derive
  <2>3. AtHand'
    BY <2>2 DEF IInv, AtHand
  <2>4. CallCurrent'
    <3>1. r \in derive(f, c)'
      BY <2>1 DEF derive
    <3> QED
      BY <2>2, <3>1 DEF CallCurrent
  <2> QED
    BY <1>1, <2>1, <2>3, <2>4 DEF IInv, BlobsKept, OpenedOwn
<1>6. ASSUME NEW f \in Files, DeriveFromBackup(f) PROVE IInv'
  <2>1. /\ UNCHANGED <<seal, file, blob, faults, keyring, opened>>
        /\ call' = Called(f, Backup, Err("DomainBackupUnsupported"))
    BY <1>6 DEF DeriveFromBackup, derive_master_key_from_domain_backup, Backup
  <2>2. CallCurrent'
    BY <2>1 DEF CallCurrent
  <2> QED
    BY <1>1, <2>1, <2>2 DEF IInv, BlobsKept, OpenedOwn, AtHand
<1>7. ASSUME NEW b \in Blobs, NEW mk, Decrypt(b, mk) PROVE IInv'
  <2>1. UNCHANGED <<seal, file, blob, faults, keyring>> /\ call' = NoCall
    BY <1>7 DEF Decrypt
  <2>2. PICK e \in Seq(FileBytes) : e = <<>>
    BY EmptySeq
  <2>3. PICK r \in decrypt_dpapi_blob(blob[b], mk, e) :
          opened' = IF r.ok THEN opened \cup {[blob |-> b, value |-> r.value]} ELSE opened
    BY <1>7, <2>2 DEF Decrypt
  <2>4. IsProtection(b) /\ blob[b] = Protected(b)
    BY BlobShape DEF IInv, BlobsKept
  <2>5. r.ok => r.value = b.pt
    <3>1. Protected(b).hmac \in Seq(FileBytes) /\ Protected(b).sign = ProtectedSign(b)
      BY <2>4, ProtectedFields
    <3> DEFINE p == Protected(b)
    <3>2. /\ p.hmac \in Seq(FileBytes) /\ p.sign \in {Junk, ProtectedSign(b)}
          /\ r \in decrypt_dpapi_blob(p, mk, e)
      BY <2>4, <3>1
    <3> HIDE DEF p
    <3> QED
      BY <2>4, <3>2, DecryptSoundOne
  <2>6. OpenedOwn'
    BY <2>3, <2>5 DEF IInv, OpenedOwn
  <2> QED
    BY <1>1, <2>1, <2>6 DEF IInv, BlobsKept, AtHand, CallCurrent
<1>8. CASE UNCHANGED vars
  <2>1. CallCurrent'
    BY <1>8 DEF vars, IInv, CallCurrent, derive
  <2> QED
    BY <1>1, <1>8, <2>1 DEF vars, IInv, BlobsKept, OpenedOwn, AtHand
<1> QED
  BY <1>2, <1>3, <1>4, <1>5, <1>6, <1>7, <1>8 DEF Next

-----------------------------------------------------------------------------
(* What the invariant says of the last call.                                  *)

\* A file is opened under the pre-key of the credential.
LEMMA DeriveIs ==
  ASSUME NEW f, NEW c PROVE derive(f, c) = derive_master_key(file[f], WindowsPreKey(c))
BY DEF derive, derive_master_key_from_password, prekey_from_password, prekey_from_sha1,
       WindowsPreKey

\* Credentials that differ give pre-keys that differ.
LEMMA PreKeyInjective ==
  ASSUME NEW c \in Accounts, NEW d \in Accounts, WindowsPreKey(c) = WindowsPreKey(d)
  PROVE  c = d
<1>1. ASSUME NEW x \in Accounts
      PROVE  \/ /\ x.kind = "password"
                /\ x = [kind |-> "password", sid |-> x.sid, password |-> x.password]
                /\ WindowsPreKey(x) = Hmac(SHA1, Hash(SHA1, <<utf16le(x.password)>>),
                                          <<utf16le_with_nul(x.sid)>>)
             \/ /\ x.kind = "lsa" /\ x = [kind |-> "lsa", key |-> x.key]
                /\ WindowsPreKey(x) = x.key
                /\ \A y \in Accounts : y.kind = "password" => x.key # WindowsPreKey(y)
  BY CredentialShape DEF WindowsPreKey
<1>2. CASE c.kind = "lsa"
  BY <1>1, <1>2
<1>3. CASE d.kind = "lsa"
  BY <1>1, <1>3
<1>4. CASE c.kind = "password" /\ d.kind = "password"
  <2> DEFINE k1 == Hash(SHA1, <<utf16le(c.password)>>)
             k2 == Hash(SHA1, <<utf16le(d.password)>>)
             m1 == <<utf16le_with_nul(c.sid)>>
             m2 == <<utf16le_with_nul(d.sid)>>
             T == {utf16le_with_nul(c.sid), utf16le_with_nul(d.sid)}
  <2>1. Hmac(SHA1, k1, m1) = Hmac(SHA1, k2, m2)
    BY <1>1, <1>4
  <2>2. m1 \in Seq(T) /\ m2 \in Seq(T)
    OBVIOUS
  <2>3. k1 = k2 /\ m1 = m2
    <3> HIDE DEF k1, k2, m1, m2, T
    <3> QED
      BY <2>1, <2>2, HmacInjective
  <2>4. utf16le(c.password) = utf16le(d.password)
    <3> DEFINE n1 == <<utf16le(c.password)>>
               n2 == <<utf16le(d.password)>>
    <3>1. n1 = n2
      <4>1. Hash(SHA1, n1) = Hash(SHA1, n2)
        BY <2>3
      <4> HIDE DEF n1, n2
      <4> QED
        BY <4>1, HashInjective
    <3> QED
      BY <3>1
  <2>5. c.password = d.password
    BY <2>4 DEF utf16le
  <2>6. c.sid = d.sid
    BY <2>3 DEF utf16le_with_nul
  <2> QED
    BY <1>1, <1>4, <2>5, <2>6
<1> QED
  BY <1>1, <1>2, <1>3, <1>4

\* The backup key is no credential.
LEMMA BackupIsNone == Backup \notin Accounts
  BY CredentialShape DEF Backup

\* The last call on an undamaged file, made with a credential.
LEMMA LastCall ==
  ASSUME IInv, call # NoCall, call.credential \in Accounts
  PROVE  /\ call.file \in Files
         /\ call.result \in derive_master_key(file[call.file], WindowsPreKey(call.credential))
<1>1. call.credential # Backup
  BY BackupIsNone
<1>2. PICK f \in Files, c \in Credentials : \E r \in derive(f, c) : call = Called(f, c, r)
  BY <1>1 DEF IInv, CallCurrent, Called
<1>3. PICK r \in derive(f, c) : call = Called(f, c, r)
  BY <1>2
<1> QED
  BY <1>3, DeriveIs DEF Called

LEMMA IntactSeal ==
  ASSUME seal \in Acquisitions, NEW f \in Files, Intact(f)
  PROVE  \E s : /\ IsSeal(s) /\ file[f] = Sealed(s) /\ s.mk = seal[f].mk
                /\ s.pre_key = WindowsPreKey(seal[f].credential)
                /\ seal[f].credential \in Accounts
<1> DEFINE s == SealOf(seal[f])
<1>1. file[f] = Sealed(s)
  BY DEF Intact, Written
<1>2. s.rounds = seal[f].rounds /\ seal[f].rounds \in Nat \ {0}
  BY SealShape DEF SealOf
<1>3. /\ s.mk = seal[f].mk /\ s.pre_key = WindowsPreKey(seal[f].credential)
      /\ s.alg_id_hash \in DOMAIN hash_alg_info /\ s.alg_id_encrypt \in DOMAIN iv_len
  BY Parts
<1>4. seal[f].credential \in Accounts
  BY DEF Accounts
<1> HIDE DEF s
<1> QED
  BY <1>1, <1>2, <1>3, <1>4 DEF IsSeal

LEMMA InvRightCredential == IInv => RightCredentialOpens
<1> SUFFICES ASSUME IInv, NEW f \in Files, call # NoCall, call.file = f, Intact(f),
                    call.credential = seal[f].credential
             PROVE  call.result = Ok(seal[f].mk)
  BY DEF RightCredentialOpens
<1>1. PICK s : /\ IsSeal(s) /\ file[f] = Sealed(s) /\ s.mk = seal[f].mk
               /\ s.pre_key = WindowsPreKey(seal[f].credential)
               /\ seal[f].credential \in Accounts
  BY IntactSeal DEF IInv, Evidence
<1>2. call.result \in derive_master_key(Sealed(s), s.pre_key)
  BY <1>1, LastCall
<1> QED
  BY <1>1, <1>2, SealedOpens

LEMMA InvWrongCredential == IInv => WrongCredentialRefused
<1> SUFFICES ASSUME IInv, NEW f \in Files, call # NoCall, call.file = f, Intact(f),
                    call.credential \in Credentials \ {seal[f].credential}
             PROVE  call.result = Err("HmacMismatch")
  BY DEF WrongCredentialRefused
<1>1. PICK s : /\ IsSeal(s) /\ file[f] = Sealed(s)
               /\ s.pre_key = WindowsPreKey(seal[f].credential)
               /\ seal[f].credential \in Accounts
  BY IntactSeal DEF IInv, Evidence
<1>2. PICK pre : pre = WindowsPreKey(call.credential)
  OBVIOUS
<1>3. call.credential \in Accounts
  BY DEF Accounts
<1>4. pre # s.pre_key
  BY <1>1, <1>2, <1>3, PreKeyInjective
<1>5. call.result \in derive_master_key(Sealed(s), pre)
  BY <1>1, <1>2, <1>3, LastCall
<1> QED
  BY <1>1, <1>4, <1>5, SealedRefuses

LEMMA InvNoPanic == IInv => NoSlicePanic
<1> SUFFICES ASSUME IInv, call # NoCall PROVE call.result # Panic
  BY DEF NoSlicePanic
<1>1. PICK f \in Files : \/ \E c \in Credentials : \E r \in derive(f, c) : call = Called(f, c, r)
                         \/ call = Called(f, Backup, Err("DomainBackupUnsupported"))
  BY DEF IInv, CallCurrent
<1>2. CASE call = Called(f, Backup, Err("DomainBackupUnsupported"))
  BY <1>2 DEF Called, Panic, Err
<1>3. CASE \E c \in Credentials : \E r \in derive(f, c) : call = Called(f, c, r)
  <2>0. PICK c \in Credentials : \E r \in derive(f, c) : call = Called(f, c, r)
    BY <1>3
  <2>1. PICK r \in derive(f, c) : call = Called(f, c, r)
    BY <2>0
  <2>2. PICK pre : pre = WindowsPreKey(c)
    OBVIOUS
  <2>3. r \in derive_master_key(file[f], pre)
    BY <2>2, DeriveIs
  <2>4. r # Panic
    BY <2>3, DeriveOutcomes DEF IInv, Evidence
  <2> QED
    BY <2>1, <2>4 DEF Called
<1> QED
  BY <1>1, <1>2, <1>3

LEMMA InvTypeOK == IInv => TypeOK
<1> SUFFICES ASSUME IInv PROVE TypeOK
  OBVIOUS
<1>1. \A f \in Files : DOMAIN file[f] = SealFields
  BY DEF IInv, Evidence, FileShape
<1>2. \A e \in keyring : e.credential \in Credentials /\ e.key \in MasterKeys
  BY SealShape DEF IInv, AtHand, Evidence, KeyringAuthentic
<1>3. \A o \in opened : o.blob \in Blobs /\ o.value \in Plaintexts
  BY BlobShape DEF IInv, OpenedOwn, IsProtection
<1>4. call # NoCall => call.file \in Files
  BY DEF IInv, CallCurrent, Called
<1> QED
  BY <1>1, <1>2, <1>3, <1>4 DEF TypeOK, IInv, Evidence

LEMMA Invariance == Spec => []IInv
  BY InitInv, StepInv, PTL DEF Spec

-----------------------------------------------------------------------------
\* The variables keep their types: every key is a master key, every secret a
\* plaintext that was protected.
THEOREM TypeCorrect == Spec => []TypeOK
  BY Invariance, InvTypeOK, PTL

\* For any master-key files, credentials, damage and mixture: a key the
\* derivation returns was sealed in one of the files under the pre-key of the
\* credential supplied.
THEOREM KeyringAuthenticHolds == Spec => []KeyringAuthentic
<1>1. IInv => KeyringAuthentic
  BY DEF IInv, Evidence
<1> QED
  BY <1>1, Invariance, PTL

\* The credential of an undamaged file opens it, for each hash and cipher and any
\* number of rounds.
THEOREM RightCredentialOpensHolds == Spec => []RightCredentialOpens
  BY Invariance, InvRightCredential, PTL

\* Any other is refused as HmacMismatch, the same password of another account
\* included.
THEOREM WrongCredentialRefusedHolds == Spec => []WrongCredentialRefused
  BY Invariance, InvWrongCredential, PTL

\* Whatever the length fields of a file say, no slice leaves the cleartext.
THEOREM NoSlicePanicHolds == Spec => []NoSlicePanic
  BY Invariance, InvNoPanic, PTL

\* A key under a wrong GUID never makes a secret of a blob it does not belong to.
THEOREM MislabelledHarmlessHolds == Spec => []MislabelledHarmless
<1>1. IInv => MislabelledHarmless
  BY DEF IInv, OpenedOwn, MislabelledHarmless
<1> QED
  BY <1>1, Invariance, PTL
=============================================================================
