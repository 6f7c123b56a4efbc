------------------------ MODULE MasterKeyDerivation ------------------------
(* From a master-key file and a password to the 64-byte master key           *)
(* (masterkey.rs).  The payload of the file decrypts to                       *)
(*     salt (16) | MAC | fill | master key (64)                               *)
(* and the code finds the parts by offset, the key from the end.  So the      *)
(* cleartext is a sequence of words of four bytes, each naming the part it    *)
(* belongs to and its place there, beside what the parts are; lengths are in  *)
(* bytes as in the code.                                                      *)
EXTENDS DpapiCrypto, Integers

CONSTANT digest_len   \* hash_alg_info(id).digest_len, of the external table

\* A bug: the module is the table's, as it is for blobs.
MkModule_Table(id) == hash_alg_info[id]

\* The hash of the derivation.  Its digest has a length of its own beside
\* digest_len, by which the code slices.
MkModule(id) == IF id = "CALG_HMAC" THEN SHA1 ELSE hash_alg_info[id]

\* The external table declares no more bytes than the module yields.  Were
\* CALG_HMAC's digest_len that of SHA512, no such file would open.
ASSUME TableFits ==
  \A id \in DOMAIN hash_alg_info : /\ digest_len[id] \in 4 .. MkModule(id).output_len
                                   /\ digest_len[id] % 4 = 0

MASTER_KEY_LEN == 64
SALT_LEN == 16
HEADER_LEN == 32      \* of the sub-blob, before its payload
iv_len == [CALG_3DES |-> 8, CALG_AES_256 |-> 16]

Word == 4
Bytelen(words) == Word * Len(words)
\* The first n bytes of a part; the bytes from offset a up to b.
WordsOf(part, n) == [i \in 1 .. n \div Word |-> [of |-> part, word |-> i]]
Cut(words, a, b) == SubSeq(words, a \div Word + 1, b \div Word)
Lost == [of |-> "lost", word |-> 0]

\* `&bytes[a..b]` for each <<a, b>> of slices and so many bytes: a bound that is
\* negative here panics as it is computed, or has wrapped to one past the end.
InRange(slices, len) == \A s \in slices : 0 <= s[1] /\ s[1] <= s[2] /\ s[2] <= len
Panic == Err("panic")

-----------------------------------------------------------------------------
(* The pre-key.                                                               *)

utf16le(s) == [utf16 |-> s, nul |-> FALSE]
utf16le_with_nul(s) == [utf16 |-> s, nul |-> TRUE]

prekey_from_sha1(sid, pwd_sha1) == Hmac(SHA1, pwd_sha1, <<utf16le_with_nul(sid)>>)

prekey_from_password(sid, password) ==
  prekey_from_sha1(sid, Hash(SHA1, <<utf16le(password)>>))

-----------------------------------------------------------------------------
(* The iterated derivation.                                                   *)

saturating_sub(n, m) == IF n > m THEN n - m ELSE 0

\* A block starts as the HMAC of salt and block number; each further round XORs
\* the HMAC of what it is so far.  So the start and the number of further rounds
\* determine it.
Iterated(alg, passphrase, salt, i, times) ==
  [first |-> Hmac(alg, passphrase, <<[salt |-> salt, block |-> i]>>), xored |-> times]

\* That many blocks, cut to keylen bytes if they are more.
KeyMaterial(alg, passphrase, salt, keylen, times, count) ==
  [blocks |-> [i \in 1 .. count |-> Iterated(alg, passphrase, salt, i, times)],
   len |-> IF count * alg.output_len < keylen THEN count * alg.output_len ELSE keylen]

\* A bug: the block that is only used in part is not derived.
IteratedKey_WholeBlocks(alg, passphrase, salt, keylen, times) ==
  KeyMaterial(alg, passphrase, salt, keylen, times, keylen \div alg.output_len)

\* Blocks until there are keylen bytes.
IteratedKey(alg, passphrase, salt, keylen, times) ==
  KeyMaterial(alg, passphrase, salt, keylen, times,
              (keylen + alg.output_len - 1) \div alg.output_len)

\* The key and the IV are slices of it; it stands for both.
KeySlices(cipher) == {<<0, cipher_key_len[cipher]>>,
                      <<cipher_key_len[cipher], cipher_key_len[cipher] + iv_len[cipher]>>}

masterkey_derive_key(alg, passphrase, salt, keylen, count) ==
  IteratedKey(alg, passphrase, salt, keylen, saturating_sub(count, 1))

-----------------------------------------------------------------------------
(* The sub-blob.  sealed is the payload as it was written: under which cipher *)
(* and key, its parts and the words of its cleartext, lost where the payload  *)
(* is damaged.  len is the number of bytes the file's length field takes.     *)

Payload(mk) ==
  [i \in 1 .. (mk.len - HEADER_LEN) \div Word |->
     IF i <= Len(mk.sealed.clear) THEN mk.sealed.clear[i] ELSE Lost]

\* A bug: a wrong key's cleartext is unpadded, and little of it is left.
cbc_decrypt_no_pad_Unpadded(mk, key) ==
  IF mk.sealed.cipher = mk.alg_id_encrypt /\ mk.sealed.key = key THEN {Payload(mk)} ELSE {<<>>}

\* The cleartexts that may come out.  CBC without unpadding: any key decrypts any
\* whole number of blocks, the wrong one to junk.
cbc_decrypt_no_pad(mk, key) ==
  IF mk.sealed.cipher = mk.alg_id_encrypt /\ mk.sealed.key = key
    THEN {Payload(mk)} ELSE {[i \in DOMAIN Payload(mk) |-> Lost]}

\* What the bytes from a up to b are: (the first bytes of) a part, or junk.
PartsAt(parts, words, a, b) == {p \in DOMAIN parts : Cut(words, a, b) = WordsOf(p, b - a)}
PartAt(parts, words, a, b) ==
  IF PartsAt(parts, words, a, b) = {} THEN Junk
  ELSE parts[CHOOSE p \in PartsAt(parts, words, a, b) : TRUE]

\* Bugs: the length is checked for the key alone; for salt and MAC alone.
LongEnough_KeyOnly(words, dlen) == Bytelen(words) >= MASTER_KEY_LEN
LongEnough_MacOnly(words, dlen) == Bytelen(words) >= SALT_LEN + dlen

LongEnough(words, dlen) == /\ Bytelen(words) >= MASTER_KEY_LEN
                           /\ Bytelen(words) >= SALT_LEN + dlen

\* A bug: the key is looked for right behind the MAC.
MasterKeyIn_BehindMac(parts, words, dlen) ==
  PartAt(parts, words, SALT_LEN + dlen, SALT_LEN + dlen + MASTER_KEY_LEN)

MasterKeyIn(parts, words, dlen) ==
  PartAt(parts, words, Bytelen(words) - MASTER_KEY_LEN, Bytelen(words))

\* A bug: the MAC is taken on trust.
MacMatches_Always(alg, dlen, pre_key, parts, words) == TRUE

\* Digests whose first digest_len bytes agree are taken to be the same.
MacMatches(alg, dlen, pre_key, parts, words) ==
  LET hmac_key == Hmac(alg, pre_key, <<PartAt(parts, words, 0, SALT_LEN)>>)
  IN Hmac(alg, hmac_key, <<MasterKeyIn(parts, words, dlen)>>)
       = PartAt(parts, words, SALT_LEN, SALT_LEN + dlen)

\* The key, the salt of the MAC, and the MAC.
Slices(words, dlen) == {<<Bytelen(words) - MASTER_KEY_LEN, Bytelen(words)>>,
                        <<0, SALT_LEN>>,
                        <<SALT_LEN, SALT_LEN + dlen>>}

OpenCleartext(alg, dlen, pre_key, parts, words) ==
  IF ~LongEnough(words, dlen) THEN Err("DecryptionFailed")
  ELSE IF ~InRange(Slices(words, dlen), Bytelen(words)) THEN Panic
  ELSE IF ~MacMatches(alg, dlen, pre_key, parts, words) THEN Err("HmacMismatch")
  ELSE Ok(MasterKeyIn(parts, words, dlen))

\* The outcomes of derive_master_key_from_prekey.
derive_master_key_from_prekey(mk, pre_key) ==
  IF \/ mk.alg_id_hash \notin DOMAIN hash_alg_info
     \/ mk.alg_id_encrypt \notin DOMAIN cipher_key_len
    THEN {Err("UnsupportedAlgId")}
  ELSE IF (mk.len - HEADER_LEN) % iv_len[mk.alg_id_encrypt] # 0
    THEN {Err("DecryptionFailed")}
  ELSE LET alg == MkModule(mk.alg_id_hash)
           keylen == cipher_key_len[mk.alg_id_encrypt] + iv_len[mk.alg_id_encrypt]
           derived == masterkey_derive_key(alg, pre_key, mk.salt, keylen, mk.rounds)
       IN IF ~InRange(KeySlices(mk.alg_id_encrypt), derived.len) THEN {Panic}
          ELSE {OpenCleartext(alg, digest_len[mk.alg_id_hash], pre_key, mk.sealed.parts, words)
                  : words \in cbc_decrypt_no_pad(mk, derived)}

\* parse_master_key and then the derivation, as derive_master_key_from_password
\* and the callers with a pre-key from LSA do.
derive_master_key(mk, pre_key) ==
  IF mk.len < HEADER_LEN THEN {Err("TooShort")} ELSE derive_master_key_from_prekey(mk, pre_key)

derive_master_key_from_password(mk, sid, password) ==
  derive_master_key(mk, prekey_from_password(sid, password))

derive_master_key_from_domain_backup(domain_key, pvk) == {Err("DomainBackupUnsupported")}

-----------------------------------------------------------------------------
(* The file as Windows writes it, in the layout the code's oracle file has.   *)

\* A sealing names the master key (mk), the pre-key it is sealed under, its GUID
\* and the algorithms, rounds and two salts.
WindowsMkModule(id) == IF id = "CALG_HMAC" THEN SHA1 ELSE hash_alg_info[id]

SealedParts(s) ==
  LET alg == WindowsMkModule(s.alg_id_hash)
      hmac_key == Hmac(alg, s.pre_key, <<s.hmac_salt>>)
  IN [salt |-> s.hmac_salt, mac |-> Hmac(alg, hmac_key, <<s.mk>>), key |-> s.mk]

SealedClear(s) ==
  LET mac_len == WindowsMkModule(s.alg_id_hash).output_len
      used == SALT_LEN + mac_len + MASTER_KEY_LEN
      block == iv_len[s.alg_id_encrypt]
      fill == (block - (used % block)) % block
  IN WordsOf("salt", SALT_LEN) \o WordsOf("mac", mac_len)
       \o WordsOf("fill", fill) \o WordsOf("key", MASTER_KEY_LEN)

SealKey(s) ==
  LET alg == WindowsMkModule(s.alg_id_hash)
  IN IteratedKey(alg, s.pre_key, s.salt,
                 cipher_key_len[s.alg_id_encrypt] + iv_len[s.alg_id_encrypt],
                 s.rounds - 1)

SealFields == {"guid", "salt", "rounds", "alg_id_hash", "alg_id_encrypt", "sealed", "len"}

Sealed(s) ==
  [f \in SealFields |->
     CASE f = "sealed" -> [cipher |-> s.alg_id_encrypt, key |-> SealKey(s),
                           parts |-> SealedParts(s), clear |-> SealedClear(s)]
       [] f = "len" -> HEADER_LEN + Bytelen(SealedClear(s))
       [] OTHER -> s[f]]
=============================================================================
