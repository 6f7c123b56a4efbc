---------------------------- MODULE DpapiCrypto ----------------------------
(* The DPAPI blob cryptography as terms: what is hashed, in which order and   *)
(* under which key, never the digests themselves.  A hash of a message is a   *)
(* record that names the message, so two digests are equal exactly when they  *)
(* are digests of the same bytes.  Salts, HMac fields and entropies are       *)
(* sequences, because the code concatenates them and their boundaries matter. *)
(*                                                                            *)
(* The decryption is that of decrypt.rs; the protection is that of the        *)
(* builders of tests/data, which do what Windows does.                        *)
EXTENDS Naturals, Sequences

CONSTANTS
  MasterKeys,   \* master keys
  Plaintexts,   \* what applications protect
  Bytes         \* the pieces salts, HMac fields and entropies are made of

\* Bytes no key and no hash made: what a damaged file holds.
Junk == [junk |-> TRUE]
\* What a block cipher yields under the wrong key, if the padding passes.
Garbage == [garbage |-> TRUE]

-----------------------------------------------------------------------------
(* Algorithms.  The tables are those of the external crate forensicnomicon.   *)

Alg(module, digest, derive, block) ==
  [module |-> module, output_len |-> digest,
   derive_block_len |-> derive, hash_block_len |-> block]

SHA1 == Alg("SHA1", 20, 64, 64)
hash_alg_info == [CALG_SHA1 |-> SHA1,
                  CALG_HMAC |-> Alg("SHA512", 64, 64, 128),
                  CALG_SHA_512 |-> Alg("SHA512", 64, 128, 128)]
cipher_key_len == [CALG_3DES |-> 24, CALG_AES_256 |-> 32]

\* An id the table lacks falls back to SHA1.
hash_alg(id) == IF id \in DOMAIN hash_alg_info THEN hash_alg_info[id] ELSE SHA1

-----------------------------------------------------------------------------
(* Hashes and keys.                                                           *)

Hash(alg, msg) == [module |-> alg.module, msg |-> msg]
Padded(key, byte, block) == [key |-> key, xor |-> byte, block |-> block]

Hmac(alg, key, msg) ==
  LET inner == Hash(alg, <<Padded(key, "ipad", alg.hash_block_len)>> \o msg)
  IN Hash(alg, <<Padded(key, "opad", alg.hash_block_len), inner>>)

\* Always SHA1, whatever the blob's own hash.
key_hash(mk) == Hash(SHA1, <<mk>>)

SessionKey(alg, mk, salt, entropy) == Hmac(alg, key_hash(mk), salt \o entropy)

\* Bugs: the digest is hashed down although it fits the block; or never expanded.
derive_key_OffByOne(alg, session_key, need) ==
  LET short == alg.output_len >= alg.derive_block_len
      derived == IF short THEN Hmac(alg, session_key, <<>>) ELSE session_key
      half(byte) == Hash(alg, <<Padded(derived, byte, alg.derive_block_len)>>)
  IN IF alg.output_len < need
       THEN [bytes |-> <<half("ipad"), half("opad")>>, odd |-> TRUE, len |-> 2 * alg.output_len]
       ELSE [bytes |-> <<derived>>, odd |-> FALSE, len |-> alg.output_len]
derive_key_NotExpanded(alg, session_key, need) ==
  [bytes |-> <<session_key>>, odd |-> FALSE, len |-> alg.output_len]

\* The bytes a cipher key is cut from, how many there are, and whether fixparity
\* gave each of them odd parity.
derive_key(alg, session_key, need) ==
  LET short == alg.output_len > alg.derive_block_len
      derived == IF short THEN Hmac(alg, session_key, <<>>) ELSE session_key
      half(byte) == Hash(alg, <<Padded(derived, byte, alg.derive_block_len)>>)
  IN IF alg.output_len < need
       THEN [bytes |-> <<half("ipad"), half("opad")>>, odd |-> TRUE, len |-> 2 * alg.output_len]
       ELSE [bytes |-> <<derived>>, odd |-> FALSE, len |-> alg.output_len]

\* DES ignores the lowest bit of every key byte, AES does not.
CipherKey(cipher, derived) ==
  [bytes |-> derived.bytes, odd |-> derived.odd /\ cipher # "CALG_3DES"]

Enc(cipher, key, pt) == [cipher |-> cipher, key |-> key, pt |-> pt]

\* CBC decryption and unpadding: the plaintext under the right key; under any
\* other, or of junk, the padding fails or happens to pass.
Failed == [failed |-> TRUE]
\* No application protects either.
ASSUME PlaintextShape == Plaintexts \cap {Failed, Garbage} = {}
Decipher(cipher, key, ct) ==
  LET pts == {pt \in Plaintexts : ct = Enc(cipher, key, pt)}
  IN IF pts # {} THEN pts ELSE {Failed, Garbage}

-----------------------------------------------------------------------------
(* The blob.                                                                  *)

SignedFields == {"master_key_guid", "alg_id_encrypt", "alg_id_hash", "salt",
                 "hmac", "ciphertext"}
BlobFields == SignedFields \cup {"sign"}

\* A bug: the region starts after the master-key GUID.
to_sign_AfterGuid(b) == [f \in SignedFields \ {"master_key_guid"} |-> b[f]]

\* The bytes from offset 20 up to SignLen.  Each field stands there behind its
\* length, so they determine the fields: one token for the whole region.
to_sign(b) == [f \in SignedFields |-> b[f]]

\* Form 1: the entropy enters beside the inner digest, under the outer pad.
SignNested(alg, mk, b, entropy) ==
  LET kh == key_hash(mk)
      inner == Hash(alg, <<Padded(kh, "ipad", alg.hash_block_len)>> \o b.hmac)
  IN Hash(alg, <<Padded(kh, "opad", alg.hash_block_len), inner>> \o entropy \o <<to_sign(b)>>)

\* Form 2: a standard HMAC.
SignPlain(alg, mk, b, entropy) ==
  Hmac(alg, key_hash(mk), b.hmac \o entropy \o <<to_sign(b)>>)

\* A bug: without entropy nothing is verified.
verify_blob_signature_IfEntropy(alg, mk, b, entropy) ==
  entropy = <<>> \/ b.sign \in {SignNested(alg, mk, b, entropy), SignPlain(alg, mk, b, entropy)}

verify_blob_signature(alg, mk, b, entropy) ==
  b.sign \in {SignNested(alg, mk, b, entropy), SignPlain(alg, mk, b, entropy)}

\* What a damaged field holds.
Noise(f) == CASE f \in {"salt", "hmac"} -> <<Junk>>
              [] f \in {"alg_id_encrypt", "alg_id_hash"} -> "CALG_UNKNOWN"
              [] f \in {"master_key_guid", "ciphertext", "sign"} -> Junk

Ok(pt) == [ok |-> TRUE, value |-> pt]
Err(e) == [ok |-> FALSE, value |-> e]

\* A bug: the plaintext is returned before the Sign is looked at.
decrypt_dpapi_blob_Unverified(b, mk, entropy) ==
  LET alg == hash_alg(b.alg_id_hash)
      need == cipher_key_len[b.alg_id_encrypt]
      derived == derive_key(alg, SessionKey(alg, mk, b.salt, entropy), need)
  IN IF b.alg_id_encrypt \notin DOMAIN cipher_key_len
       THEN {Err("UnsupportedAlgId")}
       ELSE {IF c = Failed THEN Err("DecryptionFailed") ELSE Ok(c)
               : c \in Decipher(b.alg_id_encrypt, CipherKey(b.alg_id_encrypt, derived), b.ciphertext)}

\* The outcomes of decrypt_dpapi_blob.  The cipher runs first, and a failure of
\* its padding is reported before the signature is looked at.
decrypt_dpapi_blob(b, mk, entropy) ==
  IF b.alg_id_encrypt \notin DOMAIN cipher_key_len
    THEN {Err("UnsupportedAlgId")}
    ELSE LET alg == hash_alg(b.alg_id_hash)
             need == cipher_key_len[b.alg_id_encrypt]
             derived == derive_key(alg, SessionKey(alg, mk, b.salt, entropy), need)
             clear == Decipher(b.alg_id_encrypt, CipherKey(b.alg_id_encrypt, derived), b.ciphertext)
         IN IF derived.len < need
              THEN {Err("InvalidKeyLength")}
              ELSE {IF c = Failed THEN Err("DecryptionFailed")
                    ELSE IF verify_blob_signature(alg, mk, b, entropy) THEN Ok(c)
                    ELSE Err("HmacMismatch") : c \in clear}

-----------------------------------------------------------------------------
(* The protection.                                                            *)

\* The hashes Windows can be told to use include some dpapi-core does not know.
WindowsHash(id) == IF id \in DOMAIN hash_alg_info THEN hash_alg_info[id]
                   ELSE Alg("SHA256", 32, 64, 64)

\* The builders' deriveKey: expand when the digest is shorter than what is
\* needed.  They ask for key and IV together, here it is the key alone: the IV is
\* zero, and no hash of the table is as long as one key and shorter than both.
protectKey(alg, session_key, need) ==
  IF alg.output_len >= need THEN <<session_key>>
  ELSE <<Hash(alg, <<Padded(session_key, "ipad", alg.derive_block_len)>>),
         Hash(alg, <<Padded(session_key, "opad", alg.derive_block_len)>>)>>

\* A protection m names what is protected (pt), under which key (mk, of
\* master_key_guid) and entropy, with which algorithms and random inputs (salt,
\* hmac), and the form of its Sign.
\* An AES key is never expanded: AES goes with a hash long enough for its key.
IsProtection(m) ==
  /\ m.mk \in MasterKeys /\ m.pt \in Plaintexts
  /\ m.alg_id_encrypt \in DOMAIN cipher_key_len
  /\ m.salt \in Seq(Bytes) /\ m.hmac \in Seq(Bytes) /\ m.entropy \in Seq(Bytes)
  /\ m.form \in {"nested", "plain"}
  /\ m.alg_id_encrypt = "CALG_AES_256" =>
       WindowsHash(m.alg_id_hash).output_len >= cipher_key_len[m.alg_id_encrypt]

ProtectedCiphertext(m) ==
  LET alg == WindowsHash(m.alg_id_hash)
      key == protectKey(alg, SessionKey(alg, m.mk, m.salt, m.entropy),
                        cipher_key_len[m.alg_id_encrypt])
  IN Enc(m.alg_id_encrypt, [bytes |-> key, odd |-> FALSE], m.pt)

\* The blob of m, before its Sign.
Unsigned(m) == [f \in SignedFields |->
                  IF f = "ciphertext" THEN ProtectedCiphertext(m) ELSE m[f]]

ProtectedSign(m) ==
  LET alg == WindowsHash(m.alg_id_hash)
  IN IF m.form = "nested" THEN SignNested(alg, m.mk, Unsigned(m), m.entropy)
                          ELSE SignPlain(alg, m.mk, Unsigned(m), m.entropy)

Protected(m) == [f \in BlobFields |->
                   IF f = "sign" THEN ProtectedSign(m) ELSE Unsigned(m)[f]]
=============================================================================
