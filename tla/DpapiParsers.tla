---------------------------- MODULE DpapiParsers ----------------------------
(* The parsers of dpapi-core as sequences of reads of CursorParser, one per  *)
(* function that walks a buffer in a straight line.  (parse_vcrd_attributes  *)
(* loops over a table of absolute offsets and is not one of them.)           *)
EXTENDS CursorParser

Read(op, n, f) == [op |-> op, n |-> n, f |-> f]

\* read_len_prefixed and its kin: a length word, then that many bytes.
Prefixed(take, f) == <<Read("len32", 4, f), Read(take, 0, f)>>

\* A fallback-read word; "none" names the words the parser ignores.
U32At(f) == Read("word", 4, f)

-----------------------------------------------------------------------------
\* blob.rs: version, provider GUID, master-key GUID, then six prefixed fields,
\* and the region the Sign MAC covers.
parse_dpapi_blob ==
  <<Read("need", 48, "none"),
    U32At("version"), Read("check", 0, "version"),
    Read("index", 16, "provider_guid"), Read("check", 0, "provider_guid"),
    U32At("mk_version"),
    Read("index", 16, "master_key_guid"),
    U32At("flags")>>
  \o Prefixed("take", "description")
  \o <<U32At("alg_id_encrypt"), U32At("crypt_algo_len")>>
  \o Prefixed("take", "salt")
  \o Prefixed("take", "hmac_key")
  \o <<U32At("alg_id_hash"), U32At("hash_algo_len")>>
  \o Prefixed("take", "hmac")
  \o Prefixed("take", "ciphertext")
  \o <<Read("mark", 0, "to_sign")>>
  \o Prefixed("take", "sign")
  \o <<Read("region", 20, "to_sign")>>

\* masterkey.rs: a 128-byte header that ends in four u64 lengths, then the
\* four sub-blobs, taken with a plain `pos + len`.
SubBlobs == <<"master_key", "backup_key", "cred_hist", "domain_key">>
parse_masterkey_file ==
  <<Read("need", 128, "none"),
    Read("wordE", 4, "version"), Read("wordE", 4, "none"), Read("wordE", 4, "none"),
    Read("index", 72, "guid"),
    Read("wordE", 4, "none"), Read("wordE", 4, "policy"), Read("wordE", 4, "flags")>>
  \o [i \in DOMAIN SubBlobs |-> Read("len64", 8, SubBlobs[i])]
  \o [i \in DOMAIN SubBlobs |-> Read("take", 0, SubBlobs[i])]

parse_master_key ==
  <<Read("need", 32, "none"),
    Read("wordE", 4, "version"), Read("index", 16, "salt"),
    Read("wordE", 4, "rounds"),
    Read("wordE", 4, "alg_id_hash"), Read("wordE", 4, "alg_id_encrypt"),
    Read("rest", 0, "data")>>

\* credential.rs: the size stands at offset 4 of a 12-byte header.
parse_credential_file ==
  <<Read("skip", 4, "none"), Read("len32", 4, "blob"), Read("skip", 4, "none"),
    Read("ctake", 0, "blob")>>

parse_credential_blob ==
  <<Read("need", 48, "none"),
    Read("skip", 20, "none"), Read("word", 8, "last_written"), Read("skip", 20, "none")>>
  \o Prefixed("ctake", "target")
  \o Prefixed("ctake", "target_alias")
  \o Prefixed("ctake", "description")
  \o Prefixed("ctake", "secret")
  \o Prefixed("ctake", "username")

\* vault.rs
parse_vpol_file ==
  <<U32At("version"), Read("skip", 16, "none")>>
  \o Prefixed("ctake", "description")
  \o <<Read("adv", 12, "none"), U32At("size"), Read("adv", 32, "none")>>
  \o Prefixed("ctake", "blob")

read_bcrypt_key(f) ==
  <<U32At("size"), U32At("version"), U32At("none"), U32At("magic"), U32At("hver")>>
  \o Prefixed("ctake", f)

\* What decrypt_vpol_keys reads of the decrypted policy.
VAULT_VPOL_KEYS == read_bcrypt_key("key1") \o read_bcrypt_key("key2")

read_id_len_utf16(f) == <<U32At("none")>> \o Prefixed("ctake", f)

parse_internet_explorer ==
  <<Read("skip", 12, "none")>> \o read_id_len_utf16("username")
  \o read_id_len_utf16("resource") \o read_id_len_utf16("password")

-----------------------------------------------------------------------------
AllParsers == {"parse_dpapi_blob", "parse_masterkey_file", "parse_master_key",
               "parse_credential_file", "parse_credential_blob", "parse_vpol_file",
               "VAULT_VPOL_KEYS", "parse_internet_explorer"}

CodeOf(f) == CASE f = "parse_dpapi_blob" -> parse_dpapi_blob
               [] f = "parse_masterkey_file" -> parse_masterkey_file
               [] f = "parse_master_key" -> parse_master_key
               [] f = "parse_credential_file" -> parse_credential_file
               [] f = "parse_credential_blob" -> parse_credential_blob
               [] f = "parse_vpol_file" -> parse_vpol_file
               [] f = "VAULT_VPOL_KEYS" -> VAULT_VPOL_KEYS
               [] f = "parse_internet_explorer" -> parse_internet_explorer

\* Each parser performs its own reads, which name fields of theirs.
ASSUME OwnReads == Fns \subseteq AllParsers /\ Code = [f \in Fns |-> CodeOf(f)]

FieldsOf(fs) == UNION {{CodeOf(f)[i].f : i \in DOMAIN CodeOf(f)} : f \in fs}

-----------------------------------------------------------------------------
\* The Sign MAC of a parsed blob covers every field the decryption uses except
\* the MAC itself (blob.rs:37, blob.rs:135): the key it names, both algorithm
\* ids, the salt, the HMac and the ciphertext, each in its own bytes, and it
\* stops right before the length word of Sign.
Signed == {"master_key_guid", "description", "alg_id_encrypt", "salt",
           "alg_id_hash", "hmac", "ciphertext"}
SignedCoverage ==
  fn = "parse_dpapi_blob" /\ outcome = "ok" =>
    /\ \A f \in Signed : /\ span["to_sign"][1] <= span[f][1]
                         /\ span[f][2] <= span["to_sign"][2]
    /\ \A f, g \in Signed : f # g => \/ span[f][2] <= span[g][1]
                                     \/ span[g][2] <= span[f][1]
    /\ span["to_sign"][2] + 4 = span["sign"][1]
=============================================================================
