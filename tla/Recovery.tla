------------------------------ MODULE Recovery ------------------------------
(* From passwords to secrets.  Master-key files and blobs are acquired, the   *)
(* files damaged or mixed; an examiner derives the keys the locked blobs name *)
(* by GUID from the files that carry that GUID, with every credential at      *)
(* hand, and tries each key on the blobs (the chain of                        *)
(* docs/plans/dpapi-step2.md:33-49, whose caller is not part of dpapi-core).  *)
EXTENDS MasterKeyDerivation

CONSTANTS
  Files,         \* master-key files, by name
  Acquisitions,  \* what may have been sealed in each file: functions on Files
  Blobs,         \* the protections of the acquired blobs
  Credentials,   \* SID and password of an account, or a pre-key read from LSA
  Sizes,         \* sub-blob lengths a damaged length field may name
  MaxRounds,     \* bound: iteration counts, scaled down
  MaxFaults      \* bound: how many fields of files are damaged or mixed

WindowsPreKey(c) ==
  IF c.kind = "lsa" THEN c.key
  ELSE Hmac(SHA1, Hash(SHA1, <<utf16le(c.password)>>), <<utf16le_with_nul(c.sid)>>)

\* A file seals a key under a credential that need not be one at hand.
SealOf(s) == [f \in (DOMAIN s) \cup {"pre_key"} |->
                IF f = "pre_key" THEN WindowsPreKey(s.credential) ELSE s[f]]
Written == [a \in Acquisitions |-> [f \in Files |-> Sealed(SealOf(a[f]))]]

ASSUME SealShape ==
  \A a \in Acquisitions, f \in Files :
    /\ DOMAIN a[f] = {"guid", "credential", "mk", "alg_id_hash", "alg_id_encrypt",
                      "rounds", "salt", "hmac_salt"}
    /\ a[f].mk \in MasterKeys
    /\ a[f].rounds \in 1 .. MaxRounds
    /\ a[f].alg_id_hash \in DOMAIN hash_alg_info
    /\ a[f].alg_id_encrypt \in DOMAIN cipher_key_len
ASSUME SizesShape == Sizes \subseteq Nat
ASSUME BoundShape == MaxFaults \in Nat
ASSUME BlobShape ==
  \A b \in Blobs : /\ IsProtection(b) /\ b.entropy = <<>>
                   /\ b.alg_id_hash \in DOMAIN hash_alg_info

\* The credentials at hand and those the files are sealed under.  A pre-key of
\* LSA is drawn at random: no account's password and SID happen to hash to it.
Accounts == Credentials \cup {a[f].credential : a \in Acquisitions, f \in Files}
ASSUME CredentialShape ==
  \A c \in Accounts :
    \/ /\ c.kind = "password"
       /\ c = [kind |-> "password", sid |-> c.sid, password |-> c.password]
    \/ /\ c.kind = "lsa"
       /\ c = [kind |-> "lsa", key |-> c.key]
       /\ \A d \in Accounts : d.kind = "password" => c.key # WindowsPreKey(d)

VARIABLES
  seal,      \* what was sealed in each file
  file,      \* the files as they are now
  blob,      \* the blobs, which stay as they are
  faults,    \* how many fields were damaged or mixed
  keyring,   \* the keys derived, with the GUID of their file and the credential
  opened,    \* the blobs decrypted, with what came out
  call       \* the last call of the derivation and its result

vars == <<seal, file, blob, faults, keyring, opened, call>>

NoCall == [made |-> FALSE]
Called(f, c, r) == [made |-> TRUE, file |-> f, credential |-> c, result |-> r]

Init == /\ seal \in Acquisitions
        /\ file = Written[seal]
        /\ blob = [b \in Blobs |-> Protected(b)]
        /\ faults = 0
        /\ keyring = {}
        /\ opened = {}
        /\ call = NoCall

Replace(f, field, v) == /\ faults < MaxFaults
                        /\ file' = [file EXCEPT ![f][field] = v]
                        /\ faults' = faults + 1
                        /\ call' = NoCall
                        /\ UNCHANGED <<seal, blob, keyring, opened>>

Mix(f, g, field) == Replace(f, field, Written[seal][g][field])

\* A damaged block of the payload decrypts to junk and garbles the one after it.
Garbled(sealed, i) ==
  LET block == iv_len[sealed.cipher] \div Word
  IN [sealed EXCEPT !.clear =
        [w \in DOMAIN @ |-> IF (w - 1) \div block \in {i, i + 1} THEN Lost ELSE @[w]]]

DamagePayload(f, i) == Replace(f, "sealed", Garbled(file[f].sealed, i))

Damaged == [guid |-> {Junk}, salt |-> {Junk}, rounds |-> 0 .. MaxRounds,
            alg_id_hash |-> {"CALG_UNKNOWN"}, alg_id_encrypt |-> {"CALG_UNKNOWN"}, len |-> Sizes]
Damage(f) == \E field \in DOMAIN Damaged : \E v \in Damaged[field] : Replace(f, field, v)

-----------------------------------------------------------------------------
Locked(b) == b \notin {o.blob : o \in opened}

derive(f, c) ==
  IF c.kind = "lsa" THEN derive_master_key(file[f], c.key)
                    ELSE derive_master_key_from_password(file[f], c.sid, c.password)

\* The file whose GUID a locked blob names, under one credential.
Derive(f, c) ==
  /\ UNCHANGED <<seal, file, blob, faults, opened>>
  /\ \E b \in Blobs : Locked(b) /\ blob[b].master_key_guid = file[f].guid
  /\ \E r \in derive(f, c) :
        /\ call' = Called(f, c, r)
        /\ keyring' = IF r.ok THEN keyring \cup {[guid |-> file[f].guid, credential |-> c,
                                                  key |-> r.value]}
                              ELSE keyring

\* The domain controller's backup key is refused, whatever the file holds.
DeriveFromBackup(f) ==
  /\ \E r \in derive_master_key_from_domain_backup(file[f], Junk) :
       call' = Called(f, [kind |-> "backup"], r)
  /\ UNCHANGED <<seal, file, blob, faults, keyring, opened>>

\* A key of the GUID the blob names is tried on it.
Decrypt(b, mk) ==
  /\ call' = NoCall
  /\ UNCHANGED <<seal, file, blob, faults, keyring>>
  /\ Locked(b)
  /\ \E e \in keyring : e.guid = blob[b].master_key_guid /\ e.key = mk
  /\ \E r \in decrypt_dpapi_blob(blob[b], mk, <<>>) :
       opened' = IF r.ok THEN opened \cup {[blob |-> b, value |-> r.value]} ELSE opened

Next == \/ \E f, g \in Files, field \in SealFields : f # g /\ Mix(f, g, field)
        \/ \E f \in Files, i \in 0 .. 20 : DamagePayload(f, i)
        \/ \E f \in Files : Damage(f)
        \/ \E f \in Files, c \in Credentials : Derive(f, c)
        \/ \E f \in Files : DeriveFromBackup(f)
        \/ \E b \in Blobs, e \in keyring : Decrypt(b, e.key)

progress == <<keyring, opened>>

\* As long as some call would yield a key or open a blob, one that does is made
\* in the end: the examiner tries every file with every credential, every key
\* on every blob.
Fairness == /\ WF_progress(\E f \in Files, c \in Credentials : Derive(f, c))
            /\ WF_progress(\E b \in Blobs, mk \in MasterKeys : Decrypt(b, mk))

Spec == Init /\ [][Next]_vars /\ Fairness

-----------------------------------------------------------------------------
Intact(f) == file[f] = Written[seal][f]

TypeOK == /\ seal \in Acquisitions
          /\ faults \in 0 .. MaxFaults
          /\ \A f \in Files : DOMAIN file[f] = SealFields
          /\ \A e \in keyring : e.credential \in Credentials /\ e.key \in MasterKeys
          /\ \A o \in opened : o.blob \in Blobs /\ o.value \in Plaintexts
          /\ call # NoCall => call.file \in Files

\* A master key comes out of a file only under the pre-key it was sealed with,
\* whatever was lost of the file or mixed into it (masterkey.rs:288, the
\* embedded HMAC, of a key that is found from the end of the cleartext).
KeyringAuthentic ==
  \A e \in keyring : \E f \in Files : /\ WindowsPreKey(seal[f].credential)
                                           = WindowsPreKey(e.credential)
                                      /\ seal[f].mk = e.key

\* The credential of an undamaged file always opens it: for each hash, whose
\* digest leaves a gap before the key or none, and each cipher, whose key takes
\* one block of the derivation or several.
RightCredentialOpens ==
  \A f \in Files : call # NoCall /\ call.file = f /\ Intact(f)
                     /\ call.credential = seal[f].credential
                       => call.result = Ok(seal[f].mk)

\* Any other credential, the same password of another account included, is
\* refused as HmacMismatch and never as an unsupported or damaged file.
WrongCredentialRefused ==
  \A f \in Files : call # NoCall /\ call.file = f /\ Intact(f)
                     /\ call.credential \in Credentials \ {seal[f].credential}
                       => call.result = Err("HmacMismatch")

\* No hash, cipher, sub-blob length or damage makes a slice leave what it is
\* taken from: the key and the IV the derived bytes (masterkey.rs:272, of a loop
\* that ends on whole digests), the master key from the end, the salt and the MAC
\* from the start of the cleartext (284-286), which need different lengths.
NoSlicePanic == call # NoCall => call.result # Panic

\* The GUID of a file is covered by no MAC.  A key under a wrong GUID is tried
\* on the wrong blobs, and never makes a secret of them.
MislabelledHarmless == \A o \in opened : o.value = o.blob.pt

\* A blob is within reach while a file of its GUID is undamaged, seals its key
\* and the credential is at hand.
WithinReach(b) ==
  \E f \in Files : /\ Intact(f) /\ seal[f].guid = b.master_key_guid
                   /\ seal[f].mk = b.mk /\ seal[f].credential \in Credentials

\* Every blob within reach is opened in the end, whatever lies beside it: files
\* damaged, mislabelled with its GUID, or sealed under other credentials.
ReachedIsOpened == \A b \in Blobs : []WithinReach(b) => <>~Locked(b)
=============================================================================
