------------------------------ MODULE Dpapi4n6 ------------------------------
(* The dpapi4n6 command line: an analyst runs a subcommand on an acquired     *)
(* store with a master key, reads the verdict, and runs it again with the     *)
(* key the verdict names.  A run reads the files, takes the DPAPI blob out of *)
(* its wrapper, decrypts it, and, for the browser and the vault, decrypts     *)
(* with what the blob held the cookie or the attributes beside it.            *)
EXTENDS DpapiCrypto, SequencesExt

CONSTANTS
  Stores,      \* the acquired stores
  Readable,    \* Readable[d]: the plaintexts of the shape decoder d expects
  Keyring      \* the master key of each GUID, which the analyst can source

(* A store is its kind, the state of its first file, the protection its blob  *)
(* came from (mint), the state of the file beside it (beside), the items in   *)
(* that file, and how a cookie begins and how long it is (coding).  The items *)
(* are the cookie, or the vault attributes, each sealed with a key, holding a *)
(* secret, and intact or not.                                                 *)
Kinds == {"browser", "credman", "vault", "wifi"}
Wrappers == [browser |-> {"missing", "noBlob", "badBase64", "noPrefix", "intact"},
             credman |-> {"missing", "cut", "intact"},
             vault |-> {"missing", "cut", "intact"},
             wifi |-> {"missing", "noBlob", "badHex", "intact"}]
Besides == [browser |-> {"none", "missing", "intact"},
            credman |-> {"none"},
            vault |-> {"missing", "unparsable", "cut", "intact"},
            wifi |-> {"none"}]
Decoders == Kinds \cup {"web"}
CookiePrefixes == {"v10", "v20", "DPAPI", "other"}
NoCoding == [prefix |-> "other", len |-> 0]
Items == [key : Plaintexts, secret : Plaintexts, intact : BOOLEAN]
Unparsable == [unparsable |-> TRUE]

\* The stores' blobs are protected without entropy; a cookie sealed by AES-GCM is
\* a prefix, a nonce and at least a tag.
ASSUME StoreShape ==
  \A s \in Stores :
    /\ IsProtection(s.mint) /\ s.mint.entropy = <<>>
    /\ s.kind \in Kinds
    /\ s.first \in Wrappers[s.kind]
    /\ s.beside \in Besides[s.kind]
    /\ s.items \in Seq(Items)
    /\ s.beside \notin {"intact", "cut"} => s.items = <<>>
    /\ s.coding.prefix \in CookiePrefixes /\ s.coding.len \in Nat
    /\ s.kind = "browser" /\ s.beside = "intact" =>
         /\ Len(s.items) = 1
         /\ s.items[1].intact => s.coding.prefix \in {"v10", "v20"} /\ s.coding.len >= 31
ASSUME ReadableShape == Readable \in [Decoders -> SUBSET Plaintexts]
ASSUME KeyringShape ==
  /\ \A g \in DOMAIN Keyring : Keyring[g] \in MasterKeys
  /\ \A s \in Stores : /\ s.mint.master_key_guid \in DOMAIN Keyring
                       /\ Keyring[s.mint.master_key_guid] = s.mint.mk

\* The value of --master-key: the hex of some key, or text that is not hex.
Malformed == "malformed"
KeyTexts == MasterKeys \cup {Malformed}
ASSUME MalformedIsNoKey == Malformed \notin MasterKeys

VARIABLES
  store,     \* the evidence
  blob,      \* the DPAPI blob in it, as it is now
  text,      \* --master-key
  pc,        \* where the run is
  opened,    \* what the blob held: the cookie key or the policy keys
  left,      \* the items still to be decrypted
  results,   \* the secrets found so far, with where they were found
  exit       \* the verdict: its kind, the GUID it names, what it reports

vars == <<store, blob, text, pc, opened, left, results, exit>>

evidence == <<store, blob>>

Phases == {"idle", "key", "first", "beside", "unwrap", "unlock",
           "cookie", "record", "attributes", "done"}
Verdicts == {"none", "Recovered", "Locked", "Dpapi", "Io", "BadMasterKey"}

Nothing == "nothing"
Verdict(kind, guid, found) == [kind |-> kind, guid |-> guid, results |-> found]
NoVerdict == Verdict("none", Nothing, <<>>)
Result(from, secret) == [from |-> from, secret |-> secret]

-----------------------------------------------------------------------------
Goto(phase) == pc' = phase /\ UNCHANGED exit

Exit(verdict) == pc' = "done" /\ exit' = verdict

\* A bug: the verdict of a failure carries what was found before it.
Fail_WithResults(kind) == Exit(Verdict(kind, Nothing, results))

\* `?` on an error of that kind: what was found so far is dropped.
Fail(kind) == Exit(Verdict(kind, Nothing, <<>>))

\* The blob of m, whole, past parsing, or with one field damaged or another
\* store's.
Acquired(m) ==
  {Protected(m), Unparsable}
    \cup {[Protected(m) EXCEPT ![f] = Noise(f)] : f \in BlobFields}
    \cup {[Protected(m) EXCEPT ![f] = Protected(s.mint)[f]] : f \in BlobFields, s \in Stores}

Init == /\ store \in Stores
        /\ blob \in Acquired(store.mint)
        /\ text = Malformed
        /\ pc = "idle"
        /\ opened = Nothing
        /\ left = <<>>
        /\ results = <<>>
        /\ exit = NoVerdict

Run(t) == /\ pc \in {"idle", "done"}
          /\ text' = t
          /\ pc' = "key"
          /\ opened' = Nothing
          /\ left' = <<>>
          /\ results' = <<>>
          /\ exit' = NoVerdict
          /\ UNCHANGED evidence

Advised == exit.kind = "Locked" /\ exit.guid \in DOMAIN Keyring

\* The analyst tries a key of their own, unless the last verdict names one.
Try(t) == ~Advised /\ Run(t)

\* The analyst sources the key of the GUID the verdict names.
Follow == Advised /\ Run(Keyring[exit.guid])

-----------------------------------------------------------------------------
(* One run, in the order of the code.                                         *)

\* Hex digits in even number: the length they make is not looked at.
parse_master_key_hex ==
  /\ pc = "key"
  /\ IF text = Malformed THEN Fail("BadMasterKey") ELSE Goto("first")
  /\ UNCHANGED <<evidence, text, opened, left, results>>

ReadFirst ==
  /\ pc = "first"
  /\ IF store.first = "missing" THEN Fail("Io") ELSE Goto("beside")
  /\ UNCHANGED <<evidence, text, opened, left, results>>

\* A bug: a file that cannot be read passes for an empty one.
ReadBeside_OrEmpty ==
  pc = "beside" /\ Goto("unwrap") /\ UNCHANGED <<evidence, text, opened, left, results>>

\* The cookie file or the VCRD, read before anything is decoded.
ReadBeside ==
  /\ pc = "beside"
  /\ IF store.beside = "missing" THEN Fail("Io") ELSE Goto("unwrap")
  /\ UNCHANGED <<evidence, text, opened, left, results>>

\* What the wrapper of each store's blob yields: the blob, or the kind of error
\* it is reported as.
parse_local_state_encrypted_key(field) ==
  IF field \in {"badBase64", "noPrefix"} THEN Err("Dpapi") ELSE Ok(blob)

LocalState(state) ==
  IF state = "noBlob" THEN Err("Io") ELSE parse_local_state_encrypted_key(state)

\* The CLI's own decoder, whose errors are those of the master key.
hex_decode(hex) == IF hex = "badHex" THEN Err("BadMasterKey") ELSE Ok(blob)

KeyMaterial(state) == IF state = "noBlob" THEN Err("Io") ELSE hex_decode(state)

BinaryWrapper(state) == IF state = "cut" THEN Err("Dpapi") ELSE Ok(blob)

Wrapped(kind, state) == CASE kind = "browser" -> LocalState(state)
                          [] kind = "wifi" -> KeyMaterial(state)
                          [] OTHER -> BinaryWrapper(state)

Unwrap ==
  /\ pc = "unwrap"
  /\ LET r == Wrapped(store.kind, store.first)
     IN IF r.ok THEN Goto("unlock") ELSE Fail(r.value)
  /\ UNCHANGED <<evidence, text, opened, left, results>>

\* Bugs: a failed padding is not taken for a wrong key; the GUID is not found.
locked_or_err_MacOnly(b, e) ==
  IF e = "HmacMismatch" THEN Verdict("Locked", b.master_key_guid, <<>>)
                        ELSE Verdict("Dpapi", Nothing, <<>>)
locked_or_err_NoGuid(b, e) ==
  IF e \in {"HmacMismatch", "DecryptionFailed", "DomainBackupUnsupported"}
    THEN Verdict("Locked", "unknown", <<>>)
    ELSE Verdict("Dpapi", Nothing, <<>>)

\* A failure of the key becomes Locked, with the GUID parsed from the blob
\* again; any other is passed on.
locked_or_err(b, e) ==
  IF e \in {"HmacMismatch", "DecryptionFailed", "DomainBackupUnsupported"}
    THEN Verdict("Locked",
                 IF b = Unparsable THEN "unknown" ELSE b.master_key_guid, <<>>)
    ELSE Verdict("Dpapi", Nothing, <<>>)

\* Parse and decrypt without entropy, then require of the plaintext the shape
\* the store gives it, or report e.
Decoded(decoder, e, b, mk) ==
  IF b = Unparsable THEN {Err("Malformed")}
  ELSE {IF r.ok /\ r.value \notin Readable[decoder] THEN Err(e) ELSE r
          : r \in decrypt_dpapi_blob(b, mk, <<>>)}

\* Exactly 32 bytes; a CREDENTIAL_BLOB; two wrapped keys; UTF-8 up to a NUL.
decrypt_local_state_key(b, mk) == Decoded("browser", "UnexpectedKeyLength", b, mk)
decrypt_credential(b, mk) == Decoded("credman", "TooShort", b, mk)
decrypt_vpol_keys(b, mk) == Decoded("vault", "TooShort", b, mk)
decrypt_wlan_key_material(b, mk) == Decoded("wifi", "Utf16Error", b, mk)

DecryptStore(b, mk) == CASE store.kind = "browser" -> decrypt_local_state_key(b, mk)
                         [] store.kind = "credman" -> decrypt_credential(b, mk)
                         [] store.kind = "vault" -> decrypt_vpol_keys(b, mk)
                         [] store.kind = "wifi" -> decrypt_wlan_key_material(b, mk)

\* Where the recovered plaintext goes: the vault's policy keys are not reported.
Found(pt) == IF store.kind = "vault" THEN <<>> ELSE <<Result("blob", pt)>>

AfterUnlock(found) ==
  CASE store.kind = "vault" -> Goto("record")
    [] store.kind = "browser" /\ store.beside # "none" -> Goto("cookie")
    [] OTHER -> Exit(Verdict("Recovered", Nothing, found))

Unlock ==
  /\ pc = "unlock"
  /\ \E r \in DecryptStore(blob, text) :
       IF r.ok THEN /\ opened' = r.value
                    /\ results' = Found(r.value)
                    /\ AfterUnlock(Found(r.value))
               ELSE /\ Exit(locked_or_err(blob, r.value))
                    /\ UNCHANGED <<opened, results>>
  /\ UNCHANGED <<evidence, text, left>>

\* A bug: the cookie is decrypted without checking its tag.
decrypt_v10_cookie_NoTag(cookie, key) ==
  Ok(IF cookie.intact /\ cookie.key = key THEN cookie.secret ELSE Garbage)

\* AES-GCM checks the cookie: it opens with its own key or not at all.
decrypt_v10_cookie(cookie, key) == IF cookie.intact /\ cookie.key = key
                                     THEN Ok(cookie.secret)
                                     ELSE Err("DecryptionFailed")

\* A prefix counts only before a nonce and a byte more.
detect_chrome_cookie_encoding(data) ==
  CASE data.len > 15 /\ data.prefix = "v20" -> "V20"
    [] data.len > 15 /\ data.prefix = "v10" -> "V10"
    [] data.prefix = "DPAPI" -> "DpapiBlob"
    [] OTHER -> "Raw"

\* A bug: the cookie key is reported although the cookie did not open.
OpenCookie_KeyAlone ==
  /\ pc = "cookie"
  /\ LET r == decrypt_v10_cookie(store.items[1], opened)
         found == IF r.ok THEN Append(results, Result("cookie", r.value)) ELSE results
     IN results' = found /\ Exit(Verdict("Recovered", Nothing, found))
  /\ UNCHANGED <<evidence, text, opened, left>>

\* A cookie that is neither v10 nor v20, or does not open, takes the cookie key
\* already recovered with it.
OpenCookie ==
  /\ pc = "cookie"
  /\ IF detect_chrome_cookie_encoding(store.coding) \notin {"V10", "V20"}
       THEN Fail("Io") /\ UNCHANGED results
     ELSE LET r == decrypt_v10_cookie(store.items[1], opened)
              found == Append(results, Result("cookie", r.value))
          IN IF r.ok THEN /\ results' = found
                          /\ Exit(Verdict("Recovered", Nothing, found))
                     ELSE Fail("Dpapi") /\ UNCHANGED results
  /\ UNCHANGED <<evidence, text, opened, left>>

\* What a record cut short may pass for (VcrdParser, CutLosesAtMostLast): an
\* empty one, one without its last attribute, or, cut inside the first entry of
\* its map, one attribute that fills it.
CutTo(items) ==
  {<<>>, items}
    \cup (IF items = <<>> THEN {}
          ELSE {Front(items), <<[Head(items) EXCEPT !.intact = FALSE]>>})

parse_vcrd_attributes == CASE store.beside = "unparsable" -> {Err("TooShort")}
                           [] store.beside = "cut" ->
                                {Err("TooShort")} \cup {Ok(c) : c \in CutTo(store.items)}
                           [] OTHER -> {Ok(store.items)}

ParseRecord ==
  /\ pc = "record"
  /\ \E r \in parse_vcrd_attributes :
       IF r.ok THEN Goto("attributes") /\ left' = r.value
               ELSE Fail("Dpapi") /\ UNCHANGED left
  /\ UNCHANGED <<evidence, text, opened, results>>

\* An attribute carries no MAC.  Under another key, or damaged, it decrypts to
\* bytes that are no credential, or that are one nobody stored; or not at all.
OpenAttribute(attr, key) ==
  IF attr.intact /\ attr.key = key
    THEN {IF attr.secret \in Readable["web"] THEN Ok(attr.secret) ELSE Err("Undecodable")}
    ELSE {Err("DecryptionFailed"), Ok(Garbage)}

\* A bug: the loop stops at the first credential.
NextAttribute_First ==
  /\ pc = "attributes" /\ left # <<>>
  /\ \E r \in OpenAttribute(Head(left), opened) :
       /\ results' = IF r.ok THEN Append(results, Result("attribute", r.value)) ELSE results
       /\ left' = IF r.ok THEN <<>> ELSE Tail(left)
  /\ UNCHANGED <<evidence, text, pc, opened, exit>>

\* An attribute that does not open, or is no web credential, is passed over.
NextAttribute ==
  /\ pc = "attributes" /\ left # <<>>
  /\ \E r \in OpenAttribute(Head(left), opened) :
       results' = IF r.ok THEN Append(results, Result("attribute", r.value)) ELSE results
  /\ left' = Tail(left)
  /\ UNCHANGED <<evidence, text, pc, opened, exit>>

EndOfRecord ==
  /\ pc = "attributes" /\ left = <<>>
  /\ Exit(Verdict("Recovered", Nothing, results))
  /\ UNCHANGED <<evidence, text, opened, left, results>>

Step == \/ parse_master_key_hex \/ ReadFirst \/ ReadBeside \/ Unwrap \/ Unlock
        \/ OpenCookie \/ ParseRecord \/ NextAttribute \/ EndOfRecord

Next == \/ \E t \in KeyTexts : Try(t)
        \/ Follow
        \/ Step

\* A run is sequential code with no loop but that over the attributes, so it
\* goes on to its end; an analyst told which key is missing sources it.
Fairness == WF_vars(Step) /\ WF_vars(Follow)

Spec == Init /\ [][Next]_vars /\ Fairness

-----------------------------------------------------------------------------
(* What the evidence is, as only its history tells.                           *)

Sound(item) == item.intact /\ item.key = store.mint.pt

Secrets == (IF store.kind = "vault" THEN {} ELSE {store.mint.pt})
             \cup {store.items[i].secret : i \in DOMAIN store.items}

\* Nothing is damaged or missing and every part is of a kind the code knows.
Whole == /\ store.first = "intact"
         /\ blob = Protected(store.mint)
         /\ store.mint.alg_id_hash \in DOMAIN hash_alg_info
         /\ store.mint.pt \in Readable[store.kind]
         /\ store.beside \in {"none", "intact"}
         /\ \A i \in DOMAIN store.items :
              /\ Sound(store.items[i])
              /\ store.kind = "vault" => store.items[i].secret \in Readable["web"]

\* A vault record cut short, or with attributes damaged or another vault's.
Unchecked == /\ store.kind = "vault"
             /\ \/ store.beside = "cut"
                \/ \E i \in DOMAIN store.items : ~Sound(store.items[i])

SecretsIn(found) == {found[i].secret : i \in DOMAIN found}

TypeOK ==
  /\ blob = Unparsable \/ DOMAIN blob = BlobFields
  /\ text \in KeyTexts
  /\ pc \in Phases
  /\ pc \in {"cookie", "record", "attributes"} => opened \in Plaintexts
  /\ left \in Seq(Items)
  /\ exit.kind \in Verdicts
  /\ (exit.kind # "none") = (pc = "done")
  /\ exit.kind # "Recovered" => exit.results = <<>>

\* A run reports a secret only with the key its blob was protected under, and
\* only secrets the store really holds; the one exception is a vault attribute,
\* which nothing authenticates (lib.rs decode_*, "never a guessed secret").
SecretsAuthentic ==
  exit.kind = "Recovered" =>
    /\ text = store.mint.mk
    /\ ~Unchecked => SecretsIn(exit.results) \subseteq Secrets

\* The right key on an undamaged store recovers every secret in it, whichever
\* subcommand: neither a decoder's early return nor the loop that passes over
\* attributes loses one.
RightKeyRecoversAll ==
  pc = "done" /\ Whole /\ text = store.mint.mk =>
    /\ exit.kind = "Recovered"
    /\ SecretsIn(exit.results) = Secrets
    /\ Len(exit.results) = Len(store.items) + (IF store.kind = "vault" THEN 0 ELSE 1)

\* Any other key on an undamaged store is answered with Locked, and the GUID
\* names the key that does open it (locked_or_err, lib.rs:178).
WrongKeyAdvised ==
  pc = "done" /\ Whole /\ text \in MasterKeys \ {store.mint.mk} =>
    exit.kind = "Locked" /\ Keyring[exit.guid] = store.mint.mk

\* "Present but locked" is said only of a store that is there: every file it
\* needs was read and its blob taken out, whatever the key.
PresentBeforeLocked ==
  exit.kind = "Locked" => /\ store.first = "intact"
                          /\ blob # Unparsable
                          /\ store.beside # "missing"

\* Whatever key is tried first on an undamaged store, following the GUID the
\* verdict names ends in all its secrets.
AdviceUnlocks ==
  pc = "key" /\ Whole /\ text \in MasterKeys
    ~> exit.kind = "Recovered" /\ SecretsIn(exit.results) = Secrets

\* The program implements its promise.  Only a vault is reported item by item:
\* a cookie that does not open takes the key recovered before it along
\* (lib.rs:242).
Truth == [guid |-> IF blob = Unparsable THEN Nothing ELSE blob.master_key_guid,
          opener |-> store.mint.mk, secrets |-> Secrets,
          sound |-> Whole, checked |-> ~Unchecked, piecemeal |-> store.kind = "vault"]
Said(v) == CASE v.kind = "none" -> [says |-> "nothing"]
             [] v.kind = "Recovered" -> [says |-> "revealed", secrets |-> SecretsIn(v.results)]
             [] v.kind = "Locked" -> [says |-> "locked", guid |-> v.guid]
             [] OTHER -> [says |-> "refused"]
Promise == INSTANCE RefuseBoundary WITH
             Keys <- KeyTexts, Secrets <- Plaintexts \cup {Garbage},
             truth <- Truth, key <- text, answer <- Said(exit)
KeepsPromise == Promise!Spec

-----------------------------------------------------------------------------
(* What the documentation says and the code does not do.                      *)

\* "three distinct, honest outcomes, never conflated into a clean-looking
\* empty" (docs/decisions/0006:44): success with no secret means there is none.
NoCleanEmpty == exit.kind = "Recovered" /\ Secrets # {} => exit.results # <<>>

\* "... or a plausible wrong secret" (docs/decisions/0006:46).
NoWrongSecret == exit.kind = "Recovered" => SecretsIn(exit.results) \subseteq Secrets

\* "The master-key material was malformed" (lib.rs:35, CliError::BadMasterKey).
BlamesTheKey == exit.kind = "BadMasterKey" => text = Malformed

\* "unsupported version/algorithm ... is a distinct DpapiError variant"
\* (docs/decisions/0003:28): an unknown hash is not reported as a missing key.
UnknownHashNamed ==
  exit.kind = "Locked" /\ blob = Protected(store.mint)
    => blob.alg_id_hash \in DOMAIN hash_alg_info
=============================================================================
