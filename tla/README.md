# A TLA+ verification of dpapi-forensic

dpapi-forensic decrypts Windows DPAPI secrets (Credential Manager files, Vault
records, Wi-Fi pre-shared keys, Chromium cookie keys and cookies) from acquired
files, given a master key. It is a library, `dpapi-core` (`core/`), and a command
line, `dpapi4n6` (`forensic/`). There is no thread, no shared state and nothing is
written to disk: what is hard about it is not interleaving but *evidence*. Its
input is damaged, cut short, mixed and untrusted; its readers use three different
disciplines for running off the end of a buffer; its cryptography concatenates
fields of unknown length; and its answers are used as findings, so a wrong
secret, a missing secret that looks like an empty store, and a locked store that
names the wrong key are all failures, and none of them crashes.

Paths below are relative to the repository root.

## 1. Inventory

| Part | Source | State | Operations | Correct when |
|---|---|---|---|---|
| DPAPI blob parser | `core/src/blob.rs` | cursor `pos`, fields taken, noted `sign_len_pos` | `parse_dpapi_blob`, `read_u32`, `read_len_prefixed`, `hash_alg` | no panic; no fallback 0 in a result; accepts exactly the buffers that hold the declared layout; the MAC covers every field decryption uses |
| Master-key file parser | `core/src/masterkey.rs` 60-190 | cursor, four u64 lengths | `parse_masterkey_file`, `parse_master_key` | as above, and a declared length is never shortened |
| Master-key derivation | `core/src/masterkey.rs` 190- | prekey, PBKDF2 key, decrypted blob, embedded HMAC | `prekey_from_sha1`, `prekey_from_password`, `derive_master_key_from_*` | right credential opens, whatever hash and cipher; any other is `HmacMismatch`; only the sealed key comes out; no slice panics; domain backup is refused |
| Blob decryption | `core/src/decrypt.rs` | none between calls | `decrypt_dpapi_blob` and its steps | only what was protected under that key and entropy comes out |
| Credential Manager | `core/src/credential.rs` | cursor | `parse_credential_file`, `parse_credential_blob`, `decrypt_credential` | parser properties |
| Vault policy | `core/src/vault.rs` | cursor, two keys | `parse_vpol_file`, `decrypt_vpol_keys` | parser properties |
| Vault record | `core/src/vault.rs` | attribute map, absolute offsets | `parse_vcrd_attributes`, `parse_attribute_payload`, `decrypt_vcrd_attribute`, `parse_internet_explorer` | every payload of an intact record is recovered; no byte is used twice; a cut record loses at most its last attribute |
| Browser | `core/src/chrome.rs` | none | Local State key, cookie detection, AES-GCM | a cookie opens with its key or not at all |
| Wi-Fi | `core/src/wifi.rs` | none | keyMaterial extraction, PSK | errors are about the profile |
| Command line | `forensic/src/lib.rs`, `main.rs` | the recovered results of one run | `Cli::run`, `decode_browser/credman/vault/wifi`, `locked_or_err` | the three verdicts (recovered, locked, refused) are honest and actionable |
| Errors and API | `core/src/error.rs`, `core/src/lib.rs` | none | - | callers can tell the kinds apart |
| Test-vector builders | `tests/data/*.py` | none | protect a blob as Windows does | the reference for what decryption must undo |
| forensicnomicon | external crate | tables | hash and cipher algorithm tables | - |
| Build, CI, supply chain | `Cargo.toml`, `deny.toml`, ... | - | - | - |

How they interact. A run of the command line reads one or two files, has a
decoder take the DPAPI blob out of its wrapper (JSON and base64, XML and hex, or a
binary header), and calls the store's `decrypt_*`, which parses the blob, decrypts
it and interprets the plaintext. For the browser and the vault the plaintext is a
key, used on a second artifact. A failure travels back as a `DpapiError`;
`locked_or_err` turns the kinds a wrong key causes into `Locked`, parsing the blob
a second time for its GUID. The interaction across runs goes through the analyst,
who reads the verdict, sources the key of that GUID and runs again. Sourcing it is
the other chain: a master-key file that carries the GUID, a SID and password (or an
LSA key), `derive_master_key_from_*`, and the key tried on the blobs of that GUID.

What is hard here (PROJECT.json lists each hazard at its line):

* integer width: `pos + len` plain, `checked_add`, and `saturating_add` side by
  side, u64 lengths cut by `as usize`, on targets and builds where a sum wraps,
  panics or fits;
* reads past the end that yield 0, harmless only because of what is read next;
* the region the MAC covers, which depends on where between two reads a position
  is noted;
* order inside decryption: the padding is checked before the Sign, so two errors
  mean "wrong key" and every caller must know both;
* concatenation without lengths: salt, HMac and entropy run into each other;
* offsets without order: the attributes of a Vault record are delimited by absolute
  offsets, read from a map whose size nothing checks, and a pad is recognised by
  six zero bytes;
* parts found from both ends: the MAC of a master key from the start of the
  cleartext, the key itself from the end;
* partial failure: an attribute that fails is skipped, a cookie that fails takes
  the recovered cookie key with it;
* protocol over several runs: the advice in a `Locked` verdict must end in the
  secrets.

## 2. The modules

```
CursorParser <- DpapiParsers <- MCDpapiParsers        the parsers
     |                ^------- DpapiParsers_proofs
     ^--------- CursorParser_proofs ---^
VcrdParser   <- MCVcrdParser                          the Vault record
     ^--------- VcrdParser_proofs
Induction_proofs                                      lemmas of the three proof modules above
DpapiCrypto  <- ProtectedBlobs <- MCProtectedBlobs    one blob and its callers
     |               ^--------- ProtectedBlobs_proofs
     |--------- MasterKeyDerivation                   a file and a password to a key
     |               ^--------- Recovery <- MCRecovery    passwords to secrets
     |                             ^------- Recovery_proofs
     |--------- DpapiCrypto_proofs                    lemmas of three proof modules
     ^--------- Dpapi4n6 <- MCDpapi4n6                 the command line
                   ^------- Dpapi4n6_proofs
                   '--INSTANCE RefuseBoundary          what it promises
```

**CursorParser** is the machine every parser of the library is: `pos` (the code's
cursor), `ip` (how many reads are done), `declared` (the length words read), `span`
(from where each field was taken), `fellBack` (whether a read past the end gave
0), `outcome`. One action per *reader* the code uses: `Need` is the up-front
`len() < n` check, `Index` is `data[a..b]`, `Word` and `LenWord` are the fallback
reads of blob.rs, credential.rs and vault.rs, `WordOrErr` and `LenOrErr` those of
masterkey.rs, `Take` is `get(pos..pos + len)` with a plain sum, `CheckedTake` with
`checked_add`, `Advance` is vault.rs's `advance`, `Mark` and `Region` the noted
position and the slice made from it. Bytes are abstracted to their number and to
the values of length words, chosen when they are read; `usize` and u64 keep
their widths, and `OverflowChecks` says whether an overflowing sum panics.

**DpapiParsers** writes each parser as the sequence of those reads its source
performs, and states what the Sign MAC covers. What the bytes of a layout are for given
length words (`Extent`, `Needed`) is in `CursorParser`, where the proofs need it.

**DpapiCrypto** is the blob cryptography as terms. A hash is a record naming its
message, so two digests agree exactly when they are digests of the same bytes;
what is kept is *which* bytes, in which order, under which key and algorithm. It
has both directions: `decrypt_dpapi_blob` from decrypt.rs, and `Protected(m)`, the
protection of `m`, from the repository's vector builders. A field damaged is
`Noise`. The tables of forensicnomicon are external, taken from how the code and
its comments use them.

**ProtectedBlobs** gives that a history: blobs are protected (`Protect`), fields
of the one examined are overwritten by those of another blob (`Mix`) or by junk
(`Damage`), and any key and entropy is tried (`Decrypt`).

**VcrdParser** is `parse_vcrd_attributes`. It differs from the parsers above: its
cursor jumps to offsets the file names, its map loop has as many rounds as a word
says, and what is read there matters by place. So a file is its length and the words
written into it by position (`words`); a read elsewhere is noise, one past the end is
the fallback 0. One action per stage: `Header`, `ReadEntry` (one map entry), `EndOfMap`,
`ReadAttribute` (one attribute with its `parse_attribute_payload`), `Finish`. The
writer's side (`Offsets`, `AttributeWords`, `RecordWords`) is `build_vault_vector.py`.
A target is the width of usize, the limit of an allocation, and whether overflow is
checked.

**MasterKeyDerivation** goes from a master-key file and a pre-key to the key. A
cleartext is a sequence of four-byte words that name the part they belong to (salt,
MAC, fill, key), so that the code's slices, from the start for salt and MAC and from
the end for the key, are slices here too; damage makes words `Lost`. The iterated XOR
derivation is kept as its start, its number of further rounds and its blocks, with the
number of bytes they make. Each slice is checked against what it is taken from on its own
(`InRange` of `KeySlices` and `Slices`), whatever was checked before it.
`MkModule` is the hash, which for CALG_HMAC is not the table's. The writing side
(`Sealed`) is external: the layout masterkey.rs gives for the oracle file.

**Recovery** composes them: files and blobs are acquired, fields of the files are
damaged (`Damage`, `DamagePayload`) or taken from another file (`Mix`), `Derive` opens
a file whose GUID a locked blob names with one credential, `Decrypt` tries a key on a
blob of its GUID. The caller is not part of the library; what it does is what the
`Locked` verdict and docs/plans/dpapi-step2.md ask of it.

**Dpapi4n6** is the command line over several runs. `store` is the acquired
evidence (what each of its files is like), `blob` the DPAPI blob now in it, `pc`
the place in `Cli::run`: parse the hex of the key, read the first file, read the
second, unwrap, unlock, then the cookie or the attributes one at a time. The
actions follow the order of the source, since that order decides which verdict a
store with two faults gets. `Wrapped` has one operator per wrapper and `DecryptStore` one per
decoder, each with its own errors; `detect_chrome_cookie_encoding` works on the
prefix and the length of a cookie; a record cut short yields what `VcrdParser` shows
it can (`CutTo`). `Try` and `Follow` are the analyst.

**RefuseBoundary** is what ADR 0006 (`docs/decisions/0006-*`) promises, in terms
of what the evidence *is*: `Reveal`, `Lock`, `Refuse`. `Reveal` is all of a store that is
sound, and all of one whose secrets stand or fall together: only a vault, whose attributes
are decrypted one by one (`piecemeal`), may be reported in part. `Dpapi4n6` maps its state to
it (`Truth`, `Said`) and `KeepsPromise` says the command line implements it.

## 3. The runs

| Run | What it shows |
|---|---|
| `parsers64` | 64-bit release build, all eight straight-line parsers: no panic, no fallback 0 in a result, honoured lengths are the declared ones, a buffer is refused exactly when it cannot hold its own layout, and the Sign covers every field used |
| `parsers32` | 32-bit build with overflow checks: no fallback 0, and an overflow panic only replaces the refusal of a short buffer |
| `masterkey_panics` | counterexample: a u64 length makes `pos + len` panic where overflow is checked |
| `masterkey_truncated` | counterexample: a u64 length is cut to 32 bits and a short sub-blob is returned |
| `blobs` | `Integrity`, `RightKeyRecovers`, `WrongKeyRefused`, `KeyLongEnough` under mixing and damage |
| `vcrd` | whole records of every attribute layout yield exactly their payloads (`IntactRecovered`); damaged ones yield pieces that lie in the buffer and do not overlap (`Disjoint`); a cut one loses at most its last attribute (`CutLosesAtMostLast`); panics only where usize is as narrow as the words (`PanicOnlyNarrow`) |
| `recovery` | only what was sealed comes out of a file (`KeyringAuthentic`), the right credential always opens it and any other is a mismatch (`RightCredentialOpens`, `WrongCredentialRefused`), no slice leaves what it is taken from (`NoSlicePanic`), a file under a wrong GUID harms nothing (`MislabelledHarmless`), and every blob within reach is opened in the end (`ReachedIsOpened`, liveness) |
| `cli` | the verdicts are honest (`SecretsAuthentic`, `RightKeyRecoversAll`, `WrongKeyAdvised`, `PresentBeforeLocked`), advice ends in the secrets (`AdviceUnlocks`, liveness), and the refinement `KeepsPromise` |
| `vault_empty` | counterexample: success with no secret from a damaged record |
| `vault_forged` | counterexample: a damaged attribute reported as a credential |
| `wifi_blame` | counterexample: a damaged profile reported as a bad master key |
| `unknown_hash` | counterexample: an undamaged blob of an unknown hash reported as locked |

Bounds, and why they are enough.

* Parsers: integers are scaled, a u32 holds 0..8191 and a u64 0..2^20-1; what
  matters is that a u64 does not fit in a 32-bit usize and that a length word may
  be as large as its type. Buffers are 0..142 bytes: every fixed layout is
  shorter (the longest, the master-key header, is 128), so each read of each
  parser is the one that runs off the end in some buffer. Lengths are 0, 3 and
  the largest value; a u64 also 2^32 + 3 (scaled), which a narrow usize turns
  into 3.
* Blobs: two keys, two GUIDs, two plaintexts; pieces S1, E1, N1 chosen so that
  salt S1 with entropy E1 is the same concatenation as salt S1 E1 without; every
  hash of the table and one outside it, both ciphers, both forms of the Sign.
  `MaxMinted` = 2 blobs can be mixed and `MaxFaults` = 3 fields overwritten, enough
  to replace salt, HMac and ciphertext together. The theorems below have no such
  bounds.
* Vault records: words hold 0..1023, and a narrow usize no more; eleven records of
  up to three attributes, with and without pad, Unknown5 and IV, with names of three
  lengths, and one too short to carry a payload. Each is whole, cut at every length,
  or has any one word replaced by a boundary value. What stands where no word was
  written is one of four patterns: zero, steps, a ladder of offsets, and the largest
  value, so that a misplaced read finds a zero, a small, a plausible and an absurd
  number.
* Recovery: two files in three acquisitions (the same algorithms throughout; one
  password of two accounts, with a key of several blocks and a MAC that leaves a gap
  before the key; two files of one GUID under CALG_HMAC, one of them under a lost
  password), four credentials, rounds 0..3, one field damaged or mixed, with a length
  on both sides of every guard. The theorems below have no bound on faults, lengths or
  files.
* Command line: one store of every kind in every state of its files, cookies on
  both sides of the length that makes a prefix count, blobs undamaged, with any one
  field damaged or another store's, or past parsing; up to two items beside it,
  whole or cut short; three well-formed keys, one belonging to no GUID, and
  text that is no hex. Runs repeat without bound.

Deadlock is checked in every run. A finished parser stutters (`Returned`); the
analyst can always run the program again.

Fairness. `Dpapi4n6` assumes `WF_vars(Step)`: a run is sequential code whose only
loop goes over the attributes, so it reaches its verdict. It assumes
`WF_vars(Follow)`: an analyst told which key is missing sources it and runs again;
this is an assumption about the analyst, and `AdviceUnlocks` is the statement that
following the advice is enough. It is not about the analyst's luck: `Try` is
possible only when the last verdict named no key of the keyring, and the first key
may be any. `Recovery` assumes `WF_progress` of `Derive` and of `Decrypt`: as long as
some derivation would yield a new key, or some key open a locked blob, one that does
is made in the end. This too is an assumption about the caller, who tries every file
with every credential; that a blob within reach then opens, whatever damaged,
mislabelled or foreign files lie beside it, is what `ReachedIsOpened` adds. The other
modules state safety only, and assume no fairness.

## 4. The proofs

TLAPS proves every safety invariant the passing runs check, and the refinement of
`RefuseBoundary`, for every value of the constants that meets the assumptions named
here. TLC evaluates each assumption on the instances it runs.

**Induction_proofs.** Layouts and offsets are recursive functions over sequences of any
length. Their lemmas (what an `Extent` is, that it only grows, that an earlier length word
does not move a later one back) need induction over data, and the library's induction
theorems take the predicate as a parameter, which the provers here cannot instantiate. `Induct`
states it for a *set* of numbers instead, from the least element of what is left out
(`NatMin`, by well-founded minimum); `IteratesExist` and `SumsExist` show that a
function defined by recursion on its index exists and unfolds.

**CursorParser_proofs** is about any parser built from these reads. Assumptions:
`CodeShape` (parsers are sequences of reads), `Sizes`, `EndsBounded` (the last read of a
parser is a checked one), `Roomy` (a buffer is short enough that fixed-width reads stay
in usize; Rust guarantees `isize::MAX`), `SizesChecked` (an up-front check asks for no
more than the layout, and an index is behind one that covers it), `EndsChecked` (a region
ends at a noted position, the rest of a buffer is taken from a cursor inside it) and
`TakenOnce` (a field is taken once, behind its length). They are what is to be read off each
parser's source. `TypeCorrect` needs no strengthening.

* `NoSilentZeroHolds`: that no fallback 0 reaches a result is not inductive, because
  parsers do read past the end and go on. `Inv` adds `CursorBound`, the cursor has moved no
  further than the reads done can move it, so it has not wrapped; `Settled`, right after a
  bounded read the cursor is inside the buffer; `PastEnd`, once a read fell back the
  cursor is past the end, so the next bounded read fails; and `OkAtEnd`.
* `NoPanicHolds`, `AsDeclaredHolds`, `ExactRefusalHolds`, `OverflowOnlyWhenShortHolds`: the
  invariant `Layout` ties the cursor to the layout the length words read *so far*
  describe. `AtMost` and `AtLeast` put it exactly where the next read starts;
  `PastFixed` is what remains of that where a length was cut; `HeaderThere`, `Marked` and
  `TakenWhole` say what passed checks, noted positions and taken fields have established;
  `RefusedShort` that a refusal means the layout does not fit. A length word read later
  moves only what lies behind it (`ExtentKept`), which makes this inductive.
  The hypotheses are the ones the findings show to be necessary: `Fits`, no u64 length
  exceeds usize, for the second and third; a release build, or lengths added by
  `checked_add` only, for the first. The last has none.

**DpapiParsers_proofs** applies that to the eight parsers, under `OwnReads` (each parser
performs its own reads). `SignedCoverageHolds` adds `Placed`: a field lies where the layout
places it, whatever was read since. It is about the position noted between two reads:
the region starts at byte 20, each signed field is read once between there and the mark, and
layouts only grow. `CheckedNeverPanics` and `OnlyMasterKeyCuts` drop the hypotheses parser
by parser: on any target and build the credential and vault parsers never panic, and all but
`parse_masterkey_file` take their fields as declared. So `masterkey.rs` is the only place a length is
cut; a plain sum can panic there and, where usize is 32 bits and overflow checked, in
`parse_dpapi_blob`, and by `OverflowOnlyWhenShortHolds` neither loses a well-formed file.

**ProtectedBlobs_proofs** proves its five invariants for any keys, plaintexts, entropies and
protections and any number of faults. `IInv` is `minted \subseteq Mints`,
`DiskShape` (what the HMac on disk is made of), `SignIn` (the Sign on disk is one that was
made, or junk), and `CallCurrent` (the last call is one on the blob as it is; any change of the
blob forgets it). A step may put any field beside any other; what ties them together again
is `AcceptedIsProtected`: a Sign that verifies was made under that key, that entropy and
over that very region. Under it lie `PlainBinds` and `NestedBinds` (each form of the Sign
determines key, entropy and region), `BoundaryFixed` (HMac and entropy are concatenated,
but the region after them, which contains the HMac, fixes the boundary) and `FormsDiffer`
(one form is never mistaken for the other). `SameModule` and `SameKey` show the key
the cipher runs with is the one it was encrypted under, `RightKeyDecrypts` and `WrongKeyRefuses` what
that means for an undamaged blob, `DerivedLongEnough` that no hash and cipher id, damaged
ones included, asks for more key than was derived. Assumptions: `MintShape`
(`IsProtection`: what the builders protect; AES goes with a hash long enough for its key),
`EntropyShape`, `BoundShape`, and `PlaintextShape`: no application protects the values that stand
for a failed or a garbled decryption. Hashes are injective in this model: the
theorems are about what the code feeds them, not about collisions.

**VcrdParser_proofs** proves its five invariants for any records, damage, noise and targets.

* `DisjointHolds`: offsets come from the file in no order, so the invariant ties the pieces
  to the walk: `Walk`, the map read so far and the attribute at hand are what the code's
  loops say; `NoneYet`, nothing is extracted before the map is read; `Behind`, everything
  extracted ends no later than the next attribute starts, which holds because an attribute
  ends where its successor's offset says and a slice that runs backwards is refused.
  `TargetShape` is needed: a slice is at most isize::MAX bytes, so a sum that wraps falls
  below its start and is refused.
* `IntactRecoveredHolds`, `CutLosesAtMostLastHolds`: `Reading` follows the walk over an
  undamaged file. A map entry that is whole was read as written (`EntriesRead`); the
  attributes extracted are exactly the payloads of those walked (`Walked`), the one before a
  cut entry ends at 0 and is refused. `RecordShape` leaves out one kind of record: without a
  pad, an id of 100 or more, Unknown5 zero and a Size that is a multiple of 2^16 look like a
  pad, and the format has nothing else to tell them by (`Ambiguous`).
  `IntactShape` says an undamaged file is its record up to some length.
* `PanicOnlyNarrowHolds`: `MapRoom` and `Wide`, from `WideShape`: where usize is wider than a
  word, any word can be added to any place in a buffer and reserved for.

**Recovery_proofs** proves the six invariants of `Recovery` for any files, credentials,
sealings, lengths and any number of damaged or mixed fields. `Evidence` says the sealing stays
the one acquired and every payload on disk is made of genuine parts: they are those of one
of the acquired sealings, and the fifth word is a MAC's or lost (`GarbledGenuine`). Then
a MAC that matches was made over the key that comes out and under the pre-key supplied: the
fifth word of the cleartext says whether it is a MAC's at all (`CleartextFifth`,
`StoredMac`), and HMACs are injective (`HmacInjective`). The full invariant, `IInv`, adds that blobs
stay as they are, what was opened is a blob's own, and the last call is one on the files as they are. `SealedOpens` and
`SealedRefuses` follow an undamaged file through the derivation, slices from both ends
included (`PartsFound`). `NoSlicePanic` has two sides: `GuardHolds`, the one length guard is
enough for the three slices of the cleartext, and `BlocksSuffice`, whole digests are derived
until they hold key and IV. `MislabelledHarmless`
is the blob's own Sign (`DecryptSoundOne`), whatever GUID brought the key to it.
Assumptions: `SealShape`, `SizesShape`, `BoundShape`, `BlobShape` (the blobs are protections, without
entropy), `CredentialShape` (an LSA pre-key is random: it is not the hash of an account's
password) and `TableFits`. The last is about the external table: it declares no longer a
digest than the derivation's hash yields. If its CALG_HMAC entry had the length of SHA512, no
file of that algorithm would open.

**Dpapi4n6_proofs** proves the five invariants of the command line, and that it implements
`RefuseBoundary`, for any stores, damage, keys and number of runs.

* `PresentBeforeLockedHolds`: `Established` says what each phase has learnt of the files; and a
  blob that does not parse is an error of its own (`UnparsableNotLocked`).
* The others: `IInv` adds that a blob opened was opened by the store's own key, to
  its own plaintext (`KeyRight`, from `DamagedOpensOwn`: a blob with one field damaged or
  foreign opens with its own key or not at all), what is collected before the items beside
  the blob are read (`Collected`), that the attribute loop has reported exactly those it has
  passed (`Remaining`, `InOrder`, `OwnSecrets`), and that a verdict is `Sincere` when the run
  ends with it. It stays so: evidence changes only with a new run.
* `KeepsPromiseHolds`, the refinement: an initial state says nothing yet. `Try` and `Follow`
  are an `Ask` (`Asks`); a step of a run that ends in no verdict stutters, and one that does is
  the `Reveal`, `Lock` or `Refuse` its sincerity allows (`Answers`), which for any store but a
  vault includes that nothing is left out. `Truth` does not change,
  since no step touches the evidence (`TruthKept`).

Assumptions: `StoreShape` (the states a store's files can be in, blobs that are protections),
`ReadableShape`, `KeyringShape` (a GUID names one master key, and the keyring has those of the
stores) and `MalformedIsNoKey`.

Only model-checked: the liveness properties `AdviceUnlocks` and `ReachedIsOpened`, since
fairness and ENABLED are outside the prover's reach. The expected counterexamples are
TLC's alone too.

## 5. What the runs found

Each is a counterexample run and a finding in PROJECT.json.

1. `masterkey.rs:135` adds a u64 length to the cursor unchecked: panic in a build
   with overflow checks, against SECURITY.md's "No panics on malicious input".
2. `masterkey.rs:128` cuts a u64 length to usize: on a 32-bit target a short
   sub-blob is returned as `Ok`, which the comment at line 109 rules out.
3. `forensic/src/lib.rs:287` skips attributes that fail: a damaged record ends in
   "No secrets recovered." and exit code 0.
4. Vault attributes carry no MAC, so damage can become a wrong credential. The
   format leaves the code nothing to check; the documentation promises more.
5. `forensic/src/lib.rs:307` reports a damaged `keyMaterial` as a bad master key.
6. `blob.rs:25` takes an unknown hash for SHA1, so an undamaged blob is reported
   as locked for its own key too.

Noticed while modelling, without a run of their own:

* `blob.rs:38` describes the signed region by a formula that counts from the end of
  the buffer, `blob.rs:135` slices up to the noted position: they differ when
  bytes follow the Sign. The code's choice is the right one (`SignedCoverage`).
* A Vault record cut before its map size, or inside the first entry of its map, is
  `Ok`: an empty record, or one attribute that fills it (`vault.rs:126`, `140`). One cut in
  its last attribute is `Ok` without it. `CutLosesAtMostLast` says no more is lost behind the
  first offset; before it the code does lose the record, although ADR 0003 counts short data
  among the errors.
* A cookie with a v10 or v20 prefix and nothing behind its nonce is refused as no AES-GCM
  blob, one with a byte more as one that does not decrypt (`chrome.rs:27`). Neither opens.
* `vault.rs:137` and `150` reserve as many elements as an unchecked word declares. On a
  64-bit target that is at most some gigabytes; where usize is a u32 it can panic.
* The GUID of a master-key file is not authenticated (`masterkey.rs:123`): a key can stand
  under a wrong GUID. It costs a failed attempt and never yields a wrong secret.
* A rounds field of 0 derives what 1 does (`masterkey.rs:234`).
* An attribute that is not padded can look as if it were (`vault.rs:182`): see `RecordShape`
  above. Its payload would be read six bytes late.
* An attribute without IV is laid out as vault.rs's own comment says (IVSize is read
  all the same); no vector of the repository has one.
* A master key of the wrong length is accepted by the command line and ends in
  `Locked`, although `lib.rs:35` speaks of wrong length as malformed.
* `fixparity` is applied to an expanded AES key as well. No vector or builder of
  the repository protects AES under SHA1, so there is no reference for what is
  right; `IsProtection` leaves the combination out.

## 6. What is not modelled

* The primitives (SHA, HMAC, AES, 3DES, CBC, GCM): external crates, symbolic here.
* Bytes, text and their codings: UTF-16, base64, hex, JSON and XML are outcomes
  (there, absent, badly coded), not strings. Argument parsing and rendering.
* UTF-16 decoding losses: names, labels and account strings are not told apart.
* Other errors than those a caller tells apart: the variants of `DpapiError` the CLI
  prints as "dpapi" are one kind there.
* Build, CI and supply chain, but for the two build facts that change what the
  code does, pointer width and overflow checks.

## 7. Plan

Done: the parsers, the blob and its cryptography, the command line and its promise,
the Vault record, the master-key derivation, and the chain from password to secret;
every safety invariant of the runs, and the refinement, proved.

Next:

1. Assumptions made theorems: `SizesChecked`, `EndsChecked` and
   `TakenOnce` of the eight parsers from `OwnReads` alone, so that the per-parser theorems
   rest on the layouts and not on an evaluation of them.
2. The safety half of the liveness properties: `Locked` followed by its GUID's key on an
   undamaged store reaches the secrets in that run, as an action property.
3. `Recovery` as an implementation of an abstract keyring that only ever learns sealed keys.
