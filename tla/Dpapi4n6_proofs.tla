--------------------------- MODULE Dpapi4n6_proofs ---------------------------
(* What the command line says of a store, for any stores and keys.            *)
EXTENDS Dpapi4n6, DpapiCrypto_proofs, TLAPS

\* The phases of a run, by what has been established of the files before them.
FirstRead == {"beside", "unwrap", "unlock", "cookie", "record", "attributes"}
BesideRead == FirstRead \ {"beside"}

Established ==
  /\ pc \in FirstRead => store.first # "missing"
  /\ pc \in BesideRead => store.beside # "missing"
  /\ pc = "unlock" => store.first = "intact"

Present == store \in Stores /\ Established /\ PresentBeforeLocked

\* A wrapper that was read yields its blob only when it is intact.
LEMMA WrappedIntact ==
  ASSUME NEW s \in Stores, s.first # "missing", Wrapped(s.kind, s.first).ok
  PROVE  s.first = "intact"
<1>1. s.kind \in Kinds /\ s.first \in Wrappers[s.kind]
  BY StoreShape
<1>2. CASE s.kind = "browser"
  BY <1>1, <1>2 DEF Wrappers, Wrapped, LocalState, parse_local_state_encrypted_key, Err
<1>3. CASE s.kind = "wifi"
  BY <1>1, <1>3 DEF Wrappers, Wrapped, KeyMaterial, hex_decode, Err
<1>4. CASE s.kind \in {"credman", "vault"}
  BY <1>1, <1>4 DEF Wrappers, Wrapped, BinaryWrapper, Err
<1> QED
  BY <1>1, <1>2, <1>3, <1>4 DEF Kinds

\* A blob past parsing is never answered with Locked.
LEMMA UnparsableNotLocked ==
  ASSUME NEW r, r \in DecryptStore(Unparsable, text), store.kind \in Kinds
  PROVE  ~r.ok /\ locked_or_err(Unparsable, r.value).kind # "Locked"
<1>1. r = Err("Malformed")
  BY DEF DecryptStore, decrypt_local_state_key, decrypt_credential, decrypt_vpol_keys,
         decrypt_wlan_key_material, Decoded, Kinds
<1> QED
  BY <1>1 DEF Err, locked_or_err, Verdict

LEMMA PresentInit == Init => Present
  BY DEF Init, Present, Established, FirstRead, BesideRead, PresentBeforeLocked, NoVerdict, Verdict

\* A new run forgets the last verdict.
LEMMA PresentRun ==
  ASSUME Present, NEW t, Run(t)
  PROVE  Present'
  BY DEF Run, Present, Established, FirstRead, BesideRead, PresentBeforeLocked, evidence,
         NoVerdict, Verdict

\* An error that ends the run without Locked leaves nothing to show.
LEMMA PresentFail ==
  ASSUME Present, NEW kind, kind # "Locked", Fail(kind), UNCHANGED evidence
  PROVE  Present'
  BY DEF Fail, Exit, Verdict, Present, Established, FirstRead, BesideRead, PresentBeforeLocked,
         evidence

LEMMA PresentRecovered ==
  ASSUME Present, NEW found, Exit(Verdict("Recovered", Nothing, found)), UNCHANGED evidence
  PROVE  Present'
  BY DEF Exit, Verdict, Present, Established, FirstRead, BesideRead, PresentBeforeLocked,
         evidence

LEMMA PresentUnlock ==
  ASSUME Present, Unlock
  PROVE  Present'
<1>1. /\ store.first = "intact" /\ store.beside # "missing" /\ store \in Stores
      /\ UNCHANGED evidence
  BY DEF Present, Established, Unlock, FirstRead, BesideRead
<1>2. PICK r \in DecryptStore(blob, text) :
        IF r.ok THEN /\ opened' = r.value
                     /\ results' = Found(r.value)
                     /\ AfterUnlock(Found(r.value))
                ELSE /\ Exit(locked_or_err(blob, r.value))
                     /\ UNCHANGED <<opened, results>>
  BY DEF Unlock
<1>3. store.kind \in Kinds
  BY <1>1, StoreShape
<1>4. CASE r.ok
  <2>1. AfterUnlock(Found(r.value))
    BY <1>2, <1>4
  <2>2. CASE Exit(Verdict("Recovered", Nothing, Found(r.value)))
    BY <1>1, <2>2, PresentRecovered
  <2>3. CASE Goto("record") \/ Goto("cookie")
    BY <1>1, <2>3 DEF Goto, Present, Established, FirstRead, BesideRead, PresentBeforeLocked,
                      evidence
  <2> QED
    BY <2>1, <2>2, <2>3 DEF AfterUnlock
<1>5. CASE ~r.ok
  <2>1. Exit(locked_or_err(blob, r.value))
    BY <1>2, <1>5
  <2>2. blob = Unparsable => locked_or_err(blob, r.value).kind # "Locked"
    BY <1>3, UnparsableNotLocked
  <2> QED
    BY <1>1, <2>1, <2>2 DEF Exit, Present, Established, FirstRead, BesideRead,
                            PresentBeforeLocked, evidence
<1> QED
  BY <1>4, <1>5

LEMMA PresentStep == Present /\ [Next]_vars => Present'
<1> SUFFICES ASSUME Present, [Next]_vars PROVE Present'
  OBVIOUS
<1>1. ASSUME NEW t, Try(t) \/ Follow PROVE Present'
  BY <1>1, PresentRun DEF Try, Follow
<1>2. CASE parse_master_key_hex
  <2>1. CASE Goto("first")
    BY <1>2, <2>1 DEF parse_master_key_hex, Goto, Present, Established, FirstRead, BesideRead,
                      PresentBeforeLocked, evidence
  <2> QED
    BY <1>2, <2>1, PresentFail DEF parse_master_key_hex
<1>3. CASE ReadFirst
  <2>1. CASE store.first # "missing"
    BY <1>3, <2>1 DEF ReadFirst, Goto, Present, Established, FirstRead, BesideRead,
                      PresentBeforeLocked, evidence
  <2> QED
    BY <1>3, <2>1, PresentFail DEF ReadFirst
<1>4. CASE ReadBeside
  <2>1. CASE store.beside # "missing"
    BY <1>4, <2>1 DEF ReadBeside, Goto, Present, Established, FirstRead, BesideRead,
                      PresentBeforeLocked, evidence
  <2> QED
    BY <1>4, <2>1, PresentFail DEF ReadBeside
<1>5. CASE Unwrap
  <2> DEFINE r == Wrapped(store.kind, store.first)
  <2>1. store \in Stores /\ store.first # "missing" /\ store.beside # "missing"
    BY <1>5 DEF Unwrap, Present, Established, FirstRead, BesideRead
  <2>2. CASE r.ok
    <3>1. store.first = "intact"
      BY <2>1, <2>2, WrappedIntact
    <3> QED
      BY <1>5, <2>1, <2>2, <3>1 DEF Unwrap, Goto, Present, Established, FirstRead, BesideRead,
                                    PresentBeforeLocked, evidence
  <2>3. CASE ~r.ok
    <3>1. r.value # "Locked"
      BY <2>1, <2>3 DEF Wrapped, LocalState, parse_local_state_encrypted_key, KeyMaterial,
                        hex_decode, BinaryWrapper, Err, Ok
    <3> QED
      BY <1>5, <2>3, <3>1, PresentFail DEF Unwrap
  <2> QED
    BY <2>2, <2>3
<1>6. CASE Unlock
  BY <1>6, PresentUnlock
<1>7. CASE OpenCookie
  <2>1. UNCHANGED evidence
    BY <1>7 DEF OpenCookie
  <2>2. \/ Fail("Io") \/ Fail("Dpapi")
        \/ \E found : Exit(Verdict("Recovered", Nothing, found))
    BY <1>7 DEF OpenCookie
  <2> QED
    BY <2>1, <2>2, PresentFail, PresentRecovered
<1>8. CASE ParseRecord
  <2>1. CASE Goto("attributes")
    BY <1>8, <2>1 DEF ParseRecord, Goto, Present, Established, FirstRead, BesideRead,
                      PresentBeforeLocked, evidence
  <2>2. CASE Fail("Dpapi")
    BY <1>8, <2>2, PresentFail DEF ParseRecord
  <2> QED
    BY <1>8, <2>1, <2>2 DEF ParseRecord
<1>9. CASE NextAttribute
  BY <1>9 DEF NextAttribute, Present, Established, PresentBeforeLocked, evidence
<1>10. CASE EndOfRecord
  BY <1>10, PresentRecovered DEF EndOfRecord
<1>11. CASE UNCHANGED vars
  BY <1>11 DEF vars, Present, Established, PresentBeforeLocked
<1> QED
  BY <1>1, <1>2, <1>3, <1>4, <1>5, <1>6, <1>7, <1>8, <1>9, <1>10, <1>11 DEF Next, Step

\* Whatever the stores and the keys: a store is called locked only when every
\* file it needs was read and its blob taken out and parsed.
THEOREM PresentBeforeLockedHolds == Spec => []PresentBeforeLocked
<1>1. Present => PresentBeforeLocked
  BY DEF Present
<1> QED
  BY <1>1, PresentInit, PresentStep, PTL DEF Spec

-----------------------------------------------------------------------------
(* Which secrets the command line reports, for any stores, keys and damage:   *)
(* its own, all of them under the right key, none under another; and that in  *)
(* every step it does what RefuseBoundary promises, or nothing of it.         *)

Unlocked == {"cookie", "record", "attributes"}
Results == [from : {"blob", "cookie", "attribute"}, secret : Plaintexts \cup {Garbage}]

\* The variables that TypeOK leaves open, and how the verdict follows the run.
RunShape ==
  /\ text \in KeyTexts
  /\ pc \in Phases
  /\ pc # "done" => exit = NoVerdict
  /\ pc = "done" => exit.kind \in Verdicts \ {"none"}
  /\ exit.kind # "Recovered" => exit.results = <<>>
  /\ left \in Seq(Items)
  /\ results \in Seq(Results)
  /\ exit.results \in Seq(Results)

\* The blob opened: with its own key only, and to what was protected in it.
KeyRight == pc \in Unlocked => text = store.mint.mk /\ opened = store.mint.pt

\* What was collected before the items beside the blob are read.
Collected ==
  /\ pc = "cookie" => /\ store.kind = "browser" /\ store.beside # "none"
                      /\ results = <<Result("blob", store.mint.pt)>>
  /\ pc \in {"record", "attributes"} => store.kind = "vault"
  /\ pc = "record" => results = <<>>
  /\ pc = "attributes" => store.beside # "unparsable"

\* What is left of a record that is whole: its last attributes, in order.
Remaining ==
  pc = "attributes" /\ store.beside = "intact" =>
    /\ Len(left) <= Len(store.items)
    /\ \A i \in 1 .. Len(left) : left[i] = store.items[Len(store.items) - Len(left) + i]

\* What was collected of one whose attributes are the vault's own, and of one
\* where nothing is to be passed over.
OwnSecrets ==
  pc = "attributes" /\ ~Unchecked =>
    \A i \in 1 .. Len(results) : results[i].secret \in Secrets
InOrder ==
  pc = "attributes" /\ Whole =>
    /\ Len(results) = Len(store.items) - Len(left)
    /\ \A i \in 1 .. Len(results) : results[i].secret = store.items[i].secret

\* What holds of a verdict when the run ends with it.
Sincere(v) ==
  /\ v.kind = "Recovered" =>
       /\ text = store.mint.mk
       /\ ~Unchecked => SecretsIn(v.results) \subseteq Secrets
       /\ store.kind # "vault" => SecretsIn(v.results) = Secrets
  /\ Whole /\ text = store.mint.mk =>
       /\ v.kind = "Recovered"
       /\ SecretsIn(v.results) = Secrets
       /\ Len(v.results) = Len(store.items) + (IF store.kind = "vault" THEN 0 ELSE 1)
  /\ Whole /\ text \in MasterKeys \ {store.mint.mk} =>
       v.kind = "Locked" /\ Keyring[v.guid] = store.mint.mk
  /\ v.kind = "Locked" => v.guid = blob.master_key_guid

Concluded == pc = "done" => Sincere(exit)

IInv == /\ Present /\ blob \in Acquired(store.mint)
        /\ RunShape /\ KeyRight /\ Collected
        /\ Remaining /\ OwnSecrets /\ InOrder /\ Concluded

-----------------------------------------------------------------------------
(* The blob.                                                                  *)

\* A blob acquired from a store opens only with the store's own key, and only
\* to what was protected in it.
LEMMA OpensOnlyOwn ==
  ASSUME NEW s \in Stores, NEW b \in Acquired(s.mint), b # Unparsable, NEW mk,
         NEW r \in decrypt_dpapi_blob(b, mk, <<>>), r.ok
  PROVE  mk = s.mint.mk /\ r.value = s.mint.pt
<1>1. \A t \in Stores : IsProtection(t.mint)
  BY StoreShape
<1>2. PICK e \in Seq(FileBytes) : r \in decrypt_dpapi_blob(b, mk, e)
  BY EmptySeq
<1>3. PICK m : m = s.mint
  OBVIOUS
<1>4. IsProtection(m)
  BY <1>1, <1>3
<1>5. ASSUME NEW f \in BlobFields, b = [Protected(m) EXCEPT ![f] = Noise(f)]
      PROVE  mk = m.mk /\ r.value = m.pt
  <2>1. b[f] = Noise(f) /\ \A g \in BlobFields \ {f} : b[g] = Protected(m)[g]
    BY <1>4, <1>5, ProtectedFields
  <2> QED
    BY <1>2, <1>4, <2>1, DamagedOpensOwn
<1>6. ASSUME NEW f \in BlobFields, NEW t \in Stores,
             b = [Protected(m) EXCEPT ![f] = Protected(t.mint)[f]]
      PROVE  mk = m.mk /\ r.value = m.pt
  <2>1. IsProtection(t.mint)
    BY <1>1
  <2>2. /\ b[f] = Protected(t.mint)[f]
        /\ \A g \in BlobFields \ {f} : b[g] = Protected(m)[g]
    BY <1>4, <1>6, ProtectedFields
  <2> QED
    BY <1>2, <1>4, <2>1, <2>2, DamagedOpensOwn
<1>7. ASSUME b = Protected(m) PROVE mk = m.mk /\ r.value = m.pt
  <2>1. b.hmac \in Seq(FileBytes) /\ b.sign = ProtectedSign(m)
    BY <1>4, <1>7, ProtectedFields
  <2> QED
    BY <1>2, <1>4, <2>1, DecryptSoundOne
<1> QED
  BY <1>3, <1>5, <1>6, <1>7 DEF Acquired

\* Every subcommand parses, decrypts without entropy, and requires a shape.
LEMMA StoreDecoded ==
  ASSUME store.kind \in Kinds, NEW b, NEW mk, NEW r \in DecryptStore(b, mk)
  PROVE  \E e \in {"UnexpectedKeyLength", "TooShort", "Utf16Error"} :
           r \in Decoded(store.kind, e, b, mk)
<1>1. CASE store.kind = "browser"
  BY <1>1 DEF DecryptStore, decrypt_local_state_key
<1>2. CASE store.kind = "credman"
  BY <1>2 DEF DecryptStore, decrypt_credential
<1>3. CASE store.kind = "vault"
  BY <1>3 DEF DecryptStore, decrypt_vpol_keys
<1>4. CASE store.kind = "wifi"
  BY <1>4 DEF DecryptStore, decrypt_wlan_key_material
<1> QED
  BY <1>1, <1>2, <1>3, <1>4 DEF Kinds

\* What a decoder returns was returned by the decryption, or is its own error.
LEMMA DecodedFrom ==
  ASSUME NEW d, NEW e, NEW b, NEW mk, NEW r \in Decoded(d, e, b, mk)
  PROVE  \/ b = Unparsable /\ r = Err("Malformed")
         \/ /\ b # Unparsable
            /\ \E q \in decrypt_dpapi_blob(b, mk, <<>>) :
                 r = IF q.ok /\ q.value \notin Readable[d] THEN Err(e) ELSE q
<1>1. CASE b = Unparsable
  BY <1>1 DEF Decoded
<1>2. CASE b # Unparsable
  BY <1>2 DEF Decoded
<1> QED
  BY <1>1, <1>2

LEMMA ProtectedParsable == ASSUME NEW m PROVE Protected(m) # Unparsable
<1>1. DOMAIN Protected(m) = BlobFields /\ "salt" \in BlobFields
  BY DEF Protected, BlobFields, SignedFields
<1>2. DOMAIN Unparsable = {"unparsable"}
  BY DEF Unparsable
<1> QED
  BY <1>1, <1>2

\* What unlocking the store may end in.
LEMMA Unlocking ==
  ASSUME store \in Stores, blob \in Acquired(store.mint), text \in KeyTexts,
         NEW r \in DecryptStore(blob, text)
  PROVE  /\ r.ok => text = store.mint.mk /\ r.value = store.mint.pt
         /\ Whole /\ text = store.mint.mk => r.ok
         /\ Whole /\ text \in MasterKeys \ {store.mint.mk} =>
              r.value \in {"HmacMismatch", "DecryptionFailed"}
<1>1. /\ IsProtection(store.mint) /\ store.mint.entropy = <<>>
      /\ store.kind \in Kinds
  BY StoreShape
<1>2. PICK e : r \in Decoded(store.kind, e, blob, text)
  BY <1>1, StoreDecoded
<1>3. CASE blob = Unparsable
  <2>1. r = Err("Malformed")
    BY <1>2, <1>3, DecodedFrom
  <2>2. ~Whole
    BY <1>3, ProtectedParsable DEF Whole
  <2> QED
    BY <2>1, <2>2 DEF Err
<1>4. CASE blob # Unparsable
  <2>1. PICK q \in decrypt_dpapi_blob(blob, text, <<>>) :
          r = IF q.ok /\ q.value \notin Readable[store.kind] THEN Err(e) ELSE q
    BY <1>2, <1>4, DecodedFrom
  <2>2. r.ok => r = q /\ q.ok
    BY <2>1 DEF Err
  <2>3. q.ok => text = store.mint.mk /\ q.value = store.mint.pt
    BY <1>4, OpensOnlyOwn
  <2>4. ASSUME Whole, text = store.mint.mk PROVE r.ok
    <3>1. decrypt_dpapi_blob(blob, text, <<>>) = {Ok(store.mint.pt)}
      BY <1>1, <2>4, RightKeyDecrypts DEF Whole
    <3>2. q = Ok(store.mint.pt) /\ store.mint.pt \in Readable[store.kind]
      BY <2>4, <3>1 DEF Whole
    <3> QED
      BY <2>1, <3>2 DEF Ok
  <2>5. ASSUME Whole, text \in MasterKeys \ {store.mint.mk}
        PROVE  r.value \in {"HmacMismatch", "DecryptionFailed"}
    <3>1. blob = Protected(store.mint)
      BY <2>5 DEF Whole
    <3>2. PICK d \in Seq(FileBytes) : q \in decrypt_dpapi_blob(blob, text, d)
      BY EmptySeq
    <3>3. PICK m : m = store.mint
      OBVIOUS
    <3>4. <<text, d>> # <<m.mk, m.entropy>>
      BY <2>5, <3>3
    <3>5. q \in {Err("HmacMismatch"), Err("DecryptionFailed")}
      BY <1>1, <3>1, <3>2, <3>3, <3>4, WrongKeyRefuses
    <3>6. ~q.ok /\ q.value \in {"HmacMismatch", "DecryptionFailed"}
      BY <3>5 DEF Err
    <3> QED
      BY <2>1, <3>6
  <2> QED
    BY <2>2, <2>3, <2>4, <2>5
<1> QED
  BY <1>3, <1>4

\* The verdict of a refusal.
LEMMA LockedOrErr ==
  ASSUME NEW b, NEW e
  PROVE  LET v == locked_or_err(b, e)
         IN /\ v.kind \in {"Locked", "Dpapi"} /\ v.results = <<>>
            /\ b # Unparsable /\ v.kind = "Locked" => v.guid = b.master_key_guid
            /\ e \in {"HmacMismatch", "DecryptionFailed"} => v.kind = "Locked"
<1>1. CASE e \in {"HmacMismatch", "DecryptionFailed", "DomainBackupUnsupported"}
  BY <1>1 DEF locked_or_err, Verdict
<1>2. CASE e \notin {"HmacMismatch", "DecryptionFailed", "DomainBackupUnsupported"}
  BY <1>2 DEF locked_or_err, Verdict
<1> QED
  BY <1>1, <1>2

-----------------------------------------------------------------------------
(* The steps.                                                                 *)

LEMMA EvidenceKept ==
  ASSUME UNCHANGED evidence
  PROVE  /\ store' = store /\ blob' = blob
         /\ Whole' <=> Whole
         /\ Unchecked' <=> Unchecked
         /\ Secrets' = Secrets
  BY DEF evidence, Whole, Unchecked, Secrets, Sound

\* A run ends with a sincere verdict.
LEMMA Ends ==
  ASSUME IInv, Present', UNCHANGED <<evidence, text>>, NEW v, Exit(v),
         left' \in Seq(Items), results' \in Seq(Results),
         v.kind \in Verdicts \ {"none"}, v.results \in Seq(Results),
         v.kind # "Recovered" => v.results = <<>>, Sincere(v)
  PROVE  IInv'
<1>1. pc' = "done" /\ exit' = v /\ text' = text
  BY DEF Exit
<1>2. RunShape'
  BY <1>1 DEF IInv, RunShape, Phases
<1>3. Concluded'
  BY <1>1, EvidenceKept DEF Concluded, Sincere
<1>4. KeyRight' /\ Collected' /\ Remaining' /\ OwnSecrets' /\ InOrder'
  BY <1>1 DEF KeyRight, Unlocked, Collected, Remaining, OwnSecrets, InOrder
<1>5. blob' \in Acquired(store'.mint)
  BY EvidenceKept DEF IInv
<1> QED
  BY <1>2, <1>3, <1>4, <1>5 DEF IInv

\* A run goes on.
LEMMA Goes ==
  ASSUME IInv, Present', UNCHANGED <<evidence, text>>, pc # "done",
         NEW phase \in Phases \ {"done"}, Goto(phase),
         left' \in Seq(Items), results' \in Seq(Results),
         KeyRight', Collected', Remaining', OwnSecrets', InOrder'
  PROVE  IInv'
<1>1. pc' = phase /\ exit' = exit /\ text' = text /\ exit = NoVerdict
  BY DEF Goto, IInv, RunShape
<1>2. RunShape'
  BY <1>1 DEF IInv, RunShape
<1>3. Concluded'
  BY <1>1 DEF Concluded
<1>4. blob' \in Acquired(store'.mint)
  BY EvidenceKept DEF IInv
<1> QED
  BY <1>2, <1>3, <1>4 DEF IInv

\* A run goes on, the blob not opened yet.
LEMMA GoesLocked ==
  ASSUME IInv, Present', UNCHANGED <<evidence, text, left, results>>, pc # "done",
         NEW phase \in Phases \ ({"done"} \cup Unlocked), Goto(phase)
  PROVE  IInv'
<1>1. KeyRight' /\ Collected' /\ Remaining' /\ OwnSecrets' /\ InOrder'
  BY DEF Goto, KeyRight, Unlocked, Collected, Remaining, OwnSecrets, InOrder
<1>2. left' \in Seq(Items) /\ results' \in Seq(Results)
  BY DEF IInv, RunShape
<1> QED
  BY <1>1, <1>2, Goes

\* A failure other than Locked is sincere unless the key could have been right,
\* or missing, of an undamaged store.
LEMMA Fails ==
  ASSUME IInv, Present', UNCHANGED <<evidence, text>>,
         NEW kind \in {"Dpapi", "Io", "BadMasterKey"}, Fail(kind),
         left' \in Seq(Items), results' \in Seq(Results),
         ~(Whole /\ text \in MasterKeys)
  PROVE  IInv'
<1> DEFINE v == Verdict(kind, Nothing, <<>>)
<1>1. v.kind = kind /\ v.results = <<>> /\ v.guid = Nothing
  BY DEF Verdict
<1>2. Exit(v) /\ v.results \in Seq(Results)
  BY <1>1, EmptySeq DEF Fail
<1>3. store.mint.mk \in MasterKeys
  BY StoreShape DEF IInv, Present, IsProtection
<1> HIDE DEF v
<1>4. Sincere(v)
  BY <1>1, <1>3 DEF Sincere
<1> QED
  BY <1>1, <1>2, <1>4, Ends DEF Verdicts

LEMMA RunKeeps ==
  ASSUME IInv, Present', NEW t \in KeyTexts, Run(t)
  PROVE  IInv'
<1>1. /\ pc' = "key" /\ text' = t /\ exit' = NoVerdict /\ left' = <<>> /\ results' = <<>>
      /\ UNCHANGED evidence
  BY DEF Run
<1>2. RunShape'
  <2>1. exit'.results = <<>> /\ exit'.kind = "none"
    BY <1>1 DEF NoVerdict, Verdict
  <2> QED
    BY <1>1, <2>1, EmptySeq DEF RunShape, Phases
<1>3. KeyRight' /\ Collected' /\ Remaining' /\ OwnSecrets' /\ InOrder' /\ Concluded'
  BY <1>1 DEF KeyRight, Unlocked, Collected, Remaining, OwnSecrets, InOrder, Concluded
<1>4. blob' \in Acquired(store'.mint)
  BY <1>1, EvidenceKept DEF IInv
<1> QED
  BY <1>2, <1>3, <1>4 DEF IInv

LEMMA UnlockKeeps ==
  ASSUME IInv, Present', Unlock
  PROVE  IInv'
<1>1. /\ store \in Stores /\ blob \in Acquired(store.mint) /\ text \in KeyTexts
      /\ store.beside # "missing"
  BY DEF IInv, Present, RunShape, Unlock, Established, FirstRead, BesideRead
<1>2. store.kind \in Kinds /\ store.mint.pt \in Plaintexts
      /\ store.beside \in Besides[store.kind]
  BY <1>1, StoreShape DEF IsProtection
<1>3. UNCHANGED <<evidence, text, left>> /\ pc = "unlock"
  BY DEF Unlock
<1>4. left' \in Seq(Items)
  BY <1>3 DEF IInv, RunShape
<1>5. PICK r \in DecryptStore(blob, text) :
        IF r.ok THEN /\ opened' = r.value
                     /\ results' = Found(r.value)
                     /\ AfterUnlock(Found(r.value))
                ELSE /\ Exit(locked_or_err(blob, r.value))
                     /\ UNCHANGED <<opened, results>>
  BY DEF Unlock
<1>6. /\ r.ok => text = store.mint.mk /\ r.value = store.mint.pt
      /\ Whole /\ text = store.mint.mk => r.ok
      /\ Whole /\ text \in MasterKeys \ {store.mint.mk} =>
           r.value \in {"HmacMismatch", "DecryptionFailed"}
  BY <1>1, Unlocking
<1>7. CASE r.ok
  <2> DEFINE found == Found(store.mint.pt)
  <2>1. /\ opened' = store.mint.pt /\ results' = found /\ AfterUnlock(found)
        /\ text = store.mint.mk
    BY <1>5, <1>6, <1>7
  <2>2. Result("blob", store.mint.pt) \in Results
    BY <1>2 DEF Result, Results
  <2>3. results' \in Seq(Results)
    BY <2>1, <2>2 DEF Found
  <2>4. CASE store.kind = "vault"
    <3>1. Goto("record") /\ results' = <<>>
      BY <2>1, <2>4 DEF AfterUnlock, Found
    <3>2. KeyRight'
      BY <1>3, <2>1, EvidenceKept DEF KeyRight
    <3>3. Collected'
      BY <1>3, <2>4, <3>1, EvidenceKept DEF Collected, Goto
    <3>4. Remaining' /\ OwnSecrets' /\ InOrder'
      BY <3>1 DEF Goto, Remaining, OwnSecrets, InOrder
    <3> QED
      BY <1>3, <1>4, <2>3, <3>1, <3>2, <3>3, <3>4, Goes DEF Phases
  <2>5. CASE store.kind = "browser" /\ store.beside # "none"
    <3>1. Goto("cookie") /\ results' = <<Result("blob", store.mint.pt)>>
      BY <2>1, <2>5 DEF AfterUnlock, Found
    <3>2. KeyRight'
      BY <1>3, <2>1, EvidenceKept DEF KeyRight
    <3>3. Collected'
      BY <1>3, <2>5, <3>1, EvidenceKept DEF Collected, Goto
    <3>4. Remaining' /\ OwnSecrets' /\ InOrder'
      BY <3>1 DEF Goto, Remaining, OwnSecrets, InOrder
    <3> QED
      BY <1>3, <1>4, <2>3, <3>1, <3>2, <3>3, <3>4, Goes DEF Phases
  <2>6. CASE store.kind # "vault" /\ (store.kind = "browser" => store.beside = "none")
    <3> DEFINE v == Verdict("Recovered", Nothing, found)
    <3>1. Exit(v)
      BY <2>1, <2>6 DEF AfterUnlock
    <3>2. v.kind = "Recovered" /\ v.results = <<Result("blob", store.mint.pt)>>
      BY <2>6 DEF Verdict, Found
    <3>3. store.items = <<>>
      <4>1. store.beside = "none"
        BY <1>2, <2>6 DEF Besides, Kinds
      <4> QED
        BY <1>1, <4>1, StoreShape
    <3>4. Secrets = {store.mint.pt}
      BY <2>6, <3>3 DEF Secrets
    <3>5. SecretsIn(v.results) = {store.mint.pt} /\ Len(v.results) = 1
      <4> HIDE DEF v
      <4>1. Result("blob", store.mint.pt).secret = store.mint.pt
        BY DEF Result
      <4> QED
        BY <3>2, <4>1 DEF SecretsIn
    <3>6. v.results \in Seq(Results)
      BY <2>1, <2>3 DEF Verdict
    <3> HIDE DEF v
    <3>7. Sincere(v)
      BY <2>1, <2>6, <3>2, <3>3, <3>4, <3>5 DEF Sincere
    <3> QED
      BY <1>3, <1>4, <2>3, <3>1, <3>2, <3>6, <3>7, Ends DEF Verdicts
  <2> QED
    BY <2>4, <2>5, <2>6
<1>8. CASE ~r.ok
  <2> DEFINE v == locked_or_err(blob, r.value)
  <2>1. Exit(v) /\ results' \in Seq(Results)
    BY <1>5, <1>8 DEF IInv, RunShape
  <2>2. /\ v.kind \in {"Locked", "Dpapi"} /\ v.results = <<>>
        /\ blob # Unparsable /\ v.kind = "Locked" => v.guid = blob.master_key_guid
        /\ r.value \in {"HmacMismatch", "DecryptionFailed"} => v.kind = "Locked"
    BY LockedOrErr
  <2>3. v.kind = "Locked" => blob # Unparsable
    BY <1>2, UnparsableNotLocked
  <2> HIDE DEF v
  <2>4. ASSUME Whole, text \in MasterKeys \ {store.mint.mk}
        PROVE  v.kind = "Locked" /\ Keyring[v.guid] = store.mint.mk
    <3>1. v.kind = "Locked" /\ v.guid = blob.master_key_guid
      BY <1>6, <2>2, <2>3, <2>4
    <3>2. PICK m : m = store.mint /\ IsProtection(m)
      BY <1>1, StoreShape
    <3>3. Protected(m)["master_key_guid"] = m["master_key_guid"]
      BY <3>2, ProtectedFields DEF SignedFields
    <3>4. blob.master_key_guid = store.mint.master_key_guid
      BY <2>4, <3>2, <3>3 DEF Whole
    <3> QED
      BY <1>1, <3>1, <3>4, KeyringShape
  <2>5. Sincere(v)
    BY <1>6, <1>8, <2>2, <2>3, <2>4 DEF Sincere
  <2>6. v.results \in Seq(Results)
    BY <2>2, EmptySeq
  <2> QED
    BY <1>3, <1>4, <2>1, <2>2, <2>5, <2>6, Ends DEF Verdicts
<1> QED
  BY <1>7, <1>8

LEMMA CookieKeeps ==
  ASSUME IInv, Present', OpenCookie
  PROVE  IInv'
<1>1. /\ store \in Stores /\ pc = "cookie" /\ store.kind = "browser"
      /\ results = <<Result("blob", store.mint.pt)>>
      /\ text = store.mint.mk /\ opened = store.mint.pt
      /\ UNCHANGED <<evidence, text, left>>
      /\ store.beside = "intact" /\ left' \in Seq(Items)
  <2>1. /\ store \in Stores /\ pc = "cookie" /\ store.kind = "browser"
        /\ store.beside # "none" /\ store.beside # "missing"
        /\ results = <<Result("blob", store.mint.pt)>>
        /\ text = store.mint.mk /\ opened = store.mint.pt
        /\ UNCHANGED <<evidence, text, left>> /\ left \in Seq(Items)
    BY DEF IInv, OpenCookie, Present, Established, FirstRead, BesideRead, Collected,
           KeyRight, Unlocked, RunShape
  <2>2. store.beside = "intact"
    BY <2>1, StoreShape DEF Besides
  <2> QED
    BY <2>1, <2>2
<1> DEFINE cookie == store.items[1]
<1>2. /\ Len(store.items) = 1 /\ store.items \in Seq(Items)
      /\ cookie.intact =>
           store.coding.prefix \in {"v10", "v20"} /\ store.coding.len >= 31
      /\ store.coding.len \in Nat /\ store.mint.pt \in Plaintexts
      /\ store.mint.mk \in MasterKeys
  BY <1>1, StoreShape DEF IsProtection
<1>3. DOMAIN store.items = {1} /\ cookie.secret \in Plaintexts
  <2>1. DOMAIN store.items = 1 .. 1 /\ cookie \in Items
    BY <1>2, LenProperties, ElementOfSeq
  <2> QED
    BY <2>1 DEF Items
<1>4. Secrets = {store.mint.pt, cookie.secret}
  BY <1>1, <1>3 DEF Secrets
<1>5. Whole => cookie.intact /\ cookie.key = opened
  BY <1>1, <1>3 DEF Whole, Sound
<1>6. cookie.intact => detect_chrome_cookie_encoding(store.coding) \in {"V10", "V20"}
  <2>1. cookie.intact => store.coding.prefix \in {"v10", "v20"} /\ store.coding.len > 15
    BY <1>2
  <2> QED
    BY <2>1 DEF detect_chrome_cookie_encoding
<1> DEFINE r == decrypt_v10_cookie(cookie, opened)
           found == Append(results, Result("cookie", r.value))
<1>7. r.ok <=> cookie.intact /\ cookie.key = opened
  BY DEF decrypt_v10_cookie, Ok, Err
<1>8. ASSUME \/ detect_chrome_cookie_encoding(store.coding) \notin {"V10", "V20"}
             \/ ~r.ok
      PROVE  IInv'
  <2>1. ~Whole
    BY <1>5, <1>6, <1>7, <1>8
  <2>2. (Fail("Io") \/ Fail("Dpapi")) /\ UNCHANGED results
    BY <1>8 DEF OpenCookie
  <2>3. results' \in Seq(Results)
    BY <2>2 DEF IInv, RunShape
  <2> QED
    BY <1>1, <2>1, <2>2, <2>3, Fails
<1>9. ASSUME detect_chrome_cookie_encoding(store.coding) \in {"V10", "V20"}, r.ok
      PROVE  IInv'
  <2>1. results' = found /\ Exit(Verdict("Recovered", Nothing, found))
    BY <1>9 DEF OpenCookie
  <2>2. r.value = cookie.secret
    BY <1>7, <1>9 DEF decrypt_v10_cookie, Ok
  <2> DEFINE b == Result("blob", store.mint.pt)
             c == Result("cookie", cookie.secret)
  <2>3. /\ b \in Results /\ c \in Results
        /\ b.secret = store.mint.pt /\ c.secret = cookie.secret
    BY <1>2, <1>3 DEF Result, Results
  <2>4. found = Append(<<b>>, c)
    BY <1>1, <2>2
  <2> HIDE DEF found, b, c
  <2>5. <<b>> \in Seq(Results) /\ Len(<<b>>) = 1 /\ <<b>>[1] = b
    BY <2>3
  <2>6. /\ found \in Seq(Results) /\ Len(found) = 2
        /\ found[1] = b /\ found[2] = c
    BY <2>3, <2>4, <2>5, AppendProperties
  <2>7. SecretsIn(found) = Secrets
    <3>1. DOMAIN found = {1, 2}
      BY <2>6, LenProperties
    <3> QED
      BY <1>4, <2>3, <2>6, <3>1 DEF SecretsIn
  <2> DEFINE v == Verdict("Recovered", Nothing, found)
  <2>8. v.kind = "Recovered" /\ v.results = found
    BY DEF Verdict
  <2> HIDE DEF v
  <2>9. Sincere(v)
    BY <1>1, <1>2, <2>6, <2>7, <2>8 DEF Sincere
  <2> QED
    BY <1>1, <2>1, <2>6, <2>8, <2>9, Ends DEF Verdicts, v
<1> QED
  BY <1>8, <1>9

\* A record cut short holds items of the store's own shape.
LEMMA CutItems ==
  ASSUME NEW items \in Seq(Items), NEW c \in CutTo(items)
  PROVE  c \in Seq(Items)
<1>1. CASE c \in {<<>>, items}
  BY <1>1, EmptySeq
<1>2. CASE items # <<>> /\ c = Front(items)
  <2>1. \A i \in 1 .. Len(items) - 1 : items[i] \in Items
    BY ElementOfSeq, LenProperties
  <2>2. Len(items) \in Nat
    BY LenProperties
  <2> QED
    BY <1>2, <2>1, <2>2, SubSeqProperties DEF Front
<1>3. CASE items # <<>> /\ c = <<[Head(items) EXCEPT !.intact = FALSE]>>
  <2>1. Head(items) \in Items
    BY <1>3, HeadTailProperties
  <2>2. [Head(items) EXCEPT !.intact = FALSE] \in Items
    BY <2>1 DEF Items
  <2> QED
    BY <1>3, <2>2
<1> QED
  BY <1>1, <1>2, <1>3 DEF CutTo

LEMMA RecordKeeps ==
  ASSUME IInv, Present', ParseRecord
  PROVE  IInv'
<1>1. /\ store \in Stores /\ pc = "record" /\ store.kind = "vault"
      /\ store.beside # "missing" /\ results = <<>>
      /\ text = store.mint.mk /\ opened = store.mint.pt
      /\ UNCHANGED <<evidence, text, opened, results>>
  BY DEF IInv, ParseRecord, Present, Established, FirstRead, BesideRead, Collected,
         KeyRight, Unlocked
<1>2. store.items \in Seq(Items) /\ store.mint.mk \in MasterKeys
  BY <1>1, StoreShape DEF IsProtection
<1>3. PICK r \in parse_vcrd_attributes :
        IF r.ok THEN Goto("attributes") /\ left' = r.value
                ELSE Fail("Dpapi") /\ UNCHANGED left
  BY DEF ParseRecord
<1>4. /\ store.beside = "unparsable" => r = Err("TooShort")
      /\ store.beside = "cut" => \/ r = Err("TooShort")
                                 \/ \E c \in CutTo(store.items) : r = Ok(c)
      /\ store.beside \notin {"unparsable", "cut"} => r = Ok(store.items)
  <2>1. CASE store.beside = "unparsable"
    BY <2>1 DEF parse_vcrd_attributes
  <2>2. CASE store.beside = "cut"
    BY <2>2 DEF parse_vcrd_attributes
  <2>3. CASE store.beside \notin {"unparsable", "cut"}
    BY <2>3 DEF parse_vcrd_attributes
  <2> QED
    BY <2>1, <2>2, <2>3
<1>5. results' \in Seq(Results)
  BY <1>1 DEF IInv, RunShape
<1>6. CASE r.ok
  <2>1. Goto("attributes") /\ left' = r.value
    BY <1>3, <1>6
  <2>2. store.beside # "unparsable"
    BY <1>4, <1>6 DEF Err
  <2>3. r.value \in Seq(Items) /\ (store.beside = "intact" => r.value = store.items)
    <3>1. CASE store.beside = "cut"
      <4>1. PICK c \in CutTo(store.items) : r = Ok(c)
        BY <1>4, <1>6, <3>1 DEF Err
      <4> QED
        BY <1>2, <3>1, <4>1, CutItems DEF Ok
    <3>2. CASE store.beside # "cut"
      BY <1>2, <1>4, <2>2, <3>2 DEF Ok
    <3> QED
      BY <3>1, <3>2
  <2>4. KeyRight'
    BY <1>1, EvidenceKept DEF KeyRight
  <2>5. Collected'
    BY <1>1, <2>1, <2>2, EvidenceKept DEF Collected, Goto
  <2>6. Remaining'
    <3> SUFFICES ASSUME store.beside = "intact"
                 PROVE  /\ Len(left') <= Len(store.items)
                        /\ \A i \in 1 .. Len(left') :
                             left'[i] = store.items[Len(store.items) - Len(left') + i]
      BY <1>1, EvidenceKept DEF Remaining
    <3>1. left' = store.items /\ Len(store.items) \in Nat
      BY <1>2, <2>1, <2>3, LenProperties
    <3> QED
      BY <3>1
  <2>7. Len(results') = 0
    BY <1>1
  <2>8. OwnSecrets'
    BY <2>7 DEF OwnSecrets
  <2>9. InOrder'
    <3>1. Whole' => left' = store.items /\ Len(store.items) \in Nat
      <4>1. Whole => store.beside = "intact"
        BY <1>1, StoreShape DEF Whole, Besides
      <4> QED
        BY <1>1, <1>2, <2>1, <2>3, <4>1, LenProperties, EvidenceKept
    <3> QED
      BY <1>1, <2>7, <3>1, EvidenceKept DEF InOrder
  <2> QED
    BY <1>1, <1>5, <2>1, <2>3, <2>4, <2>5, <2>6, <2>8, <2>9, Goes DEF Phases
<1>7. CASE ~r.ok
  <2>1. Fail("Dpapi") /\ UNCHANGED left
    BY <1>3, <1>7
  <2>2. store.beside \in {"unparsable", "cut"}
    BY <1>4, <1>7 DEF Ok
  <2>3. ~Whole
    BY <2>2 DEF Whole
  <2>4. left' \in Seq(Items)
    BY <2>1 DEF IInv, RunShape
  <2> QED
    BY <1>1, <1>5, <2>1, <2>3, <2>4, Fails
<1> QED
  BY <1>6, <1>7

\* An attribute of the store's own, and one the store's decoder reads.
LEMMA OpenOwnAttribute ==
  ASSUME NEW attr, NEW r \in OpenAttribute(attr, store.mint.pt), Sound(attr)
  PROVE  /\ r.ok => r.value = attr.secret
         /\ attr.secret \in Readable["web"] => r.ok
  BY DEF OpenAttribute, Sound, Ok, Err

LEMMA AttributeSecret ==
  ASSUME NEW attr \in Items, NEW key, NEW r \in OpenAttribute(attr, key), r.ok
  PROVE  r.value \in Plaintexts \cup {Garbage}
  BY DEF OpenAttribute, Items, Ok, Err

LEMMA AttributeKeeps ==
  ASSUME IInv, Present', NextAttribute
  PROVE  IInv'
<1>1. /\ store \in Stores /\ pc = "attributes" /\ store.kind = "vault"
      /\ store.beside \notin {"missing", "unparsable"}
      /\ text = store.mint.mk /\ opened = store.mint.pt
      /\ left \in Seq(Items) /\ left # <<>> /\ results \in Seq(Results)
      /\ UNCHANGED <<evidence, text, pc, opened, exit>> /\ left' = Tail(left)
  BY DEF IInv, NextAttribute, Present, Established, FirstRead, BesideRead, Collected,
         KeyRight, Unlocked, RunShape
<1>2. store.items \in Seq(Items) /\ store.beside \in {"cut", "intact"}
  BY <1>1, StoreShape DEF Besides
<1> DEFINE attr == Head(left)
           n == Len(store.items) - Len(left)
<1>3. PICK r \in OpenAttribute(attr, store.mint.pt) :
        results' = IF r.ok THEN Append(results, Result("attribute", r.value)) ELSE results
  BY <1>1 DEF NextAttribute
<1>4. /\ attr \in Items /\ left' \in Seq(Items) /\ Len(left') = Len(left) - 1
      /\ \A i \in 1 .. Len(left') : left'[i] = left[i + 1]
  BY <1>1, HeadTailProperties
<1>5. Len(left) \in Nat \ {0} /\ Len(store.items) \in Nat /\ attr = left[1]
      /\ Len(results) \in Nat
  BY <1>1, <1>2, EmptySeq, LenProperties
<1> DEFINE x == Result("attribute", r.value)
<1>6. r.ok => x \in Results /\ x.secret = r.value
  <2>1. r.ok => r.value \in Plaintexts \cup {Garbage}
    BY <1>4, AttributeSecret
  <2> QED
    BY <2>1 DEF Result, Results
<1> HIDE DEF x, attr
<1>7. r.ok => /\ results' \in Seq(Results) /\ Len(results') = Len(results) + 1
              /\ \A i \in 1 .. Len(results) : results'[i] = results[i]
              /\ results'[Len(results) + 1] = x
  <2> SUFFICES ASSUME r.ok
               PROVE  /\ results' \in Seq(Results) /\ Len(results') = Len(results) + 1
                      /\ \A i \in 1 .. Len(results) : results'[i] = results[i]
                      /\ results'[Len(results) + 1] = x
    OBVIOUS
  <2>1. results' = Append(results, x)
    BY <1>3 DEF x
  <2> QED
    BY <1>1, <1>6, <2>1, AppendProperties
<1>8. ~r.ok => results' = results
  BY <1>3
<1>9. results' \in Seq(Results)
  BY <1>1, <1>7, <1>8
<1>10. store.beside = "intact" =>
         /\ n \in 0 .. Len(store.items) - 1 /\ attr = store.items[n + 1]
         /\ n + 1 \in DOMAIN store.items
  <2> SUFFICES ASSUME store.beside = "intact"
               PROVE  /\ n \in 0 .. Len(store.items) - 1 /\ attr = store.items[n + 1]
                      /\ n + 1 \in DOMAIN store.items
    OBVIOUS
  <2>1. Len(left) <= Len(store.items) /\ left[1] = store.items[n + 1]
    BY <1>1, <1>5 DEF IInv, Remaining
  <2> QED
    BY <1>2, <1>5, <2>1, LenProperties
<1>11. KeyRight' /\ Collected'
  BY <1>1, EvidenceKept DEF KeyRight, Collected
<1>12. Remaining'
  <2> SUFFICES ASSUME store.beside = "intact"
               PROVE  /\ Len(left') <= Len(store.items)
                      /\ \A i \in 1 .. Len(left') :
                           left'[i] = store.items[Len(store.items) - Len(left') + i]
    BY <1>1, EvidenceKept DEF Remaining
  <2>1. /\ Len(left) <= Len(store.items)
        /\ \A i \in 1 .. Len(left) : left[i] = store.items[n + i]
    BY <1>1 DEF IInv, Remaining
  <2> QED
    BY <1>4, <1>5, <2>1
<1>13. OwnSecrets'
  <2> SUFFICES ASSUME ~Unchecked
               PROVE  \A i \in 1 .. Len(results') : results'[i].secret \in Secrets
    BY EvidenceKept, <1>1 DEF OwnSecrets
  <2>1. store.beside = "intact" /\ \A i \in DOMAIN store.items : Sound(store.items[i])
    BY <1>1, <1>2 DEF Unchecked
  <2>2. \A i \in 1 .. Len(results) : results[i].secret \in Secrets
    BY <1>1 DEF IInv, OwnSecrets
  <2>3. Sound(attr) /\ attr.secret \in Secrets
    BY <1>10, <2>1 DEF Secrets
  <2>4. r.ok => x.secret \in Secrets
    BY <1>6, <2>3, OpenOwnAttribute
  <2> QED
    BY <1>5, <1>7, <1>8, <2>2, <2>4
<1>14. InOrder'
  <2> SUFFICES ASSUME Whole
               PROVE  /\ Len(results') = Len(store.items) - Len(left')
                      /\ \A i \in 1 .. Len(results') :
                           results'[i].secret = store.items[i].secret
    BY EvidenceKept, <1>1 DEF InOrder
  <2>1. /\ store.beside = "intact"
        /\ \A i \in DOMAIN store.items : /\ Sound(store.items[i])
                                         /\ store.items[i].secret \in Readable["web"]
    BY <1>1, <1>2 DEF Whole
  <2>2. Sound(attr) /\ attr.secret \in Readable["web"]
    BY <1>10, <2>1
  <2>3. r.ok /\ x.secret = attr.secret
    BY <1>6, <2>2, OpenOwnAttribute
  <2>4. /\ Len(results) = n
        /\ \A i \in 1 .. Len(results) : results[i].secret = store.items[i].secret
    BY <1>1 DEF IInv, InOrder
  <2>5. Len(results') = Len(results) + 1 /\ Len(results) + 1 = n + 1
    BY <1>7, <2>3, <2>4
  <2>6. Len(results') = Len(store.items) - Len(left')
    BY <1>4, <1>5, <2>5
  <2>7. results'[Len(results) + 1].secret = store.items[n + 1].secret
    BY <1>7, <1>10, <2>1, <2>3
  <2>8. \A i \in 1 .. Len(results') : results'[i].secret = store.items[i].secret
    <3> TAKE i \in 1 .. Len(results')
    <3>1. CASE i = Len(results) + 1
      BY <2>5, <2>7, <3>1
    <3>2. CASE i # Len(results) + 1
      <4>1. i \in 1 .. Len(results)
        BY <1>5, <2>5, <3>2
      <4> QED
        BY <1>7, <2>3, <2>4, <4>1
    <3> QED
      BY <3>1, <3>2
  <2> QED
    BY <2>6, <2>8
<1>15. Goto("attributes") /\ "attributes" \in Phases \ {"done"}
  BY <1>1 DEF Goto, Phases
<1> QED
  BY <1>1, <1>4, <1>9, <1>11, <1>12, <1>13, <1>14, <1>15, Goes

LEMMA EndKeeps ==
  ASSUME IInv, Present', EndOfRecord
  PROVE  IInv'
<1>1. /\ store \in Stores /\ pc = "attributes" /\ store.kind = "vault"
      /\ store.beside \notin {"missing", "unparsable"}
      /\ text = store.mint.mk /\ results \in Seq(Results)
      /\ left = <<>> /\ left \in Seq(Items)
      /\ UNCHANGED <<evidence, text, left, results>>
      /\ Exit(Verdict("Recovered", Nothing, results))
  BY DEF IInv, EndOfRecord, Present, Established, FirstRead, BesideRead, Collected,
         KeyRight, Unlocked, RunShape
<1>2. store.items \in Seq(Items)
  BY <1>1, StoreShape
<1>3. DOMAIN results = 1 .. Len(results) /\ DOMAIN store.items = 1 .. Len(store.items)
      /\ Len(left) = 0 /\ Len(store.items) \in Nat
  BY <1>1, <1>2, LenProperties
<1>4. ~Unchecked => SecretsIn(results) \subseteq Secrets
  BY <1>1, <1>3 DEF IInv, OwnSecrets, SecretsIn
<1>5. Whole => SecretsIn(results) = Secrets /\ Len(results) = Len(store.items)
  <2> SUFFICES ASSUME Whole
               PROVE  SecretsIn(results) = Secrets /\ Len(results) = Len(store.items)
    OBVIOUS
  <2>1. /\ Len(results) = Len(store.items)
        /\ \A i \in 1 .. Len(results) : results[i].secret = store.items[i].secret
    BY <1>1, <1>3 DEF IInv, InOrder
  <2>2. Secrets = {store.items[i].secret : i \in 1 .. Len(results)}
    BY <1>1, <1>3, <2>1 DEF Secrets
  <2>3. SecretsIn(results) = {store.items[i].secret : i \in 1 .. Len(results)}
    BY <1>3, <2>1 DEF SecretsIn
  <2> QED
    BY <2>1, <2>2, <2>3
<1> DEFINE v == Verdict("Recovered", Nothing, results)
<1>6. v.kind = "Recovered" /\ v.results = results
  BY DEF Verdict
<1> HIDE DEF v
<1>7. Sincere(v)
  BY <1>1, <1>3, <1>4, <1>5, <1>6 DEF Sincere
<1> QED
  BY <1>1, <1>6, <1>7, Ends DEF Verdicts, v

LEMMA IntactUnwrapped ==
  ASSUME NEW s \in Stores, s.first = "intact"
  PROVE  Wrapped(s.kind, s.first).ok
<1>1. s.kind \in Kinds
  BY StoreShape
<1> QED
  BY <1>1 DEF Wrapped, LocalState, parse_local_state_encrypted_key, KeyMaterial, hex_decode,
              BinaryWrapper, Ok, Kinds

LEMMA WrapperFailure ==
  ASSUME NEW kind, NEW state, ~Wrapped(kind, state).ok
  PROVE  Wrapped(kind, state).value \in {"Dpapi", "Io", "BadMasterKey"}
  BY DEF Wrapped, LocalState, parse_local_state_encrypted_key, KeyMaterial, hex_decode,
         BinaryWrapper, Err, Ok

LEMMA InitInv == Init => IInv
<1> SUFFICES ASSUME Init PROVE IInv
  OBVIOUS
<1>1. Present
  BY PresentInit
<1>2. exit.results = <<>> /\ exit.kind = "none"
  BY DEF Init, NoVerdict, Verdict
<1>3. RunShape
  BY <1>2, EmptySeq DEF Init, RunShape, KeyTexts, Phases
<1> QED
  BY <1>1, <1>3 DEF Init, IInv, KeyRight, Unlocked, Collected, Remaining, OwnSecrets, InOrder,
                    Concluded

\* Before the blob is looked at, the run fails only for a malformed key or a
\* file that is not whole.
LEMMA EarlyKeeps ==
  ASSUME IInv, Present', parse_master_key_hex \/ ReadFirst \/ ReadBeside \/ Unwrap
  PROVE  IInv'
<1>1. /\ store \in Stores /\ pc # "done" /\ UNCHANGED <<evidence, text, opened, left, results>>
      /\ left' \in Seq(Items) /\ results' \in Seq(Results)
  BY DEF IInv, Present, RunShape, parse_master_key_hex, ReadFirst, ReadBeside, Unwrap
<1>2. CASE \E phase \in {"first", "beside", "unwrap", "unlock"} : Goto(phase)
  BY <1>1, <1>2, GoesLocked DEF Phases, Unlocked
<1>3. ASSUME NEW kind \in {"Dpapi", "Io", "BadMasterKey"}, Fail(kind),
             ~(Whole /\ text \in MasterKeys)
      PROVE  IInv'
  BY <1>1, <1>3, Fails
<1>4. CASE parse_master_key_hex
  BY <1>2, <1>3, <1>4, MalformedIsNoKey DEF parse_master_key_hex
<1>5. CASE ReadFirst
  BY <1>2, <1>3, <1>5 DEF ReadFirst, Whole
<1>6. CASE ReadBeside
  BY <1>2, <1>3, <1>6 DEF ReadBeside, Whole
<1>7. CASE Unwrap
  <2> DEFINE r == Wrapped(store.kind, store.first)
  <2>1. CASE r.ok
    BY <1>2, <1>7, <2>1 DEF Unwrap
  <2>2. CASE ~r.ok
    <3>1. ~Whole
      BY <1>1, <2>2, IntactUnwrapped DEF Whole
    <3>2. r.value \in {"Dpapi", "Io", "BadMasterKey"} /\ Fail(r.value)
      BY <1>7, <2>2, WrapperFailure DEF Unwrap
    <3> QED
      BY <1>3, <3>1, <3>2
  <2> QED
    BY <2>1, <2>2
<1> QED
  BY <1>4, <1>5, <1>6, <1>7

LEMMA StepInv == IInv /\ [Next]_vars => IInv'
<1> SUFFICES ASSUME IInv, [Next]_vars PROVE IInv'
  OBVIOUS
<1>1. Present'
  BY PresentStep DEF IInv
<1>2. ASSUME NEW t \in KeyTexts, Try(t) PROVE IInv'
  BY <1>1, <1>2, RunKeeps DEF Try
<1>3. CASE Follow
  BY <1>1, <1>3, RunKeeps, KeyringShape DEF Follow, Advised, KeyTexts
<1>4. CASE Step
  BY <1>1, <1>4, EarlyKeeps, UnlockKeeps, CookieKeeps, RecordKeeps, AttributeKeeps, EndKeeps
     DEF Step
<1>5. CASE UNCHANGED vars
  <2>1. /\ UNCHANGED evidence /\ store' = store /\ blob' = blob /\ text' = text /\ pc' = pc
        /\ opened' = opened /\ left' = left /\ results' = results /\ exit' = exit
    BY <1>5 DEF vars, evidence
  <2>2. blob' \in Acquired(store'.mint) /\ RunShape' /\ KeyRight' /\ Collected' /\ Remaining'
    BY <2>1 DEF IInv, RunShape, KeyRight, Collected, Remaining
  <2>3. OwnSecrets' /\ InOrder'
    BY <2>1, EvidenceKept DEF IInv, OwnSecrets, InOrder
  <2>4. Concluded'
    BY <2>1, EvidenceKept DEF IInv, Concluded, Sincere
  <2> QED
    BY <1>1, <2>2, <2>3, <2>4 DEF IInv
<1> QED
  BY <1>2, <1>3, <1>4, <1>5 DEF Next

LEMMA Invariance == Spec => []IInv
  BY InitInv, StepInv, PTL DEF Spec

-----------------------------------------------------------------------------
(* What the invariant says of the verdict.                                    *)

\* A verdict is one only at the end.
LEMMA VerdictIsLast == IInv /\ exit.kind # "none" => pc = "done" /\ Sincere(exit)
  BY DEF IInv, RunShape, Concluded, NoVerdict, Verdict

LEMMA InvTypeOK == IInv => TypeOK
<1> SUFFICES ASSUME IInv PROVE TypeOK
  OBVIOUS
<1>1. store \in Stores /\ store.mint.pt \in Plaintexts
  BY StoreShape DEF IInv, Present, IsProtection
<1>2. blob = Unparsable \/ DOMAIN blob = BlobFields
  BY DEF IInv, Acquired, Protected
<1>3. pc \in {"cookie", "record", "attributes"} => opened \in Plaintexts
  BY <1>1 DEF IInv, KeyRight, Unlocked
<1>4. exit.kind \in Verdicts /\ ((exit.kind # "none") = (pc = "done"))
  BY DEF IInv, RunShape, NoVerdict, Verdict, Verdicts
<1> QED
  BY <1>2, <1>3, <1>4 DEF IInv, RunShape, TypeOK

LEMMA InvSecrets == IInv => SecretsAuthentic
  BY VerdictIsLast DEF SecretsAuthentic, Sincere

LEMMA InvRecoversAll == IInv => RightKeyRecoversAll
  BY DEF IInv, Concluded, RightKeyRecoversAll, Sincere

LEMMA InvAdvised == IInv => WrongKeyAdvised
  BY DEF IInv, Concluded, WrongKeyAdvised, Sincere

\* The variables keep their types; a run has a verdict exactly when it is over,
\* and only a recovery carries results.
THEOREM TypeCorrect == Spec => []TypeOK
  BY Invariance, InvTypeOK, PTL

\* Whatever was damaged or mixed in the store: secrets are reported only under
\* the master key its blob was protected under, and only its own; the vault
\* attributes that nothing authenticates are the one exception.
THEOREM SecretsAuthenticHolds == Spec => []SecretsAuthentic
  BY Invariance, InvSecrets, PTL

\* The right key on an undamaged store recovers each of its secrets, however
\* many attributes its record has.
THEOREM RightKeyRecoversAllHolds == Spec => []RightKeyRecoversAll
  BY Invariance, InvRecoversAll, PTL

\* Any other key on an undamaged store is answered with the GUID of the one
\* that opens it.
THEOREM WrongKeyAdvisedHolds == Spec => []WrongKeyAdvised
  BY Invariance, InvAdvised, PTL

-----------------------------------------------------------------------------
(* The promise.                                                               *)

LEMMA TruthKept == UNCHANGED evidence => Truth' = Truth
<1> SUFFICES ASSUME UNCHANGED evidence PROVE Truth' = Truth
  OBVIOUS
<1>1. /\ store' = store /\ blob' = blob /\ Secrets' = Secrets
      /\ Whole' = Whole /\ (~Unchecked)' = (~Unchecked)
  BY DEF evidence, Whole, Unchecked, Secrets, Sound
<1> QED
  BY <1>1 DEF Truth

\* A step of a run leaves the promise as it is or gives the answer promised.
LEMMA Answers ==
  ASSUME IInv, IInv', UNCHANGED <<evidence, text>>, exit = NoVerdict
  PROVE  [Promise!Next]_<<Truth, text, Said(exit)>>
<1>1. Truth' = Truth /\ text' = text
  BY TruthKept
<1>2. Said(exit) = Promise!Silent /\ exit.kind = "none"
  BY DEF NoVerdict, Verdict, Said, Promise!Silent
<1>3. Truth.opener = store.mint.mk /\ Truth.secrets = Secrets /\ (Truth.sound <=> Whole)
      /\ (Truth.checked <=> ~Unchecked) /\ (Truth.piecemeal <=> store.kind = "vault")
  BY DEF Truth
<1>4. exit'.kind # "none" => Sincere(exit)'
  BY DEF IInv, RunShape, Concluded, NoVerdict, Verdict
<1>5. CASE exit'.kind = "none"
  <2>1. Said(exit)' = Said(exit)
    BY <1>2, <1>5 DEF Said, Promise!Silent
  <2> QED
    BY <1>1, <2>1
<1>6. CASE exit'.kind = "Recovered"
  <2> DEFINE S == SecretsIn(exit'.results)
  <2>1. Said(exit)' = Promise!Revealed(S)
    BY <1>6 DEF Said, Promise!Revealed
  <2>2. S \in SUBSET (Plaintexts \cup {Garbage})
    <3>1. exit'.results \in Seq(Results)
      BY DEF IInv, RunShape
    <3>2. \A i \in DOMAIN exit'.results : exit'.results[i] \in Results
      BY <3>1, LenProperties, ElementOfSeq
    <3> QED
      BY <3>2 DEF SecretsIn, Results
  <2>3. /\ text = store.mint.mk
        /\ Whole => S = Secrets
        /\ ~Unchecked => S \subseteq Secrets
        /\ store.kind # "vault" => S = Secrets
    BY <1>4, <1>6, EvidenceKept DEF Sincere
  <2>4. Promise!Reveal(S)
    BY <1>1, <1>2, <1>3, <2>1, <2>3 DEF Promise!Reveal, Promise!Opens, Promise!Answer
  <2> QED
    BY <2>2, <2>4 DEF Promise!Next
<1>7. CASE exit'.kind \notin {"none", "Recovered"}
  <2>1. ~(Truth.sound /\ Promise!Opens)
    BY <1>3, <1>4, <1>7, EvidenceKept DEF Sincere, Promise!Opens
  <2>2. CASE exit'.kind = "Locked"
    <3>1. exit'.guid = blob.master_key_guid /\ blob # Unparsable
      BY <1>4, <2>2, EvidenceKept DEF Sincere, IInv, Present, PresentBeforeLocked
    <3>2. Said(exit)' = Promise!Locked(Truth.guid)
      BY <2>2, <3>1 DEF Said, Promise!Locked, Truth
    <3> QED
      BY <1>1, <1>2, <2>1, <3>2 DEF Promise!Next, Promise!Lock, Promise!Answer
  <2>3. CASE exit'.kind # "Locked"
    <3>1. Said(exit)' = Promise!Refused
      BY <1>7, <2>3 DEF Said, Promise!Refused
    <3> QED
      BY <1>1, <1>2, <2>1, <3>1 DEF Promise!Next, Promise!Refuse, Promise!Answer
  <2> QED
    BY <2>2, <2>3
<1> QED
  BY <1>5, <1>6, <1>7

\* A new run asks anew.
LEMMA Asks ==
  ASSUME NEW t \in KeyTexts, Run(t)
  PROVE  Promise!Next
<1>1. Truth' = Truth
  BY TruthKept DEF Run
<1>2. text' = t /\ Said(exit)' = Promise!Silent
  BY DEF Run, Said, NoVerdict, Verdict, Promise!Silent
<1> QED
  BY <1>1, <1>2 DEF Promise!Next, Promise!Ask

LEMMA StepPromised ==
  IInv /\ IInv' /\ [Next]_vars => [Promise!Next]_<<Truth, text, Said(exit)>>
<1> SUFFICES ASSUME IInv, IInv', [Next]_vars
             PROVE  [Promise!Next]_<<Truth, text, Said(exit)>>
  OBVIOUS
<1>1. ASSUME NEW t \in KeyTexts, Try(t) PROVE Promise!Next
  BY <1>1, Asks DEF Try
<1>2. CASE Follow
  BY <1>2, Asks, KeyringShape DEF Follow, Advised, KeyTexts
<1>3. CASE Step
  <2>1. pc # "done" /\ UNCHANGED <<evidence, text>>
    BY <1>3 DEF Step, parse_master_key_hex, ReadFirst, ReadBeside, Unwrap, Unlock, OpenCookie,
                ParseRecord, NextAttribute, EndOfRecord
  <2>2. exit = NoVerdict
    BY <2>1 DEF IInv, RunShape
  <2> QED
    BY <2>1, <2>2, Answers
<1>4. CASE UNCHANGED vars
  <2>1. UNCHANGED evidence /\ text' = text /\ exit' = exit
    BY <1>4 DEF vars, evidence
  <2>2. Said(exit)' = Said(exit)
    BY <2>1 DEF Said, SecretsIn
  <2> QED
    BY <2>1, <2>2, TruthKept
<1> QED
  BY <1>1, <1>2, <1>3, <1>4 DEF Next

\* The command line implements RefuseBoundary: whatever the stores, the keys and
\* the damage, every step is one the promise allows, or none it speaks of.
THEOREM KeepsPromiseHolds == Spec => KeepsPromise
<1>1. Init => Promise!Init
  BY DEF Init, Promise!Init, Said, NoVerdict, Verdict, Promise!Silent
<1>2. IInv /\ IInv' /\ [Next]_vars => [Promise!Next]_<<Truth, text, Said(exit)>>
  BY StepPromised
<1> QED
  BY <1>1, <1>2, Invariance, PTL DEF Spec, KeepsPromise, Promise!Spec
=============================================================================
