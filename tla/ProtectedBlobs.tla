--------------------------- MODULE ProtectedBlobs ---------------------------
(* The life of one acquired DPAPI blob.  Windows protects data and the blob   *)
(* is stored; storage then loses or mixes fields of it (the evidence is       *)
(* damaged, or carved from several blobs); and callers of dpapi-core try keys *)
(* and entropies on what is left, any number of times.                        *)
EXTENDS DpapiCrypto, FiniteSets

CONSTANTS
  Mints,        \* the protections that may happen
  Entropies,    \* the entropies a caller may supply
  MaxMinted,    \* bound: how many blobs are protected
  MaxFaults     \* bound: how many fields are damaged or mixed

ASSUME MintShape == \A m \in Mints : IsProtection(m)
ASSUME EntropyShape == Entropies \subseteq Seq(Bytes)
ASSUME BoundShape == MaxFaults \in Nat

VARIABLES
  minted,    \* the protections that took place
  disk,      \* the blob as it is now
  faults,    \* how many fields were damaged or mixed
  call       \* the last call of decrypt_dpapi_blob: its key, entropy and result

vars == <<minted, disk, faults, call>>

NoCall == [made |-> FALSE]
Called(mk, e, r) == [made |-> TRUE, mk |-> mk, entropy |-> e, result |-> r]

Init == \E m \in Mints : /\ minted = {m}
                         /\ disk = Protected(m)
                         /\ faults = 0
                         /\ call = NoCall

\* Another protection; its blob lies beside the one under examination.
Protect(m) == /\ Cardinality(minted) < MaxMinted
              /\ minted' = minted \cup {m}
              /\ call' = NoCall
              /\ UNCHANGED <<disk, faults>>

Replace(f, v) == /\ faults < MaxFaults
                 /\ disk' = [disk EXCEPT ![f] = v]
                 /\ faults' = faults + 1
                 /\ call' = NoCall
                 /\ UNCHANGED minted

\* A field is overwritten by the same field of another blob.
Mix(f, m) == Replace(f, Protected(m)[f])

\* A field is overwritten by bytes that mean nothing.
Damage(f) == Replace(f, Noise(f))

Decrypt(mk, e) == /\ \E r \in decrypt_dpapi_blob(disk, mk, e) : call' = Called(mk, e, r)
                  /\ UNCHANGED <<minted, disk, faults>>

Next == \/ \E m \in Mints : Protect(m)
        \/ \E f \in BlobFields, m \in minted : Mix(f, m)
        \/ \E f \in BlobFields : Damage(f)
        \/ \E mk \in MasterKeys, e \in Entropies : Decrypt(mk, e)

Spec == Init /\ [][Next]_vars

-----------------------------------------------------------------------------
TypeOK == /\ minted \subseteq Mints
          /\ DOMAIN disk = BlobFields
          /\ faults \in 0 .. MaxFaults
          /\ call # NoCall => /\ call.mk \in MasterKeys
                              /\ call.entropy \in Entropies
                              /\ call.result.ok \in BOOLEAN
                              /\ call.result.ok => call.result.value \in Plaintexts

\* decrypt_dpapi_blob returns a plaintext only if that plaintext was protected
\* under the very key and entropy supplied, in a blob with the very fields
\* parsed: no damage, no mixture and no shift of bytes between salt, HMac and
\* entropy yields a secret nobody protected (decrypt.rs:143, the Sign check).
Integrity ==
  call # NoCall /\ call.result.ok =>
    \E m \in minted : /\ m.mk = call.mk /\ m.entropy = call.entropy
                      /\ m.pt = call.result.value
                      /\ \A f \in SignedFields : disk[f] = Protected(m)[f]

Pristine(m) == /\ disk = Protected(m)
               /\ m.alg_id_hash \in DOMAIN hash_alg_info

\* The key and entropy a blob was protected under always recover it, for every
\* hash and cipher the code knows and either form of the Sign.
RightKeyRecovers ==
  \A m \in minted : call # NoCall /\ Pristine(m) /\ call.mk = m.mk /\ call.entropy = m.entropy
                      => call.result = Ok(m.pt)

\* Any other key or entropy on an undamaged blob is refused as a mismatch, the
\* refusal callers turn into "locked", never as an unsupported blob.
WrongKeyRefused ==
  \A m \in minted : call # NoCall /\ Pristine(m) /\ <<call.mk, call.entropy>> # <<m.mk, m.entropy>>
                      => call.result \in {Err("HmacMismatch"), Err("DecryptionFailed")}

\* However the algorithm ids are damaged, the derived key is long enough for
\* the cipher: SHA1's 20 bytes are always expanded (decrypt.rs:69).
KeyLongEnough == call # NoCall => call.result # Err("InvalidKeyLength")
=============================================================================
