----------------------- MODULE ProtectedBlobs_proofs ------------------------
(* The life of a blob, for any keys, plaintexts, protections, entropies and   *)
(* any number of damaged or mixed fields.  The invariant says of the evidence *)
(* what an attempt to open it relies on, and that the last call is one on the *)
(* blob as it is; each property then follows from a lemma about such a call.  *)
EXTENDS ProtectedBlobs, DpapiCrypto_proofs

DiskShape == /\ disk = [f \in BlobFields |-> disk[f]]
             /\ disk.hmac \in Seq(FileBytes)

CallCurrent ==
  call # NoCall => \E mk \in MasterKeys, e \in Entropies :
                     \E r \in decrypt_dpapi_blob(disk, mk, e) : call = Called(mk, e, r)

IInv == /\ minted \subseteq Mints
        /\ faults \in 0 .. MaxFaults
        /\ DiskShape
        /\ SignIn(disk, minted)
        /\ CallCurrent

LEMMA InitInv == Init => IInv
<1> SUFFICES ASSUME Init PROVE IInv
  OBVIOUS
<1>1. PICK m \in Mints : minted = {m} /\ disk = Protected(m) /\ call = NoCall
  BY DEF Init
<1>2. IsProtection(m) /\ faults \in 0 .. MaxFaults
  BY MintShape, BoundShape DEF Init
<1> QED
  BY <1>1, <1>2, ProtectedFields DEF IInv, DiskShape, SignIn, CallCurrent

\* A field is replaced by that of a protected blob or by noise.
LEMMA ReplaceInv ==
  ASSUME IInv, NEW f \in BlobFields, NEW v, Replace(f, v),
         f = "hmac" => v \in Seq(FileBytes),
         f = "sign" => v = Junk \/ \E m \in minted : v = ProtectedSign(m)
  PROVE  IInv'
<1>1. disk' = [disk EXCEPT ![f] = v] /\ minted' = minted /\ call' = NoCall
  BY DEF Replace
<1>2. \A g \in BlobFields : disk'[g] = IF g = f THEN v ELSE disk[g]
  BY <1>1 DEF IInv, DiskShape
<1>3. disk' = [g \in BlobFields |-> disk'[g]]
  BY <1>1 DEF IInv, DiskShape
<1>4. disk'.hmac \in Seq(FileBytes)
  BY <1>2 DEF IInv, DiskShape, BlobFields, SignedFields
<1>5. SignIn(disk', minted')
  BY <1>1, <1>2 DEF IInv, SignIn, BlobFields
<1>6. faults' \in 0 .. MaxFaults
  BY BoundShape DEF Replace, IInv
<1> QED
  BY <1>1, <1>3, <1>4, <1>5, <1>6 DEF IInv, DiskShape, CallCurrent

LEMMA StepInv == IInv /\ [Next]_vars => IInv'
<1> SUFFICES ASSUME IInv, [Next]_vars PROVE IInv'
  OBVIOUS
<1>1. ASSUME NEW m \in Mints, Protect(m) PROVE IInv'
  BY <1>1 DEF Protect, IInv, DiskShape, SignIn, CallCurrent
<1>2. ASSUME NEW f \in BlobFields, NEW m \in minted, Mix(f, m) PROVE IInv'
  <2>1. IsProtection(m)
    BY MintShape DEF IInv
  <2> QED
    BY <1>2, <2>1, ProtectedFields, ReplaceInv DEF Mix
<1>3. ASSUME NEW f \in BlobFields, Damage(f) PROVE IInv'
  <2>1. f = "hmac" => Noise(f) = <<Junk>>
    BY DEF Noise
  <2>2. <<Junk>> \in Seq(FileBytes)
    BY DEF FileBytes
  <2>3. f = "sign" => Noise(f) = Junk
    BY DEF Noise
  <2> QED
    BY <1>3, <2>1, <2>2, <2>3, ReplaceInv DEF Damage
<1>4. ASSUME NEW mk \in MasterKeys, NEW e \in Entropies, Decrypt(mk, e) PROVE IInv'
  BY <1>4 DEF Decrypt, IInv, DiskShape, SignIn, CallCurrent
<1>5. CASE UNCHANGED vars
  BY <1>5 DEF vars, IInv, DiskShape, SignIn, CallCurrent
<1> QED
  BY <1>1, <1>2, <1>3, <1>4, <1>5 DEF Next

-----------------------------------------------------------------------------
(* What the invariant says of the last call.                                  *)

\* The call under way, in its parts.
LEMMA LastCall ==
  ASSUME IInv, call # NoCall
  PROVE  /\ call.mk \in MasterKeys /\ call.entropy \in Entropies
         /\ call.entropy \in Seq(FileBytes)
         /\ call.result \in decrypt_dpapi_blob(disk, call.mk, call.entropy)
<1>1. PICK mk \in MasterKeys, e \in Entropies :
        \E r \in decrypt_dpapi_blob(disk, mk, e) : call = Called(mk, e, r)
  BY DEF IInv, CallCurrent
<1>2. PICK r \in decrypt_dpapi_blob(disk, mk, e) : call = Called(mk, e, r)
  BY <1>1
<1>3. call.mk = mk /\ call.entropy = e /\ call.result = r
  BY <1>2 DEF Called
<1> QED
  BY <1>2, <1>3, EntropyShape, SeqMonotonic DEF FileBytes

LEMMA InvIntegrity == IInv => Integrity
<1> SUFFICES ASSUME IInv, call # NoCall, call.result.ok
             PROVE  \E m \in minted : /\ m.mk = call.mk /\ m.entropy = call.entropy
                                      /\ m.pt = call.result.value
                                      /\ \A f \in SignedFields : disk[f] = Protected(m)[f]
  BY DEF Integrity
<1>1. PICK m \in minted : /\ m.mk = call.mk /\ m.entropy = call.entropy
                          /\ m.pt = call.result.value
                          /\ to_sign(disk) = to_sign(Protected(m))
  BY LastCall, MintShape, DecryptSound DEF IInv, DiskShape
<1> QED
  BY <1>1, RegionFields

LEMMA InvTypeOK == IInv => TypeOK
<1> SUFFICES ASSUME IInv PROVE TypeOK
  OBVIOUS
<1>1. ASSUME call # NoCall
      PROVE  /\ call.mk \in MasterKeys /\ call.entropy \in Entropies
             /\ call.result.ok \in BOOLEAN
             /\ call.result.ok => call.result.value \in Plaintexts
  <2>1. call.result.ok \in BOOLEAN
    <3>1. PICK v : call.result = Ok(v) \/ call.result = Err(v)
      BY <1>1, LastCall, DecryptOutcomes
    <3>2. CASE call.result = Ok(v)
      BY <3>2 DEF Ok
    <3>3. CASE call.result = Err(v)
      BY <3>3 DEF Err
    <3> QED
      BY <3>1, <3>2, <3>3
  <2>2. call.result.ok => call.result.value \in Plaintexts
    BY <1>1, InvIntegrity, MintShape DEF Integrity, IInv, IsProtection
  <2> QED
    BY <1>1, <2>1, <2>2, LastCall
<1> QED
  BY <1>1 DEF IInv, DiskShape, TypeOK

LEMMA InvRightKey == IInv => RightKeyRecovers
<1> SUFFICES ASSUME IInv, NEW m \in minted, call # NoCall, Pristine(m),
                    call.mk = m.mk, call.entropy = m.entropy
             PROVE  call.result = Ok(m.pt)
  BY DEF RightKeyRecovers
<1>1. IsProtection(m)
  BY MintShape DEF IInv
<1>2. decrypt_dpapi_blob(disk, m.mk, m.entropy) = {Ok(m.pt)}
  BY <1>1, RightKeyDecrypts DEF Pristine
<1> QED
  BY <1>2, LastCall

LEMMA InvWrongKey == IInv => WrongKeyRefused
<1> SUFFICES ASSUME IInv, NEW m \in minted, call # NoCall, Pristine(m),
                    <<call.mk, call.entropy>> # <<m.mk, m.entropy>>
             PROVE  call.result \in {Err("HmacMismatch"), Err("DecryptionFailed")}
  BY DEF WrongKeyRefused
<1>1. IsProtection(m) /\ disk = Protected(m)
  BY MintShape DEF IInv, Pristine
<1> QED
  BY <1>1, LastCall, WrongKeyRefuses

LEMMA InvKeyLong == IInv => KeyLongEnough
<1> SUFFICES ASSUME IInv, call # NoCall PROVE call.result # Err("InvalidKeyLength")
  BY DEF KeyLongEnough
<1> QED
  BY LastCall, DecryptOutcomes DEF Err, Ok

LEMMA Invariance == Spec => []IInv
  BY InitInv, StepInv, PTL DEF Spec

-----------------------------------------------------------------------------
\* The variables keep their types, and a plaintext returned is always one that
\* an application can have protected, never garbage out of the cipher.
THEOREM TypeCorrect == Spec => []TypeOK
  BY Invariance, InvTypeOK, PTL

\* For any keys, entropies, protections and damage: decrypt_dpapi_blob never
\* returns a plaintext that was not protected under the key and entropy given.
THEOREM IntegrityHolds == Spec => []Integrity
  BY Invariance, InvIntegrity, PTL

\* Whatever else is protected meanwhile, the key and entropy of an undamaged
\* blob recover its plaintext, for each hash and cipher and form of the Sign.
THEOREM RightKeyRecoversHolds == Spec => []RightKeyRecovers
  BY Invariance, InvRightKey, PTL

\* Any other key or entropy is refused in one of the two ways callers turn into
\* "locked".
THEOREM WrongKeyRefusedHolds == Spec => []WrongKeyRefused
  BY Invariance, InvWrongKey, PTL

\* No damage to the algorithm ids makes the derived key too short for the cipher.
THEOREM KeyLongEnoughHolds == Spec => []KeyLongEnough
  BY Invariance, InvKeyLong, PTL
=============================================================================
