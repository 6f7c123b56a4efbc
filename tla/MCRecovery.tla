----------------------------- MODULE MCRecovery -----------------------------
(* Two files and three accounts: two passwords, one of them used by two       *)
(* SIDs, and an LSA key.  The files differ in hash, cipher and rounds, so the *)
(* gap before the key, the blocks of the derivation and the block length do.  *)
EXTENDS Recovery, TLC

CONSTANTS F1, F2, G1, G2, K1, K2, P1, P2, Salt, HmacSalt

User(sid, pwd) == [kind |-> "password", sid |-> sid, password |-> pwd]
System == [kind |-> "lsa", key |-> [lsa |-> "machine"]]
Alice == User("alice", "secret")
Bob == User("bob", "secret")
MCCredentials == {Alice, Bob, User("alice", "old"), System}

Seal(guid, cred, k, hash, cipher, rounds) ==
  [guid |-> guid, credential |-> cred, mk |-> k, alg_id_hash |-> hash,
   alg_id_encrypt |-> cipher, rounds |-> rounds, salt |-> Salt, hmac_salt |-> HmacSalt]

MCAcquisitions ==
  \* the payload of one fits into the other
  {F1 :> Seal(G1, Alice, K1, "CALG_SHA_512", "CALG_AES_256", 3)
     @@ F2 :> Seal(G2, System, K2, "CALG_SHA_512", "CALG_AES_256", 3),
   \* one password, two accounts; a key of several blocks, a gap before the key
   F1 :> Seal(G1, Bob, K1, "CALG_SHA1", "CALG_3DES", 2)
     @@ F2 :> Seal(G2, Alice, K2, "CALG_SHA_512", "CALG_AES_256", 2),
   \* two files of one GUID: an old password and one that is lost
   F1 :> Seal(G1, User("alice", "old"), K1, "CALG_HMAC", "CALG_3DES", 1)
     @@ F2 :> Seal(G1, User("alice", "lost"), K2, "CALG_HMAC", "CALG_AES_256", 1)}

Blob(guid, k, p) ==
  [master_key_guid |-> guid, mk |-> k, entropy |-> <<>>, alg_id_encrypt |-> "CALG_AES_256",
   alg_id_hash |-> "CALG_SHA_512", salt |-> <<"s">>, hmac |-> <<"n">>, pt |-> p, form |-> "plain"]
MCBlobs == {Blob(G1, K1, P1), Blob(G2, K2, P2)}
MCTable == [CALG_SHA1 |-> 20, CALG_HMAC |-> 20, CALG_SHA_512 |-> 64]
\* Nothing, less than the header, a payload of no block or of part of one, ones
\* that hold salt and MAC but not the key, or the key but not the MAC, one too
\* short by a word, one too long.
MCSizes == {0, 31, 32, 32 + 40, 32 + 64, 32 + 72, 32 + 76, 32 + 80, 32 + 152, 32 + 160}
=============================================================================
