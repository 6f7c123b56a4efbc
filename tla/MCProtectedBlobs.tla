-------------------------- MODULE MCProtectedBlobs --------------------------
(* Two keys, entropies and salts and HMac fields that run into each other     *)
(* (salt S1 with entropy E1 against salt S1 E1 with none), every hash of the  *)
(* table and one outside it, both ciphers and both forms of the Sign.         *)
EXTENDS ProtectedBlobs

CONSTANTS K1, K2, S1, E1, N1, P1, P2, G1, G2

Mint(g, k, e, c, h, s, n, p, f) ==
  [master_key_guid |-> g, mk |-> k, entropy |-> e, alg_id_encrypt |-> c,
   alg_id_hash |-> h, salt |-> s, hmac |-> n, pt |-> p, form |-> f]

MCMints ==
  {Mint(G1, K1, <<>>, "CALG_AES_256", "CALG_SHA_512", <<S1, E1>>, <<N1, E1>>, P1, f)
     : f \in {"nested", "plain"}}
  \cup {Mint(G1, K1, <<E1>>, "CALG_AES_256", "CALG_SHA_512", <<S1>>, <<N1>>, P2, f)
          : f \in {"nested", "plain"}}
  \cup {Mint(G2, K2, <<E1>>, "CALG_AES_256", h, <<S1>>, <<N1>>, P1, "plain")
          : h \in {"CALG_HMAC", "CALG_SHA_256"}}
  \cup {Mint(G2, K2, <<>>, "CALG_3DES", h, <<S1>>, <<N1, E1>>, P1, f)
          : h \in {"CALG_SHA1", "CALG_HMAC"}, f \in {"nested", "plain"}}
MCEntropies == {<<>>, <<E1>>}
=============================================================================
