----------------------------- MODULE MCDpapi4n6 -----------------------------
(* Stores of every kind: undamaged ones under either key, one whose hash the  *)
(* code does not know, one whose plaintext no decoder reads; each way its     *)
(* files can be missing or unreadable; and up to two items beside the blob,   *)
(* intact, damaged, cut short or of another store.                            *)
EXTENDS Dpapi4n6

CONSTANTS K1, K2, KShort, P1, P2, PBad, G1, G2, S1, N1

Mint(g, k, c, h, p) ==
  [master_key_guid |-> g, mk |-> k, entropy |-> <<>>, alg_id_encrypt |-> c,
   alg_id_hash |-> h, salt |-> <<S1>>, hmac |-> <<N1>>, pt |-> p, form |-> "nested"]

A == Mint(G1, K1, "CALG_AES_256", "CALG_SHA_512", P1)
B == Mint(G2, K2, "CALG_3DES", "CALG_SHA1", P2)
Unknown == Mint(G1, K1, "CALG_AES_256", "CALG_SHA_256", P1)
Odd == Mint(G1, K1, "CALG_AES_256", "CALG_SHA_512", PBad)

Store(kind, first, mint, beside, items) ==
  [kind |-> kind, first |-> first, mint |-> mint, beside |-> beside, items |-> items,
   coding |-> NoCoding]
Item(key, secret, intact) == [key |-> key, secret |-> secret, intact |-> intact]

\* A browser store with its cookie: one that is AES-GCM, one whose ciphertext is
\* shorter than a tag, and one that is not AES-GCM at all.
Cookie(m, prefix, len, item) ==
  [Store("browser", "intact", m, "intact", <<item>>)
     EXCEPT !.coding = [prefix |-> prefix, len |-> len]]

Attributes == {Item(P1, P1, TRUE), Item(P1, P2, TRUE), Item(P1, PBad, TRUE),
               Item(P1, P2, FALSE), Item(P2, P2, TRUE)}
Records == {<<>>} \cup {<<x, y>> : x, y \in Attributes}
Lost == Item(P1, P2, FALSE)

MCStores ==
  {Store(kind, "intact", m, "none", <<>>)
     : kind \in {"browser", "credman", "wifi"}, m \in {A, B, Unknown, Odd}}
  \cup {Cookie(m, prefix, 31, i) : m \in {A, B}, prefix \in {"v10", "v20"}, i \in Attributes}
  \cup {Cookie(A, prefix, len, Lost) : prefix \in CookiePrefixes, len \in {15, 16}}
  \cup {Store("vault", "intact", m, "intact", r) : m \in {A, Odd}, r \in Records}
  \cup {Store("vault", "intact", A, "cut", r) : r \in Records}
  \cup {Store("browser", first, A, beside, <<>>)
           : first \in Wrappers.browser, beside \in {"none", "missing"}}
  \cup {Store("credman", first, A, "none", <<>>) : first \in Wrappers.credman}
  \cup {Store("vault", first, A, beside, <<>>)
           : first \in Wrappers.vault, beside \in {"missing", "unparsable"}}
  \cup {Store("wifi", first, A, "none", <<>>) : first \in Wrappers.wifi}

MCReadable == [d \in Decoders |-> {P1, P2}]

\* One vault record with one attribute, which is damaged.
DamagedVault == {Store("vault", "intact", A, "intact", <<Item(P1, P2, FALSE)>>)}

MCKeyring == [g \in {G1, G2} |-> IF g = G1 THEN K1 ELSE K2]
=============================================================================
