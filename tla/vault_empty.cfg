\* A damaged vault attribute is passed over and the run succeeds with nothing.
CONSTANTS
  K1 = K1  K2 = K2  KShort = KShort  P1 = P1  P2 = P2  PBad = PBad
  G1 = G1  G2 = G2  S1 = S1  N1 = N1
  MasterKeys = {K1, K2, KShort}
  Plaintexts = {P1, P2, PBad}
  Bytes = {S1, N1}
  Readable <- MCReadable
  Stores <- DamagedVault
  Keyring <- MCKeyring
SPECIFICATION Spec
INVARIANT NoCleanEmpty
