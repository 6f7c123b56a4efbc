\* Blobs protected, damaged and mixed, and keys tried on them.
CONSTANTS
  K1 = K1  K2 = K2  S1 = S1  E1 = E1  N1 = N1  P1 = P1  P2 = P2  G1 = G1  G2 = G2
  MasterKeys = {K1, K2}
  Plaintexts = {P1, P2}
  Bytes = {S1, E1, N1}
  Mints <- MCMints
  Entropies <- MCEntropies
  MaxMinted = 2
  MaxFaults = 3
SPECIFICATION Spec
INVARIANTS TypeOK Integrity RightKeyRecovers WrongKeyRefused KeyLongEnough
