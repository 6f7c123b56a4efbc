SPECIFICATION Spec
CONSTANTS
  F1 = F1
  F2 = F2
  K1 = K1
  K2 = K2
  Salt = Salt
  HmacSalt = HmacSalt
  G1 = G1
  G2 = G2
  P1 = P1
  P2 = P2
  MasterKeys = {K1, K2}
  Plaintexts = {P1, P2}
  Bytes = {"s", "n"}
  digest_len <- MCTable
  Files = {F1, F2}
  Acquisitions <- MCAcquisitions
  Blobs <- MCBlobs
  Credentials <- MCCredentials
  Sizes <- MCSizes
  MaxRounds = 3
  MaxFaults = 1
INVARIANTS TypeOK KeyringAuthentic RightCredentialOpens WrongCredentialRefused NoSlicePanic MislabelledHarmless
PROPERTIES ReachedIsOpened
