SPECIFICATION Spec
CONSTANTS
  c1 = c1
  c2 = c2
  c3 = c3
  k1 = k1
  k2 = k2
  m1 = m1
  m2 = m2
  CoinId <- MCCoinId
  Capability <- MCCapability
  Sighash <- MCSighash
  LIMIT = 2
  MaxCount = 2
  MaxKeys = 3
SYMMETRY Symmetry
INVARIANTS
  TypeOK
  NoFork
  CountIsHistory
  LatestIsRecoverable
  SpentStaysSpent
PROPERTY
  RegistrationIsSticky
