SPECIFICATION Spec
CONSTANTS
  alice = alice
  bob = bob
  carol = carol
  none = none
  copy = copy
  Wallet <- MCWallet
  First = alice
  DELAY_STEP = 2
  MaxU16 = 8
  MaxU32 = 15
  InitialDelay = 8
  Margins <- MCMargins
  ForeignDelays <- MCForeign
  MinConfirmations = 1
  MaxBlocks = 2
  MaxSignatures = 3
SYMMETRY Symmetry
INVARIANTS
  VerifiedIsComplete
  VerifiedLeavesMargin
  OwnedReportIsTrue
CHECK_DEADLOCK FALSE
