SPECIFICATION FairSpec
CONSTANTS
  alice = alice
  bob = bob
  carol = carol
  low = low
  high = high
  other = other
  Wallet <- MCWallet
  First = alice
  Terms <- MCTerms
  Fitting <- MCFitting
  MaxDraws = 3
INVARIANTS
  RerunsAgree
  AcceptedAsAsked
PROPERTY
  TransferIsAccepted
CHECK_DEADLOCK FALSE
