SPECIFICATION FairSpec
CONSTANTS
  home = home
  away = away
  Policy <- MCPolicy
  Deposits = 3
  MaxBatch = 2
INVARIANTS
  OneSpendPerDeposit
  SentIsJournaled
PROPERTY
  ArmedSweepReturns
