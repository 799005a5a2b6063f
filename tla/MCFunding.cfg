SPECIFICATION FairSpec
CONSTANTS
  LIMIT = 1
  MaxCount = 2
  MaxBoots = 3
  MaxTries = 2
INVARIANTS
  RecoveryBeforeFunding
  AttemptIsRecoverable
  SecuredWalletOwnsCoin
PROPERTIES
  ImplementsSafeFunding
  FundingCompletes
  EvictedFundingReturns
