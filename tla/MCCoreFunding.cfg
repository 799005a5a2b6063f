SPECIFICATION FairCoreSpec
CONSTANTS
  LIMIT = 1
  MaxCount = 2
  MaxBoots = 3
  MaxTries = 2
INVARIANT
  AskedFundingIsReserved
PROPERTIES
  ImplementsSafeFunding
  CoreFundingCompletes
