SPECIFICATION FairSpec
CONSTANTS
  alice = alice
  bob = bob
  carol = carol
  Wallet <- MCThreeWallets
  First = alice
  Unindexed <- MCUnindexed
  LIMIT = 1
  MaxCount = 9
  DELAY_STEP = 1
  InitialDelay = 5
  MinReaction = 1
  MinConfirmations = 1
  MaxBlocks = 5
  MaxBoots = 2
PROPERTIES
  AdvancedTransferIsRetried
