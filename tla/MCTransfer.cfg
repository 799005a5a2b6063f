SPECIFICATION FairSpec
CONSTANTS
  alice = alice
  bob = bob
  carol = carol
  Wallet <- MCThreeWallets
  First = alice
  Unindexed <- MCUnindexed
  LIMIT = 1
  MaxCount = 9
  DELAY_STEP = 1
  InitialDelay = 5
  MinReaction = 1
  MinConfirmations = 1
  MaxBlocks = 6
  MaxBoots = 2
INVARIANTS
  AuthorityIsAccountedFor
  NewestMaturesFirst
  ExitingOwnerKeepsCoin
PROPERTIES
  RecoveryIsKept
  ImplementsStatechain
  PackageIsDelivered
