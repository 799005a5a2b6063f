SPECIFICATION FairSpec
CONSTANTS
  home = home
  away = away
  slow = slow
  fast = fast
  Destination <- MCDestination
  Rate <- MCRate
  NewerDelay = 1
  Delay = 2
  OlderDelay = 3
  MaxBlocks = 3
  Setting <- MCSetting
INVARIANTS
  SentIsJournaled
  ObservedWasAccepted
  NewerOwnerIsNotContested
PROPERTIES
  ArmedExitIsObserved
  EvictedExitReturns
