SPECIFICATION Spec
CONSTANTS
  p1 = p1
  p2 = p2
  Processes <- AllProcesses
  MaxSaves = 2
  MaxDraws = 2
  MaxLosses = 1
INVARIANT
  ArtifactIsDurablyJournaled
CHECK_DEADLOCK FALSE
