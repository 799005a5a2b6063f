SPECIFICATION Spec
CONSTANTS
  p1 = p1
  p2 = p2
  Processes <- AllProcesses
  MaxSaves = 2
  MaxDraws = 2
  MaxLosses = 1
SYMMETRY Symmetry
INVARIANTS
  WalletIsWhole
  OwnSavesAreDurable
  ArtifactIsJournaled
PROPERTIES
  NoSaveIsLost
  ReportedArtifactStays
\* A power loss or a kill inside `init`, after the state and before the
\* configuration, leaves a directory every command refuses.
CHECK_DEADLOCK FALSE
