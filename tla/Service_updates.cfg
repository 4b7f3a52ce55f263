SPECIFICATION FairSpec
CONSTANTS
  Releases <- MCReleases
  None = none
  Clients = {"ada", "ben"}
  MaxFaults = 3
INVARIANTS
  TypeOK
  CurrentMeansLatest
  OutdatedOnlyUntilRestart
PROPERTIES
  UpdateMovesForward
  RunsLifetimes
  QueuedGetsAccepted
  FailureRecovers
