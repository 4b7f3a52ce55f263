SPECIFICATION UpgradeSpec
CONSTANTS
  Releases <- MCPreReleases
  None = none
INVARIANT CurrentMeansLatest
