SPECIFICATION FairSpec
CONSTANTS
  Releases <- MCReleases
  None = none
  Clients = {"ada", "ben"}
  MaxFaults = 1
PROPERTY RestartServes
