SPECIFICATION FairSpec
CONSTANTS
  Names = {"PATH", "LD_PRELOAD", "LANG"}
  blockedEnvVars = {"PATH", "LD_PRELOAD"}
  blockedByPrefix = {"LD_PRELOAD"}
  MaxRequest = 2
  ServiceEnv <- MCServiceEnv
  AskedEnv <- Keys
  Streams = {stdout, stderr}
  Leader = "bash"
  Children = {"child"}
  MayIgnoreTerm = {"bash", "child"}
  MaxChunks = 1
  PipeSize = 1
  HasTimeout = FALSE
  ClientMayStall = TRUE
PROPERTIES
  CancelledCommandEnds
  FinishedCommandAnswered
  RequestTakenUp
