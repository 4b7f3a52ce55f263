SPECIFICATION FairSpec
CONSTANTS
  Names = {"PATH", "LD_PRELOAD", "LANG"}
  blockedEnvVars = {"PATH", "LD_PRELOAD"}
  blockedByPrefix = {"LD_PRELOAD"}
  MaxRequest = 2
  ServiceEnv <- MCServiceEnv
  AskedEnv <- Keys
  Streams = {stdout, stderr}
  Leader = "bash"
  Children = {"child"}
  MayIgnoreTerm = {"child"}
  MaxChunks = 1
  PipeSize = 1
  HasTimeout = TRUE
  ClientMayStall = FALSE
PROPERTY TimeoutBoundsExecution
