SPECIFICATION Spec
CONSTANTS
  Names = {"PATH", "LD_PRELOAD", "LANG"}
  blockedEnvVars = {"PATH", "LD_PRELOAD"}
  blockedByPrefix = {"LD_PRELOAD"}
  MaxRequest = 2
  ServiceEnv <- MCServiceEnv
  AskedEnv <- Keys
  Streams = {stdout, stderr}
  Leader = "bash"
  Children = {"child"}
  MayIgnoreTerm = {"bash", "child"}
  MaxChunks = 2
  PipeSize = 1
  HasTimeout = TRUE
  ClientMayStall = TRUE
SYMMETRY MCSymmetry
INVARIANTS
  TypeOK
  ExitAfterAllOutput
  AnswerTruthful
  NothingLeftBehind
  WaitsForSomethingUnderWay
  EnvironmentGuarded
PROPERTIES
  ImplementsResponseStream
  RequestAccepted
