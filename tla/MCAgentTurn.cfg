SPECIFICATION TurnSpec
CONSTANTS
  Tools = {tool}
  Middlewares = {hook}
  Skills = {skill}
  MaxIterations = 3
  MaxEvaluatorCalls = 3
  MaxRetries = 1
  ReminderFrom = 1
  StallAfter = 2
  MaxRestarts = 2
  MaxCalls = 3
  MaxParallel = 2
  MaxLosses = 1
  Changed = None
  Endpoint <- MCEndpoint
  BridgeConfig <- MCBridgeConfig
  Payloads <- MCPayloads
  PluginDirs <- MCPluginDirs
  warm = warm
  cold = cold
  fixedSeed = fixedSeed
  ownSeed = ownSeed
  None = None
CHECK_DEADLOCK FALSE
INVARIANTS
  NotesAreTrue
  AuditIsExact
  EligibleIsWhole
