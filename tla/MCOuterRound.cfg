SPECIFICATION Spec
CONSTANTS
  K = 2
  Repeats = 1
  ForceCount = 1
  Diversity = TRUE
  GateMin = 1
  Fixed = TRUE
  BeamWidth = 2
  Tolerance = 1
  MinStride = 1
  Genomes <- MCGenomes
  FirstBase = "h0"
  ToolsOf <- MCToolsOf
  Worth <- MCWorth
  LastRound = 1
  MaxAttempts = 2
  None = None
  Pending = Pending
INVARIANTS
  LaunchedAsRecorded
  SeedsTellRollouts
  PublishedIsMeasured
