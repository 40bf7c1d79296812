SPECIFICATION Spec
CONSTANTS
  Files = {f1, f2}
  MaxChanges = 1
  None = None
  Manifest <- MCManifest
  Ids <- MCIds
  Tiers <- MCTiers
  Limit = 0
  InitialLines <- MCInitialLines
  Guarded <- MCGuarded
  TxnTasks <- MCTxnTasks
  Codes <- MCCodes
  Diffs <- MCDiffs
  Scores <- MCScores
  EvalRepeats = 2
  MaxEvals = 1
  MaxEdits = 1
  MaxRounds = 2
SYMMETRY FileSymmetry
CHECK_DEADLOCK FALSE
INVARIANTS
  SnapshotIsWhole
  FixedCodeSurvives
  PublishedIsEarned
