SPECIFICATION FairSpec
CONSTANTS
  Programs = {seed_program, p1}
  InitialProgram = seed_program
  NoProgram = empty_program
  Scores <- MCScores
  NegInf <- MCNegInf
  MaxEvaluatorCalls = 2
  MaxProbeCalls = 1
  Calls <- MCCalls
  None = None
CHECK_DEADLOCK FALSE
INVARIANTS
  BestIsHighestValid
  CheckpointWasEarned
  EligibleRowIsCoherent
  AuditCoversTurn
PROPERTIES
  ImplementsBestSoFar
  RolloutEnds
