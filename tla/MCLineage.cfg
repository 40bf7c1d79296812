SPECIFICATION Spec
CONSTANTS
  Slots <- MCSlots
  Components <- MCComponents
  Kinds <- MCKinds
  KindOf <- MCKindOf
  Cap <- MCCap
  Params <- MCParams
  Values <- MCValues
  FirstBase <- MCFirstBase
  Menu <- MCMenu
  Scores <- MCScores
  Ceiling = 4
  MinEffect = 0
  MinDelta = 1
  RefreshSamples = 2
  LastRound = 2
  None = None
CHECK_DEADLOCK FALSE
INVARIANTS
  EveryChangeIsEarned
  NothingIsEvicted
  LedgerIsInherited
