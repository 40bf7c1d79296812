SPECIFICATION Spec
CONSTANTS
  Kinds <- MCKinds
  CodeKinds <- MCCodeKinds
  Names <- MCNames
  Reserved <- MCReserved
  Cap <- MCCap
  Bodies = {1, 2, 3}
  Safe = {1, 2}
  Fields <- MCFields
  Values = {0, 1, 2}
  Illegal = 0
  Probe = "probe_solution"
  PartOf <- MCOverlap
  FirstBase <- MCFirstBase
  RowMenu <- MCRowMenu
  MaxEdits = 3
  LastRound = 1
  None = None
INVARIANTS
  BaseIsPromised
  BaseIsSound
  RecordExplainsCandidate
  ReadableIsWhole
