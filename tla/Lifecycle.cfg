SPECIFICATION Spec
CONSTANTS
  Resources = {r1}
  Holds = {h1}
  Workers = {w1, w2}
  MaxAttempts = 2
  MaxFaults = 4
  NoJob = NoJob
  NoHold = NoHold
  Nothing = Nothing
SYMMETRY Symmetry
INVARIANTS
  TypeOK
  DeletedIsGone
  FailedIsSpent
PROPERTIES
  HoldFreezes
  JobIsKept
