SPECIFICATION Spec
CONSTANTS
  Tasks = {t1, t2}
  Subs = {s1}
  Replay = 256
  QueueMax = 512
  MaxFaults = 1
  NoTask = NoTask
  Done = Done
  Idle = Idle
SYMMETRY Symmetry
INVARIANTS
  SinkNeedsApproval
  EndIsToldAlike
  ReceiptsAreStored
  OwnInputs
  StreamIsTimeline
  ClosedStreamEnds
PROPERTIES
  StatesFollowTables
