CONSTANTS
  Users = {u1, u2}
  JobIds = {j1}
  Requests = {r1, r2, r3}
  NoOne = NoOne
  Blank = Blank
  Command = Command
  MaxFrames = 1
SPECIFICATION Spec
SYMMETRY Symmetry
INVARIANTS
  IndInv
  OnlyTheOwnerActs
  AnswersMoveForward
  SpawnedJobIsFound
  CleanEndMeansComplete
PROPERTIES
  ImplementsJobContract
CHECK_DEADLOCK FALSE
