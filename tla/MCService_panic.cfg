CONSTANTS
  Users = {u1}
  JobIds = {j1}
  Requests = {r1, r2}
  NoOne = NoOne
  Blank = Blank
  Command = Command
  MaxFrames = 0
SPECIFICATION Spec
INVARIANTS
  PsDoesNotNeedARunningJob
CHECK_DEADLOCK FALSE
