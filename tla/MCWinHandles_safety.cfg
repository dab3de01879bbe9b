CONSTANTS
  Jobs = {j1, j2}
  Streams = {out}
  Waits = {w1}
  Values = {h1, h2, h3, h4, h5}
  NoValue = NoValue
  Free = Free
SPECIFICATION Spec
SYMMETRY Symmetry
INVARIANTS
  HandleIsOwn
  KillHitsOwnProcess
  WaiterServesItsTracker
  NothingIsLeaked
  IndInv
CHECK_DEADLOCK FALSE
