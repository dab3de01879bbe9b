CONSTANTS
  Clients = {c1, c2}
  Frames = {f1}
  EOF = EOF
  Err = Err
  MaxFrames = 2
  SourceCap = 1
  ReqCap = 1
  RelayCap = 2
  ClientCap = 1
  RelayKeepsSender = FALSE
SPECIFICATION FairSpec
INVARIANTS
  CutOnlyByOverflow
PROPERTIES
  RelaysWindDown
CHECK_DEADLOCK FALSE
