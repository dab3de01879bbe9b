CONSTANTS
  Clients = {c1}
  Frames = {f1}
  EOF = EOF
  Err = Err
  MaxFrames = 1
  SourceCap = 1
  ReqCap = 1
  RelayCap = 3
  ClientCap = 1
  RelayKeepsSender = TRUE
SPECIFICATION FairSpec
PROPERTIES
  RelaysWindDown
CHECK_DEADLOCK FALSE
