CONSTANTS
  Clients = {c1, c2}
  Frames = {f1, f2}
  EOF = EOF
  Err = Err
  MaxFrames = 2
  SourceCap = 1
  ReqCap = 1
  RelayCap = 1
  ClientCap = 1
  RelayKeepsSender = TRUE
SPECIFICATION Spec
SYMMETRY Symmetry
INVARIANTS
  StreamIsPrefix
  NothingLostInFlight
  DoneMeansComplete
  ForgottenOnlyByOverflow
  IndInv
PROPERTIES
  ImplementsLogStream
CHECK_DEADLOCK FALSE
