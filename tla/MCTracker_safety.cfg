CONSTANTS
  Streams = {out, err}
  Killers = {k1, k2}
  EOF = EOF
  Err = Err
  NoOne = NoOne
  MaxChunks = 1
  StreamCap = 1
  SourceCap = 1
  KillCap = 1
  Faults = TRUE
SPECIFICATION Spec
SYMMETRY Symmetry
INVARIANTS
  EOFMeansComplete
  TerminalEventIsLast
  KillOkMeansDead
  KillerIsToldTheTruth
  IndInv
PROPERTIES
  SettledJobIsFinal
  ImplementsJobContract
CHECK_DEADLOCK FALSE
