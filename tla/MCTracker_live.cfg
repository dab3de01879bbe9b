CONSTANTS
  Streams = {out}
  Killers = {k1, k2}
  EOF = EOF
  Err = Err
  NoOne = NoOne
  MaxChunks = 2
  StreamCap = 1
  SourceCap = 1
  KillCap = 1
  Faults = TRUE
SPECIFICATION FairSpec
INVARIANTS
  OutputInOrder
PROPERTIES
  KillsAreAnswered
  ExitIsNoticed
  LogIsSealed
CHECK_DEADLOCK FALSE
