CONSTANTS
  Streams = {out}
  Killers = {}
  Clients = {c1, c2}
  EOF = EOF
  Err = Err
  NoOne = NoOne
  MaxChunks = 2
  StreamCap = 1
  SourceCap = 1
  KillCap = 1
  ReqCap = 1
  RelayCap = 1
  ClientCap = 1
  Faults = FALSE
SPECIFICATION FairJobSpec
INVARIANTS
  EOFMeansWholeOutput
  ReadersSeeWhatWasWritten
PROPERTIES
  ImplementsBroadcaster
  RequestsAreAnswered
  OutputReachesReaders
CHECK_DEADLOCK FALSE
