CONSTANTS
  Streams = {out, err}
  MaxWaits = 2
SPECIFICATION Spec
PROPERTIES
  BookkeepingIsDone
CHECK_DEADLOCK FALSE
