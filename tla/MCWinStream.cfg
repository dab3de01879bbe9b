CONSTANTS
  MaxBytes = 4
  MaxBlanks = 1
  ReadSize = 2
  QueueCap = 1
  Room = 1
SPECIFICATION Spec
INVARIANTS
  IndInv
  BytesInOrder
  EOFMeansComplete
  SleeperIsWoken
PROPERTIES
  OutputArrives
CHECK_DEADLOCK FALSE
