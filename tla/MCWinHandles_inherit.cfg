CONSTANTS
  Jobs = {j1, j2}
  Streams = {out}
  Waits = {}
  Values = {h1, h2, h3, h4, h5}
  NoValue = NoValue
  Free = Free
SPECIFICATION FairSpec
PROPERTIES
  StreamsEndWithTheChild
CHECK_DEADLOCK FALSE
