\* A drain that nobody asked for.
CONSTANTS
  Conn = {c1, c2}
  ThreadMax = 3
  StreamsMax = 1
  ConnectTicks = 1
  KeepTicks = 2
SPECIFICATION LiveSpec
PROPERTY
  DrainEnds
