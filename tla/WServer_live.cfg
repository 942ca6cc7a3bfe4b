\* Two connections for three slots, so that one may be kept open; no symmetry, the
\* properties are temporal.
CONSTANTS
  Conn = {c1, c2}
  ThreadMax = 3
  StreamsMax = 1
  ConnectTicks = 1
  KeepTicks = 2
SPECIFICATION LiveSpec
PROPERTIES
  PoolSpec
  StopEnds
  SilenceEnds
