\* Four connections for three slots: connections are turned away, workers that
\* gave back their slot wind down while new ones start, two may stream.
CONSTANTS
  Conn = {c1, c2, c3, c4}
  ThreadMax = 3
  StreamsMax = 2
  ConnectTicks = 1
  KeepTicks = 2
SYMMETRY Connections
SPECIFICATION Spec
INVARIANTS
  TypeOK
  SlotsAccounted
  RunningAccounted
  KeptLeaveRoom
  StreamsLeaveWorker
  DrainedBeforeStop
