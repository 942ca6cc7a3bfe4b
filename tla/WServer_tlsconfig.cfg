\* The TLS config while workers drain.
CONSTANTS
  Conn = {c1, c2}
  ThreadMax = 3
  StreamsMax = 1
  ConnectTicks = 1
  KeepTicks = 2
SPECIFICATION LiveSpec
INVARIANT
  TlsConfigOutlivesWorkers
