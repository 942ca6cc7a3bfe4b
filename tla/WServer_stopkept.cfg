\* A stop that comes before run() has begun.
CONSTANTS
  Conn = {c1, c2}
  ThreadMax = 3
  StreamsMax = 1
  ConnectTicks = 1
  KeepTicks = 2
SPECIFICATION LiveSpec
PROPERTY
  StopIsKept
