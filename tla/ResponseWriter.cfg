\* A buffer of 48 bytes, all texts of up to 50 bytes and three that take two buffers, three calls for each response, one misread error for each connection.
CONSTANTS
  MAX = 48
  SizeMax = 47
  HeaderSize <- MCHeaderSize
  HandlerHeaders <- MCHandlerHeaders
  Lengths <- MCLengths
  CallsMax = 3
  MisreadsMax = 1
SPECIFICATION Spec
INVARIANTS
  TypeOK
  FramesAgree
  NothingLost
PROPERTIES
  WriteReturns
