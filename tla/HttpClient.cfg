\* A buffer that a line can just fill, heads of four bytes, bodies of up to four, and a
\* response that grows from one byte to three.
CONSTANTS
  BufMax = 5
  HeadMax = 4
  SizeMax = 4
  ResponseInitial = 1
  ResponseMax = 3
  Replies <- MCReplies
  Retries <- MCRetries
SPECIFICATION LiveSpec
INVARIANTS
  TypeOK
  PartsAreBody
  EndIsReplys
  ResponseFits
PROPERTIES
  EndIsFinal
  WaitsOnlyWhenCut
  CallReturns
