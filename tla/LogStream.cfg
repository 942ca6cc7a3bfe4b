\* Three waits, three lines before and three in the stream, two bytes of the client.
CONSTANTS
  WaitsMax = 3
  LinesMax = 3
  BytesMax = 2
SPECIFICATION Spec
INVARIANTS
  TypeOK
  OneResponse
  ClosesOwn
  EndsForCause
PROPERTIES
  StreamEnds
