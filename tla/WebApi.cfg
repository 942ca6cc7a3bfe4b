\* Two workers; values of up to two bytes and little slack, so that a
\* rendering may not fit once, or as often as it is tried.
CONSTANTS
  Workers = {w1, w2}
  Requests <- MCRequests
  Order <- MCOrder
  Kind <- MCKind
  ValueMax = 2
  SlackMin = 0
  SlackDiv = 3
  RetriesMax = 2
SPECIFICATION Spec
SYMMETRY Alike
INVARIANTS
  TypeOK
  ResponseIsWhole
  PostInOrder
