\* Any two frames on each connection of one client, each begun to be closed twice.
CONSTANTS
  Frames <- MCFrames
  FramesMax = 2
  ClosesMax = 2
SPECIFICATION Spec
INVARIANTS
  TypeOK
  FramesInOrder
  CloseAnswered
