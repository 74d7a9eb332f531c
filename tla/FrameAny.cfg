CONSTANTS
  Conns = {s1}
  NoConn = NoConn
  HeadLen = 2
  Chunk = 3
  MaxBuffer = 8
  Sizes = {3, 4, 6}
  MaxFrames = 3
  Kinds = {"any"}
SPECIFICATION FramesSpec
INVARIANT FramesTypeOK InOrder
CHECK_DEADLOCK FALSE
