CONSTANTS
  Conns = {s1}
  NoConn = NoConn
  HeadLen = 2
  Chunk = 4
  MaxBuffer = 8
  Sizes = {3, 4}
  MaxFrames = 2
  Kinds = {"any"}
SPECIFICATION FramesSpec
INVARIANT WaitsForBody
CHECK_DEADLOCK FALSE
