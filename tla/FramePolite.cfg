CONSTANTS
  Conns = {s1, s2}
  NoConn = NoConn
  HeadLen = 1
  Chunk = 4
  MaxBuffer = 5
  Sizes = {2, 3}
  MaxFrames = 2
  Kinds = {"whole", "waiting"}
SPECIFICATION FairFrames
INVARIANT OnceEach
PROPERTY EventuallyPushed
CHECK_DEADLOCK FALSE
