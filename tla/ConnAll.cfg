CONSTANTS
  Conns = {c1, c2, c3, c4}
  Fds = {5, 6}
  Workers = {w1, w2}
  Nobody = Nobody
  NoFd = NoFd
  NoJob = NoJob
  Settings <- MCSettings
SPECIFICATION Spec
SYMMETRY ConnSymmetry
INVARIANTS TypeOK HangupIsNoticed QuietIsRight
PROPERTIES DamageByOverlap
CHECK_DEADLOCK FALSE
