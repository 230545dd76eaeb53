SPECIFICATION FairSpec
CONSTANTS
  Conns = {c1, c2, c3}
INVARIANTS IInv NoThreadForgotten StopReachesAll
PROPERTIES StopEnds
CHECK_DEADLOCK FALSE
