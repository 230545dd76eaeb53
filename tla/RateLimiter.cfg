SPECIFICATION FairSpec
CONSTANTS
  Threads = {t1, t2, t3}
  Keys = {k1, k2}
  Max = 2
  Lockout = 2
INVARIANTS FailsBounded LockEarned
PROPERTIES LockEnds
