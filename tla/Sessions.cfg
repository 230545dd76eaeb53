SPECIFICATION FairSpec
CONSTANTS
  Threads = {t1, t2}
  Tokens = {k1}
  Unknown = Unknown
  Roles = {voter, admin}
  Ttl = 1
  MaxTime = 2
INVARIANTS NoEarlyExpiry OverForGood
PROPERTIES TableDrained
