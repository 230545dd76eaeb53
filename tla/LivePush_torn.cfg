SPECIFICATION Spec
CONSTANTS
  Voters = {v1}
  Admins = {a1}
  MaxVotes = 1
  MaxChanges = 0
INVARIANTS FramesWhole
CHECK_DEADLOCK FALSE
