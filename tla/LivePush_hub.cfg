SPECIFICATION Spec
CONSTANTS
  Voters = {}
  Admins = {a1, a2}
  MaxVotes = 0
  MaxChanges = 2
SYMMETRY Symmetry
INVARIANTS StaysSubscribed NoClosedSubscriber FramesApart
CHECK_DEADLOCK FALSE
