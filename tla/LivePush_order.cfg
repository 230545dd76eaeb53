SPECIFICATION FairSpec
CONSTANTS
  Voters = {v1, v2}
  Admins = {a1}
  MaxVotes = 2
  MaxChanges = 0
INVARIANTS CaughtUp
PROPERTIES VoteAnswered EventuallyTold
CHECK_DEADLOCK FALSE
