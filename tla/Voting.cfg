SPECIFICATION Spec
CONSTANTS
  c1 = c1
  c2 = c2
  c9 = c9
  Candidates = {c1, c2}
  CandidateIds = {c1, c2, c9}
  Voters = {v1, v2}
  Admins = {a}
  Conns = {n1, n2}
  MaxLogins = 2
  NoOne = NoOne
  Choices = {c1, c9}
  OldBoxes <- MCOldBoxes
  MaxRequests = 3
  MaxCrashes = 1
SYMMETRY Symmetry
INVARIANTS IInv OneReceipt TellsTrue ResultsAddUp TurnoutAgrees
PROPERTIES ActsInOwnName StoreSpec ClosedIsFinal
CHECK_DEADLOCK FALSE
