SPECIFICATION Spec
CONSTANTS
  Voters = {v1, v2}
  MaxEvents = 3
SYMMETRY Symmetry
INVARIANTS AlwaysLoads MarkedBeforeCounted ReceiptsKept
