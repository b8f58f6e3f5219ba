SPECIFICATION Spec
CONSTANTS
  Call = {c1, c2}
  MaxOps = 3
  MaxJobs = 2
  MaxRevs = 2
  MaxFaults = 1
SYMMETRY CallSymmetry
INVARIANTS OneApplied SettledAgrees
CHECK_DEADLOCK FALSE
