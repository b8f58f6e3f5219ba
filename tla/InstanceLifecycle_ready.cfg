SPECIFICATION Spec
CONSTANTS
  Call = {c1}
  MaxOps = 4
  MaxJobs = 2
  MaxRevs = 2
  MaxFaults = 0
PROPERTIES OnlyReadyApplied
CHECK_DEADLOCK FALSE
