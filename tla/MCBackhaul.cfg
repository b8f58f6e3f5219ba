SPECIFICATION Spec
CONSTANTS
  Parts = {"one", "two"}
  Links <- MCLinks
  Faultless = {"two"}
  Activated = {"t1", "t2"}
  MaxOps = 2
  MaxJobs = 7
  MaxFaults = 1
INVARIANTS DeletedIsClean RouteFollowsLink
CHECK_DEADLOCK FALSE
