SPECIFICATION Spec
CONSTANT Parts = {"traffic", "stream", "runtime", "cleanup", "nginx", "packages"}
CONSTANTS
  Node = {"n1"}
  Instance = {"i1", "i2"}
  InUnit = {"i1"}
  Solo = {"i1"}
  OpenVPN = TRUE
  MaxOps = 3
  MaxInstallOps = 2
  MaxJobs = 3
  MaxSweepJobs = 4
  MaxFaults = 1
  MaxRev = 2
  MaxEvents = 1
  Usage <- MCUsage
  InstanceOf <- MCInstanceOf
  MaxBytes = 2
  MaxClock = 4
  MaxSpan = 2
  Retention = 1
  PruneBudget = 1
  MaxGaps = 2
INVARIANTS
  NoOvercount  
  VerdictHolds DeletedHasNoState
  SweepLeavesWhatStays 
   InstalledIsPresent GuardRestored
CHECK_DEADLOCK FALSE
