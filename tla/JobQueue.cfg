SPECIFICATION Spec
CONSTANTS
  Job = {j1, j2}
  Node = {n1}
  Worker = {w1, w2}
  Template <- QueueTemplates
  ShortLease = 2
  LongLease = 3
  MaxLag = 1
  StuckAfter = 2
  MaxFaults = 1
  API = API
  None = None
  n1 = n1
  i1 = i1
  c1 = c1
SYMMETRY QueueSymmetry
INVARIANTS TypeOK NoOrphanLock LeaseExclusion EffectAgreesWithStatus
PROPERTIES TerminalStable ImplementsJobLease
CHECK_DEADLOCK FALSE
