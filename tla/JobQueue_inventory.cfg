SPECIFICATION Spec
CONSTANTS
  Job = {j1, j2, j3}
  Node = {n1}
  Worker = {w1}
  Template <- NodeTemplates
  ShortLease = 2
  LongLease = 2
  MaxLag = 1
  StuckAfter = 2
  MaxFaults = 0
  API = API
  None = None
  n1 = n1
  i1 = i1
  c1 = c1
INVARIANTS InventoryNotBlocked
CHECK_DEADLOCK FALSE
