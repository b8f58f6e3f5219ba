SPECIFICATION LiveSpec
CONSTANTS
  Rot = {r1, r2}
  Enr = {e1, e2}
  Token = {t1, t2, t3, t4}
  MaxFaults = 1
  MaxOps = 2
  None = None
INVARIANTS LockoutHasCause
PROPERTIES Converges
CHECK_DEADLOCK FALSE
