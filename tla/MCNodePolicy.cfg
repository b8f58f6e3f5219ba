SPECIFICATION Spec
CONSTANTS
  Parts = {"egress", "firewall", "script", "routing"}
  Node = {"n1"}
  Call = {"c1"}
  Profile = {"p1", "p2"}
  Protocol <- MCProtocol
  Table = {1, 2}
  MaxCfg = 2
  MaxJobs = 2
  Policy = {"f1"}
  Baseline = {}
  MaxVersion = 2
  MaxRolloutJobs = 3
  MaxOps = 4
  MaxFaults = 1
INVARIANTS
  DeploymentsAdmissible DeploymentAgrees
  StrictWasPreviewed SettledFirewallAgrees
   StrictKeepsControlPlane
   CleanupLeavesNothing
CHECK_DEADLOCK FALSE
