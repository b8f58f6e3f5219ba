SPECIFICATION Spec
CONSTANTS
  Parts = {"groups", "retried", "peer", "ports", "xray"}
  Key <- MCKey
  Catalogued = {"staff"}
  RoutedClient = {"c1"}
  EgressNode = {"n1", "n2"}
  Address <- MCAddress
  MaxEdits = 2
INVARIANTS
   AccessWorks RotationTakesEffect UniqueAddress
  RoutedAsIntended RemoteNeverDirect
CHECK_DEADLOCK FALSE
