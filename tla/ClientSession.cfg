SPECIFICATION Spec
CONSTANTS
  Servers = {"awg", "ovpn"}
  Awg = {"awg"}
  r1 = r1
  r2 = r2
  r3 = r3
  Routes = {r1, r2, r3}
  Local = {r3}
  LocalDomains = 1
  Resolved = r2
  Policies <- MCPolicies
  Named = r2
  MaxQueue = 1
  MaxWaves = 1
  Budget = 3
CHECK_DEADLOCK FALSE
INVARIANTS BaseIsInstalled ConfirmedAgrees
PROPERTIES StartsAfterCleanup QuietMeansConverged
