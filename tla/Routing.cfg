CONSTANTS
  amn0 = amn0
  r1 = r1
  r2 = r2
  r3 = r3
  Ifaces = {amn0}
  NoIf = NoIf
  Prefixes = {r1, r2, r3}
  MaxFaults = 2
  Profiles <- MCProfiles
  NoProfile = NoProfile
  Revisions = {1, 2}
  PolicyRoutes <- MCPolicyRoutes
  MaxCrashes = 1
  MaxLosses = 1
SPECIFICATION Spec
INVARIANTS ReceiptAccountsForKernel SessionRoutes NothingLeftBehind
PROPERTY AtomicTransactions
