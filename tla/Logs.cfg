SPECIFICATION Spec
CONSTANTS
  MaxFiles = 2
  MaxReceipts = 2
  MaxToken = 2
  Bounds <- SmallBounds
  Kinds <- TwoLogs
  Batch = 1
  Sample = 2
  ScanTick = 1
  MaxMarkers = 2
  MaximumBatchBytes = 2
  RebindTailBytes = 1
  PrefixBytes = 1
CHECK_DEADLOCK FALSE
INVARIANTS DeliveryIsExact StoredOnce
