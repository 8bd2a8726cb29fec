SPECIFICATION PartSpec
CONSTANTS
  Forwards = {f1, f2}
  PoolIDs = {a}
  Conns = {k1, k2}
  Pools = {m1, m2}
  ConnIDs = {x1}
  Client <- MCClient
  None = None
  Failing = {}
  f1 = f1
  l1 = l1
  l2 = l2
  DialPools = {l1, l2}
  DialConns = {k1, k2}
  DialIDs = {x1}
  Configs <- MCConfigs
  SwitchBacklog = 1
  MaxLoss = 5
  MaxInFlight = 3
  FrameCount = 2
  BitmapSize = 1
  DataTimeout = 1
  FrameTimeout = 2
  Skews = {0, 1}
  MaxTime = 5
  DedupReaders = {r1, r2}
  Wires = {1, 2}
  PrioritySize = 1
  ControlWire = 1
  Controls = 2
  MaxControl = 1
  QueueLimit = 4
  Rates = {2, 3}
  Share = 2
  MinBurst = 1
  Standing = 2
  Target = 1
  Interval = 1
  Recent = 0
  Law <- MCLaw
  Batch = 2
  MaxWait = 4
  MinRate = 2
  BaseRate = 4
  MaxRate = 5
  Delays = {0, 1, 2}
  Threshold = 0
  MaxRtt = 0
  StaleAfter = 2
  DecreaseRefractory = 1
  IncreaseRefractory = 2
  Receivers = {r1}
  Batches = {1}
  WindowSize = 2
  MaxPackets = 2
  Busy = 1
  Rules <- MCRules
  HasMiss = FALSE
SYMMETRY MCSymmetry
INVARIANTS
  RepliesStayWithClient
  SkippedIsIndexed
  ReflectionIsDropped
  BytesAreQueued
  BulkNotStarved
  WindowIsExact
PROPERTIES
  ImplementsDelivery
  GivenUpAfterSilence
  CutsOnNewSamples
CHECK_DEADLOCK FALSE
