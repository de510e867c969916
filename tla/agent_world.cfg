CONSTANTS
  Components = {"guard", "bus", "stream", "sensors", "storage", "token",
    "price", "defi", "scan", "batch", "badge", "book", "tools", "breaker"}
  Validations = {1}
  Actions = {"BUY", "EMERGENCY_EXIT"}
  GuardTtl = 2
  GuardClock = 4
  MaxInputs = 2
  Listeners = {"l", "m"}
  RingCapacity = 2
  MaxEmitted = 4
  MaxSockets = 4
  Prices = {100, 107, 126}
  Savers = {"s", "t"}
  MaxSaves = 3
  MaxFaults = 2
  Taxes = {6, 21, 101}
  Callers = {1, 2}
  Ttl = 2
  MaxAsk = 1
  MaxTick = 3
  Ops = {1, 2}
  Amounts = {1, 2}
  Losses = {1, 11}
  Scans = {1, 2}
  Tokens = {"t"}
  Findings = {{"owner"}}
  ScanTtl = 1
  CacheSize = 1
  MaxScan = 1
  ScanClock = 3
  Executors = {x}
  Owner = o
  MaxValue = 2
  MaxCalls = 2
  MaxBalance = 4
  Holders = {h, c}
  Callees = {c}
  Minters = {c}
  BadgeTypes = {b1, b2}
  MaxTokens = 3
  MaxDepth = 2
  SlabCapacity = 3
  MaxPrice = 2
  MaxQuantity = 2
  MaxTime = 1
  MaxOrders = 3
  RotateAt = 3
  Kinds = {"k", "m"}
  Recorders = {"p", "r"}
  ReadBack = 2
  MaxCount = 2
  MaxMissteps = 2
  Firing = {"a", "b", "c"}
  WindowSize = 4
  MinCalls = 3
  ThresholdPct = 60
  ResetTimeout = 2
SPECIFICATION MCSpec
INVARIANTS  LateOnlyByThrow   CopyNeverGoesBack   CleanIsFresh BooksBalance CountsAreOwnership BookSound
   BreakerSound
PROPERTIES WorseNeverPasses
CHECK_DEADLOCK FALSE
