CONSTANTS
  Requests = {r1, r2}
  Retrying = {r1}
  Threshold = 2
  OpenDuration = 2
  Burst = 2
  Refill = 1
  Price = 2
  MaxSent = 5
SPECIFICATION Spec
INVARIANT OpensAfterThreshold
