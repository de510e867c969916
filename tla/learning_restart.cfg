CONSTANTS
  Components = {"learning"}
  Requests = {r1, r2, r3}
  Retrying = {r1}
  Threshold = 3
  OpenDuration = 2
  Burst = 4
  Refill = 1
  Price = 2
  MaxSent = 5
  Tasks = {t1, t2, t3, t4}
  Impatient = {t2, t3}
  States = {s1, s2}
  SnapshotEvery = 2
  BatchSize = 2
  MaxUpdates = 3
  MaxMishaps = 0
  RotateAt = 1
  Contexts = {c1, c2}
  MaxTraumas = 3
  MaxFaults = 1
  MaxEvents = 2
SPECIFICATION MCSpec
INVARIANT RestartKeepsSnapshot
