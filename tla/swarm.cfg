CONSTANTS
  Agents = {a1, a2, a3}
  DangerCooldown = 1
  StalePeerTtl = 1
  PruneEvery = 1
  MaxEvents = 2
  MaxNow = 2
SPECIFICATION Spec
INVARIANTS SwarmSound
SYMMETRY AgentSymmetry
CHECK_DEADLOCK FALSE
