CONSTANTS
  Requests = {r1, r2}
  Contexts <- MCContexts
  ExternalEnabled = TRUE
  Threshold = 2
  CooldownSecs = 1
SPECIFICATION Spec
INVARIANT HalfOpenSingleProbe
