CONSTANTS
  Requests = {r1, r2}
  Contexts <- MCContexts
  ExternalEnabled = TRUE
  Threshold = 2
  CooldownSecs = 2
SPECIFICATION Spec
INVARIANTS LocalOnlyStaysLocal OpenAdmitsOnlyFallback
PROPERTIES ProvidersAreBreakers CooldownEnds
