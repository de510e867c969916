\* three requests, two failures trip, a window of two ticks
CONSTANTS
  Requests = {r1, r2, r3}
  Streaming = {r2}
  ExpectJson = {r1}
  Threshold = 2
  OpenSecs = 2
  ExternalEnabled = TRUE
  CriticEnabled = TRUE
  StrictMode = TRUE
  MinQuality = 3000
  ProviderTexts <- MCTexts
SPECIFICATION Spec
INVARIANTS OpenAdmitsNothing ProlongationBounded
PROPERTIES WindowEnds IsBreaker
