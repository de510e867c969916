\* the guard as deployed: lenient mode, minimum score 0.3, every text
CONSTANTS
  Requests = {r1, r2}
  Streaming = {r2}
  ExpectJson = {r1}
  Threshold = 2
  OpenSecs = 1
  ExternalEnabled = TRUE
  CriticEnabled = TRUE
  StrictMode = FALSE
  MinQuality = 3000
  ProviderTexts <- MCAllTexts
SPECIFICATION Spec
INVARIANT MarkersBlocked
