CONSTANTS
  Requests = {r1, r2}
  Tenants = {"default", "a"}
  ApiKeys <- MCKeys
  JwtTenants <- MCJwt
  HasSecret = TRUE
  AllowAnonymous = TRUE
  OtherTokens <- MCOther
  MaxPerDay = 2
  Capacity = 3
  Refill = 2
  Price = 3
  DayLength = 2
  MaxTime = 2
  MaxChunks = 4
  ChunkCapacity = 2
  StreamCapacity = 2
SPECIFICATION MCSpec
INVARIANTS LimitersSound AnswerIsWhole DeadlineCutsOff
PROPERTIES QuotaRefusalIsOwn RetryAfterIsHonest NoTaskLeaks
