\* The system comes to rest once every upload is settled or gone.
SPECIFICATION KnowledgeSpec
CONSTANTS
  f1 = f1
  f2 = f2
  b1 = b1
  w1 = w1
  w2 = w2
  NoFile = NoFile
  Files = {f1, f2}
  Bots = {b1}
  Workers = {w1, w2}
  BotOf <- OneBot
  MaxAttempts = 2
  MaxFiles = 2
  MaxResends = 1
  FaultKinds = {"crash", "exception", "enqueue", "database"}
  PageLength = 5
  PairLength = 2
  MaxChars = {2, 3}
  Overlap = 2
  Densities = {4, 8}
  CjkDensity = 3
  Costs = {0, 1, 3}
  MaxFound = 3
  LimitCap = 3
  ChunksCap = 2
  TokensCap = 4
  Fractions = {35, 85, 100}
  LeastBudget = 2
CHECK_DEADLOCK FALSE
INVARIANTS ClaimExclusive StoresAgree NoSilentStall RunsBounded TextHolds
PROPERTIES SettledIsFinal ImplementsLifecycle EventuallySettled
