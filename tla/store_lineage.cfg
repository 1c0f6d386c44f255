SPECIFICATION Spec
CONSTANTS
  Never = Never
  NoFact = NoFact
  NoRec = NoRec
  Scopes = {s1}
  HostScopes = {s1}
  RecIds = {r1, r2, r3}
  Keys = {"evA", "evB", "evC", "evI", "rawA", "rawB"}
  Deliveries <- AllDeliveries
  Facts <- NoFacts
  EpisodeTTL = 1
  MaxRevision = 1
  MaxAttempts = 1
  Backoff <- CodeBackoff
  SaveKinds = {"episode"}
  SourceSets <- OnlyRawB
  GivenExpiry = {}
  FragileKeys = {}
  ForgetLimit = 1
  LastArrival = 1
  MaxClock = 1
  UpgradeTombs <- NoTombs
  UpgradeQueue = {}
SYMMETRY Symmetry
CHECK_DEADLOCK FALSE
INVARIANTS
  NoTombstonedPayload
PROPERTIES
  TaintSpreads
  ForgetReachesAlias
  GenerationMoves
