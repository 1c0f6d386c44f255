SPECIFICATION Spec
CONSTANTS
  Never = Never
  NoFact = NoFact
  NoRec = NoRec
  Scopes = {s1}
  HostScopes = {s1}
  RecIds = {r1, r2, r3}
  Keys = {"ext", "evI"}
  Deliveries <- ExtDrop
  Facts <- AllFacts
  EpisodeTTL = 1
  MaxRevision = 2
  MaxAttempts = 1
  Backoff <- CodeBackoff
  SaveKinds = {"fact"}
  SourceSets <- ExtOrNone
  GivenExpiry = {1}
  FragileKeys = {}
  ForgetLimit = 2
  LastArrival = 1
  MaxClock = 1
  UpgradeTombs <- NoTombs
  UpgradeQueue = {}
SYMMETRY Symmetry
CHECK_DEADLOCK FALSE
INVARIANTS
  ConflictsMarked
  ReadAgreesWithMark
PROPERTIES
  GroupsSettled
  HistoryImmutable
