SPECIFICATION WorklistSpec
CONSTANTS
  Never = Never
  NoFact = NoFact
  NoRec = NoRec
  NoWork = NoWork
  Scopes = {s1, s2}
  HostScopes = {s1, s2}
  RecIds = {r1, r2}
  Keys = {"evA", "evB", "evI", "rawA", "rawB", "ext"}
  Deliveries <- UpgradeDeliveries
  Facts <- NoFacts
  EpisodeTTL = 1
  MaxRevision = 2
  MaxAttempts = 1
  Backoff <- CodeBackoff
  SaveKinds = {"episode"}
  SourceSets <- OnlyExt
  GivenExpiry = {}
  FragileKeys = {}
  ForgetLimit = 1
  LastArrival = 0
  MaxClock = 1
  UpgradeTombs <- ExtTombs
  UpgradeQueue <- QueuedBoth
SYMMETRY Symmetry
CHECK_DEADLOCK FALSE
INVARIANTS
  NoTombstonedRecord
  ProducerRetained
  NoResidue
PROPERTIES
  EraseStaysInScope
  ImplementsStore
