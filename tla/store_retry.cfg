SPECIFICATION FairSpec
CONSTANTS
  Never = Never
  NoFact = NoFact
  NoRec = NoRec
  Scopes = {s1}
  HostScopes = {s1}
  RecIds = {r1, r2}
  Keys = {"evA", "evB", "evO", "rawA"}
  Deliveries <- RetryDeliveries
  Facts <- NoFacts
  EpisodeTTL = 1
  MaxRevision = 1
  MaxAttempts = 3
  Backoff <- CodeBackoff
  SaveKinds = {"procedure"}
  SourceSets <- Unsourced
  GivenExpiry = {2}
  FragileKeys = {"evA"}
  ForgetLimit = 1
  LastArrival = 0
  MaxClock = 7
  UpgradeTombs <- BlockedB
  UpgradeQueue <- RetryQueue
CHECK_DEADLOCK FALSE
INVARIANTS
  QueueAgrees
PROPERTIES
  JobSettles
  LapsedSwept
