SPECIFICATION CommandsSpec
CONSTANTS
  MaxCommands = 3
  ErrorLimit = 1
  PipeLimit = 1
  MaxLines = 3
  Script <- HookScript
  Events <- HookEvents
  DirOf <- HookDirs
  Outside = "outside"
  LedgerName = "ledger"
  KeyLimit = 4
  Inits = {i1, i2}
  Files <- SetupFiles
  MaxPowerLosses = 1
  Servers = {p1, p2}
  Announcing = {p1}
  NoServer = NoServer
  MaxStarts = 2
  MaxRequests = 2
CHECK_DEADLOCK FALSE
INVARIANTS
  NothingAfterDoubt
  RelayTellsAll
  RedeliverySame
  CopiesTraced
  FilesTogether
  OneOwner
PROPERTIES
  
  RelayExits
  StopEnds
