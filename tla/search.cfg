SPECIFICATION Spec
CONSTANTS
  Rank <- PageRank
  Catalog <- PageCatalog
  Requests <- PageRequests
  GrantSets <- AllGrants
  NoFact = NoFact
  NoAnswer = NoAnswer
  NoCursor = NoCursor
  PageLimit = 3
  EmptyBytes = 2
  HostEmptyBytes = 4
  MinBytes = 8
  MinTokens = 4
  HostMaxBytes = 14
  HostMaxTokens = 16
  MaxClock = 1
  MaxWrites = 1
INVARIANTS
  PagesCover
  UntruncatedIsWhole
  HostFits
