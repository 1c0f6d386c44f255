SPECIFICATION FairSpec
CONSTANTS
  Principals = {p1, p2}
  Sids = {s1}
  Handlers = {h1, h2}
  Limit = 2
  Nobody = Nobody
  NoSid = NoSid
  Kinds = {"initialize", "initialized", "call", "delete"}
INVARIANTS
  ServedToOwner
PROPERTIES
  SparedOnceListed
  OrphansCleared
  ExpiredCleared
  MapFollowsSdk
