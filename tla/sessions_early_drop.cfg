SPECIFICATION Spec
CONSTANTS
  Principals = {p1}
  Sids = {s1}
  Handlers = {h1}
  Limit = 2
  Nobody = Nobody
  NoSid = NoSid
  Kinds = {"initialize"}
INVARIANTS
  PromiseKept
