SPECIFICATION Spec
CONSTANTS
  Principals = {p1}
  Sids = {s1, s2, s3}
  Handlers = {h1, h2}
  Limit = 2
  Nobody = Nobody
  NoSid = NoSid
  Kinds = {"initialize"}
SYMMETRY Symmetry
INVARIANTS
  WithinLimit
