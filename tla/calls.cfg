SPECIFICATION Spec
CONSTANTS
  Principals = {"p", "q"}
  Scopes = {"s", "t"}
  Writes <- AllWrites
  Queries <- LookUps
  Ids = {i1, i2, i3}
  Workers = {w1, w2}
  GrantChoices <- Revoking
  MaxSends = 3
  MaxCrashes = 1
  NoKey = NoKey
  NoRequest = NoRequest
  Nobody = Nobody
SYMMETRY Symmetry
CHECK_DEADLOCK FALSE
INVARIANTS
  OncePerKey
  LogsAgree
  AnswersAgree
  DisclosedInScope
PROPERTIES
  NotFoundIsTrue
  ImplementsEffectOnce
