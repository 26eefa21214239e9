\* One person, the sweep and the releases of clients.
SPECIFICATION Spec
CONSTANTS
  Nil = Nil
  People = {a}
  Kinds = {"sweep", "release"}
  Grace = 2
  Window = 1
  Lifetime = 3
  Staleness = 3
  MayFail = FALSE
PROPERTY NobodyInsideIsCut
CHECK_DEADLOCK FALSE
