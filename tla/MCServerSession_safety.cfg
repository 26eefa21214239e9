\* Two generations of a channel: their ends, and the revocations in them.
SPECIFICATION SessionSpec
CONSTANTS
  q1 = q1
  r1 = r1
  Users <- TwoAccounts
  Sessions = {s1, s2}
  Workers = {w1, w2}
  Revokers = {r1, r2}
  Handlers = {h1}
  Requests = {q1, q2}
  PageSize = 1
  MaxRevision = 1
  MaxEpoch = 3
  MaySanction <- OneAccount
  MayFreeze <- OneAccount
  None = None
SYMMETRY Symmetry
INVARIANTS
  GenerationsAgree
  EndedLeavesNothing
  ActiveHoldersIndexed
  UsableTokensOnRecord
  NoStrayRevocation
  ReplaysStillWork
PROPERTIES
  ImplementsGenerations
  RevocationIsFinal
CHECK_DEADLOCK FALSE
