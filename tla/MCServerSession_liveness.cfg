\* One generation with two recipients, two concurrent end workers, and standings that change.
SPECIFICATION FairSpec
CONSTANTS
  Users = {1, 2}
  Sessions = {s1}
  Workers = {w1, w2}
  Revokers = {}
  Handlers = {h1}
  Requests = {q1}
  PageSize = 1
  MaxRevision = 1
  MaxEpoch = 0
  MaySanction = {}
  MayFreeze = {}
  None = None
PROPERTIES
  EndsAreFinished
CHECK_DEADLOCK FALSE
