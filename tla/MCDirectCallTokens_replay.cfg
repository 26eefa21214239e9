\* One call, two handler runs of one requestId or of none.
SPECIFICATION TokenSpec
CONSTANTS
  u1 = u1
  u2 = u2
  d1 = d1
  None = None
  Users = {u1, u2}
  Calls = {c1}
  KeyedCalls = {}
  Devices = {d1}
  Workers = {w1}
  Handlers = {h1, h2}
  RequestIds = {q1}
  Requested <- OneAccountAsks
  RingTTL = 1
  ActiveTTL = 1
  TokenTTL = 1
  MaxMints = 2
  Horizon = 1
  MaxLag = 0
  MayFreeze = {}
  MayBar <- NoPair
SYMMETRY Symmetry
INVARIANTS OneTokenPerRequest TokenMatchesAnswer TokensIndexed
PROPERTIES LifecycleOrder CallsSpec
