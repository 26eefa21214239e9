\* Three accounts and two calls that compete for them; no media, no teardown,
\* with clock readings that may be one tick old at the commit.
SPECIFICATION Spec
CONSTANTS
  u1 = u1
  u2 = u2
  None = None
  Users = {u1, u2, u3}
  Calls = {c1, c2}
  KeyedCalls = {c1}
  Devices = {}
  Workers = {}
  RingTTL = 1
  ActiveTTL = 2
  Horizon = 3
  MaxLag = 1
  MayFreeze = {u1}
  MayBar <- NoPair
SYMMETRY Symmetry
INVARIANTS OneLiveCall LocksCoverLiveCalls ProjectionsAgree
PROPERTIES ImplementsLines
