\* The locks run, for the claim without its exception.
SPECIFICATION Spec
CONSTANTS
  u1 = u1
  u2 = u2
  None = None
  Users = {u1, u2, u3}
  Calls = {c1, c2}
  KeyedCalls = {}
  Devices = {}
  Workers = {}
  RingTTL = 1
  ActiveTTL = 2
  Horizon = 3
  MaxLag = 1
  MayFreeze = {u1}
  MayBar <- NoPair
INVARIANT NeverInTwoCalls
