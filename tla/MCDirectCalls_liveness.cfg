\* Progress of one call with two deliveries that fail, die and overtake.
SPECIFICATION FairSpec
CONSTANTS
  u1 = u1
  u2 = u2
  None = None
  Users = {u1, u2}
  Calls = {c1}
  KeyedCalls = {}
  Devices = {}
  Workers = {w1, w2}
  RingTTL = 1
  ActiveTTL = 1
  Horizon = 2
  MaxLag = 1
  MayFreeze = {u1}
  MayBar <- OnePair
INVARIANTS SessionsTornDown
PROPERTIES CallsFinish MediaReleased
