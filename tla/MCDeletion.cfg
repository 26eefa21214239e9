SPECIFICATION DeletionSpec
CONSTANTS
  w1 = w1
  w2 = w2
  m1 = m1
  u1 = u1
  u2 = u2
  m2 = m2
  root = root
  none = none
  Workers <- TwoWorkers
  Pages <- SomePages
  MAX_ATTEMPTS = 2
  MAX_ABANDONED_ATTEMPTS = 2
  MaxRewrites = 1
  ConsoleMayDelete = TRUE
SYMMETRY WorkersAlike
INVARIANTS DeletionInOrder GoneLeavesNothing StandingIsKept
PROPERTY DeletionIsFinal
CHECK_DEADLOCK FALSE
