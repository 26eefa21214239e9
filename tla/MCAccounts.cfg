SPECIFICATION AccountsSpec
CONSTANTS
  s1 = s1
  q1 = q1
  none = none
  Nil = none
  Tokens <- TwoTokens
  Own = 2
  PageSize = 1
  MaxPages = 2
  Legacy = FALSE
  Overlap = TRUE
  MaxTime = 2
  MaxDeaths = 1
INVARIANTS OldSessionsEnd OwedIsTrue
PROPERTIES StepsAreOwed
CHECK_DEADLOCK FALSE
