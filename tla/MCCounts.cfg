SPECIFICATION CountsSpec
CONSTANTS
  p1 = p1
  p2 = p2
  none = none
  Comments <- OneComment
  Reporters <- Two
  Staff <- Two
  Requests <- TwoRequests
  MaxReports = 2
  Nil = none
SYMMETRY Interchangeable
INVARIANTS TriageIsTrue NumbersAreTrue
PROPERTIES StepsOnRecord
CHECK_DEADLOCK FALSE
