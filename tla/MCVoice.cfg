SPECIFICATION VoiceSpec
CONSTANTS
  c1 = c1
  c2 = c2
  none = none
  People <- OneUser
  Kinds <- AllKinds
  Grace = 2
  Window = 1
  Lifetime = 3
  Staleness = 3
  MayFail = TRUE
  Nil = none
SYMMETRY CallsAlike
INVARIANTS StandingDecides RecordingsAreTrue
PROPERTIES EndsAreJustified StepsAreCurrent
CHECK_DEADLOCK FALSE
