SPECIFICATION MediaSpec
CONSTANTS
  c1 = c1
  c2 = c2
  c3 = c3
  r1 = r1
  r2 = r2
  Calls <- ThreeCalls
  Requests <- TwoRequests
  requestOf <- Retry
INVARIANTS AttachmentsSafe ShownHasItsBytes NothingIsForgotten OneUploadOfAnOwner
PROPERTY GrantsHold
CHECK_DEADLOCK FALSE
