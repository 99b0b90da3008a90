SPECIFICATION FairSpec
CONSTANTS
  Process = {p1, p2, p3}
  Attempts = 5
INVARIANT OneCoreUnlessOverlapped
PROPERTY NeverBricked
CHECK_DEADLOCK FALSE
