SPECIFICATION Spec
CONSTANTS
  Server = {s1}
  Request = {r1, r2}
  None = None
  Push = {s1}
  OnFailure = "terminate"
  BillsWhileStopped = FALSE
  CanStop = TRUE
  UserOps = {"get", "terminate"}
  ActiveJobs = {"ticker"}
  Mishaps = {}
  BoxSteps = {"installing_tools", "ready"}
  MaxFaults = 1
  MaxCrashes = 1
SYMMETRY RequestSymmetry
INVARIANTS RowsAreReachable OnlyReadyRuns DeathIsTrue
PROPERTIES TerminatedLetsGo FailedUntilDismissed
CHECK_DEADLOCK FALSE
