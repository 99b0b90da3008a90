SPECIFICATION FairSpec
CONSTANTS
  Server = {s1}
  Request = {r1}
  None = None
  Push = {s1}
  OnFailure = "terminate"
  BillsWhileStopped = FALSE
  CanStop = TRUE
  UserOps = {"terminate"}
  ActiveJobs = {"ticker"}
  Mishaps = {}
  BoxSteps = {"installing_tools", "ready"}
  MaxFaults = 1
  MaxCrashes = 1
PROPERTIES RowsSettle
CHECK_DEADLOCK FALSE
