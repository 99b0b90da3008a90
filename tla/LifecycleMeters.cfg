SPECIFICATION FairSpec
CONSTANTS
  Server = {s1}
  Request = {r1}
  None = None
  Push = {}
  OnFailure = "terminate"
  BillsWhileStopped = FALSE
  CanStop = TRUE
  UserOps = {"terminate"}
  ActiveJobs = {"reconciler"}
  Mishaps = {"console-terminate"}
  BoxSteps = {"installing_tools", "ready"}
  MaxFaults = 1
  MaxCrashes = 1
PROPERTIES MeterStops MeterStarts OrphansAreFlagged
