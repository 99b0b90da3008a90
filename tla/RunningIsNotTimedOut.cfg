SPECIFICATION Spec
CONSTANTS
  Server = {s1, s2}
  Request = {r1}
  None = None
  Push = {s1, s2}
  OnFailure = "terminate"
  BillsWhileStopped = FALSE
  CanStop = TRUE
  UserOps = {"terminate"}
  ActiveJobs = {"ticker"}
  Mishaps = {}
  BoxSteps = {"ready"}
  MaxFaults = 0
  MaxCrashes = 0
PROPERTY RunningIsNotTimedOut
CHECK_DEADLOCK FALSE
