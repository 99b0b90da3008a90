SPECIFICATION Spec
CONSTANTS
  Server = {s1}
  Request = {r1, r2}
  None = None
  Push = {}
  OnFailure = "terminate"
  BillsWhileStopped = TRUE
  CanStop = TRUE
  UserOps = {"get", "start", "stop", "terminate"}
  ActiveJobs = {}
  Mishaps = {"fail", "console-terminate", "console-stop"}
  BoxSteps = {"installing_tools", "ready"}
  MaxFaults = 0
  MaxCrashes = 0
SYMMETRY RequestSymmetry
PROPERTIES KeepsPromise
CHECK_DEADLOCK FALSE
