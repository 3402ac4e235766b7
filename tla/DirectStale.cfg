\* HandleEvent writes its record over the one ExecuteAction saved.
SPECIFICATION Spec
CONSTANTS
  TriggerCount = 1
  TriggerWindow = 1
  UnblockAfter = 1
  Timeout = 1
  Minute = 1
  NotifierEnabled = FALSE
  Actioners = {"gcp_firewall", "gcp_storage"}
  IPs = {ip1}
  Faults = {}
  Events = {e1, e2}
  Presses = {}
  Unblocks = {}
  Timers = {}
  Unblockers = {u1, u2}
  None = None
  Texts <- Scanned
  Buttons = {"all"}
  Serial = TRUE
  Horizon = 2
CHECK_DEADLOCK FALSE
INVARIANTS
  RuleMatchesRecord
