\* Two events read the same count.
SPECIFICATION Spec
CONSTANTS
  TriggerCount = 1
  TriggerWindow = 1
  UnblockAfter = 1
  Timeout = 1
  Minute = 1
  NotifierEnabled = TRUE
  Actioners = {"gcp_firewall", "gcp_storage"}
  IPs = {ip1}
  Faults = {}
  Events = {e1, e2}
  Presses = {}
  Unblocks = {}
  Timers = {t1, t2}
  Unblockers = {u1, u2}
  None = None
  Texts <- Scanned
  Buttons = {"all"}
  Serial = FALSE
  Horizon = 2
CHECK_DEADLOCK FALSE
INVARIANTS
  ScenarioOncePerCycle
