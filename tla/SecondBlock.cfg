\* The first of two unblocks comes before the end of the second block.
SPECIFICATION Spec
CONSTANTS
  TriggerCount = 1
  TriggerWindow = 1
  UnblockAfter = 1
  Timeout = 1
  Minute = 1
  NotifierEnabled = TRUE
  Actioners = {"gcp_firewall", "gcp_storage"}
  IPs = {ip1}
  Faults = {}
  Events = {}
  Presses = {p1, p2}
  Unblocks = {}
  Timers = {}
  Unblockers = {u1, u2}
  None = None
  Texts <- Scanned
  Buttons = {"all"}
  Serial = TRUE
  Horizon = 2
CHECK_DEADLOCK FALSE
PROPERTIES
  NotUnblockedEarly
