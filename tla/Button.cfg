\* The text sent is not the text scanned.
SPECIFICATION Spec
CONSTANTS
  TriggerCount = 1
  TriggerWindow = 1
  UnblockAfter = 1
  Timeout = 1
  Minute = 1
  NotifierEnabled = TRUE
  Actioners = {"gcp_firewall", "gcp_storage"}
  IPs = {ip1}
  Faults = {}
  Events = {e1}
  Presses = {p1}
  Unblocks = {}
  Timers = {t1}
  Unblockers = {u1}
  None = None
  Texts <- Sent
  Buttons = {"all", "gcp_firewall"}
  Serial = FALSE
  Horizon = 2
CHECK_DEADLOCK FALSE
INVARIANTS
  ButtonsUnderstood
