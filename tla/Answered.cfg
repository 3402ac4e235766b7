\* Two buttons and a manual unblock of one address.
SPECIFICATION EngineSpec
CONSTANTS
  TriggerCount = 1
  TriggerWindow = 1
  UnblockAfter = 1
  Timeout = 1
  Minute = 1
  NotifierEnabled = TRUE
  Actioners = {"gcp_firewall", "sigmahq"}
  IPs = {ip1}
  Faults = {"db", "restart", "maprace"}
  Events = {}
  Presses = {p1, p2}
  Unblocks = {m1}
  Timers = {}
  Unblockers = {u1, u2}
  None = None
  Texts <- Scanned
  Buttons = {"all", "gcp_firewall", "gcp_storage", "none of these"}
  Serial = FALSE
  Horizon = 1
  Messages = {}
  ConfigFiles <- SomeFiles
CHECK_DEADLOCK FALSE
INVARIANTS
  ToldIsDone
