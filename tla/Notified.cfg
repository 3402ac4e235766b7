\* Two events, a button and a timer; queries, calls and the process fail.
SPECIFICATION Spec
CONSTANTS
  TriggerCount = 2
  TriggerWindow = 1
  UnblockAfter = 1
  Timeout = 1
  Minute = 1
  NotifierEnabled = TRUE
  Actioners = {"gcp_firewall", "gcp_storage"}
  IPs = {ip1}
  Faults = {"db", "storage", "slack", "restart", "maprace"}
  Events = {e1, e2}
  Presses = {p1}
  Unblocks = {}
  Timers = {t1}
  Unblockers = {u1, u2}
  None = None
  Texts <- Either
  Buttons = {"all", "gcp_storage", "none of these"}
  Serial = FALSE
  Horizon = 1
CHECK_DEADLOCK FALSE
INVARIANTS
  TypeOK
  RecordsCoherent
  NoPrematureBlock
  EveryRuleHasRemover
PROPERTIES
  FollowsPolicy
