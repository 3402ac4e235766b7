\* Every rule is removed in the end; a block may end as soon as it has begun.
SPECIFICATION FairSpec
CONSTANTS
  TriggerCount = 1
  TriggerWindow = 1
  UnblockAfter = 0
  Timeout = 1
  Minute = 1
  NotifierEnabled = TRUE
  Actioners = {"gcp_firewall", "gcp_storage"}
  IPs = {ip1}
  Faults = {}
  Events = {}
  Presses = {p1, p2}
  Unblocks = {m1, m2}
  Timers = {}
  Unblockers = {u1, u2}
  None = None
  Texts <- Scanned
  Buttons = {"all"}
  Serial = FALSE
  Horizon = 1
CHECK_DEADLOCK FALSE
INVARIANTS
  ClosedChannelsLeaveMaps
  EveryRuleHasRemover
PROPERTIES
  EveryRuleIsRemoved
