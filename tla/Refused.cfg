\* Firewall calls fail around an event, a button and a manual unblock.
SPECIFICATION RefusalsSpec
CONSTANTS
  TriggerCount = 0
  TriggerWindow = 1
  UnblockAfter = 1
  Timeout = 1
  Minute = 1
  NotifierEnabled = FALSE
  Actioners = {"gcp_firewall", "gcp_storage"}
  IPs = {ip1, ip2}
  Faults = {"firewall", "storage", "db", "maprace"}
  Events = {e1}
  Presses = {p1}
  Unblocks = {m1}
  Timers = {}
  Unblockers = {u1, u2}
  None = None
  Texts <- Scanned
  Buttons = {"gcp_firewall", "gcp_storage"}
  Serial = FALSE
  Horizon = 1
SYMMETRY AnyAddress
CHECK_DEADLOCK FALSE
INVARIANTS
  RecordsCoherent
  ClosedChannelsLeaveMaps
  OnlyFailuresLeaveRules
PROPERTIES
  FollowsPolicy
