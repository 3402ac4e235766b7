\* Block cycles of requests that do not overlap.
SPECIFICATION FairSpec
CONSTANTS
  TriggerCount = 2
  TriggerWindow = 1
  UnblockAfter = 2
  Timeout = 1
  Minute = 1
  NotifierEnabled = TRUE
  Actioners = {"gcp_firewall", "gcp_storage"}
  IPs = {ip1}
  Faults = {}
  Events = {e1, e2, e3, e4}
  Presses = {p1, p2}
  Unblocks = {m1, m2}
  Timers = {t1, t2}
  Unblockers = {u1, u2, u3, u4}
  None = None
  Texts <- Scanned
  Buttons = {"gcp_firewall", "gcp_storage"}
  Serial = TRUE
  Horizon = 4
CHECK_DEADLOCK FALSE
INVARIANTS
  RuleMatchesRecord
  ScenarioOncePerCycle
  PageMatchesFirewall
PROPERTIES
  NotUnblockedEarly
  FollowsCycle
