\* Timer, button and manual unblock of one address at the same time.
SPECIFICATION FairSpec
CONSTANTS
  TriggerCount = 1
  TriggerWindow = 1
  UnblockAfter = 0
  Timeout = 1
  Minute = 1
  NotifierEnabled = TRUE
  Actioners = {"gcp_storage"}
  IPs = {ip1}
  Faults = {}
  Events = {e1}
  Presses = {p1}
  Unblocks = {m1}
  Timers = {t1}
  Unblockers = {u1, u2}
  None = None
  Texts <- Scanned
  Buttons = {"gcp_firewall"}
  Serial = FALSE
  Horizon = 1
CHECK_DEADLOCK FALSE
INVARIANTS
  ClosedChannelsLeaveMaps
  EveryRuleHasRemover
PROPERTIES
  TimerIsAnswered
