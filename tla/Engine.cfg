\* The whole engine, which starts, fails and starts again.
SPECIFICATION EngineSpec
CONSTANTS
  TriggerCount = 1
  TriggerWindow = 1
  UnblockAfter = 1
  Timeout = 1
  Minute = 1
  NotifierEnabled = TRUE
  Actioners = {"gcp_firewall", "sigmahq"}
  IPs = {ip1}
  Faults = {"slack", "db", "port", "restart", "maprace"}
  Events = {e1}
  Presses = {p1}
  Unblocks = {m1}
  Timers = {t1}
  Unblockers = {u1, u2}
  None = None
  Texts <- Scanned
  Buttons = {"gcp_storage", "none of these"}
  Serial = FALSE
  Horizon = 1
  Messages = {e1}
  ConfigFiles <- SomeFiles
CHECK_DEADLOCK FALSE
INVARIANTS
  EngineTypeOK
  RoutesComplete
  TakenHasEffect
  ToldIsDone
  ButtonsStayUntilActed
