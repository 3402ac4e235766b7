\* Two instances, one after the other, of a plugin that is configured in four ways.
SPECIFICATION FairSpec
CONSTANTS
  Opens = 2
  MaxFlows = 3
  Configs = {"unusable", "silent", "", "10.0.0.1:4245"}
CHECK_DEADLOCK FALSE
INVARIANTS
  TypeOK
  FlowsInOrder
  ConnectsAsConfigured
PROPERTIES
  FlowsGetThrough
