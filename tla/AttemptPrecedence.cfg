SPECIFICATION Spec
CONSTANTS
  MaxEvents = 1
  Plan <- OneProvider
  HostFaults = {"provider"}
  HandlerFaults = {"unexpected"}
  DetachedEmits = FALSE
CHECK_DEADLOCK FALSE
INVARIANT DocumentedPrecedence
