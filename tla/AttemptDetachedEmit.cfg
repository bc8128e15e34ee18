SPECIFICATION Spec
CONSTANTS
  MaxEvents = 1
  Plan <- OneProvider
  HostFaults = {"provider"}
  HandlerFaults = {"unexpected"}
  DetachedEmits = TRUE
CHECK_DEADLOCK FALSE
INVARIANT TerminalEventIsLast
