SPECIFICATION Spec
CONSTANTS
  MaxEvents = 2
  Plan <- TwoProviders
  HostFaults = {"provider", "permission"}
  HandlerFaults = {"unexpected", "provider", "wall_clock"}
  DetachedEmits = FALSE
CHECK_DEADLOCK FALSE
INVARIANTS TypeOK HandlesKeptInUse SealedResultHoldsNothing TerminalEventIsLast UncertainAcquireNeverDispatched AtMostOneLateEvent
PROPERTIES SuccessIsProven CleanupFailureDominates SupervisedRun CooperativeAttemptCloses
