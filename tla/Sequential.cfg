SPECIFICATION Spec
CONSTANTS
  Slots = {s1}
  Handlers = {"control", "release", "approve", "waive", "resolve", "expiry", "emi", "risk", "send", "ack", "tenant", "escalation", "mark_paid"}
  Running = TRUE
  Manual = FALSE
  Installments <- OneInstallment
  DueDate <- DueFirstDay
  Dpd = 0
  GracePeriod = 1
  MaxTime = 2
  MaxCommands = 1
  MaxRetries = 1
  MaxCrashes = 1
INVARIANTS TypeOK PendingIsOpen
PROPERTIES EndlessUnlockNeedsFailure
CHECK_DEADLOCK FALSE
