SPECIFICATION Spec
CONSTANTS
  Slots = {s1, s2}
  Handlers = {"tenant", "mark_paid", "release", "ack", "send"}
  Running = FALSE
  Manual = FALSE
  Installments <- OneInstallment
  DueDate <- DueFirstDay
  Dpd = 0
  GracePeriod = 1
  MaxTime = 0
  MaxCommands = 2
  MaxRetries = 1
  MaxCrashes = 0
SYMMETRY SlotSymmetry
INVARIANTS LifecycleInv
CHECK_DEADLOCK FALSE
