SPECIFICATION Spec
CONSTANTS
  Slots = {s1, s2}
  Handlers = {"approve", "emi", "ack", "risk", "resolve", "waive", "control", "release"}
  Running = FALSE
  Manual = FALSE
  Installments <- OneInstallment
  DueDate <- DueFirstDay
  Dpd = 0
  GracePeriod = 0
  MaxTime = 1
  MaxCommands = 1
  MaxRetries = 1
  MaxCrashes = 1
SYMMETRY SlotSymmetry
INVARIANT SettledIffReleaseQueued
CHECK_DEADLOCK FALSE
