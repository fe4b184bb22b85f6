SPECIFICATION Spec
CONSTANTS
  Slots = {s1, s2}
  Handlers = {"emi", "mark_paid"}
  Running = FALSE
  Manual = FALSE
  Installments <- OneInstallment
  DueDate <- DueFirstDay
  Dpd = 0
  GracePeriod = 0
  MaxTime = 1
  MaxCommands = 1
  MaxRetries = 1
  MaxCrashes = 0
SYMMETRY SlotSymmetry
PROPERTY ReleasePendingNotRelocked
CHECK_DEADLOCK FALSE
