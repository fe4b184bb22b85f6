SPECIFICATION FairSpec
CONSTANTS
  Slots = {s1, s2}
  Handlers = {"escalation", "expiry", "emi"}
  Running = FALSE
  Manual = FALSE
  Installments <- OneInstallment
  DueDate <- DueFirstDay
  Dpd = 0
  GracePeriod = 1
  MaxTime = 2
  MaxCommands = 2
  MaxRetries = 1
  MaxCrashes = 0
PROPERTIES JobsRespectTempUnlock TempUnlockExpires
CHECK_DEADLOCK FALSE
