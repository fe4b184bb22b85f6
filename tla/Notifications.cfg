SPECIFICATION Spec
CONSTANTS
  Accounts = {"a1"}
  Tokens = {"t1", "t2"}
  Owner <- PhoneOwners
  Workers = {"w1", "w2"}
  JobLimit = 1
  JobRetries = 2
  JobFaults = 1
INVARIANTS NotificationsInv SentWasShown
PROPERTIES JobsEnd
CHECK_DEADLOCK FALSE
