SPECIFICATION FairSpec
CONSTANTS
  s1 = s1
  s2 = s2
  endpoint = endpoint
  Slots = {s1, s2}
  Scenarios <- Focused
  Manual = FALSE
  Payments = {p1, p2}
  Amounts = {1, 3}
  Installments = {1, 2}
  Due <- TwoDue
  Cases = {c1, c2}
  TenantSla = 1
  PartnerSla = 1
  BatchLimit = 1
  Runs = {timer, endpoint}
  Timer = timer
  MaxTime = 2
  MaxFailures = 1
INVARIANTS TypeOK ScheduleExplained DoneOnce
PROPERTIES Escalates EscalationReached
CHECK_DEADLOCK FALSE
