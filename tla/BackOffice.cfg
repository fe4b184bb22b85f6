SPECIFICATION Spec
CONSTANTS
  Installments = {1}
  Callers = {"c1", "c2"}
  Urgencies <- ReminderUrgencies
  Attempts = 2
  TokenJobs = {"j1", "j2"}
  TokenCrews <- OverrideCrews
  TokenLimit = 3
  Validity = 2
  RenewalWindow = 1
  TokenDays = 3
  TokenDeaths = 1
  Sessions = {"s1", "s2"}
  Versions = {1, 2}
  BuildDesks = {"d1", "d2"}
  BuildScenes <- DeskScenes
  BuildLapses = 1
  Clerks = {"k1", "k2"}
  Percentages = {33}
  Quantities = {26}
  KeyPrice = 99
  VersionLimit = 3
  RequestLimit = 2
  PurchaseLimit = 1
  Visitors = {"v1", "v2"}
  Crowds <- RecoveryCrowds
  CodeLimit = 2
  ResetLimit = 2
  MaxAttempts = 2
  Offices = {"o1", "o2"}
  OfficeScenes <- OnboardingScenes
  Mobiles = {"m1"}
  Areas = {"north", "south"}
  Limits = {1}
  TenantLimit = 2
  LoginLimit = 3
  AdminLimit = 1
  Checkers = {"c1", "c2"}
  CheckScenes <- RiskScenes
INVARIANTS  BuildsInstallable TermsAgreed RecoveryHeld OneLockOrder
PROPERTIES AnnouncedAtEnd TokensRenewed NoLostEdit OnboardingHeld CompromiseHandled
CHECK_DEADLOCK FALSE
