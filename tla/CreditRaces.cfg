SPECIFICATION Spec
CONSTANTS
  Tenants = {t1, t2}
  Amounts = {1, 2}
  Credits = {1}
  Commissions = {0, 1}
  OpeningEarned = 2
  OpeningCredits = 1
  Sessions = {s1, s2, s3, s4}
SYMMETRY Symmetry
INVARIANTS TypeOK BooksAgree RequestsExplained
PROPERTIES Serializable DecisionsStand
CHECK_DEADLOCK FALSE
