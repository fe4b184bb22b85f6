SPECIFICATION FairSpec
CONSTANTS
  Officers = {o1, o2}
  Versions = {v1, v2}
  Scenarios <- Focused
  MaxEdits = 1
  Slots = {s1, s2, s3}
  MaxTokens = 3
  Consents = {c1, c2, c3}
  Phones = {p1, p2}
  MaxLapses = 1
INVARIANTS TypeOK OneCurrent ActivatedAsAccepted OneEnrollment ConsentInForce
PROPERTIES Onboarded
CHECK_DEADLOCK FALSE
