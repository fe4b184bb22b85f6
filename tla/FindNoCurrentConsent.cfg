SPECIFICATION Spec
CONSTANTS
  Officers = {o1, o2}
  Versions = {v1, v2}
  Scenarios <- PublishingOnly
  MaxEdits = 1
  Slots = {s1, s2}
  MaxTokens = 1
  Consents = {c1}
  Phones = {p1}
  MaxLapses = 0
INVARIANTS SomeCurrent
CHECK_DEADLOCK FALSE
