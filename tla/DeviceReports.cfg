SPECIFICATION Spec
CONSTANTS
  s1 = s1
  s2 = s2
  k1 = k1
  k2 = k2
  k3 = k3
  Slots = {s1, s2}
  Scenarios <- Focused
  Keys = {camera}
  Commands = {k1, k2, k3}
  MaxFailures = 1
  MaxRetries = 1
SYMMETRY Interchangeable
INVARIANTS TypeOK RestrictionsAgree
PROPERTIES AppliedInOrder ConfirmsWanted
CHECK_DEADLOCK FALSE
