-------------------------- MODULE DeviceControlsMC --------------------------
(* Values for the constants of DeviceControls that a cfg cannot write.      *)
EXTENDS DeviceControls, TLC

CONSTANTS s1, s2,      \* the slots, and
          k1, k2, k3   \* the commands: both are interchangeable

Interchangeable == Permutations({s1, s2}) \cup Permutations({k1, k2, k3})

Scenario(names, occurring, overlapping, created) ==
  [settings |-> names, handlers |-> occurring, parallel |-> overlapping, creates |-> created]

Focused == {
  Scenario({"restrictions"}, {"clear", "sync"}, 2, 2),
  Scenario({"restrictions"}, {"push", "clear", "sync"}, 1, 3),
  Scenario({"restrictions"}, {"sync", "release", "relock"}, 2, 2),
  Scenario({"control"}, {"push", "sync"}, 2, 2),
  Scenario({"control"}, {"push", "sync", "release"}, 1, 3),
  Scenario({"control"}, {"sync", "release", "relock"}, 1, 3),
  Scenario({"control"}, {"sync", "release", "relock"}, 2, 2)}

=============================================================================
