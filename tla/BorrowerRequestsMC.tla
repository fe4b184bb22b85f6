------------------------- MODULE BorrowerRequestsMC -------------------------
(* Values for the constants of BorrowerRequests that a cfg cannot write.    *)
EXTENDS BorrowerRequests, TLC

CONSTANTS s1, s2,  \* the slots
          endpoint \* a caller of the job that is not the timer

TwoDue == 1 :> 3 @@ 2 :> 1

Scenario(occurring, slots, runs) ==
  [handlers |-> occurring, slots |-> slots, runs |-> runs]

Focused == {
  Scenario({"submit", "approve", "reject", "mark_paid", "resolve"}, {s1, s2}, {}),
  Scenario({"submit", "approve", "mark_paid", "relock"}, {s1, s2}, {}),
  Scenario({"case", "tenant", "partner", "admin", "clock"}, {s1}, {Timer}),
  Scenario({"case", "partner", "clock"}, {s1, s2}, {Timer}),
  Scenario({"case", "partner", "clock"}, {s1}, {Timer, endpoint}),
  Scenario({"submit", "approve", "case", "tenant"}, {s1}, {Timer})}

=============================================================================
