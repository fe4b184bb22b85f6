---------------------------- MODULE BackOfficeMC ----------------------------
(* The scenarios of the seven services: which calls may be in progress     *)
(* together, and how much each behaviour may contain.                      *)
EXTENDS BackOffice, TLC

ReminderUrgencies ==
  {[callers |-> {"c1"}, running |-> FALSE, commands |-> 3, mishaps |-> 0],
   [callers |-> {"c1"}, running |-> FALSE, commands |-> 2, mishaps |-> 1],
   [callers |-> {"c1", "c2"}, running |-> FALSE, commands |-> 2, mishaps |-> 0],
   [callers |-> {"c1"}, running |-> TRUE, commands |-> 2, mishaps |-> 1]}

TokenOperations == {"generate", "renew", "backfill", "job", "download", "revoke", "use"}
OverrideCrews ==
  {("j1" :> TokenOperations) @@ ("j2" :> {}),
   ("j1" :> {"generate", "renew", "job"}) @@ ("j2" :> {"download", "revoke", "use"}),
   ("j1" :> {"generate", "renew"}) @@ ("j2" :> {"generate", "job"})}

DeskScenes ==
  {("d1" :> {"upload", "complete", "direct", "edit", "publish", "archive"}) @@ ("d2" :> {}),
   ("d1" :> {"upload", "complete"}) @@ ("d2" :> {"complete", "direct"})}

RecoveryCrowds ==
  {[visitors |-> {"v1"}, codes |-> 2, deaths |-> 1],
   [visitors |-> {"v1", "v2"}, codes |-> 1, deaths |-> 0]}

OnboardingScenes ==
  {("o1" :> {"signup", "account", "partner", "admin"}) @@ ("o2" :> {}),
   ("o1" :> {"partner"}) @@ ("o2" :> {"partner", "admin"})}

RiskScenes ==
  {[calls |-> ("c1" :> {"check", "report", "clear", "wipe"}) @@ ("c2" :> {}),
    releases |-> FALSE, challenges |-> 1, flags |-> 2, unlocks |-> 0],
   [calls |-> ("c1" :> {"verify"}) @@ ("c2" :> {"report"}),
    releases |-> FALSE, challenges |-> 1, flags |-> 2, unlocks |-> 1],
   [calls |-> ("c1" :> {"check"}) @@ ("c2" :> {"check"}),
    releases |-> FALSE, challenges |-> 2, flags |-> 2, unlocks |-> 0],
   [calls |-> ("c1" :> {"verify", "report"}) @@ ("c2" :> {}),
    releases |-> TRUE, challenges |-> 1, flags |-> 2, unlocks |-> 1]}
=============================================================================
