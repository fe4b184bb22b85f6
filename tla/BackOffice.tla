----------------------------- MODULE BackOffice -----------------------------
(***************************************************************************)
(* Seven services of the back office that share no document with each      *)
(* other.  A behaviour follows one of them, chosen in the first state; the *)
(* others keep their initial state.  Interleaving them would add states    *)
(* and no behaviour of any of them.                                        *)
(***************************************************************************)
EXTENDS EmiReminders, OverrideTokens, AppBuilds, DiscountRequests, AccountRecovery,
        PartnerOnboarding, RiskChecks

VARIABLE part \* the service that this behaviour follows

Parts == {"reminders", "overrides", "builds", "discounts", "recovery", "onboarding", "risk"}

officeVars == <<reminderVars, overrideVars, buildVars, discountVars, recoveryVars,
                onboardingVars, riskVars, part>>

(* A service that the behaviour does not follow starts in one fixed state. *)
Unfollowed ==
  /\ part # "reminders" => together = CHOOSE u \in Urgencies : TRUE
  /\ part # "overrides" => crew = CHOOSE c \in TokenCrews : TRUE
  /\ part # "builds" => scene = CHOOSE s \in BuildScenes : TRUE
  /\ part # "recovery" => crowd = CHOOSE c \in Crowds : TRUE
  /\ part # "onboarding" =>
       /\ officeScene = CHOOSE s \in OfficeScenes : TRUE
       /\ partner.area = CHOOSE area \in Areas : TRUE
       /\ partner.limit = CHOOSE limit \in Limits : TRUE
  /\ part # "risk" => checkScene = CHOOSE s \in CheckScenes : TRUE

Init ==
  /\ part \in Parts
  /\ RemindersInit /\ OverridesInit /\ BuildsInit /\ DiscountsInit
  /\ RecoveryInit /\ OnboardingInit /\ RiskInit
  /\ Unfollowed

Next ==
  \/ /\ part = "reminders" /\ RemindersNext
     /\ UNCHANGED <<overrideVars, buildVars, discountVars, recoveryVars, onboardingVars, riskVars, part>>
  \/ /\ part = "overrides" /\ OverridesNext
     /\ UNCHANGED <<reminderVars, buildVars, discountVars, recoveryVars, onboardingVars, riskVars, part>>
  \/ /\ part = "builds" /\ BuildsNext
     /\ UNCHANGED <<reminderVars, overrideVars, discountVars, recoveryVars, onboardingVars, riskVars, part>>
  \/ /\ part = "discounts" /\ DiscountsNext
     /\ UNCHANGED <<reminderVars, overrideVars, buildVars, recoveryVars, onboardingVars, riskVars, part>>
  \/ /\ part = "recovery" /\ RecoveryNext
     /\ UNCHANGED <<reminderVars, overrideVars, buildVars, discountVars, onboardingVars, riskVars, part>>
  \/ /\ part = "onboarding" /\ OnboardingNext
     /\ UNCHANGED <<reminderVars, overrideVars, buildVars, discountVars, recoveryVars, riskVars, part>>
  \/ /\ part = "risk" /\ RiskNext
     /\ UNCHANGED <<reminderVars, overrideVars, buildVars, discountVars, recoveryVars, onboardingVars, part>>

Spec == Init /\ [][Next]_officeVars
=============================================================================
