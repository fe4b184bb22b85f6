---------------------------- MODULE EnrollmentMC ----------------------------
(* Values for the constants of Enrollment that a cfg cannot write.          *)
EXTENDS Enrollment, TLC

Requests == {"accept", "rotate", "activate", "register"}

Scenario(mode, overlapping, besides, qr_codes, officers, again) ==
  [mode |-> mode, parallel |-> overlapping, beside |-> besides, tokens |-> qr_codes,
   officers |-> officers, republish |-> again]

(* Two rotations begun before the phone is linked can both find no open    *)
(* QR code afterwards: with the activation, three requests at once.        *)
Focused == {
  Scenario("running", 1, Requests, 2, 1, FALSE), Scenario("running", 1, Requests, 3, 0, FALSE),
  Scenario("running", 2, Requests, 2, 0, FALSE),
  Scenario("running", 3, {"rotate", "activate"}, 3, 0, FALSE),
  Scenario("owner", 1, Requests, 3, 0, FALSE), Scenario("owner", 2, Requests, 2, 0, FALSE),
  Scenario("running", 0, Requests, 1, 2, TRUE)}

PublishingOnly == {Scenario("running", 0, Requests, 1, 2, TRUE)}
=============================================================================
