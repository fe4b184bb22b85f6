-------------------------- MODULE AppNotificationsMC --------------------------
(* Two phones of one account.                                               *)
EXTENDS AppNotifications, TLC

PhoneOwners == ("t1" :> "a1") @@ ("t2" :> "a1")
=============================================================================
