-------------------------- MODULE ConfirmedRegister --------------------------
(***************************************************************************)
(* What the backend promises about a setting of a phone that the phone has *)
(* to confirm: every new value has a version of its own, only the value    *)
(* wanted at present can be recorded as applied, and once the phone is     *)
(* released the setting is off, wanted and applied alike, under a version  *)
(* that no value ever had, until the release is written over.  Then the    *)
(* setting can be wanted again, or, if that overlaps the confirmation of   *)
(* the release, nothing is promised any more.  DeviceControls implements   *)
(* it for the security controls, whose confirmations may come late, twice  *)
(* and in any order.                                                       *)
(***************************************************************************)
EXTENDS Naturals

CONSTANTS Values,  \* values of the setting
          Off      \* the value a released phone has

VARIABLES desired,         \* the value wanted
          desiredVersion,  \* its version
          applied,         \* the last value recorded as applied
          appliedVersion,  \* its version
          issued,          \* the newest version an operator's value had
          mode             \* what is promised: "kept", "reopened" or "lost"

vars == <<desired, desiredVersion, applied, appliedVersion, issued, mode>>

Init ==
  /\ desired = Off /\ desiredVersion = 0
  /\ applied = Off /\ appliedVersion = 0
  /\ issued = 0
  /\ mode = "kept"

Closed == desiredVersion > issued

(* A released phone is wanted nothing of, unless its release was written   *)
(* over.                                                                   *)
Want(v) ==
  /\ mode = "kept" => ~Closed
  /\ desired' = v
  /\ desiredVersion' = desiredVersion + 1
  /\ issued' = desiredVersion'
  /\ UNCHANGED <<applied, appliedVersion, mode>>

Confirm ==
  /\ ~Closed
  /\ applied' = desired
  /\ appliedVersion' = desiredVersion
  /\ UNCHANGED <<desired, desiredVersion, issued, mode>>

(* A release may be confirmed again.                                       *)
Release ==
  /\ desired' = Off /\ applied' = Off
  /\ desiredVersion' > issued
  /\ appliedVersion' = desiredVersion'
  /\ UNCHANGED <<issued, mode>>

(* The release is written over; the setting itself stays as it is.         *)
Reopen ==
  /\ mode = "kept" /\ mode' \in {"reopened", "lost"}
  /\ UNCHANGED <<desired, desiredVersion, applied, appliedVersion, issued>>

Unpromised == mode = "lost" /\ mode' = "lost"

Next == (\E v \in Values : Want(v)) \/ Confirm \/ Release \/ Reopen \/ Unpromised

Spec == Init /\ [][Next]_vars
=============================================================================
