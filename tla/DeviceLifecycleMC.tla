------------------------- MODULE DeviceLifecycleMC -------------------------
(* Small instances of DeviceLifecycle: days are the unit of time.          *)
EXTENDS DeviceLifecycle, TLC

SlotSymmetry == Permutations(Slots)

OneInstallment == 1 .. 1
TwoInstallments == 1 .. 2
DueFirstDay == [i \in {1} |-> 0]
DueInTurn == [i \in {1, 2} |-> i - 1]
=============================================================================
