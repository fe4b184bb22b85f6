-------------------------- MODULE DeviceLifecycle --------------------------
(***************************************************************************)
(* One managed phone, the commands queued for it and the EMI schedule that *)
(* drives them, as the CredNexa backend keeps them in MongoDB.  Every HTTP *)
(* handler and every scheduled job is a sequence of awaited database       *)
(* operations; the steps of different handlers interleave freely.          *)
(*                                                                         *)
(*  - `device', `commands' and `schedule' are the committed documents.     *)
(*  - `flight[s]' is the handler or job run occupying slot s, named by the *)
(*    database operation it performs next and carrying the documents it    *)
(*    has read so far (which may be stale by the time they are used).      *)
(*  - A MongoDB transaction is one step, because the documents it reads    *)
(*    inside the transaction and then writes conflict with any other       *)
(*    writer; what a handler reads before startTransaction is a step of    *)
(*    its own.                                                             *)
(*  - Mongoose saves only the paths that changed since the document was    *)
(*    read, without checking that they still hold the value read.          *)
(***************************************************************************)
EXTENDS Integers, Sequences

CONSTANTS Slots,        \* bound: handlers and job runs in flight at once
          Handlers,     \* bound: the handlers and jobs that occur in a run
          Running,      \* TRUE for a running-app enrolment, FALSE for device-owner
          Manual,       \* TRUE if the tenant policy is manual device control
          Installments, \* their numbers, in the order they fall due
          DueDate,      \* day each installment falls due
          Dpd,          \* tenantPolicy.lockRules.dpd, in days
          GracePeriod,  \* tenantPolicy.lockRules.gracePeriodDays
          MaxTime,      \* bound: last day of a run
          MaxCommands,  \* bound: commands created in a run
          MaxRetries,   \* delivery attempts of one command (5 in the code)
          MaxCrashes    \* bound: handlers abandoned half way in a run

ASSUME InstallmentsAssumption == Installments \subseteq Nat \ {0}
ASSUME DueDateAssumption == DueDate \in [Installments -> Nat]
ASSUME PolicyAssumption == Dpd \in Nat /\ GracePeriod \in Nat
ASSUME ModeAssumption == Running \in BOOLEAN /\ Manual \in BOOLEAN
ASSUME BoundAssumption ==
  MaxTime \in Nat /\ MaxCommands \in Nat /\ MaxRetries \in Nat /\ MaxCrashes \in Nat

VARIABLES device,    \* the Device document
          commands,  \* the DeviceCommand documents, in order of creation
          schedule,  \* the EmiSchedule document
          flight,    \* handlers and job runs in progress
          now,       \* wall-clock day
          crashes    \* handlers abandoned so far

vars == <<device, commands, schedule, flight, now, crashes>>

-----------------------------------------------------------------------------
(* Documents *)

DeviceStates == {"ACTIVE", "GRACE_PERIOD", "LOCKED", "TEMP_UNLOCK",
                 "UNLOCK_PENDING", "RELEASE_PENDING", "RELEASED"}
ReleaseStates == {"RELEASE_PENDING", "RELEASED"}
PolicyKeys == {"EMI_PAID", "EMI_GRACE", "EMI_LOCKED", "TEMP_UNLOCKED"}

NoDeadline == -1   \* tempUnlockExpiresAt is not set

DeviceDocs == [state : DeviceStates, policy : PolicyKeys,
               tempUntil : Nat \cup {NoDeadline}]

ControlTypes == {"LOCK", "UNLOCK", "TEMP_UNLOCK"}
CommandTypes == ControlTypes \cup {"POLICY_UPDATE", "RELEASE_DEVICE"}
CommandStatuses == {"pending", "sent", "acknowledged", "failed", "expired"}
ActiveStatuses == {"pending", "sent"}
FailureSources == {"none", "delivery", "device_enforcement"}
Origins == {"emi_policy", "risk_auto_lock", "other"}   \* told apart by look-ups

CommandDocs == [type : CommandTypes, status : CommandStatuses,
                source : FailureSources, retries : Nat, origin : Origins,
                installment : Installments \cup {0}]

InstallmentStatuses == {"pending", "overdue", "partial", "paid", "waived"}
UnpaidStatuses == {"pending", "overdue", "partial"}
\* `covered': the installments whose paidAmount reaches what they cost.
ScheduleDocs == [settled : BOOLEAN, covered : SUBSET Installments,
                 status : [Installments -> InstallmentStatuses]]

Unpaid(status) == {i \in Installments : status[i] \in UnpaidStatuses}
Completed(status) == Installments # {} /\ Unpaid(status) = {}
Earliest(S) == CHOOSE i \in S : \A j \in S : i <= j

Active(c) == c.status \in ActiveStatuses

NewCommand(type, origin, installment) ==
  [type |-> type, status |-> "pending", source |-> "none", retries |-> 0,
   origin |-> origin, installment |-> installment]

OfType(types) == {i \in DOMAIN commands : commands[i].type \in types}

\* DeviceCommand.updateMany over the active ones among the commands chosen.
ExpireActive(chosen) ==
  [i \in DOMAIN commands |-> IF i \in chosen /\ Active(commands[i])
                               THEN [commands[i] EXCEPT !.status = "expired"]
                               ELSE commands[i]]

\* What document.save() leaves in a path: the value assigned if it differs from the
\* one read, otherwise whatever the path holds by now.
Saved(seen, assigned, current) == IF assigned # seen THEN assigned ELSE current
SavedCommand(c, seen, status, source) ==
  [c EXCEPT !.status = Saved(seen.status, status, c.status),
            !.source = Saved(seen.source, source, c.source)]

-----------------------------------------------------------------------------
(* Flights *)

Idle == [op |-> "idle"]
Begin(s, f) == flight[s] = Idle /\ flight' = [flight EXCEPT ![s] = f]
Continue(s, f) == flight' = [flight EXCEPT ![s] = f]
End(s) == flight' = [flight EXCEPT ![s] = Idle]
At(s, op) == flight[s].op = op

\* No handler that creates commands starts once the bound is reached; the expiry
\* job is exempt, since a temporary unlock must be able to end.
Room == Len(commands) < MaxCommands

Init ==
  /\ device = [state |-> "ACTIVE", policy |-> "EMI_PAID", tempUntil |-> NoDeadline]
  /\ commands = << >>
  /\ schedule = [settled |-> FALSE, covered |-> {}, status |-> [i \in Installments |-> "pending"]]
  /\ flight = [s \in Slots |-> Idle]
  /\ now = 0
  /\ crashes = 0

Tick ==
  /\ now < MaxTime
  /\ now' = now + 1
  /\ UNCHANGED <<device, commands, schedule, flight, crashes>>

\* An exception, a serverless timeout or a process exit ends a handler between
\* two of its database operations; nothing resumes it.
Crash(s) ==
  /\ flight[s] # Idle
  /\ crashes < MaxCrashes
  /\ crashes' = crashes + 1
  /\ End(s)
  /\ UNCHANGED <<device, commands, schedule, now>>

-----------------------------------------------------------------------------
(* Queueing a command (one transaction) *)

\* Mutant of TargetPolicy: a state is written where its policy key belongs.
TargetPolicyConfused == [LOCK |-> "EMI_LOCKED", UNLOCK |-> "EMI_PAID",
                         TEMP_UNLOCK |-> "TEMP_UNLOCK"]

TargetState == [LOCK |-> "LOCKED", UNLOCK |-> "UNLOCK_PENDING",
                TEMP_UNLOCK |-> "TEMP_UNLOCK"]
TargetPolicy == [LOCK |-> "EMI_LOCKED", UNLOCK |-> "EMI_PAID",
                 TEMP_UNLOCK |-> "TEMP_UNLOCKED"]

\* The pre-validate hook of DeviceCommand reads the committed device, outside
\* the session of the transaction that creates the command.
HookAccepts == device.state \notin ReleaseStates

\* assertRunningActionCapability on the document the handler read.  A fresh
\* overlay grant, which a running LOCK also needs, comes from the phone.
CapabilityHolds(read) == Running => read.state \notin ReleaseStates

ControlAccepted(read) == CapabilityHolds(read) /\ HookAccepts

\* queueTenantDeviceCommand and queueAdminDeviceCommand: the update of the device is
\* unconditional.
QueueControl(type, until) ==
  /\ device' = [state |-> TargetState[type], policy |-> TargetPolicy[type],
                 tempUntil |-> IF type = "TEMP_UNLOCK" THEN until ELSE NoDeadline]
  /\ commands' = Append(commands, NewCommand(type, "other", 0))

ReleaseActive ==
  \E i \in DOMAIN commands : commands[i].type = "RELEASE_DEVICE" /\ Active(commands[i])

ReleaseAccepted(read) == read.state # "RELEASED" /\ ~ReleaseActive

\* queueDeviceRelease: supersede every other active command, then release.
QueueRelease ==
  /\ commands' = Append(ExpireActive(OfType(CommandTypes \ {"RELEASE_DEVICE"})),
                        NewCommand("RELEASE_DEVICE", "other", 0))
  /\ device' = [device EXCEPT !.state = "RELEASE_PENDING", !.tempUntil = NoDeadline]

\* Mutant of Settle: the schedule is saved before it is marked settled.
SettleTooLate(covered, status) ==
  [settled |-> schedule.settled, covered |-> covered, status |-> status]

\* settleCompletedSchedule, once the installments have their new status.
NewlySettled(status) == Completed(status) /\ ~schedule.settled
Settle(covered, status) ==
  [settled |-> schedule.settled \/ NewlySettled(status), covered |-> covered, status |-> status]

-----------------------------------------------------------------------------
(* Manual controls *)

\* lockAdminDevice, unlockAdminDevice, tempUnlockAdminDevice, tempUnlockTenantDevice
\* and the unlock-request approvals read the device before startTransaction.
ControlRead(s, type, until) ==
  /\ Room
  /\ Begin(s, [op |-> "control_commit", type |-> type, until |-> until, read |-> device])
  /\ UNCHANGED <<device, commands, schedule, now, crashes>>

ControlCommit(s) ==
  /\ At(s, "control_commit")
  /\ LET f == flight[s] IN
       IF ControlAccepted(f.read) THEN QueueControl(f.type, f.until)
                                  ELSE UNCHANGED <<device, commands>>
  /\ End(s)
  /\ UNCHANGED <<schedule, now, crashes>>

\* lockTenantDevice and unlockTenantDevice read the device inside the transaction
\* and skip a command whose target the device already has.
StateSatisfied(type) ==
  device.state = TargetState[type] /\ device.policy = TargetPolicy[type]

TenantControl(type) ==
  /\ Room
  /\ ~StateSatisfied(type)
  /\ ControlAccepted(device)
  /\ QueueControl(type, NoDeadline)
  /\ UNCHANGED <<schedule, flight, now, crashes>>

\* An escalated case, resolved by a super admin or by a partner, reads the device
\* inside the transaction too, and skips nothing.
EscalationControl(type, until) ==
  /\ Room
  /\ ControlAccepted(device)
  /\ QueueControl(type, until)
  /\ UNCHANGED <<schedule, flight, now, crashes>>

\* releaseTenantDevice and releaseAdminDevice read device and schedule first.
ReleaseRead(s) ==
  /\ Room
  /\ Begin(s, [op |-> "release_commit", read |-> device, schedule |-> schedule])
  /\ UNCHANGED <<device, commands, schedule, now, crashes>>

ReleaseCommit(s) ==
  /\ At(s, "release_commit")
  /\ LET f == flight[s] IN
       IF /\ f.schedule.settled /\ Completed(f.schedule.status)
          /\ ReleaseAccepted(f.read)
         THEN QueueRelease
         ELSE UNCHANGED <<device, commands>>
  /\ End(s)
  /\ UNCHANGED <<schedule, now, crashes>>

-----------------------------------------------------------------------------
(* Payments and waivers *)

\* applyPaymentToEmiSchedule: the amount covers the installments that still have
\* something outstanding in order, the first of them in full (`full') and possibly
\* a part of the next one.
Outstanding == Unpaid(schedule.status) \ schedule.covered

FullyPaid == {{i \in Outstanding : i <= k} : k \in Installments \cup {0}}

Applied(full, part) ==
  [i \in Installments |->
     IF i \in full THEN "paid"
     ELSE IF part /\ i \in Outstanding /\ i = Earliest(Outstanding \ full) THEN "partial"
     ELSE schedule.status[i]]

\* approvePayment reads the device before startTransaction.
ApproveRead(s) ==
  /\ ~Manual
  /\ Room
  /\ Begin(s, [op |-> "approve_commit", read |-> device])
  /\ UNCHANGED <<device, commands, schedule, now, crashes>>

ApproveCommit(s, full, part) ==
  /\ At(s, "approve_commit")
  /\ LET read == flight[s].read
         status == Applied(full, part)
         paid == schedule' = Settle(schedule.covered \cup full, status)
     IN \/ /\ NewlySettled(status) /\ ReleaseAccepted(read)
           /\ paid
           /\ QueueRelease
        \/ /\ ~NewlySettled(status) /\ ControlAccepted(read)
           /\ paid
           /\ QueueControl("UNLOCK", NoDeadline)
        \/ /\ IF NewlySettled(status) THEN ~ReleaseAccepted(read) ELSE ~ControlAccepted(read)
           /\ UNCHANGED <<device, commands, schedule>>
  /\ End(s)
  /\ UNCHANGED <<now, crashes>>

\* markUserEmiInstallmentPaid reads everything inside the transaction.
MarkPaid(i) ==
  LET status == [schedule.status EXCEPT ![i] = "paid"]
      unlocks == device.state \in {"LOCKED", "TEMP_UNLOCK"}
  IN /\ Room
     /\ i \in Unpaid(schedule.status)
     /\ \/ NewlySettled(status) /\ ReleaseAccepted(device) /\ QueueRelease
        \/ /\ ~NewlySettled(status) /\ unlocks /\ ControlAccepted(device)
           /\ QueueControl("UNLOCK", NoDeadline)
        \/ ~NewlySettled(status) /\ ~unlocks /\ UNCHANGED <<device, commands>>
     /\ schedule' = Settle(schedule.covered \cup {i}, status)
     /\ UNCHANGED <<flight, now, crashes>>

Resolve(chosen, outcome) ==
  schedule' = [schedule EXCEPT
    !.status = [i \in Installments |-> IF i \in chosen THEN outcome ELSE @[i]],
    !.covered = IF outcome = "paid" THEN @ \cup chosen ELSE @]

\* approveTenantUnlockRequest with emiAction waive: the first unpaid installment, if
\* there is one.  Neither this handler nor the next two settles the schedule.
WaiveRead(s) ==
  /\ Room
  /\ Begin(s, [op |-> "waive_commit", read |-> device])
  /\ UNCHANGED <<device, commands, schedule, now, crashes>>

WaiveCommit(s) ==
  /\ At(s, "waive_commit")
  /\ IF ControlAccepted(flight[s].read)
       THEN /\ Resolve({i \in Unpaid(schedule.status) : i = Earliest(Unpaid(schedule.status))},
                       "waived")
            /\ QueueControl("UNLOCK", NoDeadline)
       ELSE UNCHANGED <<device, commands, schedule>>
  /\ End(s)
  /\ UNCHANGED <<now, crashes>>

\* unlockAdminDeviceWithWaive: all unpaid installments, paid or waived.
ResolveRead(s) ==
  /\ Room
  /\ Begin(s, [op |-> "resolve_commit", read |-> device])
  /\ UNCHANGED <<device, commands, schedule, now, crashes>>

ResolveCommit(s, outcome) ==
  /\ At(s, "resolve_commit")
  /\ IF Unpaid(schedule.status) # {} /\ ControlAccepted(flight[s].read)
       THEN /\ Resolve(Unpaid(schedule.status), outcome)
            /\ QueueControl("UNLOCK", NoDeadline)
       ELSE UNCHANGED <<device, commands, schedule>>
  /\ End(s)
  /\ UNCHANGED <<now, crashes>>

\* unlockAdminEscalation: the same, with the device read inside the transaction.
EscalationResolve(outcome) ==
  /\ Room
  /\ Unpaid(schedule.status) # {}
  /\ ControlAccepted(device)
  /\ Resolve(Unpaid(schedule.status), outcome)
  /\ QueueControl("UNLOCK", NoDeadline)
  /\ UNCHANGED <<flight, now, crashes>>

-----------------------------------------------------------------------------
(* DeviceCommand.create outside a transaction: the hook reads the device, a   *)
(* later operation inserts the command, and the handler goes on with `then'.  *)

CreateHook(s) ==
  /\ At(s, "hook")
  /\ IF HookAccepts THEN Continue(s, [flight[s] EXCEPT !.op = "insert"])
                    ELSE End(s)
  /\ UNCHANGED <<device, commands, schedule, now, crashes>>

CreateInsert(s) ==
  /\ At(s, "insert")
  /\ commands' = Append(commands, flight[s].command)
  /\ Continue(s, flight[s].then)
  /\ UNCHANGED <<device, schedule, now, crashes>>

-----------------------------------------------------------------------------
(* runTempUnlockExpiryJob *)

\* Mutant of TempUnlockExpired: a deadline that is reached is not yet past.
TempUnlockPast(d, t) ==
  d.state = "TEMP_UNLOCK" /\ d.tempUntil # NoDeadline /\ d.tempUntil < t

TempUnlockExpired(d, t) ==
  d.state = "TEMP_UNLOCK" /\ d.tempUntil # NoDeadline /\ d.tempUntil <= t
TempUnlockActive(d, t) ==
  d.state = "TEMP_UNLOCK" /\ d.tempUntil # NoDeadline /\ d.tempUntil > t

Relocked == [device EXCEPT !.state = "LOCKED", !.policy = "EMI_LOCKED",
                           !.tempUntil = NoDeadline]

ExpiryFind(s) ==
  /\ TempUnlockExpired(device, now)
  /\ Begin(s, [op |-> "expiry_update", at |-> now])
  /\ UNCHANGED <<device, commands, schedule, now, crashes>>

\* The update rechecks the state and the deadline atomically.
ExpiryUpdate(s) ==
  /\ At(s, "expiry_update")
  /\ IF TempUnlockExpired(device, flight[s].at)
       THEN /\ device' = Relocked
            /\ Continue(s, [op |-> "expiry_supersede"])
       ELSE /\ UNCHANGED device
            /\ End(s)
  /\ UNCHANGED <<commands, schedule, now, crashes>>

ExpirySupersede(s) ==
  /\ At(s, "expiry_supersede")
  /\ commands' = ExpireActive(OfType({"TEMP_UNLOCK"}))
  /\ Continue(s, [op |-> "hook", then |-> Idle,
                  command |-> NewCommand("LOCK", "other", 0)])
  /\ UNCHANGED <<device, schedule, now, crashes>>

-----------------------------------------------------------------------------
(* runEmiPolicyJob, for the one schedule of this device.  Reminders are left   *)
(* out; `at' is the time the run started, `status' the installments it read.   *)

EmiFind(s) ==
  /\ Room
  /\ ~schedule.settled
  /\ Unpaid(schedule.status) # {}
  /\ Begin(s, [op |-> "emi_device", at |-> now, status |-> schedule.status])
  /\ UNCHANGED <<device, commands, schedule, now, crashes>>

EmiDevice(s) ==
  /\ At(s, "emi_device")
  /\ Continue(s, [op |-> "emi_save", at |-> flight[s].at, status |-> flight[s].status,
                  read |-> device])
  /\ UNCHANGED <<device, commands, schedule, now, crashes>>

\* schedule.save() writes the installments this run turned overdue, over whatever
\* they have become meanwhile.
EmiSave(s) ==
  LET f == flight[s]
      late == {i \in Installments : f.status[i] = "pending" /\ DueDate[i] < f.at}
  IN /\ At(s, "emi_save")
     /\ schedule' = [schedule EXCEPT !.status =
                       [i \in Installments |-> IF i \in late THEN "overdue" ELSE @[i]]]
     /\ Continue(s, [f EXCEPT !.op = "emi_grace"])
     /\ UNCHANGED <<device, commands, now, crashes>>

InGrace(status, t) ==
  {i \in Unpaid(status) : /\ DueDate[i] + Dpd <= t
                          /\ t < DueDate[i] + Dpd + GracePeriod}
Lockable(status, t) ==
  {i \in Unpaid(status) : DueDate[i] + Dpd + GracePeriod < t}

\* Mutant of EmiUpdateApplies: the filter on temporary unlocks is dropped.
EmiUpdateIgnoresTempUnlock(t) == device.state # "LOCKED"

\* The filter of both policy updates of the job, evaluated on the current device.
EmiUpdateApplies(t) == device.state # "LOCKED" /\ ~TempUnlockActive(device, t)

\* The device update into grace; without one the run goes on to the lock rule.
EmiGrace(s) ==
  LET f == flight[s]
      grace == InGrace(f.status, f.at)
      wanted == /\ grace # {} /\ GracePeriod > 0 /\ ~Manual
                /\ f.read.state # "LOCKED" /\ ~TempUnlockActive(f.read, f.at)
                /\ ~(f.read.state = "GRACE_PERIOD" /\ f.read.policy = "EMI_GRACE")
  IN /\ At(s, "emi_grace")
     /\ IF wanted /\ EmiUpdateApplies(f.at)
          THEN /\ device' = [device EXCEPT !.state = "GRACE_PERIOD", !.policy = "EMI_GRACE"]
               /\ Continue(s, [op |-> "emi_grace_check", installment |-> Earliest(grace),
                               then |-> [f EXCEPT !.op = "emi_lock_check"]])
          ELSE /\ UNCHANGED device
               /\ Continue(s, [f EXCEPT !.op = "emi_lock_check"])
     /\ UNCHANGED <<commands, schedule, now, crashes>>

EmiGraceCheck(s) ==
  LET f == flight[s]
      exists == \E c \in DOMAIN commands : /\ commands[c].type = "POLICY_UPDATE"
                                           /\ commands[c].installment = f.installment
                                           /\ Active(commands[c])
  IN /\ At(s, "emi_grace_check")
     /\ Continue(s, IF exists THEN f.then
                    ELSE [op |-> "hook", then |-> f.then, command |->
                            NewCommand("POLICY_UPDATE", "emi_policy", f.installment)])
     /\ UNCHANGED <<device, commands, schedule, now, crashes>>

\* The lock rule works on the device as the run first read it.
EmiLockCheck(s) ==
  LET f == flight[s]
      exists == \E c \in DOMAIN commands : /\ commands[c].type = "LOCK"
                                           /\ commands[c].origin = "emi_policy"
                                           /\ Active(commands[c])
  IN /\ At(s, "emi_lock_check")
     /\ IF /\ ~Manual /\ CapabilityHolds(f.read)
          /\ f.read.state # "LOCKED" /\ ~TempUnlockActive(f.read, f.at)
          /\ Lockable(f.status, f.at) # {}
          /\ ~exists
         THEN Continue(s, [f EXCEPT !.op = "emi_lock"])
         ELSE End(s)
     /\ UNCHANGED <<device, commands, schedule, now, crashes>>

EmiLock(s) ==
  LET f == flight[s] IN
  /\ At(s, "emi_lock")
  /\ IF EmiUpdateApplies(f.at)
       THEN /\ device' = Relocked
            /\ Continue(s, [op |-> "hook", then |-> Idle,
                            command |-> NewCommand("LOCK", "emi_policy", 0)])
       ELSE /\ UNCHANGED device
            /\ End(s)
  /\ UNCHANGED <<commands, schedule, now, crashes>>

-----------------------------------------------------------------------------
(* enforceRiskAutoLock, for one critical risk flag raised by the phone *)

RiskRead(s) ==
  /\ Room
  /\ device.state \notin ReleaseStates \cup {"LOCKED"}
  /\ Begin(s, [op |-> "risk_check"])
  /\ UNCHANGED <<device, commands, schedule, now, crashes>>

RiskCheck(s) ==
  LET exists == \E c \in DOMAIN commands : /\ commands[c].type = "LOCK"
                                           /\ commands[c].origin = "risk_auto_lock"
                                           /\ Active(commands[c])
  IN /\ At(s, "risk_check")
     /\ IF exists THEN End(s) ELSE Continue(s, [op |-> "risk_lock"])
     /\ UNCHANGED <<device, commands, schedule, now, crashes>>

RiskLock(s) ==
  /\ At(s, "risk_lock")
  /\ IF device.state # "LOCKED"
       THEN /\ device' = Relocked
            /\ Continue(s, [op |-> "hook", then |-> Idle,
                            command |-> NewCommand("LOCK", "risk_auto_lock", 0)])
       ELSE /\ UNCHANGED device
            /\ End(s)
  /\ UNCHANGED <<commands, schedule, now, crashes>>

-----------------------------------------------------------------------------
(* runFcmDeliveryBatch, for one command.  The back-off of nextRetryAt only     *)
(* delays a retry, so it is left to the interleaving.                          *)

Deliverable(c) ==
  /\ c.retries < MaxRetries
  /\ \/ c.status = "pending"
     \/ c.status = "failed" /\ c.source # "device_enforcement"

SendFind(s, c) ==
  /\ c \in DOMAIN commands
  /\ Deliverable(commands[c])
  /\ Begin(s, [op |-> "send", cmd |-> c, seen |-> commands[c]])
  /\ UNCHANGED <<device, commands, schedule, now, crashes>>

\* command.save() after the push: the paths changed since SendFind overwrite the
\* document's.
SendSave(s, delivered) ==
  LET seen == flight[s].seen IN
  /\ At(s, "send")
  /\ commands' = [commands EXCEPT ![flight[s].cmd] =
       IF delivered
         THEN SavedCommand(@, seen, "sent", "none")
         ELSE [SavedCommand(@, seen, "failed", "delivery") EXCEPT !.retries = seen.retries + 1]]
  /\ End(s)
  /\ UNCHANGED <<device, schedule, now, crashes>>

-----------------------------------------------------------------------------
(* acknowledgeDeviceCommand: four operations, none of them in a transaction.   *)
(* The phone may acknowledge any command created before the request, for it    *)
(* can have fetched it while it was pending.                                   *)

Outcomes == {"acknowledged", "failed"}

AckRead(s, c, outcome) ==
  /\ c \in DOMAIN commands
  /\ Begin(s, [op |-> "ack_read", cmd |-> c, outcome |-> outcome, read |-> device])
  /\ UNCHANGED <<device, commands, schedule, now, crashes>>

Terminal(c) ==
  \/ c.status = "acknowledged"
  \/ c.status = "failed" /\ c.source = "device_enforcement"

\* Mutant of AckAccepted: a superseded temporary unlock is not told apart.
AckAcceptedWithoutDeadline(read, c) ==
  (read.state \in ReleaseStates => c.type = "RELEASE_DEVICE") /\ ~Terminal(c)

\* The checks made on the device as read and the command as read now.
AckAccepted(read, c) ==
  /\ read.state \in ReleaseStates => c.type = "RELEASE_DEVICE"
  /\ Running /\ c.type = "TEMP_UNLOCK" /\ c.status \notin Outcomes
       => TempUnlockActive(read, now)
  /\ ~Terminal(c)

\* Mutant of AckOp: the command is saved and the device is left alone.
AckOpSkipsDevice(outcome) == "ack_status"

\* A success is applied to the device before the command is saved.
AckOp(outcome) == IF outcome = "acknowledged" THEN "ack_device" ELSE "ack_status"

AckCommand(s) ==
  LET f == flight[s]
      c == commands[f.cmd]
  IN /\ At(s, "ack_read")
     /\ IF AckAccepted(f.read, c)
          THEN Continue(s, [op |-> AckOp(f.outcome), cmd |-> f.cmd, outcome |-> f.outcome,
                            read |-> f.read, seen |-> c])
          ELSE End(s)
     /\ UNCHANGED <<device, commands, schedule, now, crashes>>

AckTarget == [LOCK |-> "LOCKED", UNLOCK |-> "ACTIVE", TEMP_UNLOCK |-> "TEMP_UNLOCK",
              POLICY_UPDATE |-> "GRACE_PERIOD", RELEASE_DEVICE |-> "RELEASED"]

\* device.save(): a release also unsets the deadline.
AckDevice(s) ==
  LET f == flight[s] IN
  /\ At(s, "ack_device")
  /\ device' = [device EXCEPT
       !.state = Saved(f.read.state, AckTarget[f.seen.type], @),
       !.tempUntil = IF f.seen.type = "RELEASE_DEVICE" THEN Saved(f.read.tempUntil, NoDeadline, @)
                                                       ELSE @]
  /\ Continue(s, [f EXCEPT !.op = "ack_status"])
  /\ UNCHANGED <<commands, schedule, now, crashes>>

\* command.save()
AckStatus(s) ==
  LET f == flight[s]
      released == f.seen.type = "RELEASE_DEVICE" /\ f.outcome = "acknowledged"
      source == IF f.outcome = "failed" THEN "device_enforcement" ELSE "none"
  IN /\ At(s, "ack_status")
     /\ commands' = [commands EXCEPT ![f.cmd] = SavedCommand(@, f.seen, f.outcome, source)]
     /\ IF released THEN Continue(s, [op |-> "ack_cleanup", cmd |-> f.cmd]) ELSE End(s)
     /\ UNCHANGED <<device, schedule, now, crashes>>

\* Every other release command is superseded by the one that succeeded.
AckCleanup(s) ==
  /\ At(s, "ack_cleanup")
  /\ commands' = ExpireActive(OfType({"RELEASE_DEVICE"}) \ {flight[s].cmd})
  /\ End(s)
  /\ UNCHANGED <<device, schedule, now, crashes>>

-----------------------------------------------------------------------------
Step(s) ==   \* the next operation of a handler or job run in progress
  \/ ControlCommit(s) \/ ReleaseCommit(s)
  \/ \E full \in FullyPaid, part \in BOOLEAN : ApproveCommit(s, full, part)
  \/ WaiveCommit(s)
  \/ \E outcome \in {"paid", "waived"} : ResolveCommit(s, outcome)
  \/ CreateHook(s) \/ CreateInsert(s)
  \/ ExpiryUpdate(s) \/ ExpirySupersede(s)
  \/ EmiDevice(s) \/ EmiSave(s) \/ EmiGrace(s) \/ EmiGraceCheck(s)
  \/ EmiLockCheck(s) \/ EmiLock(s)
  \/ RiskCheck(s) \/ RiskLock(s)
  \/ \E delivered \in BOOLEAN : SendSave(s, delivered)
  \/ AckCommand(s) \/ AckDevice(s) \/ AckStatus(s) \/ AckCleanup(s)

Deadlines(type) == IF type = "TEMP_UNLOCK" THEN now + 1 .. MaxTime ELSE {NoDeadline}

Start(s) ==  \* a request arrives or a timer fires
  \/ "control" \in Handlers /\ \E type \in ControlTypes :
       \E until \in Deadlines(type) : ControlRead(s, type, until)
  \/ "release" \in Handlers /\ ReleaseRead(s)
  \/ "approve" \in Handlers /\ ApproveRead(s)
  \/ "waive" \in Handlers /\ WaiveRead(s)
  \/ "resolve" \in Handlers /\ ResolveRead(s)
  \/ "expiry" \in Handlers /\ ExpiryFind(s)
  \/ "emi" \in Handlers /\ EmiFind(s)
  \/ "risk" \in Handlers /\ RiskRead(s)
  \/ "send" \in Handlers /\ \E c \in DOMAIN commands : SendFind(s, c)
  \/ "ack" \in Handlers /\ \E c \in DOMAIN commands, outcome \in Outcomes : AckRead(s, c, outcome)

AtOnce ==  \* requests that are one transaction from their first read on
  \/ "tenant" \in Handlers /\ \E type \in {"LOCK", "UNLOCK"} : TenantControl(type)
  \/ "escalation" \in Handlers /\ \E type \in {"UNLOCK", "TEMP_UNLOCK"} :
       \E until \in Deadlines(type) : EscalationControl(type, until)
  \/ "escalation" \in Handlers /\ \E outcome \in {"paid", "waived"} : EscalationResolve(outcome)
  \/ "mark_paid" \in Handlers /\ \E i \in Installments : MarkPaid(i)

Next ==
  \/ \E s \in Slots : Start(s) \/ Step(s) \/ Crash(s)
  \/ AtOnce
  \/ Tick

Spec == Init /\ [][Next]_vars

\* A handler that is not abandoned runs on.  The expiry job starts every minute;
\* strongly fair because all slots may be taken when it would.
FairSpec == /\ Spec
            /\ \A s \in Slots : WF_vars(Step(s))
            /\ SF_vars(\E s \in Slots : ExpiryFind(s))

-----------------------------------------------------------------------------
(* Types *)

CommandIds == 1 .. Len(commands)
InstallmentMaps == [Installments -> InstallmentStatuses]

ControlFlights == [op : {"control_commit"}, type : ControlTypes,
                   until : Nat \cup {NoDeadline}, read : DeviceDocs]
ReadFlights == [op : {"approve_commit", "waive_commit", "resolve_commit"}, read : DeviceDocs]
ReleaseFlights == [op : {"release_commit"}, read : DeviceDocs, schedule : ScheduleDocs]
ExpiryFlights == [op : {"expiry_update"}, at : Nat] \cup [op : {"expiry_supersede"}]
FoundFlights == [op : {"emi_device"}, at : Nat, status : InstallmentMaps]
EmiFlights == [op : {"emi_save", "emi_grace", "emi_lock_check", "emi_lock"}, at : Nat,
               status : InstallmentMaps, read : DeviceDocs]
Continuations == {Idle} \cup {f \in EmiFlights : f.op = "emi_lock_check"}
GraceFlights == [op : {"emi_grace_check"}, installment : Installments, then : Continuations]
JobCommands ==
  {c \in CommandDocs : c.type \in {"LOCK", "POLICY_UPDATE"} /\ c.status = "pending"}
CreateFlights == [op : {"hook", "insert"}, command : JobCommands, then : Continuations]
RiskFlights == [op : {"risk_check", "risk_lock"}]
SendFlights == [op : {"send"}, cmd : CommandIds, seen : CommandDocs]
AckReadFlights == [op : {"ack_read"}, cmd : CommandIds, outcome : Outcomes, read : DeviceDocs]
AckFlights == [op : {"ack_device", "ack_status"}, cmd : CommandIds, outcome : Outcomes,
               read : DeviceDocs, seen : CommandDocs]
CleanupFlights == [op : {"ack_cleanup"}, cmd : CommandIds]

Flights ==
  {Idle} \cup ControlFlights \cup ReadFlights \cup ReleaseFlights \cup ExpiryFlights
    \cup FoundFlights \cup EmiFlights \cup GraceFlights \cup CreateFlights \cup RiskFlights
    \cup SendFlights \cup AckReadFlights \cup AckFlights \cup CleanupFlights

TypeOK ==
  /\ device \in DeviceDocs
  /\ commands \in Seq(CommandDocs)
  /\ schedule \in ScheduleDocs
  /\ flight \in [Slots -> Flights]
  /\ now \in 0 .. MaxTime
  /\ crashes \in 0 .. MaxCrashes

-----------------------------------------------------------------------------
(* Properties that hold *)

\* The schedule is settled exactly when a permanent release has been queued, and a
\* device being released belongs to a settled schedule: settlement and release are
\* committed together by every handler that settles, and no other handler, late
\* acknowledgement or job produces either half.
SettledIffReleaseQueued ==
  /\ schedule.settled <=> OfType({"RELEASE_DEVICE"}) # {}
  /\ device.state \in ReleaseStates => schedule.settled

\* SettledIffReleaseQueued with what the handlers in progress know: a release that
\* has read a settled schedule finds it settled, and an acknowledgement applies to the
\* device the type of the command it acknowledges.
SettledInv ==
  /\ SettledIffReleaseQueued
  /\ \A s \in Slots :
       /\ At(s, "release_commit") /\ flight[s].schedule.settled => schedule.settled
       /\ flight[s].op \in {"ack_device", "ack_status"}
            => flight[s].seen.type = commands[flight[s].cmd].type

PendingState == [UNLOCK |-> "UNLOCK_PENDING", RELEASE_DEVICE |-> "RELEASE_PENDING"]
IsLatest(c) == \A i \in OfType({commands[c].type}) : i <= c
Open(type) == \E c \in OfType({type}) : IsLatest(c) /\ commands[c].status # "acknowledged"

\* A transient state always has its command: while the device is UNLOCK_PENDING
\* (RELEASE_PENDING) the latest unlock (release) command exists and has not been
\* acknowledged, whatever acknowledgements of earlier ones arrive meanwhile.
PendingIsOpen ==
  \A type \in DOMAIN PendingState : device.state = PendingState[type] => Open(type)

\* PendingIsOpen with why it is kept: an acknowledgement in progress of that latest
\* command has still to save the device, and will find the state it assigns new.
PendingInv ==
  \A type \in DOMAIN PendingState :
    device.state = PendingState[type] =>
      /\ Open(type)
      /\ \A s \in Slots :
           /\ flight[s].op \in {"ack_read", "ack_device", "ack_status"}
           /\ flight[s].outcome = "acknowledged"
           /\ commands[flight[s].cmd].type = type
           /\ IsLatest(flight[s].cmd)
           => flight[s].op # "ack_status" /\ flight[s].read.state # AckTarget[type]

\* The two together, which the proofs carry through every step: no release without a
\* settled schedule, and no transient state without its command, whatever the handlers
\* in progress have read.
LifecycleInv == SettledInv /\ PendingInv

JobOps == {"expiry_update", "emi_device", "emi_save", "emi_grace", "emi_grace_check",
           "emi_lock_check", "emi_lock"}

\* A step of the EMI policy job or of the expiry job never ends a temporary unlock
\* before its deadline, also when it was granted after the job read the device.
JobsRespectTempUnlock ==
  [][(\E s \in Slots : flight[s].op \in JobOps /\ flight'[s] # flight[s])
       /\ device.state = "TEMP_UNLOCK" /\ device.tempUntil > now
     => device'.state = "TEMP_UNLOCK" /\ device'.tempUntil = device.tempUntil]_vars

\* A temporary unlock that no job would end.
Endless == Running /\ device.state = "TEMP_UNLOCK" /\ device.tempUntil = NoDeadline

\* A running-app device comes to a temporary unlock without a deadline in two ways
\* only: the phone confirms a temporary unlock that was recorded as failed, which skips
\* the time check, or it confirms a release once more after the device was released.  In
\* particular a temporary unlock that was superseded or ran out never revives that way,
\* whatever overlaps its confirmation.
EndlessUnlockNeedsFailure ==
  [][~Endless /\ Endless' =>
       \E s \in Slots :
         /\ At(s, "ack_device")
         /\ \/ /\ flight[s].seen.type = "TEMP_UNLOCK"
               /\ flight[s].seen.status = "failed"
               /\ flight[s].seen.source # "device_enforcement"
            \/ flight[s].seen.type = "RELEASE_DEVICE" /\ flight[s].read.state = "RELEASED"]_vars

\* A temporary unlock past its deadline is ended, by the expiry job or otherwise.
TempUnlockExpires ==
  []<>~(device.state = "TEMP_UNLOCK" /\ 0 <= device.tempUntil /\ device.tempUntil <= now)

-----------------------------------------------------------------------------
(* What the documentation or a comment says and the code does not guarantee   *)

\* device-states.md 2.6: "The device must not return to GRACE_PERIOD or LOCKED."  The
\* EMI policy job acts on the schedule it read before the release was queued.
ReleasePendingNotRelocked ==
  [][device.state = "RELEASE_PENDING" => device'.state \notin {"GRACE_PERIOD", "LOCKED"}]_vars
=============================================================================
