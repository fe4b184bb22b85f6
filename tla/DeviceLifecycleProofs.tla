----------------------- MODULE DeviceLifecycleProofs -------------------------
(***************************************************************************)
(* What holds of DeviceLifecycle for every set of slots, handlers and      *)
(* installments and for every policy: the types of its state, that a       *)
(* device is released exactly when its schedule is settled, that a         *)
(* transient state has a command that will end it, that no scheduled job   *)
(* cuts a temporary unlock short, and how one may lose its deadline.       *)
(***************************************************************************)
EXTENDS DeviceLifecycle, SequenceTheorems, WellFoundedInduction, TLAPS

-----------------------------------------------------------------------------
(* Data *)

\* A set of installments that is not empty has an earliest member.
LEMMA EarliestType ==
  ASSUME NEW S \in SUBSET Installments, S # {}
  PROVE  Earliest(S) \in S
<1>1. Installments \subseteq Nat
  BY InstallmentsAssumption
<1>2. PICK i \in S : \A j \in S : ~(<<j, i>> \in OpToRel(<, Nat))
  BY <1>1, NatLessThanWellFounded, WFMin, Zenon
<1>3. \A j \in S : i <= j
  <2>1. ASSUME NEW j \in S, j < i PROVE FALSE
    <3>1. <<j, i>> \in OpToRel(<, Nat)
      BY <1>1, <2>1 DEF OpToRel
    <3> QED  BY <1>2, <3>1
  <2> QED  BY <1>1, <2>1
<1> QED  BY <1>3 DEF Earliest

\* Superseding commands changes none but their status.
LEMMA ExpireActiveType ==
  ASSUME TypeOK, NEW chosen
  PROVE  /\ ExpireActive(chosen) \in Seq(CommandDocs)
         /\ Len(ExpireActive(chosen)) = Len(commands)
         /\ \A i \in CommandIds : /\ ExpireActive(chosen)[i].type = commands[i].type
                                  /\ ExpireActive(chosen)[i].retries = commands[i].retries
                                  /\ ExpireActive(chosen)[i].status \in {commands[i].status, "expired"}
<1>1. commands \in [1 .. Len(commands) -> CommandDocs] /\ Len(commands) \in Nat
  BY LenProperties DEF TypeOK
<1>2. ExpireActive(chosen) \in [1 .. Len(commands) -> CommandDocs]
  BY <1>1 DEF ExpireActive, CommandDocs, CommandStatuses
<1>3. ExpireActive(chosen) \in Seq(CommandDocs)
  BY <1>1, <1>2, SeqDef
<1>4. Len(ExpireActive(chosen)) = Len(commands)
  BY <1>1, <1>2, <1>3, LenProperties
<1> QED
  BY <1>1, <1>2, <1>3, <1>4 DEF ExpireActive, CommandDocs, CommandIds

\* A flight's operation tells which documents it carries.
LEMMA FlightByOp ==
  ASSUME TypeOK, NEW s \in Slots
  PROVE  /\ At(s, "control_commit") => flight[s] \in ControlFlights
         /\ flight[s].op \in {"approve_commit", "waive_commit", "resolve_commit"}
              => flight[s] \in ReadFlights
         /\ At(s, "release_commit") => flight[s] \in ReleaseFlights
         /\ flight[s].op \in {"expiry_update", "expiry_supersede"} => flight[s] \in ExpiryFlights
         /\ At(s, "emi_device") => flight[s] \in FoundFlights
         /\ flight[s].op \in {"emi_save", "emi_grace", "emi_lock_check", "emi_lock"}
              => flight[s] \in EmiFlights
         /\ At(s, "emi_grace_check") => flight[s] \in GraceFlights
         /\ flight[s].op \in {"hook", "insert"} => flight[s] \in CreateFlights
         /\ At(s, "send") => flight[s] \in SendFlights
         /\ At(s, "ack_read") => flight[s] \in AckReadFlights
         /\ flight[s].op \in {"ack_device", "ack_status"} => flight[s] \in AckFlights
         /\ At(s, "ack_cleanup") => flight[s] \in CleanupFlights
<1> flight[s] \in Flights
  BY DEF TypeOK
<1> USE DEF At, Flights, Idle, ControlFlights, ReadFlights, ReleaseFlights, ExpiryFlights,
            FoundFlights, EmiFlights, GraceFlights, CreateFlights, RiskFlights, SendFlights,
            AckReadFlights, AckFlights, CleanupFlights
<1> QED  OBVIOUS

\* A step of one handler leaves the other flights alone.
LEMMA OneFlight ==
  ASSUME NEW s \in Slots, Start(s) \/ Step(s) \/ Crash(s)
  PROVE  \E f : flight' = [flight EXCEPT ![s] = f]
BY DEF Start, ControlRead, ReleaseRead, ApproveRead, WaiveRead, ResolveRead, ExpiryFind, EmiFind,
       RiskRead, SendFind, AckRead, Begin, Crash,
       Step, ControlCommit, ReleaseCommit, ApproveCommit, WaiveCommit, ResolveCommit, CreateHook,
       CreateInsert, ExpiryUpdate, ExpirySupersede, EmiDevice, EmiSave, EmiGrace, EmiGraceCheck,
       EmiLockCheck, EmiLock, RiskCheck, RiskLock, SendSave, AckCommand, AckDevice, AckStatus,
       AckCleanup,
       Continue, End

-----------------------------------------------------------------------------
(* Type correctness *)

\* The bound on command ids only grows, so a flight keeps its type.
LEMMA FlightsGrow ==
  ASSUME TypeOK, Len(commands') \in Nat, Len(commands) <= Len(commands')
  PROVE  Flights \subseteq Flights'
<1>1. Len(commands) \in Nat
  BY DEF TypeOK
<1>2. CommandIds \subseteq CommandIds'
  BY <1>1 DEF CommandIds
<1>3. /\ SendFlights \subseteq SendFlights'
      /\ AckReadFlights \subseteq AckReadFlights'
      /\ AckFlights \subseteq AckFlights'
      /\ CleanupFlights \subseteq CleanupFlights'
  BY <1>2 DEF SendFlights, AckReadFlights, AckFlights, CleanupFlights
<1> QED  BY <1>3 DEF Flights

\* What a step of one flight has to establish.
LEMMA OneFlightType ==
  ASSUME TypeOK, NEW s \in Slots, NEW f \in Flights',
         flight' = [flight EXCEPT ![s] = f],
         device' \in DeviceDocs, commands' \in Seq(CommandDocs),
         Len(commands) <= Len(commands'), schedule' \in ScheduleDocs,
         UNCHANGED <<now, crashes>>
  PROVE  TypeOK'
<1>1. Flights \subseteq Flights'
  BY FlightsGrow
<1>2. flight' \in [Slots -> Flights']
  BY <1>1 DEF TypeOK
<1> QED  BY <1>2 DEF TypeOK

\* A step that reads and goes on changes its flight only.
LEMMA OnlyFlightType ==
  ASSUME TypeOK, NEW s \in Slots, NEW f \in Flights,
         flight' = [flight EXCEPT ![s] = f],
         UNCHANGED <<device, commands, schedule, now, crashes>>
  PROVE  TypeOK'
<1>1. Flights' = Flights
  BY DEF Flights, SendFlights, AckReadFlights, AckFlights, CleanupFlights, CommandIds
<1> QED  BY <1>1 DEF TypeOK

\* Queueing a control appends its command.
LEMMA QueueControlType ==
  ASSUME TypeOK, NEW type \in ControlTypes, NEW until \in Nat \cup {NoDeadline},
         QueueControl(type, until)
  PROVE  /\ device' \in DeviceDocs
         /\ commands' \in Seq(CommandDocs)
         /\ commands' = Append(commands, NewCommand(type, "other", 0))
         /\ Len(commands') = Len(commands) + 1
<1>1. device' \in DeviceDocs
  BY DEF QueueControl, DeviceDocs, ControlTypes, TargetState, TargetPolicy, DeviceStates,
         PolicyKeys
<1>2. NewCommand(type, "other", 0) \in CommandDocs
  BY DEF NewCommand, CommandDocs, CommandTypes, CommandStatuses, FailureSources, Origins
<1> QED  BY <1>1, <1>2 DEF QueueControl, TypeOK

\* Queueing a release supersedes the other commands and appends its own.
LEMMA QueueReleaseType ==
  ASSUME TypeOK, QueueRelease
  PROVE  /\ device' \in DeviceDocs
         /\ commands' \in Seq(CommandDocs)
         /\ Len(commands') = Len(commands) + 1
         /\ \A i \in CommandIds : commands'[i].type = commands[i].type
         /\ commands'[Len(commands) + 1] = NewCommand("RELEASE_DEVICE", "other", 0)
<1> DEFINE kept == ExpireActive(OfType(CommandTypes \ {"RELEASE_DEVICE"}))
<1>1. device' \in DeviceDocs
  BY DEF QueueRelease, TypeOK, DeviceDocs, DeviceStates, NoDeadline
<1>2. NewCommand("RELEASE_DEVICE", "other", 0) \in CommandDocs
  BY DEF NewCommand, CommandDocs, CommandTypes, CommandStatuses, FailureSources, Origins
<1>3. /\ kept \in Seq(CommandDocs) /\ Len(kept) = Len(commands)
      /\ \A i \in CommandIds : kept[i].type = commands[i].type
  BY ExpireActiveType
<1>4. commands' = Append(kept, NewCommand("RELEASE_DEVICE", "other", 0))
  BY DEF QueueRelease
<1> HIDE DEF kept
<1> QED  BY <1>1, <1>2, <1>3, <1>4 DEF CommandIds, TypeOK

\* The initial state is well typed.
LEMMA InitType == Init => TypeOK
<1> SUFFICES ASSUME Init PROVE TypeOK
  OBVIOUS
<1>1. device \in DeviceDocs
  BY DEF Init, DeviceDocs, DeviceStates, PolicyKeys
<1>2. schedule \in ScheduleDocs
  BY DEF Init, ScheduleDocs, InstallmentStatuses
<1>3. flight \in [Slots -> Flights]
  BY DEF Init, Flights
<1> QED  BY <1>1, <1>2, <1>3, BoundAssumption DEF Init, TypeOK

\* What a request that is one transaction has to establish.
LEMMA DocumentsType ==
  ASSUME TypeOK, device' \in DeviceDocs, commands' \in Seq(CommandDocs),
         Len(commands) <= Len(commands'), schedule' \in ScheduleDocs,
         UNCHANGED <<flight, now, crashes>>
  PROVE  TypeOK'
<1>1. Flights \subseteq Flights'
  BY FlightsGrow
<1>2. flight' \in [Slots -> Flights']
  BY <1>1 DEF TypeOK
<1> QED  BY <1>2 DEF TypeOK

\* Ending a handler leaves its slot free.
LEMMA EndType ==
  ASSUME TypeOK, NEW s \in Slots, End(s),
         device' \in DeviceDocs, commands' \in Seq(CommandDocs),
         Len(commands) <= Len(commands'), schedule' \in ScheduleDocs,
         UNCHANGED <<now, crashes>>
  PROVE  TypeOK'
<1>1. Idle \in Flights'
  BY DEF Flights
<1> QED  BY <1>1, OneFlightType DEF End

\* Settling keeps the form of the schedule.
LEMMA SettleType ==
  ASSUME TypeOK, NEW covered \in SUBSET Installments, NEW status \in InstallmentMaps
  PROVE  Settle(covered, status) \in ScheduleDocs
BY DEF TypeOK, ScheduleDocs, InstallmentMaps, Settle, NewlySettled, Completed

\* So does resolving installments.
LEMMA ResolveType ==
  ASSUME TypeOK, NEW chosen \in SUBSET Installments, NEW outcome \in {"paid", "waived"},
         Resolve(chosen, outcome)
  PROVE  schedule' \in ScheduleDocs
BY DEF TypeOK, ScheduleDocs, InstallmentStatuses, Resolve

\* A payment applied leaves every installment with a status.
LEMMA AppliedType ==
  ASSUME TypeOK, NEW full \in FullyPaid, NEW part \in BOOLEAN
  PROVE  full \in SUBSET Installments /\ Applied(full, part) \in InstallmentMaps
<1>1. full \in SUBSET Installments
  BY DEF FullyPaid, Outstanding, Unpaid
<1>2. Applied(full, part) \in InstallmentMaps
  BY DEF Applied, InstallmentMaps, InstallmentStatuses, TypeOK, ScheduleDocs
<1> QED  BY <1>1, <1>2

\* The deadline of a control is a day, or absent.
LEMMA DeadlinesType ==
  ASSUME TypeOK, NEW type, NEW until \in Deadlines(type)
  PROVE  until \in Nat \cup {NoDeadline}
BY BoundAssumption DEF Deadlines, TypeOK

\* Starting a handler preserves the types.
LEMMA StartType == ASSUME TypeOK, NEW s \in Slots, Start(s) PROVE TypeOK'
<1>0. /\ device \in DeviceDocs /\ schedule \in ScheduleDocs /\ now \in Nat
      /\ commands \in [CommandIds -> CommandDocs] /\ DOMAIN commands = CommandIds
  BY LenProperties, BoundAssumption DEF TypeOK, CommandIds
<1>1. ASSUME NEW type \in ControlTypes, NEW until \in Deadlines(type),
             ControlRead(s, type, until)
      PROVE  TypeOK'
  <2>1. [op |-> "control_commit", type |-> type, until |-> until, read |-> device] \in Flights
    BY <1>0, DeadlinesType DEF Flights, ControlFlights
  <2> QED  BY <1>1, <2>1, OnlyFlightType DEF ControlRead, Begin
<1>2. CASE ReleaseRead(s)
  <2>1. [op |-> "release_commit", read |-> device, schedule |-> schedule] \in Flights
    BY <1>0 DEF Flights, ReleaseFlights
  <2> QED  BY <1>2, <2>1, OnlyFlightType DEF ReleaseRead, Begin
<1>3. CASE ApproveRead(s) \/ WaiveRead(s) \/ ResolveRead(s)
  <2>1. \A op \in {"approve_commit", "waive_commit", "resolve_commit"} :
          [op |-> op, read |-> device] \in Flights
    BY <1>0 DEF Flights, ReadFlights
  <2> QED  BY <1>3, <2>1, OnlyFlightType DEF ApproveRead, WaiveRead, ResolveRead, Begin
<1>4. CASE ExpiryFind(s)
  <2>1. [op |-> "expiry_update", at |-> now] \in Flights
    BY <1>0 DEF Flights, ExpiryFlights
  <2> QED  BY <1>4, <2>1, OnlyFlightType DEF ExpiryFind, Begin
<1>5. CASE EmiFind(s)
  <2>1. [op |-> "emi_device", at |-> now, status |-> schedule.status] \in Flights
    BY <1>0 DEF Flights, FoundFlights, ScheduleDocs, InstallmentMaps
  <2> QED  BY <1>5, <2>1, OnlyFlightType DEF EmiFind, Begin
<1>6. CASE RiskRead(s)
  <2>1. [op |-> "risk_check"] \in Flights
    BY DEF Flights, RiskFlights
  <2> QED  BY <1>6, <2>1, OnlyFlightType DEF RiskRead, Begin
<1>7. ASSUME NEW c \in DOMAIN commands, SendFind(s, c) PROVE TypeOK'
  <2>1. [op |-> "send", cmd |-> c, seen |-> commands[c]] \in Flights
    BY <1>0 DEF Flights, SendFlights
  <2> QED  BY <1>7, <2>1, OnlyFlightType DEF SendFind, Begin
<1>8. ASSUME NEW c \in DOMAIN commands, NEW outcome \in Outcomes, AckRead(s, c, outcome)
      PROVE  TypeOK'
  <2>1. [op |-> "ack_read", cmd |-> c, outcome |-> outcome, read |-> device] \in Flights
    BY <1>0 DEF Flights, AckReadFlights
  <2> QED  BY <1>8, <2>1, OnlyFlightType DEF AckRead, Begin
<1> QED  BY <1>1, <1>2, <1>3, <1>4, <1>5, <1>6, <1>7, <1>8 DEF Start

\* A request that is one transaction preserves the types.
LEMMA AtOnceType == ASSUME TypeOK, AtOnce PROVE TypeOK'
<1>0. device \in DeviceDocs /\ schedule \in ScheduleDocs /\ Len(commands) \in Nat
  BY DEF TypeOK
<1>1. ASSUME NEW type \in {"LOCK", "UNLOCK"}, TenantControl(type) PROVE TypeOK'
  BY <1>0, <1>1, QueueControlType, DocumentsType DEF TenantControl, ControlTypes, NoDeadline
<1>2. ASSUME NEW type \in {"UNLOCK", "TEMP_UNLOCK"}, NEW until \in Deadlines(type),
             EscalationControl(type, until)
      PROVE  TypeOK'
  <2>1. until \in Nat \cup {NoDeadline} /\ type \in ControlTypes
    BY DeadlinesType DEF ControlTypes
  <2>2. QueueControl(type, until) /\ UNCHANGED <<schedule, flight, now, crashes>>
    BY <1>2 DEF EscalationControl
  <2> QED  BY <1>0, <2>1, <2>2, QueueControlType, DocumentsType
<1>3. ASSUME NEW outcome \in {"paid", "waived"}, EscalationResolve(outcome) PROVE TypeOK'
  <2>1. schedule' \in ScheduleDocs
    BY <1>3, ResolveType DEF EscalationResolve, Unpaid
  <2> QED
    BY <1>0, <1>3, <2>1, QueueControlType, DocumentsType
       DEF EscalationResolve, ControlTypes, NoDeadline
<1>4. ASSUME NEW i \in Installments, MarkPaid(i) PROVE TypeOK'
  <2>1. schedule' \in ScheduleDocs
    <3>1. /\ [schedule.status EXCEPT ![i] = "paid"] \in InstallmentMaps
          /\ schedule.covered \cup {i} \in SUBSET Installments
      BY <1>0 DEF ScheduleDocs, InstallmentMaps, InstallmentStatuses
    <3> QED  BY <1>4, <3>1, SettleType DEF MarkPaid
  <2>2. CASE QueueRelease
    BY <1>0, <1>4, <2>1, <2>2, QueueReleaseType, DocumentsType DEF MarkPaid
  <2>3. CASE QueueControl("UNLOCK", NoDeadline)
    BY <1>0, <1>4, <2>1, <2>3, QueueControlType, DocumentsType
       DEF MarkPaid, ControlTypes, NoDeadline
  <2>4. CASE UNCHANGED <<device, commands>>
    BY <1>0, <1>4, <2>1, <2>4, DocumentsType DEF MarkPaid, TypeOK
  <2> QED  BY <1>4, <2>2, <2>3, <2>4 DEF MarkPaid
<1> QED  BY <1>1, <1>2, <1>3, <1>4 DEF AtOnce

\* A path saved holds the value assigned or the one already there.
LEMMA SavedType ==
  ASSUME NEW S, NEW seen, NEW assigned \in S, NEW current \in S
  PROVE  Saved(seen, assigned, current) \in S
BY DEF Saved

\* Saving the status and the source of a command keeps its form.
LEMMA SavedCommandType ==
  ASSUME NEW c \in CommandDocs, NEW seen \in CommandDocs,
         NEW status \in CommandStatuses, NEW source \in FailureSources
  PROVE  /\ SavedCommand(c, seen, status, source) \in CommandDocs
         /\ SavedCommand(c, seen, status, source).type = c.type
         /\ SavedCommand(c, seen, status, source).status = Saved(seen.status, status, c.status)
<1>1. /\ Saved(seen.status, status, c.status) \in CommandStatuses
      /\ Saved(seen.source, source, c.source) \in FailureSources
  BY SavedType DEF CommandDocs
<1> QED  BY <1>1 DEF SavedCommand, CommandDocs

\* So does saving one command among the others.
LEMMA OneCommandType ==
  ASSUME TypeOK, NEW c \in CommandIds, NEW d \in CommandDocs,
         commands' = [commands EXCEPT ![c] = d]
  PROVE  /\ commands' \in Seq(CommandDocs)
         /\ Len(commands') = Len(commands)
<1>1. commands \in [1 .. Len(commands) -> CommandDocs] /\ Len(commands) \in Nat
  BY LenProperties DEF TypeOK
<1>2. commands' \in [1 .. Len(commands) -> CommandDocs]
  BY <1>1 DEF CommandIds
<1> QED  BY <1>1, <1>2, SeqDef, LenProperties

\* Every operation of a handler in progress preserves the types.
LEMMA StepType == ASSUME TypeOK, NEW s \in Slots, Step(s) PROVE TypeOK'
<1>0. /\ device \in DeviceDocs /\ schedule \in ScheduleDocs /\ now \in Nat
      /\ commands \in Seq(CommandDocs) /\ Len(commands) \in Nat
      /\ commands \in [CommandIds -> CommandDocs] /\ DOMAIN commands = CommandIds
  BY LenProperties, BoundAssumption DEF TypeOK, CommandIds
<1>1. CASE ControlCommit(s)
  <2>1. flight[s].type \in ControlTypes /\ flight[s].until \in Nat \cup {NoDeadline}
    BY <1>1, FlightByOp DEF ControlCommit, ControlFlights
  <2>2. /\ device' \in DeviceDocs /\ commands' \in Seq(CommandDocs)
        /\ Len(commands) <= Len(commands')
    BY <1>0, <1>1, <2>1, QueueControlType DEF ControlCommit
  <2> QED  BY <1>0, <1>1, <2>2, EndType DEF ControlCommit
<1>2. CASE ReleaseCommit(s)
  <2>2. /\ device' \in DeviceDocs /\ commands' \in Seq(CommandDocs)
        /\ Len(commands) <= Len(commands')
    BY <1>0, <1>2, QueueReleaseType DEF ReleaseCommit
  <2> QED  BY <1>0, <1>2, <2>2, EndType DEF ReleaseCommit
<1>3. ASSUME NEW full \in FullyPaid, NEW part \in BOOLEAN, ApproveCommit(s, full, part)
      PROVE  TypeOK'
  <2>1. Settle(schedule.covered \cup full, Applied(full, part)) \in ScheduleDocs
    <3>1. schedule.covered \cup full \in SUBSET Installments
      BY <1>0, AppliedType DEF ScheduleDocs
    <3> QED  BY <3>1, AppliedType, SettleType
  <2>2. \/ QueueRelease \/ QueueControl("UNLOCK", NoDeadline)
        \/ UNCHANGED <<device, commands, schedule>>
    BY <1>3 DEF ApproveCommit
  <2>3. /\ schedule' \in ScheduleDocs
        /\ End(s) /\ UNCHANGED <<now, crashes>>
    BY <1>0, <1>3, <2>1 DEF ApproveCommit
  <2>4. /\ device' \in DeviceDocs /\ commands' \in Seq(CommandDocs)
        /\ Len(commands) <= Len(commands')
    <3>1. CASE QueueRelease
      BY <1>0, <3>1, QueueReleaseType
    <3>2. CASE QueueControl("UNLOCK", NoDeadline)
      BY <1>0, <3>2, QueueControlType DEF ControlTypes, NoDeadline
    <3> QED  BY <1>0, <2>2, <3>1, <3>2
  <2> QED  BY <2>3, <2>4, EndType
<1>4. CASE WaiveCommit(s)
  <2>1. schedule' \in ScheduleDocs
    <3>1. {i \in Unpaid(schedule.status) : i = Earliest(Unpaid(schedule.status))}
            \in SUBSET Installments
      BY DEF Unpaid
    <3> QED  BY <1>0, <1>4, <3>1, ResolveType DEF WaiveCommit
  <2>2. /\ device' \in DeviceDocs /\ commands' \in Seq(CommandDocs)
        /\ Len(commands) <= Len(commands')
    BY <1>0, <1>4, QueueControlType DEF WaiveCommit, ControlTypes, NoDeadline
  <2> QED  BY <1>4, <2>1, <2>2, EndType DEF WaiveCommit
<1>5. ASSUME NEW outcome \in {"paid", "waived"}, ResolveCommit(s, outcome) PROVE TypeOK'
  <2>1. schedule' \in ScheduleDocs
    BY <1>0, <1>5, ResolveType DEF ResolveCommit, Unpaid
  <2>2. /\ device' \in DeviceDocs /\ commands' \in Seq(CommandDocs)
        /\ Len(commands) <= Len(commands')
    BY <1>0, <1>5, QueueControlType DEF ResolveCommit, ControlTypes, NoDeadline
  <2> QED  BY <1>5, <2>1, <2>2, EndType DEF ResolveCommit
<1>6. CASE CreateHook(s)
  <2>1. flight[s] \in CreateFlights
    BY <1>6, FlightByOp DEF CreateHook, At
  <2>2. [flight[s] EXCEPT !.op = "insert"] \in Flights /\ Idle \in Flights
    BY <2>1 DEF Flights, CreateFlights
  <2> QED  BY <1>6, <2>2, OnlyFlightType DEF CreateHook, Continue, End
<1>7. CASE CreateInsert(s)
  <2>1. flight[s].command \in CommandDocs /\ flight[s].then \in Continuations
    BY <1>7, FlightByOp DEF CreateInsert, At, CreateFlights, JobCommands
  <2>2. commands' \in Seq(CommandDocs) /\ Len(commands') = Len(commands) + 1
    BY <1>0, <1>7, <2>1 DEF CreateInsert
  <2>3. flight[s].then \in Flights'
    BY <2>1 DEF Continuations, Flights, EmiFlights, InstallmentMaps
  <2>4. PICK f \in Flights' : flight' = [flight EXCEPT ![s] = f]
    BY <1>7, <2>3 DEF CreateInsert, Continue
  <2>5. UNCHANGED <<device, schedule, now, crashes>>
    BY <1>7 DEF CreateInsert
  <2>6. /\ device' \in DeviceDocs /\ commands' \in Seq(CommandDocs)
        /\ Len(commands) <= Len(commands') /\ schedule' \in ScheduleDocs
        /\ UNCHANGED <<now, crashes>>
    BY <1>0, <2>2, <2>3, <2>5
  <2> QED  BY <2>4, <2>6, OneFlightType
<1>8. CASE ExpiryUpdate(s)
  <2>1. Relocked \in DeviceDocs
    BY <1>0 DEF Relocked, DeviceDocs, DeviceStates, PolicyKeys
  <2>2. [op |-> "expiry_supersede"] \in Flights' /\ Idle \in Flights'
    BY DEF Flights, ExpiryFlights
  <2> QED
    BY <1>0, <1>8, <2>1, <2>2, OneFlightType DEF ExpiryUpdate, Continue, End
<1>9. CASE ExpirySupersede(s)
  <2>1. NewCommand("LOCK", "other", 0) \in JobCommands
    BY DEF NewCommand, JobCommands, CommandDocs, CommandTypes, ControlTypes, CommandStatuses,
           FailureSources, Origins
  <2>2. [op |-> "hook", then |-> Idle, command |-> NewCommand("LOCK", "other", 0)] \in Flights'
    BY <2>1 DEF Flights, CreateFlights, Continuations
  <2>3. commands' \in Seq(CommandDocs) /\ Len(commands) <= Len(commands')
    BY <1>0, <1>9, ExpireActiveType DEF ExpirySupersede
  <2> QED
    BY <1>0, <1>9, <2>2, <2>3, OneFlightType DEF ExpirySupersede, Continue
<1>10. CASE EmiDevice(s)
  <2>1. flight[s] \in FoundFlights
    BY <1>10, FlightByOp DEF EmiDevice
  <2>2. [op |-> "emi_save", at |-> flight[s].at, status |-> flight[s].status,
         read |-> device] \in Flights
    BY <1>0, <2>1 DEF Flights, FoundFlights, EmiFlights
  <2> QED  BY <1>10, <2>2, OnlyFlightType DEF EmiDevice, Continue
<1>11. CASE EmiSave(s)
  <2>1. flight[s] \in EmiFlights
    BY <1>11, FlightByOp DEF EmiSave, At
  <2>2. [flight[s] EXCEPT !.op = "emi_grace"] \in Flights'
    BY <2>1 DEF Flights, EmiFlights, InstallmentMaps
  <2>3. schedule' \in ScheduleDocs
    BY <1>0, <1>11 DEF EmiSave, ScheduleDocs, InstallmentStatuses
  <2>4. PICK f \in Flights' : flight' = [flight EXCEPT ![s] = f]
    BY <1>11, <2>2 DEF EmiSave, Continue
  <2>5. UNCHANGED <<device, commands, now, crashes>>
    BY <1>11 DEF EmiSave
  <2>6. /\ device' \in DeviceDocs /\ commands' \in Seq(CommandDocs)
        /\ Len(commands) <= Len(commands') /\ schedule' \in ScheduleDocs
        /\ UNCHANGED <<now, crashes>>
    BY <1>0, <2>2, <2>3, <2>5
  <2> QED  BY <2>4, <2>6, OneFlightType
<1>12. CASE EmiGrace(s)
  <2>1. flight[s] \in EmiFlights
    BY <1>12, FlightByOp DEF EmiGrace, At
  <2>2. [flight[s] EXCEPT !.op = "emi_lock_check"] \in Continuations
    BY <2>1 DEF Continuations, EmiFlights
  <2>3. Continuations \subseteq Flights'
    BY DEF Continuations, Flights, EmiFlights, InstallmentMaps
  <2>4. InGrace(flight[s].status, flight[s].at) \in SUBSET Installments
    BY DEF InGrace, Unpaid
  <2>5. InGrace(flight[s].status, flight[s].at) # {} =>
          [op |-> "emi_grace_check",
           installment |-> Earliest(InGrace(flight[s].status, flight[s].at)),
           then |-> [flight[s] EXCEPT !.op = "emi_lock_check"]] \in Flights'
    BY <2>2, <2>4, EarliestType DEF Flights, GraceFlights
  <2>6. [device EXCEPT !.state = "GRACE_PERIOD", !.policy = "EMI_GRACE"] \in DeviceDocs
    BY <1>0 DEF DeviceDocs, DeviceStates, PolicyKeys
  <2> QED
    BY <1>0, <1>12, <2>2, <2>3, <2>5, <2>6, OneFlightType DEF EmiGrace, Continue
<1>13. CASE EmiGraceCheck(s)
  <2>1. flight[s] \in GraceFlights
    BY <1>13, FlightByOp DEF EmiGraceCheck
  <2>2. flight[s].then \in Continuations /\ flight[s].installment \in Installments
    BY <2>1 DEF GraceFlights
  <2>3. Continuations \subseteq Flights
    BY DEF Continuations, Flights
  <2>4. NewCommand("POLICY_UPDATE", "emi_policy", flight[s].installment) \in JobCommands
    BY <2>2 DEF NewCommand, JobCommands, CommandDocs, CommandTypes, CommandStatuses,
                FailureSources, Origins
  <2>5. [op |-> "hook", then |-> flight[s].then, command |->
           NewCommand("POLICY_UPDATE", "emi_policy", flight[s].installment)] \in Flights
    BY <2>2, <2>4 DEF Flights, CreateFlights
  <2> QED  BY <1>13, <2>2, <2>3, <2>5, OnlyFlightType DEF EmiGraceCheck, Continue
<1>14. CASE EmiLockCheck(s)
  <2>1. flight[s] \in EmiFlights
    BY <1>14, FlightByOp DEF EmiLockCheck, At
  <2>2. [flight[s] EXCEPT !.op = "emi_lock"] \in Flights /\ Idle \in Flights
    BY <2>1 DEF Flights, EmiFlights
  <2> QED  BY <1>14, <2>2, OnlyFlightType DEF EmiLockCheck, Continue, End
<1>15. CASE RiskCheck(s)
  <2>1. [op |-> "risk_lock"] \in Flights /\ Idle \in Flights
    BY DEF Flights, RiskFlights
  <2> QED  BY <1>15, <2>1, OnlyFlightType DEF RiskCheck, Continue, End
<1>16. CASE EmiLock(s) \/ RiskLock(s)
  <2>1. Relocked \in DeviceDocs
    BY <1>0 DEF Relocked, DeviceDocs, DeviceStates, PolicyKeys
  <2>2. \A origin \in Origins : NewCommand("LOCK", origin, 0) \in JobCommands
    BY DEF NewCommand, JobCommands, CommandDocs, CommandTypes, ControlTypes, CommandStatuses,
           FailureSources, Origins
  <2>3. /\ \A origin \in Origins :
             [op |-> "hook", then |-> Idle, command |-> NewCommand("LOCK", origin, 0)] \in Flights'
        /\ Idle \in Flights'
    BY <2>2 DEF Flights, CreateFlights, Continuations
  <2> QED
    BY <1>0, <1>16, <2>1, <2>3, OneFlightType DEF EmiLock, RiskLock, Continue, End, Origins
<1>17. ASSUME NEW delivered \in BOOLEAN, SendSave(s, delivered) PROVE TypeOK'
  <2>1. /\ flight[s].cmd \in CommandIds /\ flight[s].seen \in CommandDocs
        /\ commands[flight[s].cmd] \in CommandDocs
    BY <1>0, <1>17, FlightByOp DEF SendSave, SendFlights
  <2> DEFINE sent == SavedCommand(commands[flight[s].cmd], flight[s].seen, "sent", "none")
             failed == SavedCommand(commands[flight[s].cmd], flight[s].seen, "failed", "delivery")
             counted == [failed EXCEPT !.retries = flight[s].seen.retries + 1]
  <2>2. commands' = [commands EXCEPT ![flight[s].cmd] = IF delivered THEN sent ELSE counted]
    BY <1>17 DEF SendSave
  <2>3. sent \in CommandDocs /\ counted \in CommandDocs
    <3>1. sent \in CommandDocs /\ failed \in CommandDocs
      BY <2>1, SavedCommandType DEF CommandStatuses, FailureSources
    <3> HIDE DEF failed
    <3> QED  BY <2>1, <3>1 DEF CommandDocs
  <2> HIDE DEF sent, counted
  <2>4. commands' \in Seq(CommandDocs) /\ Len(commands') = Len(commands)
    BY <2>1, <2>2, <2>3, OneCommandType
  <2> QED  BY <1>0, <1>17, <2>4, EndType DEF SendSave
<1>18. CASE AckCommand(s)
  <2>1. /\ flight[s] \in AckReadFlights
        /\ flight[s].cmd \in CommandIds /\ commands[flight[s].cmd] \in CommandDocs
    BY <1>0, <1>18, FlightByOp DEF AckCommand, AckReadFlights
  <2>2. [op |-> AckOp(flight[s].outcome), cmd |-> flight[s].cmd, outcome |-> flight[s].outcome,
         read |-> flight[s].read, seen |-> commands[flight[s].cmd]] \in Flights
    BY <2>1 DEF Flights, AckReadFlights, AckFlights, AckOp
  <2>3. Idle \in Flights
    BY DEF Flights
  <2> QED  BY <1>18, <2>2, <2>3, OnlyFlightType DEF AckCommand, Continue, End
<1>19. CASE AckDevice(s)
  <2>1. flight[s] \in AckFlights
    BY <1>19, FlightByOp DEF AckDevice, At
  <2>2. [flight[s] EXCEPT !.op = "ack_status"] \in Flights'
    BY <1>19, <2>1 DEF AckDevice, Flights, AckFlights, CommandIds
  <2>3. device' \in DeviceDocs
    <3>1. AckTarget[flight[s].seen.type] \in DeviceStates
      BY <2>1 DEF AckFlights, CommandDocs, CommandTypes, ControlTypes, AckTarget, DeviceStates
    <3>2. flight[s].read \in DeviceDocs
      BY <2>1 DEF AckFlights
    <3> QED  BY <1>0, <1>19, <3>1 DEF AckDevice, Saved, DeviceDocs
  <2>4. PICK f \in Flights' : flight' = [flight EXCEPT ![s] = f]
    BY <1>19, <2>2 DEF AckDevice, Continue
  <2>5. UNCHANGED <<commands, schedule, now, crashes>>
    BY <1>19 DEF AckDevice
  <2>6. /\ device' \in DeviceDocs /\ commands' \in Seq(CommandDocs)
        /\ Len(commands) <= Len(commands') /\ schedule' \in ScheduleDocs
        /\ UNCHANGED <<now, crashes>>
    BY <1>0, <2>2, <2>3, <2>5
  <2> QED  BY <2>4, <2>6, OneFlightType
<1>20. CASE AckStatus(s)
  <2>1. /\ flight[s] \in AckFlights
        /\ flight[s].cmd \in CommandIds /\ commands[flight[s].cmd] \in CommandDocs
    BY <1>0, <1>20, FlightByOp DEF AckStatus, At, AckFlights
  <2> DEFINE source == IF flight[s].outcome = "failed" THEN "device_enforcement" ELSE "none"
             saved == SavedCommand(commands[flight[s].cmd], flight[s].seen, flight[s].outcome,
                                   source)
  <2>2. commands' = [commands EXCEPT ![flight[s].cmd] = saved]
    BY <1>20 DEF AckStatus
  <2>3. commands' \in Seq(CommandDocs) /\ Len(commands') = Len(commands)
    <3>1. /\ flight[s].outcome \in CommandStatuses /\ source \in FailureSources
          /\ flight[s].seen \in CommandDocs
      BY <2>1 DEF AckFlights, Outcomes, CommandStatuses, FailureSources
    <3>2. saved \in CommandDocs
      BY <2>1, <3>1, SavedCommandType
    <3> HIDE DEF saved
    <3> QED  BY <2>1, <2>2, <3>2, OneCommandType
  <2>4. [op |-> "ack_cleanup", cmd |-> flight[s].cmd] \in Flights' /\ Idle \in Flights'
    BY <2>1, <2>3 DEF Flights, CleanupFlights, CommandIds
  <2> QED
    BY <1>0, <1>20, <2>3, <2>4, OneFlightType DEF AckStatus, Continue, End
<1>21. CASE AckCleanup(s)
  <2>1. commands' \in Seq(CommandDocs) /\ Len(commands) <= Len(commands')
    BY <1>0, <1>21, ExpireActiveType DEF AckCleanup
  <2> QED  BY <1>0, <1>21, <2>1, EndType DEF AckCleanup
<1> QED
  BY <1>1, <1>2, <1>3, <1>4, <1>5, <1>6, <1>7, <1>8, <1>9, <1>10, <1>11, <1>12, <1>13, <1>14,
     <1>15, <1>16, <1>17, <1>18, <1>19, <1>20, <1>21 DEF Step

\* Every step preserves the types.
LEMMA NextType == TypeOK /\ [Next]_vars => TypeOK'
<1> SUFFICES ASSUME TypeOK, [Next]_vars PROVE TypeOK'
  OBVIOUS
<1>0. /\ device \in DeviceDocs /\ schedule \in ScheduleDocs
      /\ commands \in Seq(CommandDocs) /\ Len(commands) \in Nat
  BY DEF TypeOK
<1>1. ASSUME NEW s \in Slots, Start(s) \/ Step(s) PROVE TypeOK'
  BY <1>1, StartType, StepType
<1>2. ASSUME NEW s \in Slots, Crash(s) PROVE TypeOK'
  <2>1. flight' \in [Slots -> Flights']
    BY <1>2 DEF TypeOK, Crash, End, Flights, SendFlights, AckReadFlights, AckFlights,
                CleanupFlights, CommandIds
  <2> QED  BY <1>0, <1>2, <2>1, BoundAssumption DEF Crash, TypeOK
<1>3. CASE AtOnce
  BY <1>3, AtOnceType
<1>4. CASE Tick \/ UNCHANGED vars
  <2>1. Flights' = Flights
    BY <1>4 DEF Tick, vars, Flights, SendFlights, AckReadFlights, AckFlights, CleanupFlights,
                CommandIds
  <2> QED  BY <1>0, <1>4, <2>1, BoundAssumption DEF Tick, vars, TypeOK
<1> QED  BY <1>1, <1>2, <1>3, <1>4 DEF Next

\* The documents, the flights and the clock keep their types, whatever the slots, the
\* handlers, the installments and the policy.
THEOREM Typing == Spec => []TypeOK
<1>1. Init => TypeOK
  BY InitType
<1>2. TypeOK /\ [Next]_vars => TypeOK'
  BY NextType
<1> QED  BY <1>1, <1>2, PTL DEF Spec

-----------------------------------------------------------------------------
(* Settlement and release, and the transient states *)

-----------------------------------------------------------------------------
(* What a step does to the documents *)

Acknowledged(i) ==
  \E s \in Slots : AckStatus(s) /\ flight[s].cmd = i /\ flight[s].outcome = "acknowledged"

CommandsKept ==
  \A i \in CommandIds :
    /\ commands'[i].type = commands[i].type
    /\ commands'[i].status = "acknowledged" =>
         commands[i].status = "acknowledged" \/ Acknowledged(i)

NoneAppended == Len(commands') = Len(commands)
Appended(type) ==
  /\ Len(commands') = Len(commands) + 1
  /\ commands'[Len(commands) + 1].type = type
  /\ commands'[Len(commands) + 1].status = "pending"

Releases ==
  /\ device'.state = "RELEASE_PENDING" /\ schedule'.settled
  /\ Appended("RELEASE_DEVICE")
Controls ==
  /\ schedule'.settled = schedule.settled
  /\ \E type \in ControlTypes : device'.state = TargetState[type] /\ Appended(type)
Proceeds ==
  /\ schedule'.settled = schedule.settled
  /\ NoneAppended \/ Appended("LOCK") \/ Appended("POLICY_UPDATE")
  /\ \/ device'.state \in {device.state, "LOCKED", "GRACE_PERIOD"}
     \/ \E s \in Slots : AckDevice(s)

Effect == CommandsKept /\ (Releases \/ Controls \/ Proceeds)

\* Appending a command changes no other.
LEMMA AppendEffect ==
  ASSUME TypeOK, NEW kept \in Seq(CommandDocs), Len(kept) = Len(commands),
         \A i \in CommandIds : /\ kept[i].type = commands[i].type
                               /\ kept[i].status \in {commands[i].status, "expired"},
         NEW c \in CommandDocs, c.status = "pending", commands' = Append(kept, c)
  PROVE  CommandsKept /\ Appended(c.type)
<1>1. Len(commands) \in Nat
  BY DEF TypeOK
<1>2. /\ Len(commands') = Len(commands) + 1 /\ commands'[Len(commands) + 1] = c
      /\ \A i \in CommandIds : commands'[i] = kept[i]
  BY <1>1 DEF CommandIds
<1> QED  BY <1>2 DEF CommandsKept, Appended

\* Queueing a control.
LEMMA ControlEffect ==
  ASSUME TypeOK, NEW type \in ControlTypes, NEW until \in Nat \cup {NoDeadline},
         QueueControl(type, until)
  PROVE  CommandsKept /\ device'.state = TargetState[type] /\ Appended(type)
<1>1. NewCommand(type, "other", 0) \in CommandDocs
  BY DEF NewCommand, CommandDocs, CommandTypes, CommandStatuses, FailureSources, Origins
<1>2. commands \in Seq(CommandDocs) /\ commands' = Append(commands, NewCommand(type, "other", 0))
  BY DEF QueueControl, TypeOK
<1>3. CommandsKept /\ Appended(NewCommand(type, "other", 0).type)
  BY <1>1, <1>2, AppendEffect DEF NewCommand
<1> QED  BY <1>3 DEF QueueControl, NewCommand

\* Queueing a release.
LEMMA ReleaseEffect ==
  ASSUME TypeOK, QueueRelease
  PROVE  CommandsKept /\ device'.state = "RELEASE_PENDING" /\ Appended("RELEASE_DEVICE")
<1> DEFINE kept == ExpireActive(OfType(CommandTypes \ {"RELEASE_DEVICE"}))
           c == NewCommand("RELEASE_DEVICE", "other", 0)
<1>1. c \in CommandDocs /\ c.status = "pending" /\ c.type = "RELEASE_DEVICE"
  BY DEF NewCommand, CommandDocs, CommandTypes, CommandStatuses, FailureSources, Origins
<1>2. /\ kept \in Seq(CommandDocs) /\ Len(kept) = Len(commands)
      /\ \A i \in CommandIds : /\ kept[i].type = commands[i].type
                               /\ kept[i].status \in {commands[i].status, "expired"}
  BY ExpireActiveType
<1>3. commands' = Append(kept, c) /\ device'.state = "RELEASE_PENDING"
  BY DEF QueueRelease, TypeOK, DeviceDocs
<1> HIDE DEF kept, c
<1> QED  BY <1>1, <1>2, <1>3, AppendEffect

\* A step that leaves the commands alone.
LEMMA QuietEffect ==
  ASSUME TypeOK, UNCHANGED commands
  PROVE  CommandsKept /\ NoneAppended
BY DEF CommandsKept, NoneAppended

\* A step that supersedes commands.
LEMMA SupersedeEffect ==
  ASSUME TypeOK, NEW chosen, commands' = ExpireActive(chosen)
  PROVE  CommandsKept /\ NoneAppended
BY ExpireActiveType DEF CommandsKept, NoneAppended

\* A step that saves one command.
LEMMA SaveEffect ==
  ASSUME TypeOK, NEW c \in CommandIds, NEW d \in CommandDocs,
         commands' = [commands EXCEPT ![c] = d], d.type = commands[c].type,
         d.status = "acknowledged" => commands[c].status = "acknowledged" \/ Acknowledged(c)
  PROVE  CommandsKept /\ NoneAppended
<1>1. /\ DOMAIN commands = CommandIds
      /\ \A i \in CommandIds : commands'[i] = IF i = c THEN d ELSE commands[i]
  BY LenProperties DEF TypeOK, CommandIds
<1> QED  BY <1>1, OneCommandType DEF CommandsKept, NoneAppended

\* A started handler has changed none of the documents.
LEMMA StartEffect == ASSUME TypeOK, NEW s \in Slots, Start(s) PROVE Effect
<1>1. UNCHANGED <<device, commands, schedule>>
  BY DEF Start, ControlRead, ReleaseRead, ApproveRead, WaiveRead, ResolveRead, ExpiryFind,
         EmiFind, RiskRead, SendFind, AckRead
<1> QED  BY <1>1, QuietEffect DEF Effect, Proceeds

\* A request that is one transaction.
LEMMA AtOnceEffect == ASSUME TypeOK, AtOnce PROVE Effect
<1>1. ASSUME NEW type \in {"LOCK", "UNLOCK"}, TenantControl(type) PROVE Effect
  <2>1. type \in ControlTypes /\ NoDeadline \in Nat \cup {NoDeadline}
    BY DEF ControlTypes
  <2>2. QueueControl(type, NoDeadline) /\ UNCHANGED schedule
    BY <1>1 DEF TenantControl
  <2> QED  BY <2>1, <2>2, ControlEffect DEF Effect, Controls
<1>2. ASSUME NEW type \in {"UNLOCK", "TEMP_UNLOCK"}, NEW until \in Deadlines(type),
             EscalationControl(type, until)
      PROVE  Effect
  <2>1. type \in ControlTypes /\ until \in Nat \cup {NoDeadline}
    BY DeadlinesType DEF ControlTypes
  <2>2. QueueControl(type, until) /\ UNCHANGED schedule
    BY <1>2 DEF EscalationControl
  <2> QED  BY <2>1, <2>2, ControlEffect DEF Effect, Controls
<1>3. ASSUME NEW outcome \in {"paid", "waived"}, EscalationResolve(outcome) PROVE Effect
  <2>1. QueueControl("UNLOCK", NoDeadline) /\ schedule'.settled = schedule.settled
    BY <1>3 DEF EscalationResolve, Resolve, TypeOK, ScheduleDocs
  <2>2. "UNLOCK" \in ControlTypes /\ NoDeadline \in Nat \cup {NoDeadline}
    BY DEF ControlTypes
  <2> QED  BY <2>1, <2>2, ControlEffect DEF Effect, Controls
<1>4. ASSUME NEW i \in Installments, MarkPaid(i) PROVE Effect
  <2> DEFINE status == [schedule.status EXCEPT ![i] = "paid"]
  <2>1. schedule'.settled = (schedule.settled \/ NewlySettled(status))
    BY <1>4 DEF MarkPaid, Settle
  <2>2. CASE NewlySettled(status)
    <3>1. QueueRelease /\ schedule'.settled
      BY <1>4, <2>1, <2>2 DEF MarkPaid
    <3> QED  BY <3>1, ReleaseEffect DEF Effect, Releases
  <2>3. CASE ~NewlySettled(status)
    <3>1. schedule'.settled = schedule.settled
      BY <2>1, <2>3 DEF TypeOK, ScheduleDocs
    <3>2. QueueControl("UNLOCK", NoDeadline) \/ UNCHANGED <<device, commands>>
      BY <1>4, <2>3 DEF MarkPaid
    <3>3. "UNLOCK" \in ControlTypes /\ NoDeadline \in Nat \cup {NoDeadline}
      BY DEF ControlTypes
    <3>4. CASE QueueControl("UNLOCK", NoDeadline)
      BY <3>1, <3>3, <3>4, ControlEffect DEF Effect, Controls
    <3>5. CASE UNCHANGED <<device, commands>>
      BY <3>1, <3>5, QuietEffect DEF Effect, Proceeds
    <3> QED  BY <3>2, <3>4, <3>5
  <2> QED  BY <2>2, <2>3
<1> QED  BY <1>1, <1>2, <1>3, <1>4 DEF AtOnce

\* The next operation of a handler in progress.
LEMMA StepEffect == ASSUME TypeOK, SettledInv, NEW s \in Slots, Step(s) PROVE Effect
<1>0. /\ DOMAIN commands = CommandIds /\ Len(commands) \in Nat
      /\ commands \in Seq(CommandDocs)
      /\ \A i \in CommandIds : commands[i] \in CommandDocs
      /\ "UNLOCK" \in ControlTypes /\ NoDeadline \in Nat \cup {NoDeadline}
  BY LenProperties DEF TypeOK, CommandIds, ControlTypes
<1>a. ASSUME UNCHANGED <<commands, schedule>>,
             device'.state \in {device.state, "LOCKED", "GRACE_PERIOD"}
      PROVE  Effect
  BY <1>a, QuietEffect DEF Effect, Proceeds
<1>1. CASE ControlCommit(s)
  <2>1. flight[s].type \in ControlTypes /\ flight[s].until \in Nat \cup {NoDeadline}
    BY <1>1, FlightByOp DEF ControlCommit, ControlFlights
  <2>2. QueueControl(flight[s].type, flight[s].until) \/ UNCHANGED <<device, commands>>
    BY <1>1 DEF ControlCommit
  <2>3. schedule' = schedule
    BY <1>1 DEF ControlCommit
  <2>4. CASE QueueControl(flight[s].type, flight[s].until)
    BY <2>1, <2>3, <2>4, ControlEffect DEF Effect, Controls
  <2> QED  BY <1>a, <2>2, <2>3, <2>4
<1>2. CASE ReleaseCommit(s)
  <2>1. schedule' = schedule
    BY <1>2 DEF ReleaseCommit
  <2>2. (QueueRelease /\ schedule.settled) \/ UNCHANGED <<device, commands>>
    BY <1>2 DEF ReleaseCommit, SettledInv
  <2>3. CASE QueueRelease /\ schedule.settled
    BY <2>1, <2>3, ReleaseEffect DEF Effect, Releases
  <2> QED  BY <1>a, <2>1, <2>2, <2>3
<1>3. ASSUME NEW full \in FullyPaid, NEW part \in BOOLEAN, ApproveCommit(s, full, part)
      PROVE  Effect
  <2> DEFINE status == Applied(full, part)
             paid == schedule' = Settle(schedule.covered \cup full, status)
  <2>1. \/ paid /\ NewlySettled(status) /\ QueueRelease
        \/ paid /\ ~NewlySettled(status) /\ QueueControl("UNLOCK", NoDeadline)
        \/ UNCHANGED <<device, commands, schedule>>
    BY <1>3 DEF ApproveCommit
  <2> HIDE DEF status
  <2>2. paid => schedule'.settled = (schedule.settled \/ NewlySettled(status))
    BY DEF Settle
  <2>3. CASE QueueRelease /\ schedule'.settled
    BY <2>3, ReleaseEffect DEF Effect, Releases
  <2>4. CASE QueueControl("UNLOCK", NoDeadline) /\ schedule'.settled = schedule.settled
    BY <1>0, <2>4, ControlEffect DEF Effect, Controls
  <2>5. schedule.settled \in BOOLEAN
    BY DEF TypeOK, ScheduleDocs
  <2> HIDE DEF paid
  <2> QED  BY <1>a, <2>1, <2>2, <2>3, <2>4, <2>5
<1>4. ASSUME WaiveCommit(s) \/ \E outcome \in {"paid", "waived"} : ResolveCommit(s, outcome)
      PROVE  Effect
  <2>1. \/ QueueControl("UNLOCK", NoDeadline) /\ schedule'.settled = schedule.settled
        \/ UNCHANGED <<device, commands, schedule>>
    BY <1>4 DEF WaiveCommit, ResolveCommit, Resolve, TypeOK, ScheduleDocs
  <2>2. CASE QueueControl("UNLOCK", NoDeadline) /\ schedule'.settled = schedule.settled
    BY <1>0, <2>2, ControlEffect DEF Effect, Controls
  <2> QED  BY <1>a, <2>1, <2>2
<1>5. CASE \/ CreateHook(s) \/ EmiDevice(s) \/ EmiGraceCheck(s) \/ EmiLockCheck(s)
           \/ RiskCheck(s) \/ AckCommand(s)
  BY <1>a, <1>5 DEF CreateHook, EmiDevice, EmiGraceCheck, EmiLockCheck, RiskCheck, AckCommand
<1>6. CASE CreateInsert(s)
  <2>1. /\ flight[s].command \in CommandDocs /\ flight[s].command.type \in {"LOCK", "POLICY_UPDATE"}
        /\ flight[s].command.status = "pending"
    BY <1>6, FlightByOp DEF CreateInsert, At, CreateFlights, JobCommands
  <2>2. commands' = Append(commands, flight[s].command) /\ UNCHANGED <<device, schedule>>
    BY <1>6 DEF CreateInsert
  <2>3. CommandsKept /\ Appended(flight[s].command.type)
    BY <1>0, <2>1, <2>2, AppendEffect
  <2> QED  BY <2>1, <2>2, <2>3 DEF Effect, Proceeds
<1>7. CASE ExpiryUpdate(s) \/ EmiGrace(s) \/ EmiLock(s) \/ RiskLock(s)
  <2>1. device'.state \in {device.state, "LOCKED", "GRACE_PERIOD"}
    BY <1>7 DEF ExpiryUpdate, EmiGrace, EmiLock, RiskLock, Relocked, TypeOK, DeviceDocs
  <2>2. UNCHANGED <<commands, schedule>>
    BY <1>7 DEF ExpiryUpdate, EmiGrace, EmiLock, RiskLock
  <2> QED  BY <1>a, <2>1, <2>2
<1>8. CASE ExpirySupersede(s) \/ AckCleanup(s)
  <2>1. PICK chosen : commands' = ExpireActive(chosen)
    BY <1>8 DEF ExpirySupersede, AckCleanup
  <2>2. UNCHANGED <<device, schedule>>
    BY <1>8 DEF ExpirySupersede, AckCleanup
  <2> QED  BY <2>1, <2>2, SupersedeEffect DEF Effect, Proceeds
<1>9. CASE EmiSave(s)
  <2>1. /\ UNCHANGED <<device, commands>>
        /\ schedule'.settled = schedule.settled
    BY <1>9 DEF EmiSave, TypeOK, ScheduleDocs
  <2> QED  BY <2>1, QuietEffect DEF Effect, Proceeds
<1>10. ASSUME NEW delivered \in BOOLEAN, SendSave(s, delivered) PROVE Effect
  <2> DEFINE c == flight[s].cmd
             sent == SavedCommand(commands[c], flight[s].seen, "sent", "none")
             failed == SavedCommand(commands[c], flight[s].seen, "failed", "delivery")
             counted == [failed EXCEPT !.retries = flight[s].seen.retries + 1]
             saved == IF delivered THEN sent ELSE counted
  <2>1. /\ c \in CommandIds /\ flight[s].seen \in CommandDocs /\ commands[c] \in CommandDocs
    BY <1>0, <1>10, FlightByOp DEF SendSave, SendFlights
  <2>2. commands' = [commands EXCEPT ![c] = saved] /\ UNCHANGED <<device, schedule>>
    BY <1>10 DEF SendSave
  <2>3. /\ sent \in CommandDocs /\ failed \in CommandDocs
        /\ sent.type = commands[c].type /\ failed.type = commands[c].type
        /\ sent.status = Saved(flight[s].seen.status, "sent", commands[c].status)
        /\ failed.status = Saved(flight[s].seen.status, "failed", commands[c].status)
    BY <2>1, SavedCommandType DEF CommandStatuses, FailureSources
  <2>4. /\ sent.status = "acknowledged" => commands[c].status = "acknowledged"
        /\ failed.status = "acknowledged" => commands[c].status = "acknowledged"
    BY <2>3 DEF Saved
  <2> HIDE DEF sent, failed
  <2>5. /\ counted \in CommandDocs /\ counted.type = failed.type
        /\ counted.status = failed.status
    BY <2>1, <2>3 DEF CommandDocs
  <2>6. /\ saved \in CommandDocs /\ saved.type = commands[c].type
        /\ saved.status = "acknowledged" => commands[c].status = "acknowledged"
    BY <2>3, <2>4, <2>5
  <2> HIDE DEF saved, c
  <2> QED  BY <2>1, <2>2, <2>6, SaveEffect DEF Effect, Proceeds
<1>11. CASE AckDevice(s)
  BY <1>11, QuietEffect DEF AckDevice, Effect, Proceeds
<1>12. CASE AckStatus(s)
  <2> DEFINE c == flight[s].cmd
             source == IF flight[s].outcome = "failed" THEN "device_enforcement" ELSE "none"
             saved == SavedCommand(commands[c], flight[s].seen, flight[s].outcome, source)
  <2>1. /\ flight[s].outcome \in CommandStatuses /\ source \in FailureSources
        /\ c \in CommandIds /\ flight[s].seen \in CommandDocs /\ commands[c] \in CommandDocs
    BY <1>0, <1>12, FlightByOp
       DEF AckStatus, At, AckFlights, Outcomes, CommandStatuses, FailureSources
  <2>2. commands' = [commands EXCEPT ![c] = saved] /\ UNCHANGED <<device, schedule>>
    BY <1>12 DEF AckStatus
  <2> HIDE DEF source
  <2>3. /\ saved \in CommandDocs /\ saved.type = commands[c].type
        /\ saved.status = Saved(flight[s].seen.status, flight[s].outcome, commands[c].status)
    BY <2>1, SavedCommandType
  <2>4. saved.status = "acknowledged" => commands[c].status = "acknowledged" \/ Acknowledged(c)
    BY <1>12, <2>3 DEF Saved, Acknowledged
  <2> HIDE DEF saved, c
  <2> QED  BY <2>1, <2>2, <2>3, <2>4, SaveEffect DEF Effect, Proceeds
<1> QED
  BY <1>1, <1>2, <1>3, <1>4, <1>5, <1>6, <1>7, <1>8, <1>9, <1>10, <1>11, <1>12 DEF Step

\* Every step has one of these effects on the documents.
LEMMA NextEffect == ASSUME TypeOK, SettledInv, [Next]_vars PROVE Effect
<1>1. ASSUME NEW s \in Slots, Start(s) \/ Step(s) PROVE Effect
  BY <1>1, StartEffect, StepEffect
<1>2. ASSUME UNCHANGED <<device, commands, schedule>> PROVE Effect
  BY <1>2, QuietEffect DEF Effect, Proceeds
<1>3. \/ \E s \in Slots : Start(s) \/ Step(s)
      \/ AtOnce
      \/ UNCHANGED <<device, commands, schedule>>
  BY DEF Next, Crash, Tick, vars
<1> QED  BY <1>1, <1>2, <1>3, AtOnceEffect

-----------------------------------------------------------------------------
(* What a step does to the handlers in progress *)

WatchedOps == {"release_commit", "ack_read", "ack_device", "ack_status"}

\* Which steps bring a flight to an operation that relies on what it has read.
LEMMA FlightEffect ==
  ASSUME TypeOK, [Next]_vars, NEW s \in Slots, flight'[s].op \in WatchedOps
  PROVE  \/ flight'[s] = flight[s]
         \/ ReleaseRead(s)
         \/ \E c \in DOMAIN commands, outcome \in Outcomes : AckRead(s, c, outcome)
         \/ AckCommand(s) \/ AckDevice(s)
<1> USE DEF WatchedOps
<1>0. flight \in [Slots -> Flights]
  BY DEF TypeOK
<1>1. ASSUME NEW t \in Slots, Start(t) \/ Step(t) \/ Crash(t), t # s
      PROVE  flight'[s] = flight[s]
  BY <1>0, <1>1, OneFlight
<1>2. ASSUME Start(s)
      PROVE  \/ ReleaseRead(s)
             \/ \E c \in DOMAIN commands, outcome \in Outcomes : AckRead(s, c, outcome)
  BY <1>0, <1>2 DEF Start, ControlRead, ApproveRead, WaiveRead, ResolveRead, ExpiryFind, EmiFind,
                    RiskRead, SendFind, Begin
<1>3. CASE Crash(s)
  BY <1>0, <1>3 DEF Crash, End, Idle
<1>4. ASSUME Step(s) PROVE AckCommand(s) \/ AckDevice(s)
  <2>1. ASSUME End(s) PROVE FALSE
    BY <1>0, <2>1 DEF End, Idle
  <2>2. ASSUME NEW f, f.op \notin WatchedOps, Continue(s, f) PROVE FALSE
    BY <1>0, <2>2 DEF Continue
  <2>3. ~CreateInsert(s)
    <3>1. SUFFICES ASSUME CreateInsert(s) PROVE FALSE
      OBVIOUS
    <3>2. flight[s].then \in Continuations
      BY <3>1, FlightByOp DEF CreateInsert, At, CreateFlights
    <3>3. flight[s].then.op \notin WatchedOps
      BY <3>2 DEF Continuations, Idle
    <3> QED  BY <2>2, <3>1, <3>3 DEF CreateInsert
  <2>4. ~CreateHook(s)
    BY <1>0, <2>1, FlightByOp DEF CreateHook, At, CreateFlights, Continue
  <2>5. ~ExpiryUpdate(s) /\ ~ExpirySupersede(s)
    BY <2>1, <2>2 DEF ExpiryUpdate, ExpirySupersede
  <2>6. ~EmiDevice(s) /\ ~EmiSave(s) /\ ~EmiLockCheck(s) /\ ~EmiLock(s) /\ ~RiskCheck(s)
        /\ ~RiskLock(s)
    <3>1. flight[s].op \in {"emi_save", "emi_grace", "emi_lock_check", "emi_lock"}
            => \A op : [flight[s] EXCEPT !.op = op].op = op
      BY FlightByOp DEF EmiFlights
    <3> QED
      BY <2>1, <2>2, <3>1
         DEF EmiDevice, EmiSave, EmiLockCheck, EmiLock, RiskCheck, RiskLock, At
  <2>7. ~EmiGrace(s) /\ ~EmiGraceCheck(s)
    <3>1. At(s, "emi_grace") => [flight[s] EXCEPT !.op = "emi_lock_check"].op = "emi_lock_check"
      BY FlightByOp DEF At, EmiFlights
    <3>2. At(s, "emi_grace_check") => flight[s].then.op \notin WatchedOps
      BY FlightByOp DEF GraceFlights, Continuations, Idle
    <3> QED  BY <2>2, <3>1, <3>2 DEF EmiGrace, EmiGraceCheck
  <2>8. ~AckStatus(s)
    BY <2>1, <2>2 DEF AckStatus
  <2> QED
    BY <1>4, <2>1, <2>3, <2>4, <2>5, <2>6, <2>7, <2>8
       DEF Step, ControlCommit, ReleaseCommit, ApproveCommit, WaiveCommit, ResolveCommit, SendSave,
           AckCleanup
<1>5. CASE AtOnce \/ Tick \/ UNCHANGED vars
  BY <1>5 DEF AtOnce, TenantControl, EscalationControl, EscalationResolve, MarkPaid, Tick, vars
<1> QED  BY <1>1, <1>2, <1>3, <1>4, <1>5 DEF Next

-----------------------------------------------------------------------------
(* Settlement and release *)

\* The commands of the next state.
LEMMA NextCommands ==
  ASSUME TypeOK, TypeOK', CommandsKept
  PROVE  /\ DOMAIN commands = CommandIds /\ Len(commands) \in Nat
         /\ NoneAppended => DOMAIN commands' = CommandIds
         /\ \A type : Appended(type) =>
              /\ DOMAIN commands' = CommandIds \cup {Len(commands) + 1}
              /\ Len(commands) + 1 \notin CommandIds
         /\ \A i \in CommandIds : commands'[i].type = commands[i].type
<1>1. /\ DOMAIN commands = 1 .. Len(commands) /\ Len(commands) \in Nat
      /\ DOMAIN commands' = 1 .. Len(commands') /\ Len(commands') \in Nat
  BY LenProperties DEF TypeOK
<1>2. ASSUME NEW type, Appended(type)
      PROVE  /\ DOMAIN commands' = CommandIds \cup {Len(commands) + 1}
             /\ Len(commands) + 1 \notin CommandIds
  BY <1>1, <1>2 DEF Appended, CommandIds
<1>3. NoneAppended => DOMAIN commands' = CommandIds
  BY <1>1 DEF NoneAppended, CommandIds
<1>4. \A i \in CommandIds : commands'[i].type = commands[i].type
  BY DEF CommandsKept
<1> QED  BY <1>1, <1>2, <1>3, <1>4 DEF CommandIds

\* A release command exists in the next state if there was one or it is queued now.
LEMMA NextReleases ==
  ASSUME TypeOK, TypeOK', Effect
  PROVE  (OfType({"RELEASE_DEVICE"}) # {})' <=> OfType({"RELEASE_DEVICE"}) # {} \/ Releases
<1>1. CASE Releases
  <2>1. Len(commands) + 1 \in OfType({"RELEASE_DEVICE"})'
    BY <1>1, NextCommands DEF Effect, Releases, Appended, OfType
  <2> QED  BY <1>1, <2>1
<1>2. CASE ~Releases
  <2>1. NoneAppended \/ \E type \in CommandTypes \ {"RELEASE_DEVICE"} : Appended(type)
    BY <1>2 DEF Effect, Controls, Proceeds, CommandTypes, ControlTypes
  <2>2. OfType({"RELEASE_DEVICE"})' = OfType({"RELEASE_DEVICE"})
    <3>1. CASE NoneAppended
      BY <3>1, NextCommands DEF Effect, OfType
    <3>2. ASSUME NEW type \in CommandTypes \ {"RELEASE_DEVICE"}, Appended(type)
          PROVE  OfType({"RELEASE_DEVICE"})' = OfType({"RELEASE_DEVICE"})
      <4>1. commands'[Len(commands) + 1].type # "RELEASE_DEVICE"
        BY <3>2 DEF Appended
      <4> QED  BY <3>2, <4>1, NextCommands DEF Effect, OfType
    <3> QED  BY <2>1, <3>1, <3>2
  <2> QED  BY <1>2, <2>2
<1> QED  BY <1>1, <1>2

\* Settlement and release stay committed together.
LEMMA SettledStep ==
  ASSUME TypeOK, TypeOK', SettledInv, [Next]_vars
  PROVE  SettledInv'
<1>1. Effect
  BY NextEffect
<1>2. schedule'.settled \in BOOLEAN /\ schedule.settled \in BOOLEAN
  BY DEF TypeOK, ScheduleDocs
<1>3. schedule'.settled <=> schedule.settled \/ Releases
  BY <1>1, <1>2 DEF Effect, Releases, Controls, Proceeds
<1>4. device'.state \in ReleaseStates => schedule'.settled
  <2>1. CASE Releases
    BY <2>1 DEF Releases
  <2>2. CASE Controls
    BY <2>2 DEF Controls, ControlTypes, TargetState, ReleaseStates
  <2>3. CASE Proceeds /\ device'.state \in {device.state, "LOCKED", "GRACE_PERIOD"}
    BY <1>3, <2>3 DEF ReleaseStates, SettledInv, SettledIffReleaseQueued
  <2>4. ASSUME Proceeds, NEW s \in Slots, AckDevice(s), device'.state \in ReleaseStates
        PROVE  schedule'.settled
    <3>1. flight[s] \in AckFlights /\ flight[s].seen.type = commands[flight[s].cmd].type
      BY <2>4, FlightByOp DEF AckDevice, At, SettledInv
    <3>2. device'.state \in {device.state, AckTarget[flight[s].seen.type]}
      BY <2>4 DEF AckDevice, Saved, TypeOK, DeviceDocs
    <3>3. AckTarget[flight[s].seen.type] \in ReleaseStates
            => flight[s].seen.type = "RELEASE_DEVICE"
      BY <3>1 DEF AckFlights, CommandDocs, CommandTypes, ControlTypes, AckTarget, ReleaseStates
    <3>4. flight[s].cmd \in DOMAIN commands
      BY <1>1, <3>1, NextCommands DEF AckFlights, Effect
    <3>5. device.state \in ReleaseStates \/ OfType({"RELEASE_DEVICE"}) # {}
      BY <2>4, <3>1, <3>2, <3>3, <3>4 DEF OfType
    <3> QED  BY <1>3, <3>5 DEF SettledInv, SettledIffReleaseQueued
  <2> QED  BY <1>1, <2>1, <2>2, <2>3, <2>4 DEF Effect, Proceeds
<1>5. SettledIffReleaseQueued'
  BY <1>1, <1>3, <1>4, NextReleases DEF SettledInv, SettledIffReleaseQueued
<1>6. ASSUME NEW s \in Slots, flight'[s].op = "release_commit", flight'[s].schedule.settled
      PROVE  schedule'.settled
  <2>0. flight \in [Slots -> Flights]
    BY DEF TypeOK
  <2>1. CASE flight'[s] = flight[s]
    BY <1>3, <1>6, <2>1 DEF SettledInv, At
  <2>2. CASE ReleaseRead(s)
    BY <1>6, <2>0, <2>2 DEF ReleaseRead, Begin
  <2>3. ~AckCommand(s)
    BY <1>6, <2>0 DEF AckCommand, AckOp, Continue, End, Idle
  <2>4. ~AckDevice(s)
    BY <1>6, <2>0, FlightByOp DEF AckDevice, At, AckFlights, Continue
  <2> QED
    BY <1>6, <2>0, <2>1, <2>2, <2>3, <2>4, FlightEffect DEF WatchedOps, AckRead, Begin
<1>7. ASSUME NEW s \in Slots, flight'[s].op \in {"ack_device", "ack_status"}
      PROVE  flight'[s].seen.type = commands'[flight'[s].cmd].type
  <2>0. flight \in [Slots -> Flights]
    BY DEF TypeOK
  <2>1. CASE flight'[s] = flight[s]
    <3>1. flight[s] \in AckFlights /\ flight[s].seen.type = commands[flight[s].cmd].type
      BY <1>7, <2>1, FlightByOp DEF SettledInv
    <3> QED  BY <1>1, <2>1, <3>1 DEF AckFlights, Effect, CommandsKept
  <2>2. CASE AckCommand(s)
    BY <1>7, <2>0, <2>2 DEF AckCommand, Continue, End, Idle
  <2>3. CASE AckDevice(s)
    <3>1. flight[s] \in AckFlights /\ flight[s].seen.type = commands[flight[s].cmd].type
      BY <2>3, FlightByOp DEF AckDevice, At, SettledInv
    <3> QED  BY <2>0, <2>3, <3>1 DEF AckDevice, Continue, AckFlights
  <2> QED
    BY <1>7, <2>0, <2>1, <2>2, <2>3, FlightEffect DEF WatchedOps, ReleaseRead, AckRead, Begin
<1> QED  BY <1>5, <1>6, <1>7 DEF SettledInv, At

\* Nothing is settled or released at first.
LEMMA SettledInit == Init => SettledInv
BY DEF Init, SettledInv, SettledIffReleaseQueued, OfType, ReleaseStates, Idle, At

\* In every run the schedule is settled exactly when a permanent release has been
\* queued, and a device being released belongs to a settled schedule.
THEOREM Settlement == Spec => []SettledIffReleaseQueued
<1>1. Init => TypeOK /\ SettledInv
  BY InitType, SettledInit
<1>2. TypeOK /\ SettledInv /\ [Next]_vars => TypeOK' /\ SettledInv'
  BY NextType, SettledStep
<1>3. SettledInv => SettledIffReleaseQueued
  BY DEF SettledInv
<1> QED  BY <1>1, <1>2, <1>3, PTL DEF Spec

-----------------------------------------------------------------------------
(* Transient states *)

\* IsLatest in the next state.
LatestNext(c) == \A i \in DOMAIN commands' : commands'[i].type = commands'[c].type => i <= c

\* A command just appended is the latest of its type, and no flight knows it.
LEMMA AppendedIsOpen ==
  ASSUME TypeOK, TypeOK', CommandsKept, NEW type \in CommandTypes, Appended(type)
  PROVE  /\ Open(type)'
         /\ \A c \in CommandIds : commands[c].type = type => ~LatestNext(c)
<1>0. PICK n : n = Len(commands) + 1
  OBVIOUS
<1>1. /\ DOMAIN commands' = CommandIds \cup {n} /\ n \in Nat
      /\ \A i \in CommandIds : i < n /\ i \in Nat /\ commands'[i].type = commands[i].type
      /\ commands'[n].type = type /\ commands'[n].status = "pending"
  <2>1. /\ Len(commands) \in Nat
        /\ DOMAIN commands' = CommandIds \cup {Len(commands) + 1}
        /\ \A i \in CommandIds : commands'[i].type = commands[i].type
    BY NextCommands
  <2>2. \A i \in CommandIds : i < n /\ i \in Nat
    BY <1>0, NextCommands DEF CommandIds
  <2> QED  BY <1>0, <2>1, <2>2 DEF Appended
<1>2. n \in OfType({type})' /\ IsLatest(n)'
  BY <1>1 DEF OfType, IsLatest
<1>3. ASSUME NEW c \in CommandIds, commands[c].type = type PROVE ~LatestNext(c)
  BY <1>1, <1>2, <1>3 DEF OfType, LatestNext
<1> QED  BY <1>1, <1>2, <1>3 DEF Open

\* While no command of its type is appended, a command remains the latest or not.
LEMMA LatestKept ==
  ASSUME TypeOK, TypeOK', Effect, NEW type \in DOMAIN PendingState, Proceeds,
         NEW c \in CommandIds, commands[c].type = type
  PROVE  LatestNext(c) <=> IsLatest(c)
<1>1. OfType({type})' = OfType({type})
  <2>1. CASE NoneAppended
    BY <2>1, NextCommands DEF Effect, OfType
  <2>2. ASSUME NEW t \in {"LOCK", "POLICY_UPDATE"}, Appended(t)
        PROVE  OfType({type})' = OfType({type})
    <3>1. commands'[Len(commands) + 1].type # type
      BY <2>2 DEF Appended, PendingState
    <3> QED  BY <2>2, <3>1, NextCommands DEF Effect, OfType
  <2> QED  BY <2>1, <2>2 DEF Proceeds
<1>2. commands'[c].type = type
  BY NextCommands DEF Effect
<1> QED  BY <1>1, <1>2 DEF IsLatest, LatestNext, OfType

\* A transient state keeps its open command.
LEMMA PendingStep ==
  ASSUME TypeOK, TypeOK', SettledInv, SettledInv', PendingInv, [Next]_vars
  PROVE  PendingInv'
<1> USE DEF PendingState
<1>0. Effect /\ flight \in [Slots -> Flights]
  BY NextEffect DEF TypeOK
<1> SUFFICES ASSUME NEW type \in DOMAIN PendingState, device'.state = PendingState[type]
             PROVE  /\ Open(type)'
                    /\ \A s \in Slots :
                         /\ flight'[s].op \in {"ack_read", "ack_device", "ack_status"}
                         /\ flight'[s].outcome = "acknowledged"
                         /\ commands'[flight'[s].cmd].type = type
                         /\ LatestNext(flight'[s].cmd)
                         => /\ flight'[s].op # "ack_status"
                            /\ flight'[s].read.state # AckTarget[type]
  BY DEF PendingInv, IsLatest, LatestNext, OfType
<1> type \in CommandTypes
  BY DEF CommandTypes, ControlTypes
<1>a. ASSUME NEW s \in Slots, flight[s].op \in {"ack_read", "ack_device", "ack_status"}
      PROVE  flight[s].cmd \in CommandIds
  BY <1>a, FlightByOp DEF At, AckReadFlights, AckFlights
<1>1. CASE Appended(type)
  <2>1. ASSUME NEW s \in Slots, flight'[s].op \in {"ack_read", "ack_device", "ack_status"},
               commands'[flight'[s].cmd].type = type
        PROVE  ~LatestNext(flight'[s].cmd)
    <3>1. flight'[s] = flight[s]
      <4>1. commands' # commands
        BY <1>1 DEF Appended, TypeOK
      <4> QED
        BY <2>1, <4>1, FlightEffect DEF WatchedOps, ReleaseRead, AckRead, AckCommand, AckDevice
    <3>2. flight[s].cmd \in CommandIds
      BY <1>a, <2>1, <3>1
    <3>3. commands[flight[s].cmd].type = type
      BY <1>0, <2>1, <3>1, <3>2 DEF Effect, CommandsKept
    <3> QED  BY <1>0, <1>1, <3>1, <3>2, <3>3, AppendedIsOpen DEF Effect
  <2> QED  BY <1>0, <1>1, <2>1, AppendedIsOpen DEF Effect
<1>2. CASE ~Appended(type)
  <2>1. Proceeds
    BY <1>0, <1>2 DEF Effect, Releases, Controls, ControlTypes, TargetState
  <2>2. ASSUME NEW s \in Slots, AckDevice(s)
        PROVE  /\ flight[s] \in AckFlights
               /\ device'.state = Saved(flight[s].read.state, AckTarget[flight[s].seen.type],
                                        device.state)
               /\ AckTarget[flight[s].seen.type] # device'.state
    <3>1. flight[s] \in AckFlights
      BY <2>2, FlightByOp DEF AckDevice, At
    <3>2. device'.state = Saved(flight[s].read.state, AckTarget[flight[s].seen.type],
                                device.state)
      BY <2>2 DEF AckDevice, TypeOK, DeviceDocs
    <3>3. AckTarget[flight[s].seen.type] # device'.state
      BY <3>1 DEF AckFlights, CommandDocs, CommandTypes, ControlTypes, AckTarget
    <3> QED  BY <3>1, <3>2, <3>3
  <2>3. device.state = PendingState[type]
    BY <2>1, <2>2 DEF Proceeds, Saved
  <2>4. PICK c \in OfType({type}) : IsLatest(c) /\ commands[c].status # "acknowledged"
    BY <2>3 DEF PendingInv, Open
  <2>5. c \in CommandIds /\ commands[c].type = type
    BY <1>0, <2>4, NextCommands DEF Effect, OfType
  <2>6. Open(type)'
    <3>1. c \in OfType({type})'
      BY <1>0, <2>1, <2>5, NextCommands DEF Effect, OfType, Proceeds
    <3>2. IsLatest(c)'
      BY <1>0, <2>1, <2>4, <2>5, LatestKept DEF IsLatest, LatestNext, OfType
    <3>3. commands'[c].status # "acknowledged"
      <4>1. SUFFICES ASSUME NEW s \in Slots, AckStatus(s), flight[s].cmd = c,
                            flight[s].outcome = "acknowledged"
                     PROVE  FALSE
        BY <1>0, <2>4, <2>5 DEF Effect, CommandsKept, Acknowledged
      <4> QED  BY <2>3, <2>4, <2>5, <4>1 DEF PendingInv, AckStatus, At
    <3> QED  BY <3>1, <3>2, <3>3 DEF Open
  <2>7. ASSUME NEW s \in Slots, flight'[s].op \in {"ack_read", "ack_device", "ack_status"},
               flight'[s].outcome = "acknowledged", commands'[flight'[s].cmd].type = type,
               LatestNext(flight'[s].cmd)
        PROVE  flight'[s].op # "ack_status" /\ flight'[s].read.state # AckTarget[type]
    <3>1. ASSUME flight[s].op \in {"ack_read", "ack_device", "ack_status"},
                 flight[s].cmd = flight'[s].cmd, flight[s].outcome = flight'[s].outcome
          PROVE  flight[s].op # "ack_status" /\ flight[s].read.state # AckTarget[type]
      <4>1. flight[s].cmd \in CommandIds
        BY <1>a, <3>1
      <4>2. commands[flight[s].cmd].type = type
        BY <1>0, <2>7, <3>1, <4>1 DEF Effect, CommandsKept
      <4>3. IsLatest(flight[s].cmd)
        BY <1>0, <2>1, <2>7, <3>1, <4>1, <4>2, LatestKept
      <4> QED  BY <2>3, <2>7, <3>1, <4>2, <4>3 DEF PendingInv
    <3>2. CASE flight'[s] = flight[s]
      BY <2>7, <3>1, <3>2
    <3>3. CASE \E d \in DOMAIN commands, outcome \in Outcomes : AckRead(s, d, outcome)
      BY <1>0, <2>3, <3>3 DEF AckRead, Begin, AckTarget
    <3>4. CASE AckCommand(s)
      <4>1. flight'[s] \in {Idle, [op |-> AckOp(flight[s].outcome), cmd |-> flight[s].cmd,
              outcome |-> flight[s].outcome, read |-> flight[s].read,
              seen |-> commands[flight[s].cmd]]}
        BY <1>0, <3>4 DEF AckCommand, Continue, End
      <4>2. /\ flight'[s].op = AckOp(flight[s].outcome) /\ flight'[s].cmd = flight[s].cmd
            /\ flight'[s].outcome = flight[s].outcome /\ flight'[s].read = flight[s].read
        BY <2>7, <4>1 DEF Idle
      <4> QED  BY <2>7, <3>1, <3>4, <4>2 DEF AckCommand, At, AckOp
    <3>5. CASE AckDevice(s)
      <4>1. flight[s] \in AckFlights /\ At(s, "ack_device")
        BY <2>2, <3>5 DEF AckDevice
      <4>2. flight'[s].cmd = flight[s].cmd /\ flight'[s].outcome = flight[s].outcome
        BY <1>0, <3>5, <4>1 DEF AckDevice, Continue, AckFlights
      <4>3. flight[s].seen.type = type
        BY <1>0, <1>a, <2>7, <4>1, <4>2 DEF SettledInv, At, Effect, CommandsKept
      <4>4. flight[s].read.state # AckTarget[type]
        BY <3>1, <4>1, <4>2 DEF At
      <4> QED  BY <2>2, <3>5, <4>3, <4>4 DEF Saved
    <3> QED
      BY <1>0, <2>7, <3>2, <3>3, <3>4, <3>5, FlightEffect DEF WatchedOps, ReleaseRead, Begin
  <2> QED  BY <2>6, <2>7
<1> QED  BY <1>1, <1>2

\* The device starts out in no transient state.
LEMMA PendingInit == Init => PendingInv
BY DEF Init, PendingInv, PendingState

\* In every run a device waiting for an unlock or a release has a latest command of
\* that type that has not been acknowledged.
THEOREM Transience == Spec => []PendingIsOpen
<1>1. Init => TypeOK /\ SettledInv /\ PendingInv
  BY InitType, SettledInit, PendingInit
<1>2. TypeOK /\ SettledInv /\ PendingInv /\ [Next]_vars => TypeOK' /\ SettledInv' /\ PendingInv'
  BY NextType, SettledStep, PendingStep
<1>3. PendingInv => PendingIsOpen
  BY DEF PendingInv, PendingIsOpen
<1> QED  BY <1>1, <1>2, <1>3, PTL DEF Spec

\* What the handlers in progress have read never endangers a settled schedule or a
\* transient state: the strengthening that both results rest on holds in every run.
THEOREM Lifecycle == Spec => []LifecycleInv
<1>1. Init => TypeOK /\ SettledInv /\ PendingInv
  BY InitType, SettledInit, PendingInit
<1>2. TypeOK /\ SettledInv /\ PendingInv /\ [Next]_vars => TypeOK' /\ SettledInv' /\ PendingInv'
  BY NextType, SettledStep, PendingStep
<1>3. SettledInv /\ PendingInv => LifecycleInv
  BY DEF LifecycleInv
<1> QED  BY <1>1, <1>2, <1>3, PTL DEF Spec

-----------------------------------------------------------------------------
(* The scheduled jobs and temporary unlocks *)

\* No job run works with a time that has not come yet, also when it goes on after
\* creating a command.
JobsInv ==
  \A s \in Slots :
    /\ flight[s].op \in JobOps \ {"emi_grace_check"} => flight[s].at <= now
    /\ flight[s].op \in {"emi_grace_check", "hook", "insert"} /\ flight[s].then # Idle
         => flight[s].then.at <= now

\* The condition on one flight.
InTime(f, t) ==
  /\ f.op \in JobOps \ {"emi_grace_check"} => f.at <= t
  /\ f.op \in {"emi_grace_check", "hook", "insert"} /\ f.then # Idle => f.then.at <= t

\* A flight that a started handler begins is in time.
LEMMA StartInTime ==
  ASSUME TypeOK, NEW s \in Slots, Start(s)
  PROVE  InTime(flight'[s], now)
<1>1. flight \in [Slots -> Flights] /\ now \in Nat
  BY BoundAssumption DEF TypeOK
<1> QED
  BY <1>1 DEF Start, ControlRead, ReleaseRead, ApproveRead, WaiveRead, ResolveRead, ExpiryFind,
              EmiFind, RiskRead, SendFind, AckRead, Begin, InTime, JobOps

\* A flight that goes on remains in time.
LEMMA StepInTime ==
  ASSUME TypeOK, JobsInv, NEW s \in Slots, Step(s)
  PROVE  InTime(flight'[s], now)
<1>0. flight \in [Slots -> Flights] /\ InTime(flight[s], now)
  BY DEF TypeOK, JobsInv, InTime
<1>1. ASSUME End(s) PROVE InTime(flight'[s], now)
  BY <1>0, <1>1 DEF End, Idle, InTime, JobOps
<1>2. ASSUME NEW f, f.op \notin JobOps \cup {"hook", "insert"}, Continue(s, f)
      PROVE  InTime(flight'[s], now)
  BY <1>0, <1>2 DEF Continue, InTime, JobOps
<1>3. CASE CreateHook(s)
  <2>1. flight[s] \in CreateFlights
    BY <1>3, FlightByOp DEF CreateHook, At
  <2>2. CASE End(s)
    BY <1>1, <2>2
  <2>3. CASE Continue(s, [flight[s] EXCEPT !.op = "insert"])
    <3>1. flight'[s].op = "insert" /\ flight'[s].then = flight[s].then
      BY <1>0, <2>1, <2>3 DEF Continue, CreateFlights
    <3> QED  BY <1>0, <1>3, <3>1 DEF CreateHook, At, InTime, JobOps
  <2> QED  BY <1>3, <2>2, <2>3 DEF CreateHook
<1>4. CASE CreateInsert(s)
  <2>1. flight[s] \in CreateFlights /\ flight'[s] = flight[s].then
    BY <1>0, <1>4, FlightByOp DEF CreateInsert, At, Continue
  <2>2. flight'[s] = Idle \/ flight'[s].op = "emi_lock_check"
    BY <2>1 DEF CreateFlights, Continuations
  <2>3. flight[s].then # Idle => flight[s].then.at <= now
    BY <1>0, <1>4 DEF CreateInsert, At, InTime
  <2>4. Idle.op = "idle"
    BY DEF Idle
  <2>5. CASE flight'[s] = Idle
    BY <2>4, <2>5 DEF InTime, JobOps
  <2>6. CASE flight'[s] # Idle
    BY <2>1, <2>2, <2>3, <2>6 DEF InTime, JobOps
  <2> QED  BY <2>5, <2>6
<1>5. CASE ExpiryUpdate(s) \/ ExpirySupersede(s) \/ RiskCheck(s) \/ RiskLock(s) \/ EmiLock(s)
  BY <1>0, <1>1, <1>5
     DEF ExpiryUpdate, ExpirySupersede, RiskCheck, RiskLock, EmiLock, Continue, InTime, JobOps
<1>6. CASE EmiDevice(s)
  BY <1>0, <1>6, FlightByOp DEF EmiDevice, At, Continue, FoundFlights, InTime, JobOps
<1>7. CASE EmiSave(s) \/ EmiGrace(s) \/ EmiLockCheck(s)
  <2>1. flight[s] \in EmiFlights /\ flight[s].at <= now
    BY <1>0, <1>7, FlightByOp DEF EmiSave, EmiGrace, EmiLockCheck, At, InTime, JobOps
  <2>2. \A op : /\ [flight[s] EXCEPT !.op = op].op = op
                /\ [flight[s] EXCEPT !.op = op].at = flight[s].at
    BY <2>1 DEF EmiFlights
  <2>3. ASSUME NEW op \in JobOps \ {"emi_grace_check"},
               Continue(s, [flight[s] EXCEPT !.op = op])
        PROVE  InTime(flight'[s], now)
    BY <1>0, <2>1, <2>2, <2>3 DEF Continue, InTime, JobOps
  <2>4. ASSUME NEW i, Continue(s, [op |-> "emi_grace_check", installment |-> i,
                                   then |-> [flight[s] EXCEPT !.op = "emi_lock_check"]])
        PROVE  InTime(flight'[s], now)
    BY <1>0, <2>1, <2>2, <2>4 DEF Continue, InTime, JobOps
  <2> QED
    BY <1>1, <1>7, <2>3, <2>4 DEF EmiSave, EmiGrace, EmiLockCheck, JobOps
<1>8. CASE EmiGraceCheck(s)
  <2>1. flight[s] \in GraceFlights /\ (flight[s].then # Idle => flight[s].then.at <= now)
    BY <1>0, <1>8, FlightByOp DEF EmiGraceCheck, At, InTime
  <2>2. flight[s].then = Idle \/ flight[s].then.op = "emi_lock_check"
    BY <2>1 DEF GraceFlights, Continuations
  <2> QED  BY <1>0, <1>8, <2>1, <2>2 DEF EmiGraceCheck, Continue, InTime, JobOps, Idle
<1>9. CASE AckCommand(s) \/ AckDevice(s) \/ AckStatus(s)
  <2>1. At(s, "ack_device") => [flight[s] EXCEPT !.op = "ack_status"].op = "ack_status"
    BY FlightByOp DEF At, AckFlights
  <2> QED
    BY <1>1, <1>2, <1>9, <2>1 DEF AckCommand, AckDevice, AckStatus, AckOp, JobOps
<1> QED
  BY <1>1, <1>3, <1>4, <1>5, <1>6, <1>7, <1>8, <1>9
     DEF Step, ControlCommit, ReleaseCommit, ApproveCommit, WaiveCommit, ResolveCommit, SendSave,
         AckCleanup

\* Time passes and the job runs stay in time.
LEMMA JobsStep ==
  ASSUME TypeOK, JobsInv, [Next]_vars
  PROVE  JobsInv'
<1>0. /\ flight \in [Slots -> Flights] /\ now \in Nat
      /\ \A s \in Slots : InTime(flight[s], now)
  BY BoundAssumption DEF TypeOK, JobsInv, InTime
<1> SUFFICES ASSUME NEW s \in Slots PROVE InTime(flight'[s], now')
  BY DEF JobsInv, InTime
<1>1. CASE flight'[s] = flight[s] /\ now' = now
  BY <1>0, <1>1
<1>2. CASE Start(s) \/ Step(s)
  <2>1. now' = now
    BY <1>2 DEF Start, ControlRead, ReleaseRead, ApproveRead, WaiveRead, ResolveRead, ExpiryFind,
         EmiFind, RiskRead, SendFind, AckRead,
         Step, ControlCommit, ReleaseCommit, ApproveCommit, WaiveCommit, ResolveCommit, CreateHook,
         CreateInsert, ExpiryUpdate, ExpirySupersede, EmiDevice, EmiSave, EmiGrace, EmiGraceCheck,
         EmiLockCheck, EmiLock, RiskCheck, RiskLock, SendSave, AckCommand, AckDevice, AckStatus,
         AckCleanup
  <2> QED  BY <1>2, <2>1, StartInTime, StepInTime
<1>3. CASE Crash(s)
  BY <1>0, <1>3 DEF Crash, End, Idle, InTime, JobOps
<1>4. CASE Tick
  <2>1. flight[s] \in Flights /\ now' = now + 1 /\ flight' = flight
    BY <1>0, <1>4 DEF Tick
  <2>2. /\ flight[s].op \in JobOps \ {"emi_grace_check"} => flight[s].at \in Nat
        /\ flight[s].op \in {"emi_grace_check", "hook", "insert"} /\ flight[s].then # Idle
             => flight[s].then.at \in Nat
    BY FlightByOp DEF At, JobOps, ExpiryFlights, FoundFlights, EmiFlights, GraceFlights,
                      CreateFlights, Continuations
  <2> QED  BY <1>0, <2>1, <2>2 DEF InTime
<1>5. ASSUME NEW t \in Slots, Start(t) \/ Step(t) \/ Crash(t), t # s
      PROVE  flight'[s] = flight[s] /\ now' = now
  <2>1. flight'[s] = flight[s]
    BY <1>0, <1>5, OneFlight
  <2>2. now' = now
    BY <1>5 DEF Start, ControlRead, ReleaseRead, ApproveRead, WaiveRead, ResolveRead, ExpiryFind,
         EmiFind, RiskRead, SendFind, AckRead, Crash,
         Step, ControlCommit, ReleaseCommit, ApproveCommit, WaiveCommit, ResolveCommit, CreateHook,
         CreateInsert, ExpiryUpdate, ExpirySupersede, EmiDevice, EmiSave, EmiGrace, EmiGraceCheck,
         EmiLockCheck, EmiLock, RiskCheck, RiskLock, SendSave, AckCommand, AckDevice, AckStatus,
         AckCleanup
  <2> QED  BY <2>1, <2>2
<1>6. CASE AtOnce \/ UNCHANGED vars
  BY <1>1, <1>6 DEF AtOnce, TenantControl, EscalationControl, EscalationResolve, MarkPaid, vars
<1> QED  BY <1>1, <1>2, <1>3, <1>4, <1>5, <1>6 DEF Next

\* A job step finds a temporary unlock whose deadline is to come, and leaves it.
LEMMA JobStepRespects ==
  ASSUME TypeOK, JobsInv, [Next]_vars, NEW s \in Slots,
         flight[s].op \in JobOps, flight'[s] # flight[s],
         device.state = "TEMP_UNLOCK", device.tempUntil > now
  PROVE  device' = device
<1>0. /\ flight \in [Slots -> Flights] /\ now \in Nat
      /\ device.tempUntil \in Nat \cup {NoDeadline} /\ NoDeadline \in Int
  BY BoundAssumption DEF TypeOK, DeviceDocs, NoDeadline
<1>1. flight[s].op \in JobOps \ {"emi_grace_check"} =>
        flight[s].at \in Nat /\ flight[s].at <= now
  BY FlightByOp DEF At, JobOps, ExpiryFlights, FoundFlights, EmiFlights, JobsInv
<1>2. Step(s) \/ Crash(s)
  <2>1. ~Start(s)
    BY DEF Start, ControlRead, ReleaseRead, ApproveRead, WaiveRead, ResolveRead, ExpiryFind,
         EmiFind, RiskRead, SendFind, AckRead, Begin, Idle, JobOps
  <2>2. ~AtOnce /\ ~Tick /\ ~UNCHANGED vars
    BY DEF AtOnce, TenantControl, EscalationControl, EscalationResolve, MarkPaid, Tick, vars
  <2>3. \A t \in Slots \ {s} : ~(Start(t) \/ Step(t) \/ Crash(t))
    BY <1>0, OneFlight
  <2> QED  BY <2>1, <2>2, <2>3 DEF Next
<1>3. CASE Crash(s) \/ EmiDevice(s) \/ EmiSave(s) \/ EmiGraceCheck(s) \/ EmiLockCheck(s)
  BY <1>3 DEF Crash, EmiDevice, EmiSave, EmiGraceCheck, EmiLockCheck
<1>4. CASE ExpiryUpdate(s)
  <2>1. ~TempUnlockExpired(device, flight[s].at)
    BY <1>0, <1>1, <1>4 DEF ExpiryUpdate, At, JobOps, TempUnlockExpired
  <2> QED  BY <1>4, <2>1 DEF ExpiryUpdate
<1>5. CASE EmiGrace(s) \/ EmiLock(s)
  <2>1. flight[s].at \in Nat /\ flight[s].at <= now
    BY <1>1, <1>5 DEF EmiGrace, EmiLock, At, JobOps
  <2>2. ~EmiUpdateApplies(flight[s].at)
    BY <1>0, <2>1 DEF EmiUpdateApplies, TempUnlockActive, NoDeadline
  <2> QED  BY <1>5, <2>2 DEF EmiGrace, EmiLock
<1> QED
  BY <1>2, <1>3, <1>4, <1>5
     DEF Step, JobOps, At, ControlCommit, ReleaseCommit, ApproveCommit, WaiveCommit, ResolveCommit,
         CreateHook, CreateInsert, ExpirySupersede, RiskCheck, RiskLock, SendSave, AckCommand, AckDevice,
         AckStatus, AckCleanup

\* In every run a step of the EMI policy job or of the expiry job leaves a temporary
\* unlock alone until its deadline.
THEOREM TemporaryUnlocks == Spec => JobsRespectTempUnlock
<1>1. Init => TypeOK /\ JobsInv
  BY InitType DEF Init, JobsInv, Idle, JobOps
<1>2. TypeOK /\ JobsInv /\ [Next]_vars => TypeOK' /\ JobsInv'
  BY NextType, JobsStep
<1>3. TypeOK /\ JobsInv /\ [Next]_vars =>
        [(\E s \in Slots : flight[s].op \in JobOps /\ flight'[s] # flight[s])
           /\ device.state = "TEMP_UNLOCK" /\ device.tempUntil > now
         => device'.state = "TEMP_UNLOCK" /\ device'.tempUntil = device.tempUntil]_vars
  BY JobStepRespects
<1> QED  BY <1>1, <1>2, <1>3, PTL DEF Spec, JobsRespectTempUnlock

-----------------------------------------------------------------------------
(* Temporary unlocks without a deadline *)

\* The confirmation skips its time check for a command recorded as failed.
Unchecked(c) == c.status = "failed" /\ c.source # "device_enforcement"

\* A handler about to queue a temporary unlock has its deadline, and one about to apply
\* a confirmed one has read the device in it, unless the check was skipped.
Guarded(f) ==
  /\ f.op = "control_commit" /\ f.type = "TEMP_UNLOCK" => f.until # NoDeadline
  /\ Running /\ f.op = "ack_device" /\ f.seen.type = "TEMP_UNLOCK"
       => Unchecked(f.seen) \/ f.read.state = "TEMP_UNLOCK"

DeadlineInv == \A s \in Slots : Guarded(flight[s])

\* The deadline of a temporary unlock lies in the future.
LEMMA DeadlineSet ==
  ASSUME TypeOK, NEW until \in Deadlines("TEMP_UNLOCK")
  PROVE  until # NoDeadline
BY BoundAssumption DEF Deadlines, TypeOK, NoDeadline

\* Only the first read of a control brings a handler to queue it.
LEMMA ControlFlight ==
  ASSUME TypeOK, NEW s \in Slots, Step(s)
  PROVE  flight'[s].op # "control_commit"
<1>0. flight \in [Slots -> Flights]
  BY DEF TypeOK
<1>1. ASSUME End(s) PROVE flight'[s].op # "control_commit"
  BY <1>0, <1>1 DEF End, Idle
<1>2. ASSUME NEW f, f.op # "control_commit", Continue(s, f)
      PROVE  flight'[s].op # "control_commit"
  BY <1>0, <1>2 DEF Continue
<1>3. CASE CreateInsert(s)
  <2>1. flight[s].then \in Continuations
    BY <1>3, FlightByOp DEF CreateInsert, At, CreateFlights
  <2>2. flight[s].then.op # "control_commit"
    BY <2>1 DEF Continuations, Idle
  <2> QED  BY <1>2, <1>3, <2>2 DEF CreateInsert
<1>4. CASE CreateHook(s)
  <2>1. flight[s] \in CreateFlights
    BY <1>4, FlightByOp DEF CreateHook, At
  <2>2. [flight[s] EXCEPT !.op = "insert"].op = "insert"
    BY <2>1 DEF CreateFlights
  <2> QED  BY <1>1, <1>2, <1>4, <2>2 DEF CreateHook
<1>5. CASE ExpiryUpdate(s) \/ ExpirySupersede(s)
  BY <1>1, <1>2, <1>5 DEF ExpiryUpdate, ExpirySupersede
<1>6. CASE EmiDevice(s) \/ EmiSave(s) \/ EmiLockCheck(s) \/ EmiLock(s) \/ RiskCheck(s)
           \/ RiskLock(s)
  <2>1. flight[s].op \in {"emi_save", "emi_grace", "emi_lock_check", "emi_lock"}
          => \A op : [flight[s] EXCEPT !.op = op].op = op
    BY FlightByOp DEF EmiFlights
  <2> QED
    BY <1>1, <1>2, <1>6, <2>1
       DEF EmiDevice, EmiSave, EmiLockCheck, EmiLock, RiskCheck, RiskLock, At
<1>7. CASE EmiGrace(s) \/ EmiGraceCheck(s)
  <2>1. At(s, "emi_grace") => [flight[s] EXCEPT !.op = "emi_lock_check"].op = "emi_lock_check"
    BY FlightByOp DEF At, EmiFlights
  <2>2. At(s, "emi_grace_check") => flight[s].then.op # "control_commit"
    BY FlightByOp DEF GraceFlights, Continuations, Idle
  <2> QED  BY <1>2, <1>7, <2>1, <2>2 DEF EmiGrace, EmiGraceCheck
<1>8. CASE AckCommand(s) \/ AckStatus(s)
  BY <1>1, <1>2, <1>8 DEF AckCommand, AckOp, AckStatus
<1>9. CASE AckDevice(s)
  <2>1. flight[s] \in AckFlights
    BY <1>9, FlightByOp DEF AckDevice, At
  <2>2. [flight[s] EXCEPT !.op = "ack_status"].op = "ack_status"
    BY <2>1 DEF AckFlights
  <2> QED  BY <1>2, <1>9, <2>2 DEF AckDevice
<1> QED
  BY <1>1, <1>3, <1>4, <1>5, <1>6, <1>7, <1>8, <1>9
     DEF Step, ControlCommit, ReleaseCommit, ApproveCommit, WaiveCommit, ResolveCommit, SendSave,
         AckCleanup

\* A command that passes the check of a confirmation was recorded as failed, or the
\* device was read in its temporary unlock.
LEMMA AcceptedUnlock ==
  ASSUME NEW read, NEW c \in CommandDocs, Running, c.type = "TEMP_UNLOCK", AckAccepted(read, c)
  PROVE  Unchecked(c) \/ read.state = "TEMP_UNLOCK"
BY DEF AckAccepted, Terminal, Outcomes, TempUnlockActive, Unchecked

\* Every step keeps the handlers guarded.
LEMMA DeadlineStep ==
  ASSUME TypeOK, DeadlineInv, [Next]_vars
  PROVE  DeadlineInv'
<1>0. flight \in [Slots -> Flights] /\ \A s \in Slots : Guarded(flight[s])
  BY DEF TypeOK, DeadlineInv
<1> SUFFICES ASSUME NEW s \in Slots PROVE Guarded(flight'[s])
  BY DEF DeadlineInv, Guarded
<1>1. ASSUME flight'[s].op = "ack_device" PROVE Guarded(flight'[s])
  <2>1. CASE AckCommand(s)
    <3>1. /\ commands[flight[s].cmd] \in CommandDocs
          /\ flight[s].read = flight[s].read
      BY <2>1, FlightByOp DEF AckCommand, At, AckReadFlights, TypeOK, CommandIds
    <3>2. /\ AckAccepted(flight[s].read, commands[flight[s].cmd])
          /\ flight'[s].read = flight[s].read /\ flight'[s].seen = commands[flight[s].cmd]
      BY <1>0, <1>1, <2>1 DEF AckCommand, Continue, End, Idle
    <3> QED  BY <1>1, <3>1, <3>2, AcceptedUnlock DEF Guarded
  <2>2. CASE AckDevice(s)
    <3>1. flight[s] \in AckFlights
      BY <2>2, FlightByOp DEF AckDevice, At
    <3>2. flight'[s].op = "ack_status"
      BY <1>0, <2>2, <3>1 DEF AckDevice, Continue, AckFlights
    <3> QED  BY <1>1, <3>2
  <2> QED
    BY <1>0, <1>1, <2>1, <2>2, FlightEffect DEF WatchedOps, ReleaseRead, AckRead, Begin
<1>2. ASSUME flight'[s].op = "control_commit" PROVE Guarded(flight'[s])
  <2>1. CASE \E type \in ControlTypes : \E until \in Deadlines(type) : ControlRead(s, type, until)
    <3>1. PICK type \in ControlTypes : \E until \in Deadlines(type) : ControlRead(s, type, until)
      BY <2>1
    <3>2. PICK until \in Deadlines(type) : ControlRead(s, type, until)
      BY <3>1
    <3>3. flight'[s].type = type /\ flight'[s].until = until
      BY <1>0, <3>2 DEF ControlRead, Begin
    <3> QED  BY <1>2, <3>2, <3>3, DeadlineSet DEF Guarded
  <2>2. CASE \E t \in Slots \ {s} : Start(t) \/ Step(t) \/ Crash(t)
    BY <1>0, <2>2, OneFlight
  <2>3. CASE AtOnce \/ Tick \/ UNCHANGED vars
    BY <1>0, <2>3 DEF AtOnce, TenantControl, EscalationControl, EscalationResolve, MarkPaid, Tick,
                      vars
  <2>4. ~Step(s) /\ ~Crash(s)
    BY <1>0, <1>2, ControlFlight DEF Crash, End, Idle
  <2>5. Start(s) => \E type \in ControlTypes : \E until \in Deadlines(type) :
                      ControlRead(s, type, until)
    BY <1>0, <1>2 DEF Start, ReleaseRead, ApproveRead, WaiveRead, ResolveRead, ExpiryFind, EmiFind,
                      RiskRead, SendFind, AckRead, Begin
  <2> QED  BY <2>1, <2>2, <2>3, <2>4, <2>5 DEF Next
<1> QED  BY <1>1, <1>2 DEF Guarded

\* What queues a control sets the deadline of a temporary unlock.
LEMMA QueuedUnlock ==
  ASSUME NEW type \in ControlTypes, NEW until, QueueControl(type, until),
         type = "TEMP_UNLOCK" => until # NoDeadline
  PROVE  ~Endless'
BY DEF QueueControl, ControlTypes, TargetState, Endless

\* A release, a lock and the end of a deadline are no temporary unlock.
LEMMA OtherUnlocks ==
  ASSUME TypeOK, QueueRelease \/ device' = Relocked
  PROVE  ~Endless'
BY DEF QueueRelease, Relocked, Endless, TypeOK, DeviceDocs

\* Only a confirmation can leave a temporary unlock without its deadline.
LEMMA EndlessStep ==
  ASSUME TypeOK, DeadlineInv, [Next]_vars, ~Endless, Endless'
  PROVE  \E s \in Slots : AckDevice(s)
<1>1. device' # device
  BY DEF Endless
<1>2. ASSUME NEW s \in Slots, Start(s) PROVE FALSE
  BY <1>1, <1>2 DEF Start, ControlRead, ReleaseRead, ApproveRead, WaiveRead, ResolveRead,
                    ExpiryFind, EmiFind, RiskRead, SendFind, AckRead
<1>3. ASSUME AtOnce PROVE FALSE
  <2>1. ASSUME NEW type \in {"LOCK", "UNLOCK"}, TenantControl(type) PROVE FALSE
    BY <2>1, QueuedUnlock DEF TenantControl, ControlTypes
  <2>2. ASSUME NEW type \in {"UNLOCK", "TEMP_UNLOCK"}, NEW until \in Deadlines(type),
               EscalationControl(type, until)
        PROVE  FALSE
    BY <2>2, QueuedUnlock, DeadlineSet DEF EscalationControl, ControlTypes
  <2>3. ASSUME NEW outcome, EscalationResolve(outcome) PROVE FALSE
    BY <2>3, QueuedUnlock DEF EscalationResolve, ControlTypes
  <2>4. ASSUME NEW i, MarkPaid(i) PROVE FALSE
    BY <1>1, <2>4, QueuedUnlock, OtherUnlocks DEF MarkPaid, ControlTypes
  <2> QED  BY <1>3, <2>1, <2>2, <2>3, <2>4 DEF AtOnce
<1>4. ASSUME NEW s \in Slots, Step(s), ~AckDevice(s) PROVE FALSE
  <2>1. ASSUME ControlCommit(s) PROVE FALSE
    <3>1. flight[s].type \in ControlTypes
      BY <2>1, FlightByOp DEF ControlCommit, At, ControlFlights
    <3>2. flight[s].type = "TEMP_UNLOCK" => flight[s].until # NoDeadline
      BY <2>1 DEF ControlCommit, At, DeadlineInv, Guarded
    <3> QED  BY <1>1, <2>1, <3>1, <3>2, QueuedUnlock DEF ControlCommit
  <2>2. ~ReleaseCommit(s) /\ ~ExpiryUpdate(s) /\ ~EmiLock(s) /\ ~RiskLock(s)
    BY <1>1, OtherUnlocks DEF ReleaseCommit, ExpiryUpdate, EmiLock, RiskLock
  <2>3. ASSUME NEW full, NEW part, ApproveCommit(s, full, part) PROVE FALSE
    BY <1>1, <2>3, QueuedUnlock, OtherUnlocks DEF ApproveCommit, ControlTypes
  <2>4. ~WaiveCommit(s)
    BY <1>1, QueuedUnlock DEF WaiveCommit, ControlTypes
  <2>5. ASSUME NEW outcome, ResolveCommit(s, outcome) PROVE FALSE
    BY <1>1, <2>5, QueuedUnlock DEF ResolveCommit, ControlTypes
  <2>6. ~EmiGrace(s)
    BY <1>1 DEF EmiGrace, Endless, TypeOK, DeviceDocs
  <2> QED
    BY <1>1, <1>4, <2>1, <2>2, <2>3, <2>4, <2>5, <2>6
       DEF Step, CreateHook, CreateInsert, ExpirySupersede, EmiDevice, EmiSave, EmiGraceCheck,
           EmiLockCheck, RiskCheck, SendSave, AckCommand, AckStatus, AckCleanup
<1> QED  BY <1>1, <1>2, <1>3, <1>4 DEF Next, Crash, Tick, vars

\* A confirmation that does so skipped its time check, or repeats a release.
LEMMA ConfirmedUnlock ==
  ASSUME TypeOK, DeadlineInv, NEW s \in Slots, AckDevice(s), ~Endless, Endless'
  PROVE  /\ At(s, "ack_device")
         /\ \/ flight[s].seen.type = "TEMP_UNLOCK" /\ Unchecked(flight[s].seen)
            \/ flight[s].seen.type = "RELEASE_DEVICE" /\ flight[s].read.state = "RELEASED"
<1>1. flight[s] \in AckFlights /\ device \in DeviceDocs /\ At(s, "ack_device") /\ Running
  BY FlightByOp DEF AckDevice, At, TypeOK, Endless
<1>2. PICK type \in CommandTypes : type = flight[s].seen.type
  BY <1>1 DEF AckFlights, CommandDocs
<1>3. device'.state = Saved(flight[s].read.state, AckTarget[type], device.state)
  BY <1>1, <1>2 DEF AckDevice, DeviceDocs
<1>4. type # "RELEASE_DEVICE" => device'.tempUntil = device.tempUntil
  BY <1>1, <1>2 DEF AckDevice, DeviceDocs
<1>5. CASE type = "RELEASE_DEVICE"
  BY <1>1, <1>2, <1>3, <1>5 DEF Saved, AckTarget, Endless
<1>6. CASE type # "RELEASE_DEVICE"
  <2>1. device.state # "TEMP_UNLOCK"
    BY <1>4, <1>6 DEF Endless
  <2>2. AckTarget[type] = "TEMP_UNLOCK" /\ flight[s].read.state # "TEMP_UNLOCK"
    BY <1>3, <2>1 DEF Saved, Endless
  <2>3. type = "TEMP_UNLOCK"
    BY <2>2 DEF AckTarget, CommandTypes, ControlTypes
  <2> QED  BY <1>1, <1>2, <2>2, <2>3 DEF At, DeadlineInv, Guarded
<1> QED  BY <1>5, <1>6

\* In every run a running-app device comes to a temporary unlock without a deadline only
\* by a confirmation that skips its time check, or by one that repeats a release.
THEOREM Deadline == Spec => EndlessUnlockNeedsFailure
<1>1. Init => TypeOK /\ DeadlineInv
  BY InitType DEF Init, DeadlineInv, Guarded, Idle
<1>2. TypeOK /\ DeadlineInv /\ [Next]_vars => TypeOK' /\ DeadlineInv'
  BY NextType, DeadlineStep
<1>3. TypeOK /\ DeadlineInv /\ [Next]_vars =>
        [~Endless /\ Endless' =>
           \E s \in Slots :
             /\ At(s, "ack_device")
             /\ \/ /\ flight[s].seen.type = "TEMP_UNLOCK"
                   /\ flight[s].seen.status = "failed"
                   /\ flight[s].seen.source # "device_enforcement"
                \/ flight[s].seen.type = "RELEASE_DEVICE" /\ flight[s].read.state = "RELEASED"]_vars
  BY EndlessStep, ConfirmedUnlock DEF Unchecked
<1> QED  BY <1>1, <1>2, <1>3, PTL DEF Spec, EndlessUnlockNeedsFailure
=============================================================================
