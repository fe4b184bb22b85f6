----------------------- MODULE BorrowerRequestProofs -----------------------
(***************************************************************************)
(* What holds of BorrowerRequests for any payments, installments, cases    *)
(* and slots: that the schedule holds the money of the payments matched    *)
(* with it, that a payment unlocks the device once and a deadline raises   *)
(* one breach, and that the handlers and the job implement Escalation.     *)
(***************************************************************************)
EXTENDS BorrowerRequests, FiniteSums, WellFoundedInduction, TLAPS

-----------------------------------------------------------------------------
(* Data *)

DecisionOps == {"unlock", "waive", "temp_unlock", "paid", "waived", "reject"}

\* The three levels and the statuses their decisions leave, which are all different.
LEMMA LevelNames ==
  /\ Levels = {"tenant", "partner", "admin"}
  /\ \A level \in Levels : Resolved[level] \in CaseStatuses /\ Rejected[level] \in CaseStatuses
  /\ \A level \in Levels : Decided(level) \cap (OpenStatuses \cup {"none"}) = {}
  /\ \A level, other \in Levels : level # other => Decided(level) \cap Decided(other) = {}
<1>1. Levels = {"tenant", "partner", "admin"}
  BY DEF Levels, Resolved
<1>2. \A level \in Levels : Resolved[level] \in Decided(level) /\ Rejected[level] \in Decided(level)
  BY DEF Decided
<1>3. \A level \in Levels : Decided(level) \cap (OpenStatuses \cup {"none"}) = {}
  BY <1>1 DEF Decided, OpenStatuses, Resolved, Rejected
<1>4. \A level, other \in Levels : level # other => Decided(level) \cap Decided(other) = {}
  BY <1>1 DEF Decided, Resolved, Rejected
<1> QED  BY <1>1, <1>2, <1>3, <1>4 DEF CaseStatuses

\* What each request in progress carries.
LEMMA FlightFields ==
  ASSUME NEW f \in Flights
  PROVE  /\ f.op = "submit" => f.amount \in Amounts
         /\ f.op = "approve" => f.id \in Payments /\ f.version \in Nat
         /\ f.op = "reject_payment" => f.id \in Payments
         /\ f.op = "case" => f.sla \in Nat
         /\ f.op \in DecisionOps => f.level \in Levels /\ f.id \in Cases
<1>1. CASE f = Idle
  BY <1>1 DEF Idle, DecisionOps
<1>2. CASE f \in [op : {"submit"}, amount : Amounts]
  BY <1>2 DEF DecisionOps
<1>3. CASE f \in [op : {"approve"}, id : Payments, version : Nat]
  BY <1>3 DEF DecisionOps
<1>4. CASE f \in [op : {"reject_payment"}, id : Payments]
  BY <1>4 DEF DecisionOps
<1>5. CASE f \in [op : {"case"}, sla : Nat]
  BY <1>5 DEF DecisionOps
<1>6. CASE f \in [op : DecisionOps, level : Levels, id : Cases]
  BY <1>6 DEF DecisionOps
<1> QED  BY <1>1, <1>2, <1>3, <1>4, <1>5, <1>6 DEF Flights, DecisionOps

\* The first of the unpaid installments is one of them.
LEMMA EarliestUnpaid ==
  ASSUME Unpaid(schedule) # {}
  PROVE  Min(Unpaid(schedule)) \in Unpaid(schedule)
<1> DEFINE S == Unpaid(schedule)
<1>1. S \in SUBSET Nat
  BY InstallmentsAssumption DEF Unpaid
<1> HIDE DEF S
<1>2. SUFFICES ASSUME S # {} PROVE Min(S) \in S
  BY DEF S
<1>3. PICK i \in S : \A j \in S : ~(<<j, i>> \in OpToRel(<, Nat))
  BY <1>1, <1>2, NatLessThanWellFounded, WFMin, Zenon
<1>4. \A j \in S : i <= j
  <2>1. ASSUME NEW j \in S, j < i PROVE FALSE
    <3>1. <<j, i>> \in OpToRel(<, Nat)
      BY <1>1, <2>1 DEF OpToRel
    <3> QED  BY <1>3, <3>1
  <2> QED  BY <1>1, <2>1
<1> QED  BY <1>4 DEF Min

-----------------------------------------------------------------------------
(* Three views of a step *)

\* Of payments, schedule and unlocks.
PaymentStep ==
  \/ UNCHANGED <<payVars, unlocks>>
  \/ \E s \in Slots, p \in Payments : SubmitCreate(s, p)
  \/ \E s \in Slots, m \in [Installments -> 0 .. Max(Amounts)] : ApproveCommit(s, m)
  \/ \E s \in Slots : RejectSave(s)
  \/ \E i \in Installments : MarkPaid(i)
  \/ \E outcome \in {"paid", "waived"} :
       ResolveAll(outcome) /\ UNCHANGED <<payments, device, unlocks>>
  \/ \E i \in Unpaid(schedule) : Waive(i) /\ UNCHANGED <<payments, device, unlocks>>
  \/ ReleaseRetry \/ WriteOverRelease

\* Of the cases and the job.
Decides(s) ==
  /\ flight[s].op \in DecisionOps
  /\ \E statuses \in {Resolved, Rejected} : SaveDecision(s, statuses)

JobStep(r) == SlaJob(r) \/ JobFail(r)

CaseStep ==
  \/ UNCHANGED caseVars
  \/ \E s \in Slots, c \in Cases : CaseCreate(s, c)
  \/ \E s \in Slots : Decides(s)
  \/ \E r \in Runs : JobStep(r)

\* Of the handlers in flight.
Starts(s) ==
  \/ \E amount \in Amounts : SubmitCheck(s, amount)
  \/ \E p \in Payments : ApproveRead(s, p) \/ RejectRead(s, p)
  \/ CaseCheck(s)
  \/ \E c \in Cases : TenantRead(s, c) \/ PartnerRead(s, c) \/ AdminRead(s, c)

FlightStep ==
  \/ UNCHANGED flight
  \/ \E s \in Slots : End(s)
  \/ \E s \in Slots : Starts(s)

ClockStep ==
  /\ scenario' = scenario
  /\ \/ now' = now
     \/ now' = now + 1 /\ UNCHANGED <<payVars, caseVars, unlocks, flight>>
  /\ failures' = failures \/ failures' = failures + 1

\* What a request does to the payments, the cases and the other requests.
LEMMA HandleViews ==
  ASSUME NEW s \in Slots, Handle(s)
  PROVE  PaymentStep /\ CaseStep /\ FlightStep /\ UNCHANGED clock
<1> USE DEF PaymentStep, CaseStep, FlightStep
<1>1. CASE Starts(s)
  <2>1. UNCHANGED <<clock, payVars, caseVars, unlocks>>
    BY <1>1 DEF Starts, SubmitCheck, ApproveRead, RejectRead, CaseCheck, TenantRead, PartnerRead,
                AdminRead, ReadCase
  <2> QED  BY <1>1, <2>1
<1>2. ASSUME NEW p \in Payments, SubmitCreate(s, p)
      PROVE  PaymentStep /\ CaseStep /\ FlightStep /\ UNCHANGED clock
  BY <1>2 DEF SubmitCreate
<1>3. ASSUME NEW m \in [Installments -> 0 .. Max(Amounts)], ApproveCommit(s, m)
      PROVE  PaymentStep /\ CaseStep /\ FlightStep /\ UNCHANGED clock
  BY <1>3 DEF ApproveCommit
<1>4. CASE \/ \E m \in [Installments -> 0 .. Max(Amounts)] : ApproveRefused(s, m)
           \/ UnlockRefused(s) \/ Fail(s)
  BY <1>4 DEF ApproveRefused, UnlockRefused, Fail, Refuse
<1>5. CASE RejectSave(s)
  BY <1>5 DEF RejectSave
<1>6. ASSUME NEW c \in Cases, CaseCreate(s, c)
      PROVE  PaymentStep /\ CaseStep /\ FlightStep /\ UNCHANGED clock
  BY <1>6 DEF CaseCreate, payVars
<1>7. CASE \/ TenantTempUnlock(s) \/ TenantReject(s)
           \/ PartnerUnlock(s) \/ PartnerTempUnlock(s) \/ PartnerReject(s)
           \/ AdminTempUnlock(s) \/ AdminReject(s)
  <2>1. Decides(s) /\ UNCHANGED schedule
    BY <1>7 DEF TenantTempUnlock, TenantReject, PartnerUnlock, PartnerTempUnlock, PartnerReject,
                AdminTempUnlock, AdminReject, Deciding, DecisionOps, Decides
  <2> QED  BY <2>1 DEF Decides, SaveDecision, payVars
<1>8. CASE TenantApprove(s)
  <2>1. Decides(s)
    BY <1>8 DEF TenantApprove, Deciding, DecisionOps, Decides
  <2>2. \/ UNCHANGED schedule
        \/ \E i \in Unpaid(schedule) : Waive(i)
    BY <1>8, EarliestUnpaid DEF TenantApprove
  <2> QED  BY <2>1, <2>2 DEF Decides, SaveDecision, payVars
<1>9. CASE AdminUnlock(s)
  <2>1. Decides(s) /\ flight[s].op \in {"paid", "waived"} /\ ResolveAll(flight[s].op)
    BY <1>9 DEF AdminUnlock, Deciding, DecisionOps, Decides
  <2> QED  BY <2>1 DEF Decides, SaveDecision
<1> QED
  BY <1>1, <1>2, <1>3, <1>4, <1>5, <1>6, <1>7, <1>8, <1>9 DEF Handle, Starts

\* What any step does to them, and to the clock.
LEMMA Views ==
  ASSUME [Next]_vars
  PROVE  PaymentStep /\ CaseStep /\ FlightStep /\ ClockStep
<1> USE DEF ClockStep
<1>1. CASE Tick
  BY <1>1 DEF Tick, PaymentStep, CaseStep, FlightStep
<1>2. ASSUME NEW s \in Slots, Handle(s) PROVE PaymentStep /\ CaseStep /\ FlightStep /\ ClockStep
  BY <1>2, HandleViews DEF clock
<1>3. ASSUME NEW i \in Installments, MarkPaid(i)
      PROVE  PaymentStep /\ CaseStep /\ FlightStep /\ ClockStep
  BY <1>3 DEF MarkPaid, PaymentStep, CaseStep, FlightStep, clock
<1>4. ASSUME NEW outcome \in {"paid", "waived"}, ResolveDevice(outcome)
      PROVE  PaymentStep /\ CaseStep /\ FlightStep /\ ClockStep
  BY <1>4 DEF ResolveDevice, PaymentStep, CaseStep, FlightStep, clock
<1>5. ASSUME NEW r \in Runs, JobStep(r) PROVE PaymentStep /\ CaseStep /\ FlightStep /\ ClockStep
  <2>1. UNCHANGED <<scenario, now, payVars, unlocks, flight>>
        /\ (failures' = failures \/ failures' = failures + 1)
    BY <1>5 DEF JobStep, SlaJob, JobTenantFind, JobFlag, JobPartnerFind, JobFinish, JobTenantSave,
                JobPartnerSave, JobFail, RunVars, clock
  <2> QED  BY <1>5, <2>1 DEF PaymentStep, CaseStep, FlightStep
<1>6. CASE ReleaseRetry \/ WriteOverRelease
  BY <1>6 DEF ReleaseRetry, WriteOverRelease, PaymentStep, CaseStep, FlightStep, clock
<1>7. CASE UNCHANGED vars
  BY <1>7 DEF vars, PaymentStep, CaseStep, FlightStep, payVars, device, caseVars
<1> QED  BY <1>1, <1>2, <1>3, <1>4, <1>5, <1>6, <1>7 DEF Next, JobStep

-----------------------------------------------------------------------------
(* Types *)

PaymentsTyped ==
  /\ payments \in [Payments -> PaymentDocs]
  /\ schedule \in ScheduleDocs
  /\ \A i \in Installments : schedule.paid[i] <= Due[i]
  /\ released \in BOOLEAN /\ reopened \in BOOLEAN
  /\ unlocks \in [Payments -> Nat]

CasesTyped ==
  /\ cases \in [Cases -> CaseDocs]
  /\ breaches \in [Cases -> [{"partner", "admin"} -> Nat]]
  /\ job \in [Runs -> JobDocs]

\* The types, part by part.
LEMMA TypeParts ==
  TypeOK <=> /\ PaymentsTyped /\ CasesTyped
             /\ scenario \in Scenarios /\ flight \in [Slots -> Flights]
             /\ now \in Nat /\ failures \in Nat
BY DEF TypeOK, PaymentsTyped, CasesTyped

\* An allocation pays unpaid installments, and no more than is due on them.
LEMMA AllocationsAre ==
  ASSUME PaymentsTyped, NEW amount \in Nat, NEW m \in Allocations(amount)
  PROVE  /\ m \in [Installments -> Nat]
         /\ \A i \in Installments :
              /\ m[i] = 0 \/ m[i] <= Due[i] - schedule.paid[i]
              /\ m[i] # 0 => i \in Unpaid(schedule)
<1>1. m \in [Installments -> 0 .. amount] /\ \A i \in Installments : m[i] <= Outstanding(i)
  BY DEF Allocations
<1>2. Due \in [Installments -> Nat]
  BY DueAssumption
<1> QED  BY <1>1, <1>2 DEF Outstanding, Unpaid

\* What an approved payment makes of the schedule.
LEMMA CreditedIs ==
  ASSUME PaymentsTyped, NEW amount \in Nat, NEW m \in Allocations(amount)
  PROVE  /\ Credited(m) \in ScheduleDocs
         /\ Credited(m).settled = schedule.settled
         /\ \A i \in Installments :
              /\ Credited(m).paid[i] = schedule.paid[i] + m[i]
              /\ Credited(m).paid[i] <= Due[i]
              /\ m[i] = 0 => Credited(m).status[i] = schedule.status[i]
              /\ m[i] # 0 => /\ Credited(m).status[i] \in {"paid", "partial"}
                             /\ Credited(m).status[i] = "paid" <=> Credited(m).paid[i] = Due[i]
<1> DEFINE paid == [i \in Installments |-> schedule.paid[i] + m[i]]
           status == [i \in Installments |->
                        IF m[i] = 0 THEN schedule.status[i]
                        ELSE IF paid[i] >= Due[i] THEN "paid" ELSE "partial"]
<1>1. /\ schedule \in [status : [Installments -> InstallmentStatuses],
                       paid : [Installments -> Nat], settled : BOOLEAN]
      /\ Due \in [Installments -> Nat] /\ m \in [Installments -> Nat]
      /\ \A i \in Installments : schedule.paid[i] <= Due[i]
  BY DueAssumption, AllocationsAre DEF PaymentsTyped, ScheduleDocs
<1>2. Credited(m) = [schedule EXCEPT !.paid = paid, !.status = status]
  BY DEF Credited
<1>3. /\ paid \in [Installments -> Nat] /\ status \in [Installments -> InstallmentStatuses]
      /\ \A i \in Installments : paid[i] = schedule.paid[i] + m[i] /\ paid[i] <= Due[i]
  <2>1. \A i \in Installments : paid[i] = schedule.paid[i] + m[i] /\ paid[i] <= Due[i] /\ paid[i] \in Nat
    BY <1>1, AllocationsAre
  <2>2. paid \in [Installments -> Nat]
    BY <2>1
  <2>3. status \in [Installments -> InstallmentStatuses]
    BY <1>1 DEF InstallmentStatuses, UnpaidStatuses
  <2> QED  BY <2>1, <2>2, <2>3
<1>4. \A i \in Installments :
        /\ m[i] = 0 => status[i] = schedule.status[i]
        /\ m[i] # 0 => /\ status[i] \in {"paid", "partial"}
                       /\ status[i] = "paid" <=> paid[i] = Due[i]
  <2>1. SUFFICES ASSUME NEW i \in Installments
                 PROVE  /\ m[i] = 0 => status[i] = schedule.status[i]
                        /\ m[i] # 0 => /\ status[i] \in {"paid", "partial"}
                                       /\ status[i] = "paid" <=> paid[i] = Due[i]
    OBVIOUS
  <2>2. status[i] = IF m[i] = 0 THEN schedule.status[i]
                    ELSE IF paid[i] >= Due[i] THEN "paid" ELSE "partial"
    OBVIOUS
  <2>3. paid[i] >= Due[i] <=> paid[i] = Due[i]
    <3>1. paid[i] \in Nat /\ Due[i] \in Nat /\ paid[i] <= Due[i]
      BY <1>1, <1>3
    <3> HIDE DEF paid
    <3> QED  BY <3>1
  <2> QED  BY <2>2, <2>3
<1> HIDE DEF paid, status
<1>5. /\ Credited(m).paid = paid /\ Credited(m).status = status
      /\ Credited(m).settled = schedule.settled
  BY <1>1, <1>2
<1> QED  BY <1>1, <1>2, <1>3, <1>4, <1>5 DEF ScheduleDocs

\* What a save of the schedule that may settle it leaves.
LEMMA SettlingIs ==
  ASSUME NEW sch \in ScheduleDocs, SaveSettling(sch), sch.settled = schedule.settled
  PROVE  /\ schedule' \in ScheduleDocs /\ reopened' = reopened
         /\ schedule'.status = sch.status /\ schedule'.paid = sch.paid
         /\ schedule'.settled <=> schedule.settled \/ Completed(sch)
BY DEF SaveSettling, ScheduleDocs

\* Payments and schedule keep their types.
LEMMA PaymentsStayTyped ==
  ASSUME PaymentsTyped, flight \in [Slots -> Flights], PaymentStep
  PROVE  PaymentsTyped'
<1> USE DEF PaymentsTyped
<1>0. Amounts \subseteq Nat /\ Due \in [Installments -> Nat]
  BY AmountsAssumption, DueAssumption
<1>1. CASE UNCHANGED <<payVars, unlocks>>
  BY <1>1 DEF payVars, device
<1>2. ASSUME NEW s \in Slots, NEW p \in Payments, SubmitCreate(s, p) PROVE PaymentsTyped'
  <2>1. flight[s].amount \in Amounts
    BY <1>2, FlightFields DEF SubmitCreate, At
  <2>2. payments' = [payments EXCEPT ![p] = [payments[p] EXCEPT !.approval = "pending_approval",
                                                                !.amount = flight[s].amount]]
    BY <1>2 DEF SubmitCreate, PaymentDocs
  <2> DEFINE after == [payments[p] EXCEPT !.approval = "pending_approval", !.amount = flight[s].amount]
  <2>3. after \in PaymentDocs
    BY <2>1 DEF PaymentDocs
  <2> HIDE DEF after
  <2> QED  BY <1>2, <2>2, <2>3 DEF SubmitCreate, after, device
<1>3. ASSUME NEW s \in Slots, NEW m \in [Installments -> 0 .. Max(Amounts)], ApproveCommit(s, m)
      PROVE  PaymentsTyped'
  <2> DEFINE p == flight[s].id
             after == [payments[p] EXCEPT
                         !.approval = "approved",
                         !.matched = IF m = NoMatches THEN payments[p].matched ELSE m,
                         !.version = IF m = NoMatches THEN payments[p].version
                                     ELSE payments[p].version + 1]
  <2>1. p \in Payments
    BY <1>3, FlightFields DEF ApproveCommit, At
  <2>2. payments[p].amount \in Nat /\ m \in Allocations(payments[p].amount)
    BY <1>0, <1>3, <2>1 DEF PaymentDocs, ApproveCommit
  <2>3. m \in [Installments -> Nat]
    BY <2>2, AllocationsAre
  <2>4. after \in PaymentDocs
    <3> DEFINE matched == IF m = NoMatches THEN payments[p].matched ELSE m
               version == IF m = NoMatches THEN payments[p].version ELSE payments[p].version + 1
    <3>1. matched \in [Installments -> Nat] /\ version \in Nat
      BY <2>1, <2>3 DEF PaymentDocs
    <3> HIDE DEF matched, version
    <3>2. [payments[p] EXCEPT !.approval = "approved", !.matched = matched, !.version = version]
            \in PaymentDocs
      BY <2>1, <3>1 DEF PaymentDocs
    <3> QED  BY <3>2 DEF matched, version
  <2>5. payments' = [payments EXCEPT ![p] = after]
    BY <1>3, <2>1 DEF ApproveCommit, PaymentDocs
  <2>6. SaveSettling(Credited(m)) /\ released' \in BOOLEAN /\ reopened' \in BOOLEAN
    BY <1>3 DEF ApproveCommit, SaveSettling
  <2>7. schedule' \in ScheduleDocs /\ schedule'.paid = Credited(m).paid
    BY <2>2, <2>6, CreditedIs, SettlingIs
  <2>8. \A i \in Installments : schedule'.paid[i] <= Due[i]
    BY <2>2, <2>7, CreditedIs
  <2>9. unlocks' \in [Payments -> Nat]
    BY <1>3, <2>1 DEF ApproveCommit, QueueUnlock
  <2> HIDE DEF after, p
  <2> QED  BY <2>1, <2>4, <2>5, <2>6, <2>7, <2>8, <2>9
<1>4. ASSUME NEW s \in Slots, RejectSave(s) PROVE PaymentsTyped'
  <2>1. flight[s].id \in Payments
    BY <1>4, FlightFields DEF RejectSave, At
  <2> QED  BY <1>4, <2>1 DEF RejectSave, PaymentDocs, device
<1>5. ASSUME NEW i \in Installments, MarkPaid(i) PROVE PaymentsTyped'
  <2> DEFINE sch == [schedule EXCEPT !.status = [schedule.status EXCEPT ![i] = "paid"],
                                     !.paid = [schedule.paid EXCEPT ![i] = Due[i]]]
  <2>1. sch \in ScheduleDocs /\ sch.settled = schedule.settled
    BY <1>0 DEF ScheduleDocs, InstallmentStatuses
  <2>2. \A j \in Installments : sch.paid[j] <= Due[j]
    BY <1>0 DEF ScheduleDocs
  <2>3. SaveSettling(sch) /\ released' \in BOOLEAN /\ reopened' \in BOOLEAN
        /\ UNCHANGED <<payments, unlocks>>
    <3>1. sch = [schedule EXCEPT !.status[i] = "paid", !.paid[i] = Due[i]]
      BY DEF ScheduleDocs
    <3> QED  BY <1>5, <3>1 DEF MarkPaid, SaveSettling
  <2> HIDE DEF sch
  <2>4. schedule' \in ScheduleDocs /\ schedule'.paid = sch.paid
    BY <2>1, <2>3, SettlingIs
  <2> QED  BY <2>2, <2>3, <2>4
<1>6. ASSUME NEW outcome \in {"paid", "waived"}, ResolveAll(outcome),
             UNCHANGED <<payments, device, unlocks>>
      PROVE  PaymentsTyped'
  <2> DEFINE status == [i \in Installments |->
                          IF i \in Unpaid(schedule) THEN outcome ELSE schedule.status[i]]
             paid == [i \in Installments |->
                        IF i \in Unpaid(schedule) /\ outcome = "paid" THEN Due[i]
                        ELSE schedule.paid[i]]
  <2>1. schedule' = [schedule EXCEPT !.status = status, !.paid = paid]
    BY <1>6 DEF ResolveAll
  <2>2. status \in [Installments -> InstallmentStatuses]
    BY DEF ScheduleDocs, InstallmentStatuses
  <2>3. paid \in [Installments -> Nat] /\ \A i \in Installments : paid[i] <= Due[i]
    BY <1>0 DEF ScheduleDocs
  <2> HIDE DEF status, paid
  <2>4. schedule' \in ScheduleDocs /\ schedule'.paid = paid
    BY <2>1, <2>2, <2>3 DEF ScheduleDocs
  <2> QED  BY <1>6, <2>3, <2>4 DEF device
<1>7. ASSUME NEW i \in Unpaid(schedule), Waive(i), UNCHANGED <<payments, device, unlocks>>
      PROVE  PaymentsTyped'
  BY <1>7 DEF Waive, ScheduleDocs, InstallmentStatuses, device
<1>8. CASE ReleaseRetry \/ WriteOverRelease
  BY <1>8 DEF ReleaseRetry, WriteOverRelease
<1> QED  BY <1>1, <1>2, <1>3, <1>4, <1>5, <1>6, <1>7, <1>8 DEF PaymentStep

Doc(status, sla, partnerSla, escalated) ==
  [status |-> status, sla |-> sla, partnerSla |-> partnerSla, escalated |-> escalated]

Saved(c, status, sla, partnerSla, escalated) ==
  cases' = [cases EXCEPT ![c] = Doc(status, sla, partnerSla, escalated)]

\* What a save leaves of the cases.
LEMMA SavedIs ==
  ASSUME CasesTyped, NEW c \in Cases, NEW status, NEW sla, NEW partnerSla, NEW escalated,
         Saved(c, status, sla, partnerSla, escalated)
  PROVE  /\ cases'[c].status = status /\ cases'[c].sla = sla
         /\ cases'[c].partnerSla = partnerSla /\ cases'[c].escalated = escalated
         /\ \A other \in Cases : other # c => cases'[other] = cases[other]
         /\ status \in CaseStatuses /\ sla \in Nat /\ partnerSla \in Nat
            /\ escalated \in SUBSET {"partner", "admin"}
              => cases' \in [Cases -> CaseDocs]
<1> DEFINE x == Doc(status, sla, partnerSla, escalated)
<1>1. x.status = status /\ x.sla = sla /\ x.partnerSla = partnerSla /\ x.escalated = escalated
  BY DEF Doc
<1>2. status \in CaseStatuses /\ sla \in Nat /\ partnerSla \in Nat
      /\ escalated \in SUBSET {"partner", "admin"} => x \in CaseDocs
  BY DEF CaseDocs, Doc
<1>3. cases \in [Cases -> CaseDocs] /\ cases' = [cases EXCEPT ![c] = x]
  BY DEF CasesTyped, Saved
<1> HIDE DEF x
<1> QED  BY <1>1, <1>2, <1>3

\* The fields of a case.
LEMMA CaseFields ==
  ASSUME CasesTyped, NEW c \in Cases
  PROVE  /\ cases[c].status \in CaseStatuses \cup {"none"}
         /\ cases[c].sla \in Nat /\ cases[c].partnerSla \in Nat
         /\ cases[c].escalated \in SUBSET {"partner", "admin"}
BY DEF CasesTyped, CaseDocs

\* A case with another status.
LEMMA CaseChanges ==
  ASSUME CasesTyped, NEW c \in Cases, NEW status
  PROVE  [cases[c] EXCEPT !.status = status]
              = Doc(status, cases[c].sla, cases[c].partnerSla, cases[c].escalated)
<1> DEFINE x == cases[c]
<1>1. x \in [status : CaseStatuses \cup {"none"}, sla : Nat, partnerSla : Nat,
             escalated : SUBSET {"partner", "admin"}]
  BY DEF CasesTyped, CaseDocs
<1> HIDE DEF x
<1>2. [x EXCEPT !.status = status] = Doc(status, x.sla, x.partnerSla, x.escalated)
  BY <1>1 DEF Doc
<1> QED  BY <1>2 DEF x

\* What each step of the cases does to their documents.
LEMMA CreatedCase ==
  ASSUME CasesTyped, NEW s \in Slots, NEW c \in Cases, CaseCreate(s, c)
  PROVE  /\ Saved(c, "PENDING_TENANT", flight[s].sla, cases[c].partnerSla, cases[c].escalated)
         /\ UNCHANGED <<breaches, job>>
<1> DEFINE x == cases[c]  sla == flight[s].sla
           y == Doc("PENDING_TENANT", x.sla, x.partnerSla, x.escalated)
<1>1. [x EXCEPT !.status = "PENDING_TENANT"] = y
  BY CaseChanges
<1>2. [y EXCEPT !.sla = sla] = Doc("PENDING_TENANT", sla, x.partnerSla, x.escalated)
  BY DEF Doc
<1>3. /\ cases' = [cases EXCEPT ![c] = [x EXCEPT !.status = "PENDING_TENANT", !.sla = sla]]
      /\ UNCHANGED <<breaches, job>>
  BY DEF CaseCreate, CasesTyped
<1> HIDE DEF x, y, sla
<1>4. cases' = [cases EXCEPT ![c] = Doc("PENDING_TENANT", sla, x.partnerSla, x.escalated)]
  BY <1>1, <1>2, <1>3
<1> QED  BY <1>3, <1>4 DEF Saved, x, sla

\* A decision sets the status of one case, to one of its level.
LEMMA DecidedCase ==
  ASSUME CasesTyped, flight \in [Slots -> Flights], NEW s \in Slots, Decides(s),
         NEW c, c = flight[s].id
  PROVE  /\ c \in Cases /\ UNCHANGED <<breaches, job>>
         /\ \E status \in Decided(flight[s].level) :
              Saved(c, status, cases[c].sla, cases[c].partnerSla, cases[c].escalated)
<1>1. c \in Cases /\ flight[s].level \in Levels
  BY FlightFields DEF Decides
<1>2. PICK statuses \in {Resolved, Rejected} : SaveDecision(s, statuses)
  BY DEF Decides
<1>3. statuses[flight[s].level] \in Decided(flight[s].level)
  BY DEF Decided
<1>4. cases' = [cases EXCEPT ![c] = [cases[c] EXCEPT !.status = statuses[flight[s].level]]]
      /\ UNCHANGED <<breaches, job>>
  BY <1>1, <1>2 DEF SaveDecision, CasesTyped
<1> QED  BY <1>1, <1>3, <1>4, CaseChanges DEF Saved

\* What a step of caller r leaves of the runs of the job.
JobBecomes(r, phase, at, todo, flag) ==
  /\ job' \in [Runs -> JobDocs]
  /\ job'[r].phase = phase /\ job'[r].at = at
  /\ job'[r].todo = todo /\ job'[r].flag = flag
  /\ \A q \in Runs : q # r => job'[q] = job[q]

\* Where each step takes the run of its caller.
LEMMA JobSteps ==
  ASSUME CasesTyped, now \in Nat, NEW r \in Runs
  PROVE  /\ JobTenantFind(r) => \E todo \in SUBSET TenantBreaches(now) :
                                  JobBecomes(r, "tenant", now, todo, {})
         /\ JobPartnerFind(r) => \E todo \in SUBSET PartnerBreaches(job[r].at) :
                                   JobBecomes(r, "partner", job[r].at, todo, {})
         /\ \A c \in Cases : Handled(r, c) =>
              JobBecomes(r, job[r].phase, job[r].at, job[r].todo \ {c}, {c})
         /\ JobFlag(r) => JobBecomes(r, job[r].phase, job[r].at, job[r].todo, {})
         /\ JobFinish(r) \/ JobFail(r) => JobBecomes(r, "idle", 0, {}, {})
<1> DEFINE x == job[r]
<1>1. x \in JobDocs /\ job \in [Runs -> JobDocs]
  BY DEF CasesTyped
<1>2. TenantBreaches(now) \subseteq Cases /\ PartnerBreaches(x.at) \subseteq Cases
  BY DEF TenantBreaches, PartnerBreaches
<1>3. ASSUME JobTenantFind(r)
      PROVE  \E todo \in SUBSET TenantBreaches(now) : JobBecomes(r, "tenant", now, todo, {})
  <2>1. PICK todo \in SUBSET TenantBreaches(now) :
          job' = [job EXCEPT ![r] = [phase |-> "tenant", at |-> now, todo |-> todo, flag |-> {}]]
    BY <1>3 DEF JobTenantFind, Batches
  <2>2. [phase |-> "tenant", at |-> now, todo |-> todo, flag |-> {}] \in JobDocs
    BY <1>2 DEF JobDocs
  <2>3. JobBecomes(r, "tenant", now, todo, {})
    BY <1>1, <2>1, <2>2 DEF JobBecomes
  <2> QED  BY <2>3
<1>4. ASSUME JobPartnerFind(r)
      PROVE  \E todo \in SUBSET PartnerBreaches(x.at) : JobBecomes(r, "partner", x.at, todo, {})
  <2>1. PICK todo \in SUBSET PartnerBreaches(x.at) :
          job' = [job EXCEPT ![r] = [x EXCEPT !.phase = "partner", !.todo = todo]]
    BY <1>1, <1>4 DEF JobPartnerFind, Batches
  <2>2. x.flag = {}
    BY <1>4 DEF JobPartnerFind
  <2> HIDE DEF x
  <2> QED  BY <1>1, <1>2, <2>1, <2>2 DEF JobBecomes, JobDocs
<1>5. ASSUME NEW c \in Cases, Handled(r, c)
      PROVE  JobBecomes(r, x.phase, x.at, x.todo \ {c}, {c})
  <2>1. job' = [job EXCEPT ![r] = [x EXCEPT !.todo = x.todo \ {c}, !.flag = {c}]]
    BY <1>1, <1>5 DEF Handled
  <2> HIDE DEF x
  <2> QED  BY <1>1, <2>1 DEF JobBecomes, JobDocs
<1>6. ASSUME JobFlag(r) PROVE JobBecomes(r, x.phase, x.at, x.todo, {})
  <2>1. job' = [job EXCEPT ![r] = [x EXCEPT !.flag = {}]]
    BY <1>1, <1>6 DEF JobFlag
  <2> HIDE DEF x
  <2> QED  BY <1>1, <2>1 DEF JobBecomes, JobDocs
<1>7. ASSUME JobFinish(r) \/ JobFail(r) PROVE JobBecomes(r, "idle", 0, {}, {})
  BY <1>1, <1>7 DEF JobFinish, JobFail, IdleJob, JobBecomes, JobDocs
<1> HIDE DEF x
<1>8. x = job[r]
  BY DEF x
<1> QED  BY <1>3, <1>4, <1>5, <1>6, <1>7, <1>8

\* The job hands a case to the partner, with a deadline of its own.
LEMMA TenantSaved ==
  ASSUME CasesTyped, NEW r \in Runs, NEW c \in Cases, JobTenantSave(r, c)
  PROVE  Saved(c, "ESCALATED_PARTNER", cases[c].sla, now + PartnerSla,
               cases[c].escalated \cup {"partner"})
<1> DEFINE x == cases[c]  due == now + PartnerSla  up == x.escalated \cup {"partner"}
           y == Doc("ESCALATED_PARTNER", x.sla, x.partnerSla, x.escalated)
           z == Doc("ESCALATED_PARTNER", x.sla, due, x.escalated)
<1>1. [x EXCEPT !.status = "ESCALATED_PARTNER"] = y
  BY CaseChanges
<1>2. /\ [y EXCEPT !.partnerSla = due] = z
      /\ [z EXCEPT !.escalated = up] = Doc("ESCALATED_PARTNER", x.sla, due, up)
  BY DEF Doc
<1>3. cases' = [cases EXCEPT ![c] = [x EXCEPT !.status = "ESCALATED_PARTNER",
                                              !.partnerSla = due, !.escalated = up]]
  BY DEF JobTenantSave, CasesTyped, CaseDocs
<1> HIDE DEF x, y, z, due, up
<1>4. cases' = [cases EXCEPT ![c] = Doc("ESCALATED_PARTNER", x.sla, due, up)]
  BY <1>1, <1>2, <1>3
<1> QED  BY <1>4 DEF Saved, x, due, up

\* The job hands a case to the administrator.
LEMMA PartnerSaved ==
  ASSUME CasesTyped, NEW r \in Runs, NEW c \in Cases, JobPartnerSave(r, c)
  PROVE  Saved(c, "ESCALATED_ADMIN", cases[c].sla, cases[c].partnerSla,
               cases[c].escalated \cup {"admin"})
<1> DEFINE x == cases[c]  up == x.escalated \cup {"admin"}
           y == Doc("ESCALATED_ADMIN", x.sla, x.partnerSla, x.escalated)
<1>1. [x EXCEPT !.status = "ESCALATED_ADMIN"] = y
  BY CaseChanges
<1>2. [y EXCEPT !.escalated = up] = Doc("ESCALATED_ADMIN", x.sla, x.partnerSla, up)
  BY DEF Doc
<1>3. cases' = [cases EXCEPT ![c] = [x EXCEPT !.status = "ESCALATED_ADMIN", !.escalated = up]]
  BY DEF JobPartnerSave, CasesTyped, CaseDocs
<1> HIDE DEF x, y, up
<1>4. cases' = [cases EXCEPT ![c] = Doc("ESCALATED_ADMIN", x.sla, x.partnerSla, up)]
  BY <1>1, <1>2, <1>3
<1> QED  BY <1>4 DEF Saved, x, up

\* The cases keep their types.
LEMMA CasesStayTyped ==
  ASSUME CasesTyped, flight \in [Slots -> Flights], now \in Nat, CaseStep
  PROVE  CasesTyped'
<1>1. /\ cases \in [Cases -> CaseDocs] /\ job \in [Runs -> JobDocs]
      /\ breaches \in [Cases -> [{"partner", "admin"} -> Nat]]
  BY DEF CasesTyped
<1>2. SUFFICES /\ cases' \in [Cases -> CaseDocs] /\ job' \in [Runs -> JobDocs]
               /\ breaches' \in [Cases -> [{"partner", "admin"} -> Nat]]
  BY DEF CasesTyped
<1>3. ASSUME NEW r \in Runs, JobStep(r) PROVE job' \in [Runs -> JobDocs]
  BY <1>3, JobSteps DEF JobStep, SlaJob, JobTenantSave, JobPartnerSave, JobBecomes
<1>4. {"PENDING_TENANT", "ESCALATED_PARTNER", "ESCALATED_ADMIN"} \subseteq CaseStatuses
      /\ \A level \in Levels : Decided(level) \subseteq CaseStatuses
  BY DEF CaseStatuses, OpenStatuses
<1>5. CASE UNCHANGED caseVars
  BY <1>1, <1>5 DEF caseVars
<1>6. ASSUME NEW s \in Slots, NEW c \in Cases, CaseCreate(s, c) PROVE <1>2!1
  <2>1. flight[s].sla \in Nat
    BY <1>6, FlightFields DEF CaseCreate, At
  <2> QED  BY <1>1, <1>4, <1>6, <2>1, CreatedCase, SavedIs, CaseFields
<1>7. ASSUME NEW s \in Slots, Decides(s) PROVE <1>2!1
  <2> DEFINE c == flight[s].id
  <2>1. flight[s].level \in Levels
    BY <1>7, FlightFields DEF Decides
  <2>2. /\ c \in Cases /\ UNCHANGED <<breaches, job>>
        /\ \E status \in Decided(flight[s].level) :
             Saved(c, status, cases[c].sla, cases[c].partnerSla, cases[c].escalated)
    BY <1>7, DecidedCase
  <2> HIDE DEF c
  <2>3. PICK status \in CaseStatuses :
          Saved(c, status, cases[c].sla, cases[c].partnerSla, cases[c].escalated)
    BY <1>4, <2>1, <2>2
  <2> QED  BY <1>1, <2>2, <2>3, SavedIs, CaseFields
<1>8. ASSUME NEW r \in Runs, JobTenantFind(r) \/ JobPartnerFind(r) \/ JobFinish(r) \/ JobFail(r)
      PROVE  <1>2!1
  BY <1>1, <1>3, <1>8 DEF JobStep, SlaJob, JobTenantFind, JobPartnerFind, JobFinish, JobFail
<1>9. ASSUME NEW r \in Runs, NEW c \in Cases, JobTenantSave(r, c) PROVE <1>2!1
  <2> DEFINE due == now + PartnerSla  up == cases[c].escalated \cup {"partner"}
             sla == cases[c].sla
  <2>1. Saved(c, "ESCALATED_PARTNER", sla, due, up)
    BY <1>9, TenantSaved
  <2>2. /\ due \in Nat /\ up \in SUBSET {"partner", "admin"} /\ sla \in Nat
        /\ "ESCALATED_PARTNER" \in CaseStatuses
    BY <1>4, SlaAssumption, CaseFields
  <2> HIDE DEF due, up, sla
  <2>3. cases' \in [Cases -> CaseDocs]
    BY <2>1, <2>2, SavedIs
  <2>4. JobStep(r) /\ breaches' = breaches
    BY <1>9 DEF JobStep, SlaJob, JobTenantSave
  <2> QED  BY <1>1, <1>3, <2>3, <2>4
<1>10. ASSUME NEW r \in Runs, NEW c \in Cases, JobPartnerSave(r, c) PROVE <1>2!1
  <2> DEFINE up == cases[c].escalated \cup {"admin"}  sla == cases[c].sla
             due == cases[c].partnerSla
  <2>1. Saved(c, "ESCALATED_ADMIN", sla, due, up)
    BY <1>10, PartnerSaved
  <2>2. /\ due \in Nat /\ up \in SUBSET {"partner", "admin"} /\ sla \in Nat
        /\ "ESCALATED_ADMIN" \in CaseStatuses
    BY <1>4, CaseFields
  <2> HIDE DEF due, up, sla
  <2>3. cases' \in [Cases -> CaseDocs]
    BY <2>1, <2>2, SavedIs
  <2>4. JobStep(r) /\ breaches' = breaches
    BY <1>10 DEF JobStep, SlaJob, JobPartnerSave
  <2> QED  BY <1>1, <1>3, <2>3, <2>4
<1>11. ASSUME NEW r \in Runs, JobFlag(r) PROVE <1>2!1
  <2>1. PICK c \in job[r].flag, level \in {"partner", "admin"} :
          breaches' = [breaches EXCEPT ![c][level] = @ + 1]
    BY <1>11 DEF JobFlag
  <2>2. c \in Cases
    BY <1>1, <2>1 DEF JobDocs
  <2>3. breaches' \in [Cases -> [{"partner", "admin"} -> Nat]]
    BY <1>1, <2>1, <2>2
  <2>4. JobStep(r) /\ cases' = cases
    BY <1>11 DEF JobStep, SlaJob, JobFlag
  <2> QED  BY <1>1, <1>3, <2>3, <2>4
<1> QED
  BY <1>5, <1>6, <1>7, <1>8, <1>9, <1>10, <1>11 DEF CaseStep, JobStep, SlaJob

\* The requests in progress keep their types.
LEMMA FlightsStayTyped ==
  ASSUME PaymentsTyped, flight \in [Slots -> Flights], now \in Nat, FlightStep
  PROVE  flight' \in [Slots -> Flights]
<1>1. CASE UNCHANGED flight
  BY <1>1
<1>2. ASSUME NEW s \in Slots, End(s) PROVE flight' \in [Slots -> Flights]
  BY <1>2 DEF End, Flights
<1>3. ASSUME NEW s \in Slots, Starts(s) PROVE flight' \in [Slots -> Flights]
  <2>1. SUFFICES \E f \in Flights : Begin(s, f)
    BY DEF Begin
  <2>2. CASE \E amount \in Amounts : SubmitCheck(s, amount)
    BY <2>2 DEF SubmitCheck, Flights
  <2>3. ASSUME NEW p \in Payments, ApproveRead(s, p) PROVE \E f \in Flights : Begin(s, f)
    BY <2>3 DEF ApproveRead, Flights, PaymentsTyped, PaymentDocs
  <2>4. ASSUME NEW p \in Payments, RejectRead(s, p) PROVE \E f \in Flights : Begin(s, f)
    BY <2>4 DEF RejectRead, Flights
  <2>5. CASE CaseCheck(s)
    BY <2>5, SlaAssumption DEF CaseCheck, Flights
  <2>6. ASSUME NEW c \in Cases, NEW level \in Levels, NEW action \in DecisionOps, NEW statuses,
               ReadCase(s, c, level, action, statuses)
        PROVE  \E f \in Flights : Begin(s, f)
    BY <2>6 DEF ReadCase, Flights, DecisionOps
  <2>7. ASSUME NEW c \in Cases, TenantRead(s, c) \/ PartnerRead(s, c) \/ AdminRead(s, c)
        PROVE  \E f \in Flights : Begin(s, f)
    BY <2>6, <2>7, LevelNames DEF TenantRead, PartnerRead, AdminRead, DecisionOps
  <2> QED  BY <1>3, <2>2, <2>3, <2>4, <2>5, <2>7 DEF Starts
<1> QED  BY <1>1, <1>2, <1>3 DEF FlightStep

\* The first state has the types.
LEMMA InitTyped == Init => TypeOK
<1> SUFFICES ASSUME Init PROVE TypeOK
  OBVIOUS
<1>1. NoPayment \in PaymentDocs /\ NoCase \in CaseDocs /\ Idle \in Flights
  BY DEF NoPayment, NoMatches, PaymentDocs, NoCase, NotSet, CaseDocs, Flights
<1>2. PaymentsTyped
  <2>1. schedule \in ScheduleDocs /\ \A i \in Installments : schedule.paid[i] <= Due[i]
    BY DueAssumption DEF Init, ScheduleDocs, InstallmentStatuses, UnpaidStatuses
  <2> QED  BY <1>1, <2>1 DEF Init, PaymentsTyped
<1>3. CasesTyped
  BY <1>1 DEF Init, CasesTyped, IdleJob, JobDocs
<1> QED  BY <1>1, <1>2, <1>3, TypeParts DEF Init

\* Every step keeps the types.
LEMMA StepTyped == TypeOK /\ [Next]_vars => TypeOK'
<1> SUFFICES ASSUME TypeOK, [Next]_vars PROVE TypeOK'
  OBVIOUS
<1>1. /\ PaymentsTyped /\ CasesTyped
      /\ scenario \in Scenarios /\ flight \in [Slots -> Flights] /\ now \in Nat /\ failures \in Nat
  BY TypeParts
<1>2. PaymentStep /\ CaseStep /\ FlightStep /\ ClockStep
  BY Views
<1>3. PaymentsTyped' /\ CasesTyped' /\ flight' \in [Slots -> Flights]
  BY <1>1, <1>2, PaymentsStayTyped, CasesStayTyped, FlightsStayTyped
<1>4. scenario' \in Scenarios /\ now' \in Nat /\ failures' \in Nat
  BY <1>1, <1>2 DEF ClockStep
<1> QED  BY <1>3, <1>4 DEF TypeOK, PaymentsTyped, CasesTyped

\* The documents keep the shapes of their schemas, and no installment is ever paid beyond
\* what is due on it (applyPaymentToEmiSchedule, markPaid, resolveAllUnpaidInstallments).
THEOREM Typing == Spec => []TypeOK
BY InitTyped, StepTyped, PTL DEF Spec

-----------------------------------------------------------------------------
(* Payments and the schedule *)

\* A payment is matched with installments, and unlocks the device, with the first version of
\* its document only, and only while it was pending when it was read; after a release that
\* was written over, only the match is bound to that version.
PaymentHeld(p) ==
  /\ payments[p].approval = "none" => payments[p] = NoPayment
  /\ payments[p].approval # "none" => payments[p].amount \in Amounts
  /\ payments[p].approval \in {"none", "pending_approval"} => payments[p].version = 0
  /\ payments[p].version = 0 => payments[p].matched = NoMatches
  /\ payments[p].version <= 1
  /\ ~reopened => unlocks[p] <= payments[p].version

ApprovalHeld(f) ==
  /\ f.op = "approve" => f.version = 0 /\ payments[f.id].approval # "none"
  /\ f.op = "reject_payment" => payments[f.id].approval # "none"

ScheduleHeld ==
  /\ schedule.settled => released \/ reopened
  /\ \A i \in Unpaid(schedule) : schedule.paid[i] < Due[i]

Explained(i) ==
  /\ Collected(i) <= schedule.paid[i]
  /\ schedule.status[i] \in {"pending", "partial", "waived"} => schedule.paid[i] = Collected(i)
  /\ schedule.status[i] = "paid" => schedule.paid[i] = Due[i]
  /\ schedule.status[i] = "pending" => schedule.paid[i] = 0

PaymentsHeld ==
  /\ \A p \in Payments : PaymentHeld(p)
  /\ \A s \in Slots : ApprovalHeld(flight[s])
  /\ ScheduleHeld

\* ScheduleExplained, installment by installment.
LEMMA ExplainedParts == ScheduleExplained <=> \A i \in Installments : Explained(i)
BY DEF ScheduleExplained, Explained

\* The fields of a payment.
LEMMA PaymentFields ==
  ASSUME PaymentsTyped, NEW p \in Payments
  PROVE  /\ payments[p].amount \in Nat /\ payments[p].version \in Nat
         /\ payments[p].matched \in [Installments -> Nat]
         /\ payments[p].approval \in {"none", "pending_approval", "approved", "rejected"}
         /\ unlocks[p] \in Nat
<1>1. payments[p] \in PaymentDocs /\ unlocks[p] \in Nat
  BY DEF PaymentsTyped
<1>2. Amounts \cup {0} \subseteq Nat
  BY AmountsAssumption
<1> QED  BY <1>1, <1>2 DEF PaymentDocs

\* What an approval does: either it has nothing to match, and then unlocks nothing unless a
\* release was written over, or it matches a payment that was matched with nothing before.
LEMMA NothingToMatch ==
  ASSUME PaymentsTyped, ScheduleHeld, NEW amount \in Nat \ {0}, NoMatches \in Allocations(amount)
  PROVE  Completed(Credited(NoMatches))
<1>1. NoMatches \in [Installments -> Nat] /\ \A i \in Installments : NoMatches[i] = 0
  BY DEF NoMatches
<1>2. Total(NoMatches) = 0
  BY <1>1, InstallmentsAssumption, SumZero DEF Total
<1>3. \A i \in Installments : NoMatches[i] = Outstanding(i)
  BY <1>2 DEF Allocations
<1>4. \A i \in Installments : Outstanding(i) = 0
  BY <1>1, <1>3
<1>5. ASSUME NEW i \in Unpaid(schedule) PROVE FALSE
  <2>1. i \in Installments /\ schedule.paid[i] \in Nat /\ Due[i] \in Nat
    BY DueAssumption DEF PaymentsTyped, ScheduleDocs, Unpaid
  <2>2. Due[i] - schedule.paid[i] = 0
    BY <1>4, <2>1 DEF Outstanding
  <2>3. schedule.paid[i] < Due[i]
    BY DEF ScheduleHeld
  <2> QED  BY <2>1, <2>2, <2>3
<1>6. \A i \in Installments : Credited(NoMatches).status[i] = schedule.status[i]
  BY <1>1, CreditedIs
<1> QED  BY <1>5, <1>6, InstallmentsAssumption DEF Completed, Unpaid

\* What an approval that succeeds has allocated and saved.
LEMMA Approved ==
  ASSUME PaymentsTyped, flight \in [Slots -> Flights], PaymentsHeld, NEW s \in Slots,
         NEW m \in [Installments -> 0 .. Max(Amounts)], ApproveCommit(s, m),
         NEW p, p = flight[s].id
  PROVE  /\ p \in Payments /\ payments[p].amount \in Nat \ {0}
         /\ m \in Allocations(payments[p].amount)
         /\ SaveSettling(Credited(m))
         /\ payments' = [payments EXCEPT ![p] = payments'[p]] /\ reopened' = reopened
         /\ payments'[p].approval = "approved" /\ payments'[p].amount = payments[p].amount
         /\ unlocks' = unlocks \/ unlocks' = [unlocks EXCEPT ![p] = unlocks[p] + 1]
         /\ \/ /\ m = NoMatches /\ (reopened \/ unlocks' = unlocks)
               /\ payments'[p].matched = payments[p].matched
               /\ payments'[p].version = payments[p].version
            \/ /\ m # NoMatches /\ payments[p].version = 0
               /\ payments'[p].matched = m /\ payments'[p].version = 1
<1>1. p \in Payments /\ flight[s].version = 0 /\ payments[p].approval # "none"
  BY FlightFields DEF ApproveCommit, At, PaymentsHeld, ApprovalHeld
<1>2. payments[p].amount \in Nat \ {0}
  BY <1>1, AmountsAssumption DEF PaymentsHeld, PaymentHeld
<1>3. m \in Allocations(payments[p].amount) /\ SaveSettling(Credited(m)) /\ reopened' = reopened
  BY DEF ApproveCommit, SaveSettling
<1>4. /\ payments[p] \in PaymentDocs
      /\ payments' = [payments EXCEPT ![p] =
           [payments[p] EXCEPT !.approval = "approved",
                               !.matched = IF m = NoMatches THEN payments[p].matched ELSE m,
                               !.version = IF m = NoMatches THEN payments[p].version
                                           ELSE payments[p].version + 1]]
      /\ payments \in [Payments -> PaymentDocs]
  BY <1>1 DEF ApproveCommit, PaymentsTyped, PaymentDocs
<1>5. /\ payments'[p].approval = "approved" /\ payments'[p].amount = payments[p].amount
      /\ payments'[p].matched = IF m = NoMatches THEN payments[p].matched ELSE m
      /\ payments'[p].version = IF m = NoMatches THEN payments[p].version
                                ELSE payments[p].version + 1
      /\ payments' = [payments EXCEPT ![p] = payments'[p]]
  BY <1>1, <1>4 DEF PaymentDocs
<1>u. unlocks' = unlocks \/ unlocks' = [unlocks EXCEPT ![p] = unlocks[p] + 1]
  BY DEF ApproveCommit, QueueUnlock
<1>6. CASE m = NoMatches
  <2>1. Completed(Credited(m))
    BY <1>2, <1>3, <1>6, NothingToMatch DEF PaymentsHeld
  <2>2. reopened \/ unlocks' = unlocks
    BY <2>1 DEF ApproveCommit, NewlySettled, QueueUnlock, PaymentsHeld, ScheduleHeld
  <2> QED  BY <1>1, <1>2, <1>3, <1>5, <1>6, <1>u, <2>2
<1>7. CASE m # NoMatches
  <2>1. payments[p].version = 0
    BY <1>1, <1>7 DEF ApproveCommit, SameVersion
  <2> QED  BY <1>1, <1>2, <1>3, <1>5, <1>7, <1>u, <2>1
<1> QED  BY <1>6, <1>7

\* Payments only.
LEMMA PaymentsKept ==
  ASSUME PaymentsTyped, flight \in [Slots -> Flights], PaymentsHeld, PaymentStep
  PROVE  \A p \in Payments :
           PaymentHeld(p)' /\ (payments[p].approval # "none" => payments'[p].approval # "none")
<1>0. \A p \in Payments : PaymentHeld(p)
  BY DEF PaymentsHeld
<1>1. CASE UNCHANGED <<payments, unlocks>> /\ (reopened' = reopened \/ reopened' = TRUE)
  BY <1>0, <1>1 DEF PaymentHeld
<1>2. ASSUME NEW s \in Slots, NEW q \in Payments, SubmitCreate(s, q), NEW p \in Payments
      PROVE  PaymentHeld(p)' /\ (payments[p].approval # "none" => payments'[p].approval # "none")
  <2>1. /\ flight[s].amount \in Amounts /\ unlocks' = unlocks /\ payments[q] = NoPayment
        /\ reopened' = reopened
    BY <1>2, FlightFields DEF SubmitCreate, At, device
  <2>2. payments' = [payments EXCEPT ![q] = [NoPayment EXCEPT !.approval = "pending_approval",
                                                              !.amount = flight[s].amount]]
    BY <1>2, <2>1 DEF SubmitCreate, PaymentsTyped
  <2>3. CASE p # q
    BY <1>0, <2>1, <2>2, <2>3 DEF PaymentHeld, PaymentsTyped
  <2>4. CASE p = q
    <3>1. /\ payments'[p].approval = "pending_approval" /\ payments'[p].amount = flight[s].amount
          /\ payments'[p].version = 0 /\ payments'[p].matched = NoMatches
      BY <2>2, <2>4 DEF PaymentsTyped, NoPayment
    <3>2. ~reopened => unlocks[p] <= 0
      BY <1>0, <2>1, <2>4 DEF PaymentHeld, NoPayment
    <3> QED  BY <2>1, <3>1, <3>2 DEF PaymentHeld
  <2> QED  BY <2>3, <2>4
<1>3. ASSUME NEW s \in Slots, NEW m \in [Installments -> 0 .. Max(Amounts)], ApproveCommit(s, m),
             NEW p \in Payments
      PROVE  PaymentHeld(p)' /\ (payments[p].approval # "none" => payments'[p].approval # "none")
  <2> DEFINE q == flight[s].id
  <2>1. /\ q \in Payments /\ payments' = [payments EXCEPT ![q] = payments'[q]]
        /\ reopened' = reopened
        /\ payments'[q].approval = "approved" /\ payments'[q].amount = payments[q].amount
        /\ unlocks' = unlocks \/ unlocks' = [unlocks EXCEPT ![q] = unlocks[q] + 1]
        /\ \/ /\ m = NoMatches /\ (reopened \/ unlocks' = unlocks)
              /\ payments'[q].matched = payments[q].matched
              /\ payments'[q].version = payments[q].version
           \/ /\ m # NoMatches /\ payments[q].version = 0
              /\ payments'[q].matched = m /\ payments'[q].version = 1
    BY <1>3, Approved
  <2>2. payments[q].approval # "none"
    BY <1>3 DEF ApproveCommit, At, PaymentsHeld, ApprovalHeld
  <2> HIDE DEF q
  <2>3. CASE p # q
    <3>1. payments'[p] = payments[p] /\ unlocks'[p] = unlocks[p]
      BY <2>1, <2>3 DEF PaymentsTyped
    <3> QED  BY <1>0, <2>1, <3>1 DEF PaymentHeld
  <2>4. CASE p = q
    <3>1. (~reopened => unlocks'[p] <= payments'[p].version) /\ payments'[p].version <= 1
      BY <1>0, <2>1, <2>4, PaymentFields DEF PaymentHeld, PaymentsTyped
    <3>2. payments'[p].version = 0 => payments'[p].matched = NoMatches
      BY <1>0, <2>1, <2>4 DEF PaymentHeld
    <3>3. payments'[p].amount \in Amounts
      BY <1>0, <2>1, <2>2, <2>4 DEF PaymentHeld
    <3> QED  BY <2>1, <2>4, <3>1, <3>2, <3>3 DEF PaymentHeld
  <2> QED  BY <2>3, <2>4
<1>4. ASSUME NEW s \in Slots, RejectSave(s), NEW p \in Payments
      PROVE  PaymentHeld(p)' /\ (payments[p].approval # "none" => payments'[p].approval # "none")
  <2> DEFINE q == flight[s].id
  <2>1. /\ q \in Payments /\ payments[q].approval # "none"
        /\ unlocks' = unlocks /\ reopened' = reopened
    BY <1>4, FlightFields DEF RejectSave, At, PaymentsHeld, ApprovalHeld, device
  <2>2. payments' = [payments EXCEPT ![q] = [payments[q] EXCEPT !.approval = "rejected"]]
    BY <1>4 DEF RejectSave, PaymentsTyped
  <2>3. /\ payments'[q].approval = "rejected" /\ payments'[q].amount = payments[q].amount
        /\ payments'[q].version = payments[q].version /\ payments'[q].matched = payments[q].matched
        /\ \A r \in Payments : r # q => payments'[r] = payments[r]
    BY <2>1, <2>2 DEF PaymentsTyped, PaymentDocs
  <2> HIDE DEF q
  <2> QED  BY <1>0, <2>1, <2>3 DEF PaymentHeld
<1>5. ASSUME NEW i \in Installments, MarkPaid(i)
      PROVE  UNCHANGED <<payments, unlocks, reopened>>
  BY <1>5 DEF MarkPaid, SaveSettling
<1>6. CASE ReleaseRetry \/ WriteOverRelease
  BY <1>1, <1>6 DEF ReleaseRetry, WriteOverRelease
<1> QED
  BY <1>1, <1>2, <1>3, <1>4, <1>5, <1>6 DEF PaymentStep, payVars, device

\* The installments.
Matched(pay, i) == SumFunctionOnSet([p \in Payments |-> pay[p].matched[i]], Payments)

\* The money matched with an installment depends on what the payments matched only.
LEMMA MatchedSame ==
  ASSUME NEW pay, NEW after, NEW i, \A p \in Payments : after[p].matched = pay[p].matched
  PROVE  Matched(after, i) = Matched(pay, i)
<1>1. [p \in Payments |-> after[p].matched[i]] = [p \in Payments |-> pay[p].matched[i]]
  OBVIOUS
<1> QED  BY <1>1 DEF Matched

\* A payment that had matched nothing adds what it matches.
LEMMA MatchedMore ==
  ASSUME NEW pay, NEW after, NEW i, NEW p \in Payments,
         \A q \in Payments : pay[q].matched[i] \in Nat /\ after[q].matched[i] \in Nat,
         \A q \in Payments : q # p => after[q] = pay[q],
         pay[p].matched[i] = 0
  PROVE  Matched(after, i) = Matched(pay, i) + after[p].matched[i]
<1> DEFINE f == [q \in Payments |-> pay[q].matched[i]]
           g == [q \in Payments |-> after[q].matched[i]]
<1>1. /\ \A q \in Payments : f[q] \in Int /\ g[q] \in Int
      /\ \A q \in Payments \ {p} : g[q] = f[q]
      /\ f[p] = 0 /\ g[p] = after[p].matched[i] /\ g[p] \in Int
      /\ \A q \in Payments : f[q] \in Nat
  OBVIOUS
<1> HIDE DEF f, g
<1>2. SumFunctionOnSet(g, Payments) = SumFunctionOnSet(f, Payments) - f[p] + g[p]
  BY <1>1, PaymentsAssumption, SumChange
<1>3. SumFunctionOnSet(f, Payments) \in Int
  BY <1>1, PaymentsAssumption, SumType
<1> QED  BY <1>1, <1>2, <1>3 DEF Matched, f, g

\* The money collected is the sum of what was matched, now and after the step.
LEMMA CollectedIs ==
  ASSUME NEW i
  PROVE  Collected(i) = Matched(payments, i) /\ Collected(i)' = Matched(payments', i)
BY DEF Collected, Matched

\* It is a natural number.
LEMMA CollectedType ==
  ASSUME PaymentsTyped, NEW i \in Installments
  PROVE  Collected(i) \in Nat
<1> DEFINE f == [p \in Payments |-> payments[p].matched[i]]
<1>1. \A p \in Payments : f[p] \in Nat
  BY PaymentFields
<1> HIDE DEF f
<1> QED  BY <1>1, PaymentsAssumption, SumNat DEF Collected, f

ScheduleKept == ScheduleHeld' /\ \A i \in Installments : Explained(i)'

\* A schedule is settled only when its device is released, or was before another state was
\* written over its release.
LEMMA SettledHeld ==
  ASSUME NEW sch \in ScheduleDocs, SaveSettling(sch), sch.settled = schedule.settled, ScheduleHeld,
         schedule.settled \in BOOLEAN
  PROVE  schedule'.settled => released' \/ reopened'
BY SettlingIs DEF SaveSettling, NewlySettled, ScheduleHeld

\* An approval adds to an installment what it matches with it.
LEMMA ApprovalExplained ==
  ASSUME PaymentsTyped, flight \in [Slots -> Flights], PaymentsHeld, ScheduleExplained,
         NEW s \in Slots, NEW m \in [Installments -> 0 .. Max(Amounts)], ApproveCommit(s, m),
         PaymentsTyped'
  PROVE  ScheduleKept
<1> DEFINE p == flight[s].id
<1>1. /\ p \in Payments /\ payments[p].amount \in Nat \ {0}
      /\ m \in Allocations(payments[p].amount)
      /\ SaveSettling(Credited(m))
      /\ payments' = [payments EXCEPT ![p] = payments'[p]]
      /\ \/ m = NoMatches /\ payments'[p].matched = payments[p].matched
         \/ payments[p].version = 0 /\ payments'[p].matched = m
  BY Approved
<1> HIDE DEF p
<1>2. \A q \in Payments : q # p => payments'[q] = payments[q]
  BY <1>1 DEF PaymentsTyped
<1>3. m \in [Installments -> Nat]
  BY <1>1, AllocationsAre
<1>4. ASSUME NEW i \in Installments
      PROVE  Collected(i)' = Collected(i) + m[i]
  <2>1. Collected(i) \in Nat
    BY CollectedType
  <2>2. CASE m = NoMatches /\ payments'[p].matched = payments[p].matched
    <3>1. \A q \in Payments : payments'[q].matched = payments[q].matched
      BY <1>2, <2>2
    <3>2. m[i] = 0
      BY <2>2 DEF NoMatches
    <3> QED  BY <2>1, <3>1, <3>2, MatchedSame, CollectedIs
  <2>3. CASE payments[p].version = 0 /\ payments'[p].matched = m
    <3>1. payments[p].matched[i] = 0
      BY <1>1, <2>3 DEF PaymentsHeld, PaymentHeld, NoMatches
    <3>2. \A q \in Payments : payments[q].matched[i] \in Nat /\ payments'[q].matched[i] \in Nat
      BY DEF PaymentsTyped, PaymentDocs
    <3>3. Matched(payments', i) = Matched(payments, i) + payments'[p].matched[i]
      <4> DEFINE pay == payments  after == payments'
      <4>1. /\ \A q \in Payments : pay[q].matched[i] \in Nat /\ after[q].matched[i] \in Nat
            /\ \A q \in Payments : q # p => after[q] = pay[q]
            /\ pay[p].matched[i] = 0
        BY <1>2, <3>1, <3>2
      <4> HIDE DEF pay, after
      <4>2. Matched(after, i) = Matched(pay, i) + after[p].matched[i]
        BY <1>1, <4>1, MatchedMore
      <4> QED  BY <4>2 DEF pay, after
    <3> QED  BY <2>3, <3>3, CollectedIs
  <2> QED  BY <1>1, <2>2, <2>3
<1>5. /\ schedule'.status = Credited(m).status /\ schedule'.paid = Credited(m).paid
      /\ schedule'.settled => released' \/ reopened'
  <2>1. Credited(m) \in ScheduleDocs /\ Credited(m).settled = schedule.settled
    BY <1>1, CreditedIs
  <2>2. schedule.settled \in BOOLEAN /\ ScheduleHeld
    BY DEF PaymentsTyped, ScheduleDocs, PaymentsHeld
  <2> QED  BY <1>1, <2>1, <2>2, SettlingIs, SettledHeld
<1>6. ASSUME NEW i \in Installments
      PROVE  /\ schedule'.paid[i] = schedule.paid[i] + m[i] /\ schedule'.paid[i] <= Due[i]
             /\ m[i] = 0 => schedule'.status[i] = schedule.status[i]
             /\ m[i] # 0 => /\ schedule'.status[i] \in {"paid", "partial"}
                            /\ schedule'.status[i] = "paid" <=> schedule'.paid[i] = Due[i]
                            /\ i \in Unpaid(schedule)
  BY <1>1, <1>5, CreditedIs, AllocationsAre
<1>7. ASSUME NEW i \in Installments PROVE Explained(i)'
  <2>1. /\ Explained(i) /\ schedule.paid[i] \in Nat /\ Collected(i) \in Nat /\ m[i] \in Nat
        /\ schedule.status[i] \in {"pending", "partial", "paid", "waived"}
    BY <1>3, CollectedType, ExplainedParts DEF PaymentsTyped, ScheduleDocs, InstallmentStatuses, UnpaidStatuses
  <2>2. Collected(i)' = Collected(i) + m[i]
    BY <1>4
  <2>3. CASE m[i] = 0
    BY <1>6, <2>1, <2>2, <2>3 DEF Explained
  <2>4. CASE m[i] # 0
    <3>1. schedule.paid[i] = Collected(i)
      BY <1>6, <2>1, <2>4 DEF Explained, Unpaid, UnpaidStatuses
    <3> QED  BY <1>6, <2>1, <2>2, <2>4, <3>1 DEF Explained
  <2> QED  BY <2>3, <2>4
<1>8. ASSUME NEW i \in Unpaid(schedule)' PROVE schedule'.paid[i] < Due[i]
  <2>1. /\ i \in Installments /\ schedule'.status[i] \in UnpaidStatuses
        /\ schedule'.paid[i] \in Nat /\ Due[i] \in Nat
    BY DueAssumption DEF Unpaid, PaymentsTyped, ScheduleDocs
  <2>2. CASE m[i] = 0
    <3>1. i \in Unpaid(schedule)
      BY <1>6, <2>1, <2>2 DEF Unpaid
    <3>2. schedule.paid[i] < Due[i] /\ schedule.paid[i] \in Nat
      BY <2>1, <3>1 DEF PaymentsHeld, ScheduleHeld, PaymentsTyped, ScheduleDocs
    <3> QED  BY <1>6, <2>1, <2>2, <3>2
  <2>3. CASE m[i] # 0
    BY <1>6, <2>1, <2>3 DEF UnpaidStatuses
  <2> QED  BY <2>2, <2>3
<1> QED  BY <1>5, <1>7, <1>8 DEF ScheduleKept, ScheduleHeld

\* What other steps of the schedule do to an installment.
Rewritten(i) ==
  \/ schedule'.status[i] = schedule.status[i] /\ schedule'.paid[i] = schedule.paid[i]
  \/ schedule'.status[i] = "paid" /\ schedule'.paid[i] = Due[i]
  \/ /\ i \in Unpaid(schedule)
     /\ schedule'.status[i] = "waived" /\ schedule'.paid[i] = schedule.paid[i]

\* A schedule rewritten without new money stays explained.
LEMMA RewrittenExplained ==
  ASSUME PaymentsTyped, PaymentsTyped', ScheduleExplained, ScheduleHeld,
         \A i \in Installments : Rewritten(i) /\ Collected(i)' = Collected(i),
         schedule'.settled => released' \/ reopened'
  PROVE  ScheduleKept
<1>0. \A i \in Installments :
        /\ Explained(i) /\ Collected(i) \in Nat /\ Due[i] \in Nat
        /\ schedule.paid[i] \in Nat /\ schedule.paid[i] <= Due[i]
  BY CollectedType, ExplainedParts, DueAssumption DEF PaymentsTyped, ScheduleDocs
<1>1. ASSUME NEW i \in Installments PROVE Explained(i)'
  BY <1>0, <1>1 DEF Explained, Rewritten, Unpaid, UnpaidStatuses
<1>2. ASSUME NEW i \in Unpaid(schedule)' PROVE schedule'.paid[i] < Due[i]
  <2>1. i \in Installments /\ schedule'.status[i] \in UnpaidStatuses /\ Rewritten(i)
    BY DEF Unpaid
  <2>2. i \in Unpaid(schedule) /\ schedule'.paid[i] = schedule.paid[i]
    BY <2>1 DEF Rewritten, Unpaid, UnpaidStatuses
  <2> QED  BY <2>2 DEF ScheduleHeld
<1> QED  BY <1>1, <1>2 DEF ScheduleKept, ScheduleHeld

\* Every step keeps the schedule explained by its payments.
LEMMA ScheduleStep ==
  ASSUME PaymentsTyped, flight \in [Slots -> Flights], PaymentsHeld, ScheduleExplained, PaymentStep,
         PaymentsTyped'
  PROVE  ScheduleKept
<1>0. ScheduleHeld /\ schedule \in ScheduleDocs
  BY DEF PaymentsHeld, PaymentsTyped
<1>a. ASSUME \A p \in Payments : payments'[p].matched = payments[p].matched,
             \A i \in Installments : Rewritten(i),
             schedule'.settled => released' \/ reopened'
      PROVE  ScheduleKept
  <2>1. \A i \in Installments : Collected(i)' = Collected(i)
    BY <1>a, MatchedSame, CollectedIs
  <2> QED  BY <1>0, <1>a, <2>1, RewrittenExplained
<1>1. CASE UNCHANGED <<payVars, unlocks>>
  <2>1. schedule' = schedule /\ payments' = payments /\ UNCHANGED <<released, reopened>>
    BY <1>1 DEF payVars, device
  <2> QED  BY <1>0, <1>a, <2>1 DEF Rewritten, ScheduleHeld
<1>2. ASSUME NEW s \in Slots, NEW p \in Payments, SubmitCreate(s, p) PROVE ScheduleKept
  <2>1. schedule' = schedule /\ UNCHANGED <<released, reopened>>
    BY <1>2 DEF SubmitCreate, device
  <2>2. \A q \in Payments : payments'[q].matched = payments[q].matched
    BY <1>2 DEF SubmitCreate, PaymentsTyped, PaymentDocs
  <2> QED  BY <1>0, <1>a, <2>1, <2>2 DEF Rewritten, ScheduleHeld
<1>3. ASSUME NEW s \in Slots, NEW m \in [Installments -> 0 .. Max(Amounts)], ApproveCommit(s, m)
      PROVE  ScheduleKept
  BY <1>3, ApprovalExplained
<1>4. ASSUME NEW s \in Slots, RejectSave(s) PROVE ScheduleKept
  <2>1. schedule' = schedule /\ UNCHANGED <<released, reopened>>
    BY <1>4 DEF RejectSave, device
  <2>2. \A q \in Payments : payments'[q].matched = payments[q].matched
    BY <1>4 DEF RejectSave, PaymentsTyped, PaymentDocs
  <2> QED  BY <1>0, <1>a, <2>1, <2>2 DEF Rewritten, ScheduleHeld
<1>5. ASSUME NEW i \in Installments, MarkPaid(i) PROVE ScheduleKept
  <2> DEFINE sch == [schedule EXCEPT !.status = [schedule.status EXCEPT ![i] = "paid"],
                                     !.paid = [schedule.paid EXCEPT ![i] = Due[i]]]
  <2>1. /\ sch \in ScheduleDocs /\ sch.settled = schedule.settled
        /\ \A j \in Installments :
             \/ sch.status[j] = schedule.status[j] /\ sch.paid[j] = schedule.paid[j]
             \/ sch.status[j] = "paid" /\ sch.paid[j] = Due[j]
    BY <1>0, DueAssumption DEF ScheduleDocs, InstallmentStatuses
  <2>2. SaveSettling(sch) /\ payments' = payments
    <3>1. sch = [schedule EXCEPT !.status[i] = "paid", !.paid[i] = Due[i]]
      BY <1>0 DEF ScheduleDocs
    <3> QED  BY <1>5, <3>1 DEF MarkPaid
  <2> HIDE DEF sch
  <2>3. schedule'.status = sch.status /\ schedule'.paid = sch.paid
    BY <2>1, <2>2, SettlingIs
  <2>4. schedule'.settled => released' \/ reopened'
    BY <1>0, <2>1, <2>2, SettledHeld DEF ScheduleDocs
  <2> QED  BY <1>a, <2>1, <2>2, <2>3, <2>4 DEF Rewritten
<1>6. ASSUME NEW outcome \in {"paid", "waived"}, ResolveAll(outcome),
             UNCHANGED <<payments, device, unlocks>>
      PROVE  ScheduleKept
  <2>1. /\ schedule'.settled = schedule.settled
        /\ schedule'.status = [i \in Installments |->
                                 IF i \in Unpaid(schedule) THEN outcome ELSE schedule.status[i]]
        /\ schedule'.paid = [i \in Installments |->
                               IF i \in Unpaid(schedule) /\ outcome = "paid" THEN Due[i]
                               ELSE schedule.paid[i]]
    BY <1>0, <1>6 DEF ResolveAll, ScheduleDocs
  <2>2. \A i \in Installments : Rewritten(i)
    BY <1>6, <2>1 DEF Rewritten
  <2> QED  BY <1>0, <1>a, <1>6, <2>1, <2>2 DEF ScheduleHeld, device
<1>7. ASSUME NEW i \in Unpaid(schedule), Waive(i), UNCHANGED <<payments, device, unlocks>>
      PROVE  ScheduleKept
  <2>1. /\ schedule'.settled = schedule.settled /\ schedule'.paid = schedule.paid
        /\ schedule'.status = [schedule.status EXCEPT ![i] = "waived"]
    BY <1>0, <1>7 DEF Waive, ScheduleDocs
  <2>2. \A j \in Installments : Rewritten(j)
    BY <1>0, <2>1 DEF Rewritten, ScheduleDocs
  <2> QED  BY <1>0, <1>a, <1>7, <2>1, <2>2 DEF ScheduleHeld, device
<1>8. CASE ReleaseRetry \/ WriteOverRelease
  <2>1. schedule' = schedule /\ payments' = payments /\ (released' \/ reopened')
    BY <1>8 DEF ReleaseRetry, WriteOverRelease
  <2> QED  BY <1>0, <1>a, <2>1 DEF Rewritten
<1> QED  BY <1>1, <1>2, <1>3, <1>4, <1>5, <1>6, <1>7, <1>8 DEF PaymentStep

-----------------------------------------------------------------------------
(* Cases and the job *)

\* The status of an open case says how far up it is at least, the partner got it when the
\* tenant's time was over, and no level it has not reached has been flagged.  If runs of the
\* job do not overlap, the status says exactly how far up it is.
CaseHeld(c) ==
  /\ cases[c].status = "none" => cases[c] = NoCase
  /\ cases[c].status = "PENDING_TENANT" => cases[c].escalated = {}
  /\ cases[c].status = "ESCALATED_PARTNER" => "partner" \in cases[c].escalated
  /\ cases[c].status = "ESCALATED_ADMIN" => "admin" \in cases[c].escalated
  /\ "admin" \in cases[c].escalated => "partner" \in cases[c].escalated
  /\ "partner" \in cases[c].escalated => cases[c].sla + PartnerSla <= cases[c].partnerSla
  /\ \A level \in {"partner", "admin"} :
       level \notin cases[c].escalated => breaches[c][level] = 0
  /\ Single => /\ cases[c].status = "ESCALATED_PARTNER" => "admin" \notin cases[c].escalated
               /\ \A level \in {"partner", "admin"} : breaches[c][level] <= 1

\* What a run of the job has found, on documents that may be out of date, is late, and what
\* it has yet to flag has been handed on.  If no run overlaps it, what it has found is still
\* one level down, and what it has yet to flag has not been flagged.
JobHeld(r, c) ==
  /\ job[r].at <= now
  /\ job[r].phase # "idle" => r \in scenario.runs
  /\ job[r].phase = "idle" => c \notin job[r].todo /\ c \notin job[r].flag
  /\ c \in job[r].flag => c \notin job[r].todo
  /\ job[r].phase = "tenant" /\ c \in job[r].todo =>
       /\ cases[c].status # "none" /\ cases[c].sla <= now
       /\ Single => cases[c].escalated = {}
  /\ job[r].phase = "tenant" /\ c \in job[r].flag =>
       /\ "partner" \in cases[c].escalated
       /\ Single => "admin" \notin cases[c].escalated /\ breaches[c]["partner"] = 0
  /\ job[r].phase = "partner" /\ c \in job[r].todo =>
       /\ "partner" \in cases[c].escalated /\ cases[c].sla + PartnerSla <= now
       /\ Single => "admin" \notin cases[c].escalated /\ cases[c].partnerSla <= now
  /\ job[r].phase = "partner" /\ c \in job[r].flag =>
       /\ "admin" \in cases[c].escalated
       /\ Single => breaches[c]["admin"] = 0

\* A decision is about a case that its level has been handed.
DecisionHeld(f) ==
  f.op \in DecisionOps =>
    /\ cases[f.id].status # "none"
    /\ f.level # "tenant" => "partner" \in cases[f.id].escalated

CasesHeld ==
  /\ \A c \in Cases : CaseHeld(c)
  /\ \A r \in Runs, c \in Cases : JobHeld(r, c)
  /\ \A s \in Slots : DecisionHeld(flight[s])

\* Cases are kept, and go up only.
CaseKept(c) ==
  /\ CaseHeld(c)' /\ \A r \in Runs : JobHeld(r, c)'
  /\ cases[c].escalated \subseteq cases'[c].escalated
  /\ cases[c].status # "none" => cases'[c].status # "none"

\* A case that no step touches keeps what is known of it.
LEMMA CaseUntouched ==
  ASSUME CasesHeld, UNCHANGED <<now, scenario>>, NEW c \in Cases,
         cases'[c] = cases[c], breaches'[c] = breaches[c],
         \A r \in Runs : \/ job'[r] = job[r] \/ JobHeld(r, c)'
  PROVE  CaseKept(c)
<1>1. CaseHeld(c) /\ \A r \in Runs : JobHeld(r, c)
  BY DEF CasesHeld
<1>2. Single' <=> Single
  BY DEF Single
<1>3. CaseHeld(c)'
  BY <1>1, <1>2 DEF CaseHeld
<1>4. \A r \in Runs : JobHeld(r, c)'
  BY <1>1, <1>2 DEF JobHeld
<1> QED  BY <1>3, <1>4 DEF CaseKept

\* Without overlap, only one run is going on.
LEMMA NoOther ==
  ASSUME CasesTyped, CasesHeld, Single, NEW r \in Runs, NEW q \in Runs, q # r,
         job[r].phase # "idle", NEW c \in Cases
  PROVE  job[q].phase = "idle" /\ c \notin job[q].todo /\ c \notin job[q].flag
BY DEF CasesHeld, JobHeld, Single

\* Creating a case and deciding one.
LEMMA RequestsKeepCases ==
  ASSUME CasesTyped, flight \in [Slots -> Flights], now \in Nat, CasesHeld,
         UNCHANGED <<now, scenario>>, NEW c \in Cases, NEW s \in Slots,
         Decides(s) \/ \E other \in Cases : CaseCreate(s, other)
  PROVE  CaseKept(c)
<1>0. CaseHeld(c) /\ \A r \in Runs : JobHeld(r, c)
  BY DEF CasesHeld
<1>s. Single' <=> Single
  BY DEF Single
<1>1. ASSUME NEW other \in Cases, CaseCreate(s, other) PROVE CaseKept(c)
  <2>1. /\ Saved(other, "PENDING_TENANT", flight[s].sla, cases[other].partnerSla,
                 cases[other].escalated)
        /\ UNCHANGED <<breaches, job>> /\ cases[other] = NoCase
    BY <1>1, CreatedCase DEF CaseCreate
  <2>2. CASE c # other
    BY <2>1, <2>2, SavedIs, CaseUntouched
  <2>3. CASE c = other
    <3>1. cases'[c].status = "PENDING_TENANT" /\ cases'[c].escalated = {}
      BY <2>1, <2>3, SavedIs DEF NoCase
    <3>2. cases[c].status = "none" /\ cases[c].escalated = {}
      BY <2>1, <2>3 DEF NoCase
    <3>3. CaseHeld(c)'
      BY <1>0, <1>s, <2>1, <3>1, <3>2 DEF CaseHeld
    <3>4. ASSUME NEW r \in Runs PROVE JobHeld(r, c)'
      <4>1. job[r].phase \in {"idle", "tenant", "partner"}
        BY DEF CasesTyped, JobDocs
      <4>2. c \notin job[r].todo /\ c \notin job[r].flag
        BY <1>0, <3>2, <4>1 DEF JobHeld, CaseHeld
      <4> QED  BY <1>0, <2>1, <4>2 DEF JobHeld
    <3> QED  BY <3>1, <3>2, <3>3, <3>4 DEF CaseKept
  <2> QED  BY <2>2, <2>3
<1>2. CASE Decides(s)
  <2> DEFINE other == flight[s].id
  <2>1. flight[s].level \in Levels
    BY <1>2, FlightFields DEF Decides
  <2>2. /\ other \in Cases /\ UNCHANGED <<breaches, job>>
        /\ \E status \in Decided(flight[s].level) :
             Saved(other, status, cases[other].sla, cases[other].partnerSla, cases[other].escalated)
    BY <1>2, DecidedCase
  <2> HIDE DEF other
  <2>3. PICK status \in Decided(flight[s].level) :
          Saved(other, status, cases[other].sla, cases[other].partnerSla, cases[other].escalated)
    BY <2>2
  <2>4. status \notin {"PENDING_TENANT", "ESCALATED_PARTNER", "ESCALATED_ADMIN", "none"}
    BY <2>1, LevelNames DEF OpenStatuses
  <2>5. CASE c # other
    BY <2>2, <2>3, <2>5, SavedIs, CaseUntouched
  <2>6. CASE c = other
    <3>1. /\ cases'[c].status = status /\ cases'[c].escalated = cases[c].escalated
          /\ cases'[c].sla = cases[c].sla /\ cases'[c].partnerSla = cases[c].partnerSla
      BY <2>2, <2>3, <2>6, SavedIs
    <3>2. CaseHeld(c)'
      BY <1>0, <1>s, <2>2, <2>4, <3>1 DEF CaseHeld
    <3>3. \A r \in Runs : JobHeld(r, c)'
      BY <1>0, <1>s, <2>2, <2>4, <3>1 DEF JobHeld
    <3> QED  BY <2>4, <3>1, <3>2, <3>3 DEF CaseKept
  <2> QED  BY <2>5, <2>6
<1> QED  BY <1>1, <1>2

\* A run of the job that finds cases or ends.
LEMMA FindingKeepsCases ==
  ASSUME CasesTyped, now \in Nat, CasesHeld, UNCHANGED <<now, scenario>>, NEW c \in Cases,
         NEW r \in Runs, JobTenantFind(r) \/ JobPartnerFind(r) \/ JobFinish(r) \/ JobFail(r)
  PROVE  CaseKept(c)
<1>0. CaseHeld(c) /\ JobHeld(r, c)
  BY DEF CasesHeld
<1>s. Single' <=> Single
  BY DEF Single
<1>c. UNCHANGED <<cases, breaches>>
  BY DEF JobTenantFind, JobPartnerFind, JobFinish, JobFail
<1>t. job[r] \in JobDocs
  BY DEF CasesTyped
<1>j. SUFFICES JobHeld(r, c)' /\ \A q \in Runs : q # r => job'[q] = job[q]
  BY <1>c, CaseUntouched
<1>1. CASE JobTenantFind(r)
  <2>1. PICK todo \in SUBSET TenantBreaches(now) : JobBecomes(r, "tenant", now, todo, {})
    BY <1>1, JobSteps
  <2>2. c \in todo => cases[c].status = "PENDING_TENANT" /\ cases[c].sla <= now
    BY <2>1 DEF TenantBreaches
  <2>3. c \in todo => cases[c].status # "none" /\ cases[c].escalated = {}
    BY <1>0, <2>2 DEF CaseHeld
  <2>4. r \in scenario.runs
    BY <1>1 DEF JobTenantFind
  <2> QED  BY <1>c, <1>s, <2>1, <2>2, <2>3, <2>4 DEF JobHeld, JobBecomes
<1>2. CASE JobPartnerFind(r)
  <2>1. PICK todo \in SUBSET PartnerBreaches(job[r].at) :
          JobBecomes(r, "partner", job[r].at, todo, {})
    BY <1>2, JobSteps
  <2>2. c \in todo => cases[c].status = "ESCALATED_PARTNER" /\ cases[c].partnerSla <= job[r].at
    BY <2>1 DEF PartnerBreaches
  <2>3. job[r].at <= now /\ r \in scenario.runs
    BY <1>0, <1>2 DEF JobHeld, JobPartnerFind
  <2>4. c \in todo =>
          /\ "partner" \in cases[c].escalated /\ cases[c].partnerSla <= now
          /\ cases[c].sla + PartnerSla <= now
          /\ Single => "admin" \notin cases[c].escalated
    <3>1. cases[c].sla \in Nat /\ cases[c].partnerSla \in Nat /\ job[r].at \in Nat /\ PartnerSla \in Nat
      BY <1>t, CaseFields, SlaAssumption DEF JobDocs
    <3> QED  BY <1>0, <2>2, <2>3, <3>1 DEF CaseHeld
  <2> QED  BY <1>c, <1>s, <2>1, <2>3, <2>4 DEF JobHeld, JobBecomes
<1>3. CASE JobFinish(r) \/ JobFail(r)
  <2>1. JobBecomes(r, "idle", 0, {}, {})
    BY <1>3, JobSteps
  <2> QED  BY <2>1 DEF JobHeld, JobBecomes
<1> QED  BY <1>1, <1>2, <1>3

\* A run of the job that hands a case to the partner.
LEMMA TenantSaveKeepsCases ==
  ASSUME CasesTyped, now \in Nat, CasesHeld, UNCHANGED <<now, scenario>>, NEW c \in Cases,
         NEW r \in Runs, NEW other \in Cases, JobTenantSave(r, other)
  PROVE  CaseKept(c)
<1>0. CaseHeld(c) /\ \A q \in Runs : JobHeld(q, c)
  BY DEF CasesHeld
<1>s. Single' <=> Single
  BY DEF Single
<1>1. /\ job[r].phase = "tenant" /\ other \in job[r].todo /\ job[r].flag = {}
      /\ Handled(r, other) /\ breaches' = breaches
  BY DEF JobTenantSave, Handling
<1>2. JobBecomes(r, "tenant", job[r].at, job[r].todo \ {other}, {other})
  BY <1>1, JobSteps
<1>3. CASE c # other
  <2> DEFINE up == cases[other].escalated \cup {"partner"}  due == now + PartnerSla
  <2>1. Saved(other, "ESCALATED_PARTNER", cases[other].sla, due, up)
    BY TenantSaved
  <2> HIDE DEF up, due
  <2>2. cases'[c] = cases[c]
    BY <1>3, <2>1, SavedIs
  <2>3. JobHeld(r, c)'
    BY <1>0, <1>1, <1>2, <1>3, <1>s, <2>2 DEF JobHeld, JobBecomes
  <2> QED  BY <1>1, <1>2, <2>2, <2>3, CaseUntouched DEF JobBecomes
<1>4. CASE c = other
  <2> DEFINE up == cases[c].escalated \cup {"partner"}  due == now + PartnerSla
             sla == cases[c].sla
  <2>1. Saved(c, "ESCALATED_PARTNER", sla, due, up)
    BY <1>4, TenantSaved
  <2> HIDE DEF up, due, sla
  <2>2. /\ cases'[c].status = "ESCALATED_PARTNER" /\ cases'[c].escalated = up
        /\ cases'[c].sla = sla /\ cases'[c].partnerSla = due
    BY <2>1, SavedIs
  <2>3. cases[c].status # "none" /\ sla <= now /\ (Single => cases[c].escalated = {})
    BY <1>0, <1>1, <1>4 DEF JobHeld, sla
  <2>4. sla + PartnerSla <= due /\ "partner" \in up /\ cases[c].escalated \subseteq up
    BY <2>3, CaseFields, SlaAssumption DEF due, up, sla
  <2>5. /\ "admin" \in up => "admin" \in cases[c].escalated
        /\ Single => "admin" \notin up
    BY <2>3 DEF up
  <2>6. Single => \A level \in {"partner", "admin"} : breaches[c][level] = 0
    BY <1>0, <2>3 DEF CaseHeld
  <2>7. CaseHeld(c)'
    BY <1>0, <1>1, <1>s, <2>2, <2>4, <2>5, <2>6 DEF CaseHeld
  <2>8. JobHeld(r, c)'
    BY <1>0, <1>1, <1>2, <1>4, <1>s, <2>2, <2>4, <2>5, <2>6 DEF JobHeld, JobBecomes
  <2>9. ASSUME NEW q \in Runs, q # r PROVE JobHeld(q, c)'
    <3>1. job'[q] = job[q]
      BY <1>2, <2>9 DEF JobBecomes
    <3>2. Single => job[q].phase = "idle"
      BY <1>1, <2>9, NoOther
    <3> QED  BY <1>0, <1>s, <2>2, <2>4, <3>1, <3>2 DEF JobHeld, sla
  <2> QED  BY <2>2, <2>4, <2>7, <2>8, <2>9 DEF CaseKept
<1> QED  BY <1>3, <1>4

\* A run of the job that hands a case to the administrator.
LEMMA PartnerSaveKeepsCases ==
  ASSUME CasesTyped, now \in Nat, CasesHeld, UNCHANGED <<now, scenario>>, NEW c \in Cases,
         NEW r \in Runs, NEW other \in Cases, JobPartnerSave(r, other)
  PROVE  CaseKept(c)
<1>0. CaseHeld(c) /\ \A q \in Runs : JobHeld(q, c)
  BY DEF CasesHeld
<1>s. Single' <=> Single
  BY DEF Single
<1>1. /\ job[r].phase = "partner" /\ other \in job[r].todo /\ job[r].flag = {}
      /\ Handled(r, other) /\ breaches' = breaches
  BY DEF JobPartnerSave, Handling
<1>2. JobBecomes(r, "partner", job[r].at, job[r].todo \ {other}, {other})
  BY <1>1, JobSteps
<1>3. CASE c # other
  <2> DEFINE up == cases[other].escalated \cup {"admin"}
  <2>1. Saved(other, "ESCALATED_ADMIN", cases[other].sla, cases[other].partnerSla, up)
    BY PartnerSaved
  <2> HIDE DEF up
  <2>2. cases'[c] = cases[c]
    BY <1>3, <2>1, SavedIs
  <2>3. JobHeld(r, c)'
    BY <1>0, <1>1, <1>2, <1>3, <1>s, <2>2 DEF JobHeld, JobBecomes
  <2> QED  BY <1>1, <1>2, <2>2, <2>3, CaseUntouched DEF JobBecomes
<1>4. CASE c = other
  <2> DEFINE up == cases[c].escalated \cup {"admin"}  due == cases[c].partnerSla
             sla == cases[c].sla
  <2>1. Saved(c, "ESCALATED_ADMIN", sla, due, up)
    BY <1>4, PartnerSaved
  <2> HIDE DEF up, due, sla
  <2>2. /\ cases'[c].status = "ESCALATED_ADMIN" /\ cases'[c].escalated = up
        /\ cases'[c].sla = sla /\ cases'[c].partnerSla = due
    BY <2>1, SavedIs
  <2>3. /\ "partner" \in cases[c].escalated
        /\ Single => "admin" \notin cases[c].escalated
    BY <1>0, <1>1, <1>4 DEF JobHeld
  <2>4. /\ "partner" \in up /\ "admin" \in up /\ cases[c].escalated \subseteq up
        /\ sla + PartnerSla <= due
    BY <1>0, <2>3 DEF up, CaseHeld, sla, due
  <2>5. Single => breaches[c]["admin"] = 0
    BY <1>0, <2>3 DEF CaseHeld
  <2>6. cases[c].status # "none"
    BY <1>0, <2>3 DEF CaseHeld, NoCase
  <2>7. CaseHeld(c)'
    BY <1>0, <1>1, <1>s, <2>2, <2>4 DEF CaseHeld
  <2>8. JobHeld(r, c)'
    BY <1>0, <1>1, <1>2, <1>4, <1>s, <2>2, <2>4, <2>5 DEF JobHeld, JobBecomes
  <2>9. ASSUME NEW q \in Runs, q # r PROVE JobHeld(q, c)'
    <3>1. job'[q] = job[q]
      BY <1>2, <2>9 DEF JobBecomes
    <3>2. Single => job[q].phase = "idle"
      BY <1>1, <2>9, NoOther
    <3> QED  BY <1>0, <1>s, <2>2, <2>4, <3>1, <3>2 DEF JobHeld, sla
  <2> QED  BY <2>2, <2>4, <2>7, <2>8, <2>9 DEF CaseKept
<1> QED  BY <1>3, <1>4

\* A run of the job that raises a flag.
LEMMA FlagKeepsCases ==
  ASSUME CasesTyped, now \in Nat, CasesHeld, UNCHANGED <<now, scenario>>, NEW c \in Cases,
         NEW r \in Runs, JobFlag(r)
  PROVE  CaseKept(c)
<1> DEFINE level == IF job[r].phase = "tenant" THEN "partner" ELSE "admin"
<1>0. CaseHeld(c) /\ \A q \in Runs : JobHeld(q, c)
  BY DEF CasesHeld
<1>s. Single' <=> Single
  BY DEF Single
<1>1. PICK other \in job[r].flag : breaches' = [breaches EXCEPT ![other][level] = @ + 1]
  BY DEF JobFlag
<1>2. /\ JobBecomes(r, job[r].phase, job[r].at, job[r].todo, {}) /\ cases' = cases
      /\ job[r].phase \in {"idle", "tenant", "partner"}
      /\ other \in Cases /\ breaches \in [Cases -> [{"partner", "admin"} -> Nat]]
  BY <1>1, JobSteps DEF JobFlag, CasesTyped, JobDocs
<1>3. /\ level \in cases[other].escalated /\ level \in {"partner", "admin"}
      /\ Single => breaches[other][level] = 0
      /\ job[r].phase # "idle"
  BY <1>1, <1>2 DEF CasesHeld, JobHeld
<1> HIDE DEF level
<1>4. \A l \in {"partner", "admin"} :
        breaches'[c][l] = IF c = other /\ l = level THEN breaches[other][level] + 1
                          ELSE breaches[c][l]
  BY <1>1, <1>2, <1>3
<1>5. CaseHeld(c)'
  BY <1>0, <1>2, <1>3, <1>4, <1>s DEF CaseHeld
<1>6. JobHeld(r, c)'
  BY <1>0, <1>2, <1>s DEF JobHeld, JobBecomes
<1>7. ASSUME NEW q \in Runs, q # r PROVE JobHeld(q, c)'
  <2>1. job'[q] = job[q]
    BY <1>2, <1>7 DEF JobBecomes
  <2>2. Single => job[q].phase = "idle"
    BY <1>3, <1>7, NoOther
  <2> QED  BY <1>0, <1>2, <1>s, <2>1, <2>2 DEF JobHeld
<1> QED  BY <1>2, <1>5, <1>6, <1>7 DEF CaseKept

\* Every step keeps what is known of a case.
LEMMA CasesKept ==
  ASSUME CasesTyped, flight \in [Slots -> Flights], now \in Nat, CasesHeld, CaseStep,
         UNCHANGED <<now, scenario>>, NEW c \in Cases
  PROVE  CaseKept(c)
<1>1. CASE UNCHANGED caseVars
  BY <1>1, CaseUntouched DEF caseVars
<1>2. ASSUME NEW s \in Slots, Decides(s) \/ \E other \in Cases : CaseCreate(s, other)
      PROVE  CaseKept(c)
  BY <1>2, RequestsKeepCases
<1>3. ASSUME NEW r \in Runs, JobStep(r) PROVE CaseKept(c)
  BY <1>3, FindingKeepsCases, TenantSaveKeepsCases, PartnerSaveKeepsCases, FlagKeepsCases
     DEF JobStep, SlaJob
<1> QED  BY <1>1, <1>2, <1>3 DEF CaseStep

-----------------------------------------------------------------------------
(* Handlers in flight *)

\* A case that was read for a decision belongs to the level that decides.
LEMMA ReadHeld ==
  ASSUME NEW s \in Slots, NEW c \in Cases, NEW level \in Levels, NEW action \in DecisionOps,
         NEW statuses \in SUBSET OpenStatuses, ReadCase(s, c, level, action, statuses),
         CaseHeld(c), level # "tenant" => statuses \subseteq {"ESCALATED_PARTNER", "ESCALATED_ADMIN"}
  PROVE  /\ \E f : /\ flight' = [flight EXCEPT ![s] = f] /\ f.op = action
                   /\ f.id = c /\ f.level = level
         /\ cases[c].status # "none" /\ (level # "tenant" => "partner" \in cases[c].escalated)
         /\ action \notin {"approve", "reject_payment"}
<1> DEFINE f == [op |-> action, level |-> level, id |-> c]
<1>1. flight' = [flight EXCEPT ![s] = f] /\ cases[c].status \in statuses
  BY DEF ReadCase, Begin
<1>2. f.op = action /\ f.id = c /\ f.level = level
  OBVIOUS
<1> HIDE DEF f
<1>3. cases[c].status # "none" /\ (level # "tenant" => "partner" \in cases[c].escalated)
  BY <1>1 DEF OpenStatuses, CaseHeld
<1>4. action \notin {"approve", "reject_payment"}
  BY DEF DecisionOps
<1> QED  BY <1>1, <1>2, <1>3, <1>4

FlightHeld(f) == ApprovalHeld(f) /\ DecisionHeld(f)

\* What a request has read is still true enough when it writes.
LEMMA FlightKept ==
  ASSUME PaymentsTyped, flight \in [Slots -> Flights], PaymentsHeld, CasesHeld, FlightStep,
         \A p \in Payments : payments[p].approval # "none" => payments'[p].approval # "none",
         \A c \in Cases : /\ cases[c].status # "none" => cases'[c].status # "none"
                          /\ cases[c].escalated \subseteq cases'[c].escalated,
         NEW r \in Slots
  PROVE  FlightHeld(flight[r])'
<1>0. FlightHeld(flight[r])
  BY DEF PaymentsHeld, CasesHeld, FlightHeld
<1>1. CASE flight'[r] = flight[r]
  <2>1. /\ flight[r].op \in {"approve", "reject_payment"} => flight[r].id \in Payments
        /\ flight[r].op \in DecisionOps => flight[r].id \in Cases
    BY FlightFields
  <2> DEFINE f == flight[r]
  <2> HIDE DEF f
  <2>2. FlightHeld(f) /\ flight'[r] = f
        /\ (f.op \in {"approve", "reject_payment"} => f.id \in Payments)
        /\ (f.op \in DecisionOps => f.id \in Cases)
    BY <1>0, <1>1, <2>1 DEF f
  <2> QED  BY <2>2 DEF FlightHeld, ApprovalHeld, DecisionHeld
<1>2. CASE UNCHANGED flight
  BY <1>1, <1>2
<1>3. ASSUME NEW s \in Slots, End(s) PROVE FlightHeld(flight[r])'
  <2>1. CASE r # s
    BY <1>1, <1>3, <2>1 DEF End
  <2>2. CASE r = s
    <3>1. flight'[r] = Idle
      BY <1>3, <2>2 DEF End
    <3> QED  BY <3>1 DEF FlightHeld, ApprovalHeld, DecisionHeld, DecisionOps, Idle
  <2> QED  BY <2>1, <2>2
<1>4. ASSUME NEW s \in Slots, Starts(s) PROVE FlightHeld(flight[r])'
  <2>1. UNCHANGED <<payments, cases>>
    BY <1>4 DEF Starts, SubmitCheck, ApproveRead, RejectRead, CaseCheck, TenantRead, PartnerRead,
                AdminRead, ReadCase, payVars, caseVars
  <2>2. SUFFICES \E f : flight' = [flight EXCEPT ![s] = f] /\ FlightHeld(f)
    <3>1. PICK f : flight' = [flight EXCEPT ![s] = f] /\ FlightHeld(f)
      BY <2>2
    <3>2. flight'[r] = f \/ flight'[r] = flight[r]
      BY <3>1
    <3> QED  BY <1>1, <2>1, <3>1, <3>2 DEF FlightHeld, ApprovalHeld, DecisionHeld
  <2> USE DEF FlightHeld, ApprovalHeld, DecisionHeld, DecisionOps
  <2>3. ASSUME NEW amount \in Amounts, SubmitCheck(s, amount)
        PROVE  \E f : flight' = [flight EXCEPT ![s] = f] /\ FlightHeld(f)
    <3> DEFINE f == [op |-> "submit", amount |-> amount]
    <3>1. flight' = [flight EXCEPT ![s] = f]
      BY <2>3 DEF SubmitCheck, Begin
    <3>2. FlightHeld(f)
      OBVIOUS
    <3> QED  BY <3>1, <3>2
  <2>4. ASSUME NEW p \in Payments, ApproveRead(s, p)
        PROVE  \E f : flight' = [flight EXCEPT ![s] = f] /\ FlightHeld(f)
    <3> DEFINE f == [op |-> "approve", id |-> p, version |-> payments[p].version]
    <3>1. flight' = [flight EXCEPT ![s] = f] /\ payments[p].approval = "pending_approval"
      BY <2>4 DEF ApproveRead, Begin, Pending
    <3>2. payments[p].version = 0
      BY <3>1 DEF PaymentsHeld, PaymentHeld
    <3>3. FlightHeld(f)
      BY <3>1, <3>2
    <3> QED  BY <3>1, <3>3
  <2>5. ASSUME NEW p \in Payments, RejectRead(s, p)
        PROVE  \E f : flight' = [flight EXCEPT ![s] = f] /\ FlightHeld(f)
    <3> DEFINE f == [op |-> "reject_payment", id |-> p]
    <3>1. flight' = [flight EXCEPT ![s] = f] /\ payments[p].approval = "pending_approval"
      BY <2>5 DEF RejectRead, Begin, Pending
    <3>2. FlightHeld(f)
      BY <3>1
    <3> QED  BY <3>1, <3>2
  <2>6. CASE CaseCheck(s)
    <3> DEFINE f == [op |-> "case", sla |-> now + TenantSla]
    <3>1. flight' = [flight EXCEPT ![s] = f]
      BY <2>6 DEF CaseCheck, Begin
    <3>2. FlightHeld(f)
      OBVIOUS
    <3> QED  BY <3>1, <3>2
  <2>7. ASSUME NEW c \in Cases, TenantRead(s, c) \/ PartnerRead(s, c) \/ AdminRead(s, c)
        PROVE  \E f : flight' = [flight EXCEPT ![s] = f] /\ FlightHeld(f)
    <3>1. PICK level \in Levels, action \in DecisionOps, statuses \in SUBSET OpenStatuses :
            /\ ReadCase(s, c, level, action, statuses)
            /\ level # "tenant" => statuses \subseteq {"ESCALATED_PARTNER", "ESCALATED_ADMIN"}
      BY <2>7, LevelNames DEF TenantRead, PartnerRead, AdminRead, OpenStatuses
    <3>2. CaseHeld(c)
      BY DEF CasesHeld
    <3> HIDE DEF FlightHeld, ApprovalHeld, DecisionHeld, DecisionOps
    <3>3. PICK f : /\ flight' = [flight EXCEPT ![s] = f] /\ f.op = action
                   /\ f.id = c /\ f.level = level
                   /\ cases[c].status # "none"
                   /\ level # "tenant" => "partner" \in cases[c].escalated
                   /\ action \notin {"approve", "reject_payment"}
      BY <3>1, <3>2, ReadHeld
    <3> QED  BY <3>3 DEF FlightHeld, ApprovalHeld, DecisionHeld
  <2> QED  BY <1>4, <2>3, <2>4, <2>5, <2>6, <2>7 DEF Starts
<1> QED  BY <1>2, <1>3, <1>4 DEF FlightStep

-----------------------------------------------------------------------------
(* The invariant *)

IInv == TypeOK /\ PaymentsHeld /\ ScheduleExplained /\ CasesHeld

\* The invariant holds at first.
LEMMA InitHeld == Init => IInv
<1> SUFFICES ASSUME Init PROVE IInv
  OBVIOUS
<1>1. TypeOK
  BY InitTyped
<1>2. PaymentsHeld
  <2>1. \A p \in Payments : payments[p] = NoPayment /\ unlocks[p] = 0
    BY DEF Init
  <2>2. \A p \in Payments : PaymentHeld(p)
    BY <2>1 DEF PaymentHeld, NoPayment
  <2>3. \A s \in Slots : ApprovalHeld(flight[s])
    BY DEF Init, ApprovalHeld, Idle
  <2>4. \A i \in Installments : schedule.paid[i] = 0 /\ Due[i] \in Nat \ {0}
    BY DueAssumption DEF Init
  <2>5. ScheduleHeld
    BY <2>4 DEF Init, ScheduleHeld, Unpaid
  <2> QED  BY <2>2, <2>3, <2>5 DEF PaymentsHeld
<1>3. ScheduleExplained
  <2>1. ASSUME NEW i \in Installments PROVE Collected(i) = 0
    <3> DEFINE f == [p \in Payments |-> payments[p].matched[i]]
    <3>1. \A p \in Payments : f[p] = 0
      BY DEF Init, NoPayment, NoMatches
    <3> HIDE DEF f
    <3> QED  BY <3>1, PaymentsAssumption, SumZero DEF Collected, f
  <2> QED  BY <2>1 DEF Init, ScheduleExplained
<1>4. CasesHeld
  <2>1. \A c \in Cases : cases[c] = NoCase /\ breaches[c] = [level \in {"partner", "admin"} |-> 0]
    BY DEF Init
  <2>2. (\A r \in Runs : job[r] = IdleJob) /\ now = 0 /\ \A s \in Slots : flight[s].op = "idle"
    BY DEF Init, Idle
  <2>3. \A c \in Cases : CaseHeld(c)
    BY <2>1 DEF CaseHeld, NoCase
  <2>4. \A r \in Runs, c \in Cases : JobHeld(r, c)
    BY <2>2 DEF JobHeld, IdleJob
  <2>5. \A s \in Slots : DecisionHeld(flight[s])
    BY <2>2 DEF DecisionHeld, DecisionOps
  <2> QED  BY <2>3, <2>4, <2>5 DEF CasesHeld
<1> QED  BY <1>1, <1>2, <1>3, <1>4 DEF IInv

\* Every step keeps it.
LEMMA StepHeld == IInv /\ [Next]_vars => IInv'
<1> SUFFICES ASSUME IInv, [Next]_vars PROVE IInv'
  OBVIOUS
<1>1. TypeOK' /\ PaymentStep /\ CaseStep /\ FlightStep /\ ClockStep
  BY StepTyped, Views DEF IInv
<1>2. /\ PaymentsTyped /\ CasesTyped /\ flight \in [Slots -> Flights] /\ now \in Nat
      /\ PaymentsHeld /\ ScheduleExplained /\ CasesHeld
  BY TypeParts DEF IInv
<1>3. PaymentsTyped'
  BY <1>1 DEF TypeOK, PaymentsTyped
<1>4. ScheduleKept
  BY <1>1, <1>2, <1>3, ScheduleStep
<1>5. ScheduleExplained'
  BY <1>4 DEF ScheduleKept, Explained, ScheduleExplained
<1>6. \A p \in Payments :
        PaymentHeld(p)' /\ (payments[p].approval # "none" => payments'[p].approval # "none")
  BY <1>1, <1>2, PaymentsKept
<1>7. \A c \in Cases : CaseKept(c)
  <2>1. CASE now' = now
    BY <1>1, <1>2, <2>1, CasesKept DEF ClockStep
  <2>2. CASE now' = now + 1 /\ UNCHANGED caseVars
    <3> SUFFICES ASSUME NEW c \in Cases PROVE CaseKept(c)
      OBVIOUS
    <3>1. /\ CaseHeld(c) /\ \A r \in Runs : JobHeld(r, c)
          /\ cases[c].sla \in Nat /\ cases[c].partnerSla \in Nat /\ PartnerSla \in Nat
          /\ \A r \in Runs : job[r].at \in Nat
      BY <1>2, CaseFields, SlaAssumption DEF CasesHeld, CasesTyped, JobDocs
    <3>2. Single' <=> Single
      BY <1>1 DEF ClockStep, Single
    <3>3. UNCHANGED <<cases, breaches, job, scenario>>
      BY <1>1, <2>2 DEF caseVars, ClockStep
    <3>4. CaseHeld(c)'
      BY <3>1, <3>2, <3>3 DEF CaseHeld
    <3>5. ASSUME NEW r \in Runs PROVE JobHeld(r, c)'
      BY <1>2, <2>2, <3>1, <3>2, <3>3 DEF JobHeld
    <3> QED  BY <3>3, <3>4, <3>5 DEF CaseKept
  <2> QED  BY <1>1, <2>1, <2>2 DEF ClockStep
<1>8. \A s \in Slots : FlightHeld(flight[s])'
  <2>1. \A c \in Cases : /\ cases[c].status # "none" => cases'[c].status # "none"
                         /\ cases[c].escalated \subseteq cases'[c].escalated
    BY <1>7 DEF CaseKept
  <2> QED  BY <1>1, <1>2, <1>6, <2>1, FlightKept
<1>9. PaymentsHeld'
  BY <1>4, <1>6, <1>8 DEF PaymentsHeld, ScheduleKept, FlightHeld
<1>10. CasesHeld'
  BY <1>7, <1>8 DEF CasesHeld, CaseKept, FlightHeld
<1> QED  BY <1>1, <1>5, <1>9, <1>10 DEF IInv

\* The invariant holds in every run.
LEMMA Held == Spec => []IInv
BY InitHeld, StepHeld, PTL DEF Spec

\* The money of the schedule is the money of the payments matched with it, for any number
\* of payments and installments and whatever approvals, waivers and markings overlap
\* (applyPaymentToEmiSchedule, markPaid, resolveAllUnpaidInstallments).
THEOREM Money == Spec => []ScheduleExplained
BY Held, PTL DEF IInv

\* Approving a payment twice unlocks the phone once, unless its release was written over; and
\* a deadline raises a breach only for a case that was handed on, and one for each level
\* unless runs of the job overlap, although handlers and job work on documents they read
\* before (approvePendingPayment, runSlaEscalationJob).
THEOREM Once == Spec => []DoneOnce
<1>1. IInv => DoneOnce
  <2> SUFFICES ASSUME IInv PROVE DoneOnce
    OBVIOUS
  <2>1. PaymentsTyped /\ PaymentsHeld /\ CasesHeld /\ CasesTyped
    BY TypeParts DEF IInv
  <2>2. ASSUME ~reopened, NEW p \in Payments PROVE unlocks[p] <= 1
    <3>1. unlocks[p] \in Nat /\ payments[p].version \in Nat
      BY <2>1, PaymentFields
    <3> QED  BY <2>1, <2>2, <3>1 DEF PaymentsHeld, PaymentHeld
  <2>3. OneBreachPerLevel
    <3>1. \A c \in Cases : \A level \in {"partner", "admin"} : breaches[c][level] \in Nat
      BY <2>1 DEF CasesTyped
    <3> QED  BY <2>1, <3>1 DEF OneBreachPerLevel, CasesHeld, CaseHeld
  <2> QED  BY <2>2, <2>3 DEF DoneOnce, NoDoubleUnlock
<1> QED  BY <1>1, Held, PTL

-----------------------------------------------------------------------------
(* The handlers and the job implement Escalation *)

Reached == [c \in Cases |-> (IF cases[c] = NoCase THEN {} ELSE {"tenant"}) \cup cases[c].escalated]
TimeUp == [c \in Cases |-> [tenant |-> cases[c].sla, partner |-> cases[c].partnerSla]]
DeciderOf(status) == IF \E level \in Levels : status \in Decided(level)
                     THEN CHOOSE level \in Levels : status \in Decided(level)
                     ELSE "nobody"
Decider == [c \in Cases |-> DeciderOf(cases[c].status)]

\* Who has decided a case of each status.
LEMMA DeciderIs ==
  ASSUME NEW status
  PROVE  /\ \A level \in Levels : status \in Decided(level) => DeciderOf(status) = level
         /\ status \in OpenStatuses \cup {"none"} => DeciderOf(status) = "nobody"
<1>1. ASSUME NEW level \in Levels, status \in Decided(level) PROVE DeciderOf(status) = level
  <2>1. \A other \in Levels : status \in Decided(other) => other = level
    BY <1>1, LevelNames
  <2> QED  BY <1>1, <2>1 DEF DeciderOf
<1>2. ASSUME status \in OpenStatuses \cup {"none"} PROVE DeciderOf(status) = "nobody"
  <2>1. \A level \in Levels : status \notin Decided(level)
    BY <1>2, LevelNames
  <2> QED  BY <2>1 DEF DeciderOf
<1> QED  BY <1>1, <1>2

\* The actions of Escalation under the mapping.
LEMMA LadderVars ==
  Ladder!vars = <<now, Reached, TimeUp, Decider, ~Single>>
BY DEF Ladder!vars, Reached, TimeUp, Decider, DeciderOf

\* Time passes on the ladder.
LEMMA LadderTick ==
  ASSUME now' = now + 1, UNCHANGED <<Reached, TimeUp, Decider>>
  PROVE  Ladder!Tick
BY DEF Ladder!Tick, Reached, TimeUp, Decider, DeciderOf

\* A case is opened on the ladder.
LEMMA LadderOpen ==
  ASSUME NEW c \in Cases, Reached[c] = {}, Reached' = [Reached EXCEPT ![c] = {"tenant"}],
         TimeUp'[c].tenant \in Nat,
         TimeUp' = [TimeUp EXCEPT ![c].tenant = TimeUp'[c].tenant],
         UNCHANGED <<now, Decider>>
  PROVE  Ladder!Open(c)
BY DEF Ladder!Open, Reached, TimeUp, Decider, DeciderOf

\* The ladder hands a case to the partner.
LEMMA LadderToPartner ==
  ASSUME NEW c \in Cases, "tenant" \in Reached[c], TimeUp[c].tenant <= now,
         Single => Reached[c] = {"tenant"},
         Reached' = [Reached EXCEPT ![c] = Reached[c] \cup {"partner"}],
         TimeUp' = [TimeUp EXCEPT ![c].partner = now + PartnerSla],
         Decider' = [Decider EXCEPT ![c] = "nobody"], UNCHANGED now
  PROVE  Ladder!HandToPartner(c)
BY DEF Ladder!HandToPartner, Reached, TimeUp, Decider, DeciderOf

\* The ladder hands a case to the administrator.
LEMMA LadderToAdmin ==
  ASSUME NEW c \in Cases, "partner" \in Reached[c], TimeUp[c].tenant + PartnerSla <= now,
         Single => "admin" \notin Reached[c] /\ TimeUp[c].partner <= now,
         Reached' = [Reached EXCEPT ![c] = Reached[c] \cup {"admin"}],
         Decider' = [Decider EXCEPT ![c] = "nobody"], UNCHANGED <<now, TimeUp>>
  PROVE  Ladder!HandToAdmin(c)
BY DEF Ladder!HandToAdmin, Reached, TimeUp, Decider, DeciderOf

\* A level of the ladder decides.
LEMMA LadderDecide ==
  ASSUME NEW c \in Cases, NEW level,
         level \in Reached[c] \/ (level = "admin" /\ "partner" \in Reached[c]),
         Decider' = [Decider EXCEPT ![c] = level], UNCHANGED <<now, Reached, TimeUp>>
  PROVE  Ladder!Decide(c, level)
BY DEF Ladder!Decide, Ladder!MayDecide, Reached, TimeUp, Decider, DeciderOf

\* A step that changes one case.
LEMMA OneCase ==
  ASSUME NEW c \in Cases, \A other \in Cases : other # c => cases'[other] = cases[other]
  PROVE  /\ Reached' = [Reached EXCEPT ![c] = (IF cases'[c] = NoCase THEN {} ELSE {"tenant"})
                                              \cup cases'[c].escalated]
         /\ TimeUp' = [TimeUp EXCEPT ![c] = [tenant |-> cases'[c].sla,
                                             partner |-> cases'[c].partnerSla]]
         /\ Decider' = [Decider EXCEPT ![c] = DeciderOf(cases'[c].status)]
BY DEF Reached, TimeUp, Decider

\* The first state is one of the ladder.
LEMMA LadderInit == Init => Ladder!Init
<1> SUFFICES ASSUME Init PROVE Ladder!Init
  OBVIOUS
<1>1. \A c \in Cases : /\ cases[c] = NoCase /\ cases[c].escalated = {} /\ cases[c].sla = 0
                       /\ cases[c].partnerSla = 0 /\ cases[c].status = "none"
  BY DEF Init, NoCase, NotSet
<1>2. Reached = [c \in Cases |-> {}]
  BY <1>1 DEF Reached
<1>3. TimeUp = [c \in Cases |-> [tenant |-> 0, partner |-> 0]]
  BY <1>1 DEF TimeUp
<1>4. Decider = [c \in Cases |-> "nobody"]
  BY <1>1, DeciderIs DEF Decider
<1> QED
  BY <1>2, <1>3, <1>4 DEF Init, Ladder!Init, Ladder!NotDue, Reached, TimeUp, Decider, DeciderOf

\* Every step is one of the ladder, or changes nothing on it.
LEMMA LadderStep == IInv /\ [Next]_vars => [Ladder!Next]_(Ladder!vars)
<1> SUFFICES ASSUME IInv, [Next]_vars PROVE [Ladder!Next]_(Ladder!vars)
  OBVIOUS
<1>1. CaseStep /\ ClockStep
  BY Views
<1>2. /\ CasesTyped /\ flight \in [Slots -> Flights] /\ now \in Nat /\ CasesHeld
      /\ \A c \in Cases : CaseHeld(c) /\ \A r \in Runs : JobHeld(r, c)
      /\ (~Single)' = ~Single
  BY <1>1, TypeParts DEF IInv, CasesHeld, ClockStep, Single
<1>3. CASE UNCHANGED caseVars
  <2>1. UNCHANGED <<Reached, TimeUp, Decider>>
    BY <1>3 DEF caseVars, Reached, TimeUp, Decider
  <2>2. CASE now' = now
    BY <1>2, <2>1, <2>2, LadderVars DEF Reached, TimeUp, Decider, DeciderOf, Ladder!vars
  <2>3. CASE now' = now + 1
    BY <1>2, <2>1, <2>3, LadderTick DEF Ladder!Next
  <2> QED  BY <1>1, <2>2, <2>3 DEF ClockStep
<1>4. ASSUME now' = now, NEW s \in Slots, NEW c \in Cases, CaseCreate(s, c)
      PROVE  [Ladder!Next]_(Ladder!vars)
  <2>1. /\ Saved(c, "PENDING_TENANT", flight[s].sla, cases[c].partnerSla, cases[c].escalated)
        /\ cases[c] = NoCase /\ flight[s].sla \in Nat
    BY <1>2, <1>4, CreatedCase, FlightFields DEF CaseCreate, At
  <2>2. /\ cases'[c].status = "PENDING_TENANT" /\ cases'[c].escalated = {}
        /\ cases'[c].sla \in Nat /\ cases'[c] # NoCase /\ cases'[c].partnerSla = cases[c].partnerSla
        /\ \A other \in Cases : other # c => cases'[other] = cases[other]
    BY <1>2, <2>1, SavedIs DEF NoCase
  <2>3. /\ Reached' = [Reached EXCEPT ![c] = {"tenant"}]
        /\ TimeUp' = [TimeUp EXCEPT ![c].tenant = cases'[c].sla]
        /\ Decider' = [Decider EXCEPT ![c] = "nobody"]
    <3>1. TimeUp' = [TimeUp EXCEPT ![c].tenant = cases'[c].sla]
      BY <2>2 DEF TimeUp
    <3>2. Decider' = [Decider EXCEPT ![c] = "nobody"]
      BY <2>2, OneCase, DeciderIs DEF OpenStatuses
    <3>3. Reached' = [Reached EXCEPT ![c] = {"tenant"}]
      BY <2>2 DEF Reached
    <3> QED  BY <3>1, <3>2, <3>3
  <2>4. Reached[c] = {} /\ Decider[c] = "nobody"
    BY <2>1, DeciderIs DEF Reached, Decider, NoCase
  <2>5. /\ Decider' = Decider /\ TimeUp'[c].tenant \in Nat
        /\ TimeUp' = [TimeUp EXCEPT ![c].tenant = TimeUp'[c].tenant]
    BY <2>2, <2>3, <2>4 DEF Decider, TimeUp
  <2>6. Ladder!Open(c)
    BY <1>4, <2>3, <2>4, <2>5, LadderOpen
  <2> QED  BY <1>2, <2>6 DEF Ladder!Next
<1>5. ASSUME now' = now, NEW s \in Slots, Decides(s) PROVE [Ladder!Next]_(Ladder!vars)
  <2>1. PICK c \in Cases, level \in Levels : c = flight[s].id /\ level = flight[s].level
    BY <1>2, <1>5, FlightFields DEF Decides
  <2>2. /\ c \in Cases
        /\ \E status \in Decided(level) :
             Saved(c, status, cases[c].sla, cases[c].partnerSla, cases[c].escalated)
    BY <1>2, <1>5, <2>1, DecidedCase
  <2>3. cases[c].status # "none" /\ (level # "tenant" => "partner" \in cases[c].escalated)
    BY <1>2, <1>5, <2>1 DEF CasesHeld, DecisionHeld, Decides
  <2>4. PICK status \in Decided(level) :
          Saved(c, status, cases[c].sla, cases[c].partnerSla, cases[c].escalated)
    BY <2>2
  <2>5. status # "none"
    BY <2>1, <2>4, LevelNames
  <2>6. /\ cases'[c].status = status /\ cases'[c].escalated = cases[c].escalated
        /\ cases'[c].sla = cases[c].sla /\ cases'[c].partnerSla = cases[c].partnerSla
        /\ cases'[c] # NoCase /\ cases[c] # NoCase
        /\ \A other \in Cases : other # c => cases'[other] = cases[other]
    BY <1>2, <2>2, <2>3, <2>4, <2>5, SavedIs DEF NoCase
  <2>7. Decider' = [Decider EXCEPT ![c] = level]
    BY <2>1, <2>2, <2>6, OneCase, DeciderIs
  <2>8. Reached' = Reached /\ TimeUp' = TimeUp
    BY <2>2, <2>6 DEF Reached, TimeUp
  <2>9. level \in Reached[c] \/ (level = "admin" /\ "partner" \in Reached[c])
    <3>1. Reached[c] = {"tenant"} \cup cases[c].escalated
      BY <2>2, <2>6 DEF Reached
    <3>2. CASE level = "tenant"
      BY <3>1, <3>2
    <3>3. CASE level = "partner"
      BY <2>3, <3>1, <3>3
    <3>4. CASE level = "admin"
      BY <2>3, <3>1, <3>4
    <3> QED  BY <2>1, <3>2, <3>3, <3>4, LevelNames
  <2>10. Ladder!Decide(c, level)
    BY <1>5, <2>2, <2>7, <2>8, <2>9, LadderDecide
  <2>11. level \in Ladder!Levels
    BY <2>1, LevelNames DEF Ladder!Levels
  <2> QED  BY <1>2, <2>2, <2>10, <2>11 DEF Ladder!Next
<1>6. ASSUME now' = now, NEW r \in Runs, NEW c \in Cases, JobTenantSave(r, c)
      PROVE  [Ladder!Next]_(Ladder!vars)
  <2> DEFINE up == cases[c].escalated \cup {"partner"}  due == now + PartnerSla
             sla == cases[c].sla
  <2>1. Saved(c, "ESCALATED_PARTNER", sla, due, up)
    BY <1>2, <1>6, TenantSaved
  <2>2. cases[c].status # "none" /\ cases[c].sla <= now /\ (Single => cases[c].escalated = {})
    BY <1>2, <1>6 DEF JobHeld, JobTenantSave, Handling
  <2> HIDE DEF up, due, sla
  <2>3. /\ cases'[c].status = "ESCALATED_PARTNER" /\ cases'[c].escalated = up
        /\ cases'[c].sla = sla /\ cases'[c].partnerSla = due
        /\ cases'[c] # NoCase /\ cases[c] # NoCase
        /\ \A other \in Cases : other # c => cases'[other] = cases[other]
    BY <1>2, <2>1, <2>2, SavedIs DEF NoCase
  <2>4. /\ Reached[c] = {"tenant"} \cup cases[c].escalated
        /\ TimeUp[c] = [tenant |-> sla, partner |-> cases[c].partnerSla]
    BY <2>3 DEF Reached, TimeUp, sla
  <2>5. /\ Reached' = [Reached EXCEPT ![c] = Reached[c] \cup {"partner"}]
        /\ Decider' = [Decider EXCEPT ![c] = "nobody"]
    <3>1. {"tenant"} \cup up = Reached[c] \cup {"partner"}
      BY <2>4 DEF up
    <3> QED  BY <2>3, <3>1, OneCase, DeciderIs DEF OpenStatuses
  <2>6. TimeUp' = [TimeUp EXCEPT ![c].partner = due]
    BY <2>3, <2>4 DEF TimeUp
  <2>7. /\ "tenant" \in Reached[c] /\ TimeUp[c].tenant <= now
        /\ Single => Reached[c] = {"tenant"}
    BY <2>2, <2>4 DEF sla
  <2>8. Ladder!HandToPartner(c)
    BY <1>6, <2>5, <2>6, <2>7, LadderToPartner DEF due
  <2> QED  BY <1>2, <2>8 DEF Ladder!Next
<1>7. ASSUME now' = now, NEW r \in Runs, NEW c \in Cases, JobPartnerSave(r, c)
      PROVE  [Ladder!Next]_(Ladder!vars)
  <2> DEFINE up == cases[c].escalated \cup {"admin"}  due == cases[c].partnerSla
             sla == cases[c].sla
  <2>1. Saved(c, "ESCALATED_ADMIN", sla, due, up)
    BY <1>2, <1>7, PartnerSaved
  <2>2. /\ "partner" \in cases[c].escalated /\ sla + PartnerSla <= now
        /\ Single => "admin" \notin cases[c].escalated /\ due <= now
    BY <1>2, <1>7 DEF JobHeld, JobPartnerSave, Handling
  <2>3. cases[c].status # "none"
    BY <1>2, <2>2 DEF CaseHeld, NoCase
  <2> HIDE DEF up, due, sla
  <2>4. /\ cases'[c].status = "ESCALATED_ADMIN" /\ cases'[c].escalated = up
        /\ cases'[c].sla = sla /\ cases'[c].partnerSla = due
        /\ cases'[c] # NoCase /\ cases[c] # NoCase
        /\ \A other \in Cases : other # c => cases'[other] = cases[other]
    BY <1>2, <2>1, <2>3, SavedIs DEF NoCase
  <2>5. /\ Reached[c] = {"tenant"} \cup cases[c].escalated
        /\ TimeUp[c] = [tenant |-> sla, partner |-> due]
    BY <2>4 DEF Reached, TimeUp, sla, due
  <2>6. /\ Reached' = [Reached EXCEPT ![c] = Reached[c] \cup {"admin"}]
        /\ Decider' = [Decider EXCEPT ![c] = "nobody"]
    <3>1. {"tenant"} \cup up = Reached[c] \cup {"admin"}
      BY <2>5 DEF up
    <3> QED  BY <2>4, <3>1, OneCase, DeciderIs DEF OpenStatuses
  <2>7. TimeUp' = TimeUp
    BY <2>4 DEF TimeUp, sla, due
  <2>8. /\ "partner" \in Reached[c] /\ TimeUp[c].tenant + PartnerSla <= now
        /\ Single => "admin" \notin Reached[c] /\ TimeUp[c].partner <= now
    BY <2>2, <2>5
  <2>9. Ladder!HandToAdmin(c)
    BY <1>7, <2>6, <2>7, <2>8, LadderToAdmin
  <2> QED  BY <1>2, <2>9 DEF Ladder!Next
<1>8. ASSUME now' = now, NEW r \in Runs,
             JobTenantFind(r) \/ JobPartnerFind(r) \/ JobFlag(r) \/ JobFinish(r) \/ JobFail(r)
      PROVE  [Ladder!Next]_(Ladder!vars)
  <2>1. cases' = cases
    BY <1>8 DEF JobTenantFind, JobPartnerFind, JobFlag, JobFinish, JobFail
  <2>2. UNCHANGED <<Reached, TimeUp, Decider>>
    BY <2>1 DEF Reached, TimeUp, Decider
  <2> QED  BY <1>2, <1>8, <2>2 DEF Reached, TimeUp, Decider, DeciderOf, Ladder!vars
<1> QED
  BY <1>1, <1>3, <1>4, <1>5, <1>6, <1>7, <1>8 DEF ClockStep, CaseStep, JobStep, SlaJob

\* No level gets or decides a case before the time of the levels below it is over, although
\* handlers decide, and runs of the job that may overlap escalate, cases they read before; a
\* case is handed to a level once more only if runs overlap.
THEOREM Refinement == Spec => Escalates
BY LadderInit, LadderStep, Held, PTL DEF Spec, Escalates, Ladder!Spec
=============================================================================
