-------------------------- MODULE BorrowerRequests --------------------------
(***************************************************************************)
(* What one borrower asks for and how it is decided: payments submitted    *)
(* for approval, which are allocated to the EMI schedule, and unlock       *)
(* cases, which a tenant, a channel partner or a super administrator       *)
(* decides and which a job escalates when nobody does.                     *)
(*                                                                         *)
(* Handlers work as in DeviceLifecycle: what is read before a transaction  *)
(* may be stale when the transaction runs, and a save writes the paths the *)
(* handler changed whatever they hold by then.  The exception is a payment *)
(* whose matchedInstallments array was replaced: mongoose saves it only if *)
(* the version it read is still the current one, and advances the version. *)
(*                                                                         *)
(* Of the device only one thing matters here, whether its release has been *)
(* queued: the hook of DeviceCommand then refuses every other command,     *)
(* until a job that read the phone before writes another state over it.    *)
(*                                                                         *)
(* The job's guard against a second run (runTimedJob) is that of the       *)
(* minute timer of one process: the cron endpoint and other processes      *)
(* start runs of their own, which overlap it.                              *)
(***************************************************************************)
EXTENDS Integers, FiniteSets, FiniteSetsExt

CONSTANTS Slots,        \* bound: handlers in flight at once
          Scenarios,    \* bound: which handlers occur together, in which slots
          Manual,       \* TRUE if the tenant policy is manual device control
          Payments,     \* bound: payments that may be submitted
          Amounts,      \* bound: the amounts they may have
          Installments, \* their numbers, in the order they fall due
          Due,          \* emiAmount + penaltyAmount of each
          Cases,        \* bound: unlock cases that may be opened
          TenantSla,    \* escalationRules.tenantSlaHours
          PartnerSla,   \* escalationRules.partnerEscalationSlaHours
          BatchLimit,   \* SCHEDULED_JOB_LIMITS.slaEscalation
          Runs,         \* bound: callers of the escalation job, each one run at a time
          Timer,        \* the one of them that is the minute timer
          MaxTime,      \* bound: last hour of a run
          MaxFailures   \* bound: runs of the job that fail

ASSUME AmountsAssumption == Amounts \subseteq Nat \ {0}
ASSUME PaymentsAssumption == IsFiniteSet(Payments)
(* createBorrowerEnrollment refuses a tenure of no month, and makes one    *)
(* installment for each month.                                             *)
ASSUME InstallmentsAssumption ==
  Installments \subseteq Nat \ {0} /\ IsFiniteSet(Installments) /\ Installments # {}
ASSUME DueAssumption == Due \in [Installments -> Nat \ {0}]
ASSUME SlaAssumption == TenantSla \in Nat /\ PartnerSla \in Nat
ASSUME ModeAssumption == Manual \in BOOLEAN
ASSUME BatchAssumption == BatchLimit \in Nat \ {0}
ASSUME RunsAssumption == Timer \in Runs
ASSUME BoundAssumption == MaxTime \in Nat /\ MaxFailures \in Nat

VARIABLES
  scenario,  \* the one of this run
  payments,  \* the Payment documents
  schedule,  \* the EmiSchedule document
  released,  \* the device is RELEASE_PENDING or RELEASED
  reopened,  \* whether another state was ever written over these two
  cases,     \* the UnlockRequest documents
  unlocks,   \* the UNLOCK commands created for each payment
  breaches,  \* RiskFlag documents of each case and level
  flight,    \* handlers in progress, with what they have read
  job,       \* runSlaEscalationJob, for each of its callers
  now,       \* wall-clock hour
  failures   \* runs of the job that failed so far

vars == <<scenario, payments, schedule, released, reopened, cases, unlocks, breaches,
          flight, job, now, failures>>
device == <<released, reopened>>
payVars == <<payments, schedule, device>>
caseVars == <<cases, breaches, job>>
clock == <<scenario, now, failures>>

-----------------------------------------------------------------------------
(* Documents *)

NoMatches == [i \in Installments |-> 0]
NoPayment == [approval |-> "none", amount |-> 0, matched |-> NoMatches, version |-> 0]

PaymentDocs == [approval : {"none", "pending_approval", "approved", "rejected"},
                amount : Amounts \cup {0}, matched : [Installments -> Nat],
                version : Nat]

UnpaidStatuses == {"pending", "partial"}
InstallmentStatuses == UnpaidStatuses \cup {"paid", "waived"}

ScheduleDocs == [status : [Installments -> InstallmentStatuses],
                 paid : [Installments -> Nat], settled : BOOLEAN]

OpenStatuses == {"PENDING_TENANT", "ESCALATED_PARTNER", "ESCALATED_ADMIN"}
Resolved == [tenant |-> "RESOLVED_TENANT", partner |-> "RESOLVED_PARTNER",
             admin |-> "RESOLVED_SUPER_ADMIN"]
Rejected == [tenant |-> "REJECTED_TENANT", partner |-> "REJECTED_PARTNER",
             admin |-> "REJECTED_SUPER_ADMIN"]
Levels == DOMAIN Resolved
Decided(level) == {Resolved[level], Rejected[level]}
CaseStatuses == OpenStatuses \cup UNION {Decided(level) : level \in Levels}

NotSet == 0
NoCase == [status |-> "none", sla |-> NotSet, partnerSla |-> NotSet,
           escalated |-> {}]

(* `escalated' holds the levels whose escalatedTo..At is set.              *)
CaseDocs == [status : CaseStatuses \cup {"none"}, sla : Nat, partnerSla : Nat,
             escalated : SUBSET {"partner", "admin"}]

IdleJob == [phase |-> "idle", at |-> 0, todo |-> {}, flag |-> {}]
JobDocs == [phase : {"idle", "tenant", "partner"}, at : Nat,
            todo : SUBSET Cases, flag : SUBSET Cases]

-----------------------------------------------------------------------------
(* Handlers in progress *)

Idle == [op |-> "idle"]
Enabled(h) == h \in scenario.handlers
Begin(s, f) ==
  /\ s \in scenario.slots /\ flight[s] = Idle
  /\ flight' = [flight EXCEPT ![s] = f]
End(s) == flight' = [flight EXCEPT ![s] = Idle]
At(s, op) == flight[s].op = op

(* An error, a lost connection or a crash: the transaction is rolled back, *)
(* and what follows the last save of a handler never happens.              *)
Refuse(s) == End(s) /\ UNCHANGED <<clock, payVars, caseVars, unlocks>>
Fail(s) == flight[s] # Idle /\ Refuse(s)

Tick ==
  /\ Enabled("clock") /\ now < MaxTime
  /\ now' = now + 1
  /\ UNCHANGED <<scenario, failures, payVars, caseVars, unlocks, flight>>

Init ==
  /\ scenario \in Scenarios
  /\ payments = [p \in Payments |-> NoPayment]
  /\ schedule = [status |-> [i \in Installments |-> "pending"],
                 paid |-> [i \in Installments |-> 0], settled |-> FALSE]
  /\ released = FALSE /\ reopened = FALSE
  /\ cases = [c \in Cases |-> NoCase]
  /\ unlocks = [p \in Payments |-> 0]
  /\ breaches = [c \in Cases |-> [level \in {"partner", "admin"} |-> 0]]
  /\ flight = [s \in Slots |-> Idle]
  /\ job = [r \in Runs |-> IdleJob]
  /\ now = 0
  /\ failures = 0

-----------------------------------------------------------------------------
(* The schedule *)

Unpaid(sch) == {i \in Installments : sch.status[i] \in UnpaidStatuses}
Completed(sch) == Installments # {} /\ Unpaid(sch) = {}

(* Mutant of Outstanding: forgets what has been paid.                      *)
OutstandingOfTotal(i) == IF i \in Unpaid(schedule) THEN Due[i] ELSE 0

Outstanding(i) == IF i \in Unpaid(schedule) THEN Due[i] - schedule.paid[i] ELSE 0
Total(m) == SumFunctionOnSet(m, Installments)

(* How applyPaymentToEmiSchedule spreads an amount: in order, as far as    *)
(* it goes, and what exceeds the schedule is kept by nobody.               *)
Allocations(amount) ==
  {m \in [Installments -> 0 .. amount] :
     /\ \A i \in Installments :
          /\ m[i] <= Outstanding(i)
          /\ m[i] > 0 => \A j \in Installments : j < i => m[j] = Outstanding(j)
     /\ Total(m) <= amount
     /\ \/ Total(m) = amount
        \/ \A i \in Installments : m[i] = Outstanding(i)}

Credited(m) ==
  LET paid == [i \in Installments |-> schedule.paid[i] + m[i]]
  IN [schedule EXCEPT !.paid = paid,
        !.status = [i \in Installments |->
                      IF m[i] = 0 THEN schedule.status[i]
                      ELSE IF paid[i] >= Due[i] THEN "paid" ELSE "partial"]]

NewlySettled(sch) == Completed(sch) /\ ~schedule.settled

(* settleCompletedSchedule, and queueDeviceRelease when it settles: the    *)
(* release is refused if one has been queued before.                       *)
SaveSettling(sch) ==
  /\ NewlySettled(sch) => ~released
  /\ schedule' = [sch EXCEPT !.settled = @ \/ Completed(sch)]
  /\ released' = (released \/ NewlySettled(sch))
  /\ UNCHANGED reopened

(* resolveAllUnpaidInstallments changes the statuses and settles nothing.  *)
ResolveAll(outcome) ==
  /\ Unpaid(schedule) # {}
  /\ schedule' = [schedule EXCEPT
       !.status = [i \in Installments |->
                     IF i \in Unpaid(schedule) THEN outcome ELSE schedule.status[i]],
       !.paid = [i \in Installments |->
                   IF i \in Unpaid(schedule) /\ outcome = "paid" THEN Due[i]
                   ELSE schedule.paid[i]]]

Waive(i) == schedule' = [schedule EXCEPT !.status[i] = "waived"]

(* queueTenantDeviceCommand: one more command for payment p.               *)
QueueUnlock(p) ==
  /\ ~released
  /\ unlocks' = [unlocks EXCEPT ![p] = @ + 1]

-----------------------------------------------------------------------------
(* Payments *)

Pending(p) == payments[p].approval = "pending_approval"

SubmitCheck(s, amount) ==
  /\ Enabled("submit") /\ ~Manual
  /\ \A p \in Payments : ~Pending(p)
  /\ Begin(s, [op |-> "submit", amount |-> amount])
  /\ UNCHANGED <<clock, payVars, caseVars, unlocks>>

SubmitCreate(s, p) ==
  /\ At(s, "submit") /\ payments[p] = NoPayment
  /\ payments' = [payments EXCEPT ![p].approval = "pending_approval",
                                  ![p].amount = flight[s].amount]
  /\ End(s)
  /\ UNCHANGED <<clock, schedule, device, caseVars, unlocks>>

ApproveRead(s, p) ==
  /\ Enabled("approve") /\ ~Manual
  /\ Pending(p)
  /\ Begin(s, [op |-> "approve", id |-> p, version |-> payments[p].version])
  /\ UNCHANGED <<clock, payVars, caseVars, unlocks>>

(* Mutant of SameVersion: the array is saved whatever the version is.      *)
AnyVersion(p, m, version) == TRUE

(* Replacing the array by another one makes the save depend on __v.        *)
SameVersion(p, m, version) == m # NoMatches => payments[p].version = version

ApproveCommit(s, m) ==
  LET p == flight[s].id IN
  /\ At(s, "approve") /\ m \in Allocations(payments[p].amount)
  /\ SameVersion(p, m, flight[s].version)
  /\ SaveSettling(Credited(m))
  /\ IF NewlySettled(Credited(m)) THEN UNCHANGED unlocks ELSE QueueUnlock(p)
  /\ payments' = [payments EXCEPT
       ![p].approval = "approved",
       ![p].matched = IF m = NoMatches THEN @ ELSE m,
       ![p].version = IF m = NoMatches THEN @ ELSE @ + 1]
  /\ End(s)
  /\ UNCHANGED <<clock, caseVars>>

ApproveRefused(s, m) ==
  LET p == flight[s].id IN
  /\ At(s, "approve") /\ m \in Allocations(payments[p].amount)
  /\ \/ ~SameVersion(p, m, flight[s].version)
     \/ ~NewlySettled(Credited(m)) /\ released
  /\ Refuse(s)

RejectRead(s, p) ==
  /\ Enabled("reject")
  /\ Pending(p)
  /\ Begin(s, [op |-> "reject_payment", id |-> p])
  /\ UNCHANGED <<clock, payVars, caseVars, unlocks>>

RejectSave(s) ==
  /\ At(s, "reject_payment")
  /\ payments' = [payments EXCEPT ![flight[s].id].approval = "rejected"]
  /\ End(s)
  /\ UNCHANGED <<clock, schedule, device, caseVars, unlocks>>

(* One transaction from its first read on; the unlock it may queue is not  *)
(* for a payment, and DeviceLifecycle models it.                           *)
MarkPaid(i) ==
  /\ Enabled("mark_paid")
  /\ i \in Unpaid(schedule)
  /\ SaveSettling([schedule EXCEPT !.status[i] = "paid", !.paid[i] = Due[i]])
  /\ UNCHANGED <<clock, payments, caseVars, unlocks, flight>>

(* unlockAdminDeviceWithWaive; its unlock is for no payment and no case.   *)
ResolveDevice(outcome) ==
  /\ Enabled("resolve") /\ ~released
  /\ ResolveAll(outcome)
  /\ UNCHANGED <<clock, payments, device, caseVars, unlocks, flight>>

(* releaseAdminDevice, releaseTenantDevice: the release once more, which   *)
(* is accepted when the command of the first one is over.                  *)
ReleaseRetry ==
  /\ Enabled("relock")
  /\ schedule.settled /\ Completed(schedule)
  /\ released' = TRUE
  /\ UNCHANGED <<clock, payments, schedule, reopened, caseVars, unlocks, flight>>

(* A job or an acknowledgement that read the phone before its release and  *)
(* whose save does not look at the state again.                            *)
WriteOverRelease ==
  /\ Enabled("relock") /\ released
  /\ released' = FALSE /\ reopened' = TRUE
  /\ UNCHANGED <<clock, payments, schedule, caseVars, unlocks, flight>>

-----------------------------------------------------------------------------
(* Unlock cases *)

IsOpen(c) == cases[c].status \in OpenStatuses

CaseCheck(s) ==
  /\ Enabled("case")
  /\ \A c \in Cases : ~IsOpen(c)
  /\ Begin(s, [op |-> "case", sla |-> now + TenantSla])
  /\ UNCHANGED <<clock, payVars, caseVars, unlocks>>

CaseCreate(s, c) ==
  /\ At(s, "case") /\ cases[c] = NoCase
  /\ cases' = [cases EXCEPT ![c].status = "PENDING_TENANT", ![c].sla = flight[s].sla]
  /\ End(s)
  /\ UNCHANGED <<clock, payVars, breaches, job, unlocks>>

(* The case is read and checked before the transaction, and not again.     *)
ReadCase(s, c, level, action, statuses) ==
  /\ Enabled(level)
  /\ cases[c].status \in statuses
  /\ Begin(s, [op |-> action, level |-> level, id |-> c])
  /\ UNCHANGED <<clock, payVars, caseVars, unlocks>>

Deciding(s, level, actions) == flight[s].op \in actions /\ flight[s].level = level

SaveDecision(s, statuses) ==
  LET c == flight[s].id  level == flight[s].level IN
  /\ cases' = [cases EXCEPT ![c].status = statuses[level]]
  /\ End(s)
  /\ UNCHANGED <<clock, payments, device, breaches, job, unlocks>>

TenantRead(s, c) ==
  \E action \in {"unlock", "waive", "temp_unlock", "reject"} :
    ReadCase(s, c, "tenant", action, {"PENDING_TENANT"})

(* A waiver takes the first unpaid installment, if there is one; it does   *)
(* not settle the schedule.                                                *)
TenantApprove(s) ==
  /\ Deciding(s, "tenant", {"unlock", "waive"})
  /\ ~released
  /\ IF flight[s].op = "waive" /\ Unpaid(schedule) # {}
     THEN Waive(Min(Unpaid(schedule)))
     ELSE UNCHANGED schedule
  /\ SaveDecision(s, Resolved)

TenantTempUnlock(s) ==
  /\ Deciding(s, "tenant", {"temp_unlock"})
  /\ ~released
  /\ SaveDecision(s, Resolved) /\ UNCHANGED schedule

TenantReject(s) ==
  /\ Deciding(s, "tenant", {"reject"})
  /\ SaveDecision(s, Rejected) /\ UNCHANGED schedule

PartnerRead(s, c) ==
  \E action \in {"unlock", "temp_unlock", "reject"} :
    ReadCase(s, c, "partner", action, {"ESCALATED_PARTNER"})

PartnerUnlock(s) ==
  /\ Deciding(s, "partner", {"unlock"})
  /\ ~released
  /\ SaveDecision(s, Resolved) /\ UNCHANGED schedule

PartnerTempUnlock(s) ==
  /\ Deciding(s, "partner", {"temp_unlock"})
  /\ ~released
  /\ SaveDecision(s, Resolved) /\ UNCHANGED schedule

PartnerReject(s) ==
  /\ Deciding(s, "partner", {"reject"})
  /\ SaveDecision(s, Rejected) /\ UNCHANGED schedule

AdminRead(s, c) ==
  \E action \in {"paid", "waived", "temp_unlock", "reject"} :
    ReadCase(s, c, "admin", action, {"ESCALATED_ADMIN", "ESCALATED_PARTNER"})

AdminUnlock(s) ==
  /\ Deciding(s, "admin", {"paid", "waived"})
  /\ ~released
  /\ ResolveAll(flight[s].op)
  /\ SaveDecision(s, Resolved)

AdminTempUnlock(s) ==
  /\ Deciding(s, "admin", {"temp_unlock"})
  /\ ~released
  /\ SaveDecision(s, Resolved) /\ UNCHANGED schedule

AdminReject(s) ==
  /\ Deciding(s, "admin", {"reject"})
  /\ SaveDecision(s, Rejected) /\ UNCHANGED schedule

(* No unlock for a device in release, no override without an installment.  *)
UnlockRefused(s) ==
  /\ \/ At(s, "unlock") \/ At(s, "waive") \/ At(s, "temp_unlock")
     \/ At(s, "paid") \/ At(s, "waived")
  /\ \/ released
     \/ flight[s].op \in {"paid", "waived"} /\ Unpaid(schedule) = {}
  /\ Refuse(s)

-----------------------------------------------------------------------------
(* runSlaEscalationJob for caller r, one save at a time.                   *)

TenantBreaches(at) ==
  {c \in Cases : cases[c].status = "PENDING_TENANT" /\ cases[c].sla <= at}

(* Mutants of PartnerBreaches: no deadline, and a deadline off by one.      *)
PartnerBreachesEarly(at) == {c \in Cases : cases[c].status = "ESCALATED_PARTNER"}

PartnerBreachesLate(at) ==
  {c \in Cases : cases[c].status = "ESCALATED_PARTNER" /\ cases[c].partnerSla < at}

PartnerBreaches(at) ==
  {c \in Cases : cases[c].status = "ESCALATED_PARTNER" /\ cases[c].partnerSla <= at}

(* find().limit(): the database chooses which.                             *)
Batches(S) == {T \in SUBSET S : Cardinality(T) = Min({Cardinality(S), BatchLimit})}

RunVars == <<clock, payVars, unlocks, flight>>

JobTenantFind(r) ==
  /\ r \in scenario.runs /\ job[r].phase = "idle"
  /\ TenantBreaches(now) \cup PartnerBreaches(now) # {}   \* other runs change nothing
  /\ \E batch \in Batches(TenantBreaches(now)) :
       job' = [job EXCEPT ![r] = [phase |-> "tenant", at |-> now, todo |-> batch, flag |-> {}]]
  /\ UNCHANGED <<RunVars, cases, breaches>>

Handling(r, phase, c) == job[r].phase = phase /\ job[r].flag = {} /\ c \in job[r].todo
Handled(r, c) == job' = [job EXCEPT ![r].todo = @ \ {c}, ![r].flag = {c}]

(* unlockRequest.save() of the document found, whatever it says by now.    *)
JobTenantSave(r, c) ==
  /\ Handling(r, "tenant", c)
  /\ cases' = [cases EXCEPT ![c].status = "ESCALATED_PARTNER",
                            ![c].partnerSla = now + PartnerSla,
                            ![c].escalated = @ \cup {"partner"}]
  /\ Handled(r, c)
  /\ UNCHANGED <<RunVars, breaches>>

JobFlag(r) ==
  \E c \in job[r].flag :
    LET level == IF job[r].phase = "tenant" THEN "partner" ELSE "admin" IN
    /\ breaches' = [breaches EXCEPT ![c][level] = @ + 1]
    /\ job' = [job EXCEPT ![r].flag = {}]
    /\ UNCHANGED <<RunVars, cases>>

JobPartnerFind(r) ==
  /\ job[r].phase = "tenant" /\ job[r].todo = {} /\ job[r].flag = {}
  /\ \E batch \in Batches(PartnerBreaches(job[r].at)) :
       job' = [job EXCEPT ![r].phase = "partner", ![r].todo = batch]
  /\ UNCHANGED <<RunVars, cases, breaches>>

JobPartnerSave(r, c) ==
  /\ Handling(r, "partner", c)
  /\ cases' = [cases EXCEPT ![c].status = "ESCALATED_ADMIN",
                            ![c].escalated = @ \cup {"admin"}]
  /\ Handled(r, c)
  /\ UNCHANGED <<RunVars, breaches>>

JobFinish(r) ==
  /\ job[r].phase = "partner" /\ job[r].todo = {} /\ job[r].flag = {}
  /\ job' = [job EXCEPT ![r] = IdleJob]
  /\ UNCHANGED <<RunVars, cases, breaches>>

JobFail(r) ==
  /\ job[r].phase # "idle" /\ failures < MaxFailures
  /\ failures' = failures + 1
  /\ job' = [job EXCEPT ![r] = IdleJob]
  /\ UNCHANGED <<scenario, now, payVars, cases, breaches, unlocks, flight>>

SlaJob(r) ==
  \/ JobTenantFind(r) \/ JobFlag(r) \/ JobPartnerFind(r) \/ JobFinish(r)
  \/ \E c \in Cases : JobTenantSave(r, c) \/ JobPartnerSave(r, c)

-----------------------------------------------------------------------------
Handle(s) ==
  \/ \E amount \in Amounts : SubmitCheck(s, amount)
  \/ \E p \in Payments : SubmitCreate(s, p) \/ ApproveRead(s, p) \/ RejectRead(s, p)
  \/ \E m \in [Installments -> 0 .. Max(Amounts)] : ApproveCommit(s, m) \/ ApproveRefused(s, m)
  \/ RejectSave(s)
  \/ CaseCheck(s)
  \/ \E c \in Cases : \/ CaseCreate(s, c)
                      \/ TenantRead(s, c) \/ PartnerRead(s, c) \/ AdminRead(s, c)
  \/ TenantApprove(s) \/ TenantTempUnlock(s) \/ TenantReject(s)
  \/ PartnerUnlock(s) \/ PartnerTempUnlock(s) \/ PartnerReject(s)
  \/ AdminUnlock(s) \/ AdminTempUnlock(s) \/ AdminReject(s)
  \/ UnlockRefused(s)
  \/ Fail(s)

Next ==
  \/ Tick
  \/ \E s \in Slots : Handle(s)
  \/ \E i \in Installments : MarkPaid(i)
  \/ \E outcome \in {"paid", "waived"} : ResolveDevice(outcome)
  \/ ReleaseRetry \/ WriteOverRelease
  \/ \E r \in Runs : SlaJob(r) \/ JobFail(r)

Spec == Init /\ [][Next]_vars

(* The timer starts the job again and again, and the database answers it;  *)
(* nobody promises that the endpoint is called.                            *)
FairSpec == Spec /\ WF_vars(SlaJob(Timer))

-----------------------------------------------------------------------------
(* Properties *)

Flights ==
  {Idle} \cup [op : {"submit"}, amount : Amounts]
  \cup [op : {"approve"}, id : Payments, version : Nat]
  \cup [op : {"reject_payment"}, id : Payments]
  \cup [op : {"case"}, sla : Nat]
  \cup [op : {"unlock", "waive", "temp_unlock", "paid", "waived", "reject"},
        level : Levels, id : Cases]

(* The documents keep the shapes of their schemas, and no installment is   *)
(* ever paid beyond what is due on it (applyPaymentToEmiSchedule).         *)
TypeOK ==
  /\ scenario \in Scenarios
  /\ payments \in [Payments -> PaymentDocs]
  /\ schedule \in ScheduleDocs
  /\ \A i \in Installments : schedule.paid[i] <= Due[i]
  /\ released \in BOOLEAN /\ reopened \in BOOLEAN
  /\ cases \in [Cases -> CaseDocs]
  /\ unlocks \in [Payments -> Nat]
  /\ breaches \in [Cases -> [{"partner", "admin"} -> Nat]]
  /\ flight \in [Slots -> Flights]
  /\ job \in [Runs -> JobDocs]
  /\ now \in Nat /\ failures \in Nat

Collected(i) == SumFunctionOnSet([p \in Payments |-> payments[p].matched[i]], Payments)

(* The money of the schedule is the money of the payments matched with it: *)
(* however approvals, rejections, waivers and markings overlap, a partly   *)
(* paid installment holds exactly what payments were matched with it, and  *)
(* no payment is credited twice.                                           *)
ScheduleExplained ==
  \A i \in Installments :
    /\ Collected(i) <= schedule.paid[i]
    /\ schedule.status[i] \in {"pending", "partial", "waived"} => schedule.paid[i] = Collected(i)
    /\ schedule.status[i] = "paid" => schedule.paid[i] = Due[i]
    /\ schedule.status[i] = "pending" => schedule.paid[i] = 0

(* Approving a payment twice unlocks the phone once, as long as no other   *)
(* state is written over its release: the second approval of an            *)
(* overlapping pair fails on the version of the payment, on the settled    *)
(* schedule, or on the hook that refuses commands after a release.         *)
NoDoubleUnlock == ~reopened => \A p \in Payments : unlocks[p] <= 1

(* No two runs of the escalation job overlap.                              *)
Single == \A r, q \in scenario.runs : r = q

(* A level is flagged only if the case was handed to the level above it,   *)
(* whatever overlaps or dies; and the job raises one breach flag per case  *)
(* and level, even when a decision and the job overwrite each other, as    *)
(* long as its runs do not overlap.                                        *)
OneBreachPerLevel ==
  \A c \in Cases : \A level \in {"partner", "admin"} :
    /\ breaches[c][level] >= 1 => level \in cases[c].escalated
    /\ Single => breaches[c][level] <= 1

(* A decision and a deadline take effect once, whatever overlaps.          *)
DoneOnce == NoDoubleUnlock /\ OneBreachPerLevel

(* A case nobody decides in time goes up: neither the batch limit nor a    *)
(* failed run of the job leaves it with a level whose time is over.  (A    *)
(* run that overlaps another may give the partner its time anew.)          *)
EscalationReached ==
  \A c \in Cases :
    /\ cases[c].status = "PENDING_TENANT" /\ cases[c].sla <= now
         ~> cases[c].status # "PENDING_TENANT"
    /\ cases[c].status = "ESCALATED_PARTNER" /\ cases[c].partnerSla <= now
         ~> cases[c].status # "ESCALATED_PARTNER" \/ cases[c].partnerSla > now

(* The handlers and the job, on stale documents, still keep the promise of *)
(* Escalation: no level gets or decides a case before the time of the      *)
(* levels below it is over, even when runs of the job overlap.             *)
Ladder == INSTANCE Escalation WITH
  reached <- [c \in Cases |-> (IF cases[c] = NoCase THEN {} ELSE {"tenant"})
                               \cup cases[c].escalated],
  due <- [c \in Cases |-> [tenant |-> cases[c].sla, partner |-> cases[c].partnerSla]],
  overlap <- ~Single,
  decider <- [c \in Cases |-> IF \E level \in Levels : cases[c].status \in Decided(level)
                              THEN CHOOSE level \in Levels : cases[c].status \in Decided(level)
                              ELSE "nobody"]

Escalates == Ladder!Spec
=============================================================================
