# CredNexa in TLA+

CredNexa is the backend of a phone-financing business. Tenants (dealers) sell phones
on instalments; every phone is managed, so that it can be locked when an instalment is
overdue and is released for good when the last one is paid. Tenants pay for each phone
with credits they buy; a channel partner earns a commission on those sales and asks for
payouts. The backend is one Express and MongoDB program (`src/backend/src`): HTTP
handlers for the super admin, tenants, partners and phones, plus a few timer jobs.
`src/super-admin-portal` is a web client of it.

This directory holds models of the parts where several handlers, jobs and phones work
on the same documents, the runs of TLC that check them on small instances, and proofs of
their main invariants for every value of the constants.

    tlasany DeviceLifecycle.tla
    tlc -workers 2 -config CommandRaces.cfg DeviceLifecycleMC.tla
    tlapm DeviceLifecycleProofs.tla

## 1. Inventory

State is in MongoDB; the processes keep almost none (a set of running job names, the
Firebase client). Interaction is by documents and, with the phone, by push messages
and HTTP requests. What makes the behaviour hard is that a handler is a chain of
awaited operations: between two of them any other handler may run, a document in hand
may go stale, and the process may stop. Some handlers use a MongoDB transaction for
part of the chain, others none.

| Part | State | Operations | What must hold | Module |
|---|---|---|---|---|
| Device and lock commands | `Device`, `DeviceCommand` | lock, unlock, temporary unlock, release by tenant, partner or admin; acknowledgement by the phone | a transient state has its command; a release follows a settled schedule; a temporary unlock ends | `DeviceLifecycle` |
| EMI policy and temporary-unlock jobs | timers, in-process set of running jobs | lock, grace, relock | a job acts on what is true when it writes | `DeviceLifecycle` |
| Payments and the EMI schedule | `Payment`, `EmiSchedule` | submit, approve, reject; mark paid, waive, settle | a payment is credited once; the schedule holds the money of its payments | `BorrowerRequests`, `DeviceLifecycle` |
| Unlock cases and their SLA job | `UnlockRequest`, breach flags | open, decide at three levels, escalate | a case climbs when its time is over and not before; a decision and a deadline take effect once | `BorrowerRequests`, `Escalation` |
| Tenant credits, partner payouts | `Tenant`, `ChannelPartner`, purchase and payout requests, ledgers | submit, approve, reject, adjust, charge, commission | no lost update, nothing granted twice, ledgers explain balances | `CreditTransactions` and its family |
| Discounts | versioned slabs on the tenant, change requests, purchases | edit, ask, approve, reject, buy | tenant and partner get the terms they were shown | `DiscountRequests` |
| Restrictions, security controls | desired and applied value with versions, their commands | update, retry, clear, push, sync, acknowledge | a version names one value; applied only moves to what is wanted | `DeviceControls`, `ConfirmedRegister` |
| Enrolment and consent | `User`, `EnrollmentToken`, `ConsentRecord`, `ConsentVersion`, `Device` | OTP, accept, rotate, register, activate; write and publish texts | one phone, under the consent given for the QR code it used; one current text | `Enrollment`, `ConsentVersions` |
| Delivery of app notifications | `AccountPushToken`, `AppNotificationJob` | register a phone, queue, push in batches | sent means accepted by the push service; bounded, explained repetition; every job ends | `AppNotifications` |
| EMI reminders | reminder and notification commands | queue from three places, deduplicate, announce, push | one active reminder, announced once, unless the announcement is refused or fails | `EmiReminders` |
| Manual override tokens | `ManualOverrideToken` | generate, renew, download, revoke, use | one active; a spent one stays spent; a renewal leaves one | `OverrideTokens` |
| App builds | `AppBuild`, upload sessions, stored files | upload, complete, edit, publish, archive | every build has its file, every version one build, one published | `AppBuilds` |
| Password recovery | `OtpRecord`, `PasswordResetToken`, `Account` | ask, verify, reset | bounded guesses, one usable token, one reset per token | `AccountRecovery` |
| Onboarding of tenants and accounts | `ChannelPartner`, `Tenant`, `Account`, codes | create by four roles, verify codes, change limits | a partner's limit and a code are used up once | `PartnerOnboarding` |
| Risk checks | challenges, `RiskFlag`, device security state | check, report, acknowledge, clear, wipe, auto-lock | a critical flag locks unless a rule spares it, ends by a decision, keeps the phone from being called healthy | `RiskChecks`, `DeviceLifecycle` |
| Tenant metrics; sessions; telemetry; leads; mail; test desk; portal | plain documents or none | create, read, update; I/O | no protocol of their own | not modelled |

How the parts meet: a payment approval settles the schedule and queues a release or an
unlock; jobs and risk rules update the device and then create commands; the worker
pushes commands; the phone acknowledges them, which moves the device; an enrolment
spends a credit; a purchase approval pays a commission. Two small services decide the
device's fate, `deviceRelease.service.js` and the pre-validate hook of
`DeviceCommand.js`, and every path goes through one of them.

`PROJECT.json` lists under "hazards" each place where this goes or could go wrong, with
its line and the properties that watch it.

## 2. The modules

| Module | Contents |
|---|---|
| `DeviceLifecycle`, `DeviceLifecycleMC` | one phone, its commands, its schedule, and the handlers and jobs in flight |
| `DeviceLifecycleProofs` | its types; settlement, release and transient states; temporary unlocks |
| `CreditOperations` | the credit and payout handlers as operators on database contents |
| `CreditAccounts` | abstract specification: each request is one step |
| `CreditTransactions`, `CreditTransactionsMC` | the handlers in overlapping transactions; implements `CreditAccounts` |
| `CreditProofs` | what one request does; overlapping transactions; the sums of the requests |
| `FiniteSums` | lemmas about sums over a finite set |
| `BorrowerRequests`, `BorrowerRequestsMC`, `BorrowerRequestProofs` | payments and unlock cases of one borrower; implements `Escalation` |
| `Escalation` | abstract specification: the ladder a case climbs |
| `DeviceControls`, `DeviceControlsMC`, `DeviceControlProofs` | restrictions and a security control of one phone; implements `ConfirmedRegister` |
| `ConfirmedRegister` | abstract specification: a value with a version that somebody confirms |
| `ConsentVersions`, `Enrollment`, `EnrollmentMC`, `EnrollmentProofs` | consent texts; a borrower's way to a managed phone, which extends them |
| `AppNotifications`, `AppNotificationsMC`, `AppNotificationProofs` | push notifications to the tenants' and partners' apps |
| `EmiReminders`, `OverrideTokens`, `AppBuilds`, `DiscountRequests`, `AccountRecovery`, `PartnerOnboarding`, `RiskChecks` | seven services, one module each |
| `BackOffice`, `BackOfficeMC`, `BackOfficeProofs` | the seven together, with theorems about each |

All of them read the code the same way. One step is one awaited database operation. A
handler in progress is a record of the operation it performs next and of what it has
read (`flight`, `caller`, `desk`, `clerk`, `visit`, `office`, `checker`, ...). What is
read before an `await` may be stale when it is used. A transaction that reads in its
session what it writes is one step. `document.save()` of mongoose writes the paths
modified since the document was read, whatever they hold by now; it compares a version
only where an array was replaced. `updateOne` and `updateMany` re-evaluate their filter
when they write. A handler that dies leaves what it has written. Variables that only the
properties read (`tries`, `crowded`, `overlapped`, `loosened`, `unlocks`, `breaches`,
`shown`, ...) are marked in the declarations.

### DeviceLifecycle

| Model | Code |
|---|---|
| `device` | `Device`: `state`, the policy key, `tempUnlockExpiresAt` |
| `commands` | `DeviceCommand` documents in order of creation; `origin` and `installment` are the payload fields a look-up tells apart |
| `schedule` | `EmiSchedule`: `settlementStatus`, the status of each instalment, and which have their cost covered |
| `flight[s]` | a request or a job run in progress: the operation it performs next and what it has read |
| `now` | wall-clock days |

One step is one awaited database operation, on the committed documents:

* What a handler reads *before* `startTransaction` is a step of its own
  (`ControlRead`, `ApproveRead`, `ReleaseRead`, `WaiveRead`, `ResolveRead`), and the
  transaction (`...Commit`) uses that stale copy exactly where the code does, e.g.
  `assertRunningActionCapability(device)`. The transaction itself is one step: what it
  reads in its session and then writes conflicts with any other writer.
* Handlers that read everything in their session are single steps (`TenantControl`,
  `EscalationControl`, `EscalationResolve`, `MarkPaid`).
* `DeviceCommand.create` outside a transaction is two steps, `CreateHook` (the hook reads
  the device) and `CreateInsert`. Inside a transaction the hook still reads the
  *committed* device, since it is not given the session: `HookAccepts`.
* `document.save()` of mongoose writes the paths modified since the document was read,
  and checks nothing: `Saved(seen, assigned, current)`. The lost and revived updates of
  the acknowledgement, the worker and the EMI job come from it.
* `updateOne` with a filter re-evaluates the filter when it writes
  (`ExpiryUpdate`, `EmiGrace`, `EmiLock`, `RiskLock`).
* `Crash` abandons a handler between two steps; nothing in the code resumes it.

Actions by component: `QueueControl`, `QueueRelease`, `Settle` are the shared
services; `Control*`, `TenantControl`, `Escalation*`, `Release*` the manual controls;
`Approve*`, `MarkPaid`, `Waive*`, `Resolve*` the payments; `Expiry*`, `Emi*`, `Risk*`
the jobs and the risk rule; `Send*` the delivery worker; `Ack*` the phone.

The phone is external: it may acknowledge, as done or failed, any command that exists,
at any time and more than once. That is what `acknowledgeDeviceCommand` permits (the
phone fetches pending commands by polling, so a push is not needed), not a claim about
what the app does.

### CreditOperations, CreditAccounts, CreditTransactions

One partner and its tenants. `Applied(o, s, d)` is what the handler of request `o` writes
to `d` having read `s`: the code computes new balances in JavaScript and saves them as
absolute values, so a stale `s` loses an update. `CreditAccounts` performs each request
with `s = d`. In `CreditTransactions` each request has a session: `Begin` takes the
snapshot and checks the handler's conditions on it, `Commit` makes its writes appear,
`Abort` is any failure (the handlers abort and answer with an error; they do not retry).
A transaction that saves a document another has committed since its snapshot aborts.
This first-committer rule is MongoDB's and external; which documents a handler saves
*in the session* (`Writes`) is the code's, and the mutants that take one out show how
much hangs on it. `submitCreditPurchaseRequest` has no transaction: its check and its
creation are `Begin` and `Commit`, and it conflicts with nothing.

Commission is any member of `Commissions`; the price of a purchase is in
`DiscountRequests`. A request refused for a reason outside the model
never begins. Free-test enrolments charge nothing and are left out.

### BorrowerRequests and Escalation

`payments`, `schedule` and `cases` are the documents. An approval reads the payment before
`startTransaction`; its commit allocates the amount over the outstanding instalments in
order of their due date and replaces `matchedInstallments`, so that it is refused if the
version of the payment has moved (`SameVersion`). A rejection saves without a
transaction. Decisions on cases read the case, and save it in a transaction
with the waiver or the unlock; `runSlaEscalationJob` finds the cases that are
due, at most `BatchLimit` of them, and saves each with the status it decided
on when it read it, then raises the breach flag in another operation. The guard that keeps a
job from running twice belongs to the minute timer of one process (`runTimedJob`). The cron
endpoint, `runScheduledJobs` and other processes call the job without it, so `Runs` is a set
of callers, `Timer` one of them, and the runs of different callers overlap at every step.

Of the device only `released` matters: the hook of `DeviceCommand` refuses unlocks after a
release, until a job or an acknowledgement that read the phone before writes another state
over it (`WriteOverRelease`, which sets `reopened` for good) or the release is queued once
more (`ReleaseRetry`).

`Escalation` is the promise without documents, handlers or stale saves: which levels
have a case, until when, and who decided it. The refinement maps the set `escalatedTo`
of a case to the levels reached and the SLA fields of the levels to their deadlines. Where
runs of the job overlap (`overlap`), a stale save may hand a case to a level again, put it
back one level and give the partner its time anew; what still holds is that no level gets a
case before the levels below it had the time they were given at first.

### DeviceControls and ConfirmedRegister

`settings` holds `restrictionState` and one entry of `securityControlState` (desired and
applied value, each with a version). `UpdateRead`/`UpdateCommit` are the two requests and
their retries, which repeat the version instead of incrementing it; `Clear*` and `Release`
the way a release turns everything off; `Push*` the worker; `Sync` what
`getDeviceSyncState` hands to the phone; `Ack*` the three acknowledgement paths. The
phone is external: it acknowledges anything it has learnt of, late, twice and in any
order. `WriteOverRelease` is the job, the risk auto-lock or the acknowledgement that saves
another state over `RELEASE_PENDING` or `RELEASED`; the updates and the hook then accept
commands again, and `reopened` remembers it. `ConfirmedRegister` says what a setting
promises: new values get new versions, only the wanted value is recorded as applied, and
after a release it is off until the release is written over. From then on it may be wanted
again and is confirmed as before, as long as requests do not overlap; an acknowledgement of
the release that overlaps a new update saves a version counted from the one it read, and
then nothing is promised (`mode`).

### Enrollment and ConsentVersions

One borrower, its QR codes (`tokens`), codes, consents and two phones. A running-app
phone is activated by `ActivateRead` and `ActivateCommit`, whose two conditional updates
claim the token and the borrower (`Claimable`); an owner's phone by `RegisterRead` and
`RegisterCommit`, which check nothing again. `RotateRead` decides on the borrower it read
whether the consent is withdrawn (`Withdraws`). The transaction of a rotation has two steps:
`RotateStart` takes its snapshot with the latest open code, and `RotateCommit` writes,
unless a document it writes has been written since (`Intact`, `RotateAborts`). It
writes the code it replaces and the borrower whose consent it withdraws; a rotation that
finds neither only inserts, and two of those both commit. `ConsentVersions` is the text the
acceptance copies: written, edited, deleted and published by requests of its own.

### AppNotifications

Accounts register phones and are disabled; a caller queues one job per account; a batch
takes the jobs that are due, reads the tokens of each, pushes to each of them and saves
the job as it read it. Two batches may hold the same job (timer and cron endpoint), a
batch may die, an answer may be lost after the phone has shown the message. `shown` counts
what the push service accepted; no phone confirms it to the backend. Unless
`FCM_MOCK_MODE` is `false` there is no service (`fcmDeliveryWorker.js:40`, `:439`): the
batch pushes nothing and records its jobs as sent. The model is of a backend with the service.

### The services of BackOffice

They share no document, so a behaviour of `BackOffice` follows one of them (`part`) and the
others stay in their initial state; interleaving them would add states and no
behaviour. Each has a scenario variable that says which calls may be in progress
together.

* `EmiReminders`: the dealer's, the administrator's and the job's calls of
  `queueEmiReminder` (find, create, look for the visible notification, create it), and the
  delivery batch that overwrites what the phone answered meanwhile. The notification may be
  refused by the hook (`NotifyRefused`) or fail (`NotifyFails`), which
  `safeQueueUpcomingEmiNotification` swallows: the request ends as if it had succeeded. The
  release goes on and may be written over.
* `OverrideTokens`: supersede, then create; the daily job's two phases; downloads, which save
  over what they read; revocation; the use the phone reports.
* `AppBuilds`: upload sessions and their completion step by step (claim, inspect, copy,
  create, clean, mark), direct uploads, edits, and publication, which archives the others first.
  Of the errors after inspection only a missing staging file is a step of its own; a completion
  that stops anywhere (`DeskDies`) stands for the transient ones.
* `DiscountRequests`: versions of the slabs, with and without the version a caller names; the
  partner's request under its unique index; purchases priced from what was read before the
  upload of the proof. Prices are computed in paise, with the code's rounding.
* `AccountRecovery`: attempts counted in a copy, the provider asked, the copy saved; tokens
  retired and then issued; account and token saved in parallel.
* `PartnerOnboarding`: creations by sign-up, partner and administrator, in transactions that
  write the partner first when its limit is checked (`Enforce`) and spend the code (`Spends`).
* `RiskChecks`: a check spends its challenge, raises or resolves flags, decides the security
  state on the device as it was read, and locks; reports, clearance and wipes beside it. A
  flag may be spared by the tenant's rule or list of types, a missing capability or a missing
  policy (`SpareFlag`), a phone read locked or in release is left as it is (`CheckLock`),
  and the hook may refuse the LOCK command of a phone set to `LOCKED` and then released
  (`OrderRefused`).

## 3. The runs

| Run | Instance | Shows |
|---|---|---|
| `Sequential` | all handlers, one slot, running-app phone, 3 days, one abandoned handler | `TypeOK`, `PendingIsOpen`, `EndlessUnlockNeedsFailure` |
| `CommandRaces` | two overlapping handlers among tenant controls, payment, release, worker, acknowledgement; two commands | the inductive invariant `LifecycleInv` |
| `JobRaces` | two overlapping handlers among EMI job, risk lock, approval, waiver, resolution, control, release, acknowledgement; one abandoned | `SettledIffReleaseQueued` |
| `TempUnlockRaces` | the EMI job and the expiry job overlapping escalated grants | `JobsRespectTempUnlock`; `TempUnlockExpires` under fairness |
| `CreditRaces` | two tenants, four requests, all overlapping | books, requests, decisions; `Serializable`: the transactions implement `CreditAccounts` |
| `BorrowerRaces` | two payments over two instalments; two cases; two slots, two callers of the SLA job; six scenarios | `ScheduleExplained`, `DoneOnce`; `Escalates`: it implements `Escalation`; `EscalationReached` under fairness |
| `DeviceReports` | one restriction or control, two operators or three commands; a release that may be written over; seven scenarios | `RestrictionsAgree`, `AppliedInOrder`; `ConfirmsWanted`: controls implement `ConfirmedRegister` |
| `EnrollmentRaces` | three slots, three QR codes, two phones, two texts; seven scenarios | `OneCurrent`, `ActivatedAsAccepted`, `OneEnrollment`, `ConsentInForce`; `Onboarded` under fairness |
| `Notifications` | one job, two phones, two batches, one fault | `NotificationsInv`, `SentWasShown`; `JobsEnd` under fairness |
| `BackOffice` | the seven services, two overlapping calls or one that may die or fail | ten properties, below |
| `FindRelock`, `FindNoCurrentConsent` | the smallest instance that shows it | a disagreement between code and documentation, section 5 |

The phone:

* `SettledIffReleaseQueued` relates two documents and the command queue: a schedule is
  settled if and only if a release has ever been queued, and a device in a release
  state has a settled schedule. Five handlers could break it.
* `PendingIsOpen`: a device that waits (`UNLOCK_PENDING`, `RELEASE_PENDING`) waits for a
  command that exists and is not yet acknowledged. It needs the order of the saves in
  the acknowledgement: device first, command second, and no third writer between.
  `LifecycleInv` is the invariant behind both.
* `JobsRespectTempUnlock`, an action property: no step of either job takes away a
  temporary unlock before its deadline, although the decision rests on older reads.
* `EndlessUnlockNeedsFailure`, an action property: a running-app phone comes to a temporary
  unlock without a deadline only by confirming one that was recorded as failed, since
  the time check of the acknowledgement looks at the status of the command, or by
  confirming a release once more, which unsets the deadline of whatever followed it.
* `TempUnlockExpires`: infinitely often, no temporary unlock is past its deadline.
* `RestrictionsAgree`: at most one command of a setting waits; for restrictions it is the
  newest. Unless a release was written over, a version stands for one value, the same is true of
  controls, and nothing waits once a release is queued. `AppliedInOrder` (without
  overlap): the record of what is applied only moves forward and, while no release
  was written over, tells the truth. `ConfirmsWanted`: see `ConfirmedRegister`.

The money:

* `BooksAgree`: earned = available + hold + paid, every ledger entry starts where the last
  one ended and the last ends at the balance (of the tenant, and of what is available to the
  partner; the entries of its hold are not chained). `RequestsExplained`: hold, paid and purchased
  are the sums of the pending and approved requests. `DecisionsStand`: a decided request
  never changes. `Serializable`: the same requests, one at a time, could have done it.
* `ScheduleExplained`: what was paid on an instalment that no one marked by hand is what
  payments were matched with it; no payment is credited twice. It rests on mongoose's version
  check, which the mutant `AnyVersion` removes. `DoneOnce`: an approval unlocks once unless
  the release is written over; a level is flagged as breached only if the case was handed
  on, and once if the runs of the SLA job do not overlap.
* `TermsAgreed`, `NoLostEdit`: what is approved was asked of the configuration it replaced, a
  purchase costs what the version it names says, a named edit overwrites no other.

The borrower: `Escalates` and `EscalationReached` (a case climbs, and only then; where runs of
the job overlap, the partner may be given its time anew);
`ActivatedAsAccepted`, `ConsentInForce`, `Onboarded`; `OneEnrollment` (one device, and one open
QR code while there is none; rotations begun before the phone is linked may leave
several open codes afterwards, which no phone can use); `OneCurrent` (two texts are
never current). The back office: `RemindersUnique`, `AnnouncedAtEnd`, `TokensRenewed`,
`BuildsInstallable`, `RecoveryHeld`, `OnboardingHeld`, `OneLockOrder`, `CompromiseHandled`, most of
them conjunctions of two or three statements that their modules state one by one.
`AnnouncedAtEnd` excepts the notification that was refused after the release or that failed;
it does say that the next request makes up for the reminder left unannounced. `CriticalLocks`,
a part of `CompromiseHandled`, excepts the phone read in release, the one that left the locked
state meanwhile, and the flag that a rule, a capability or a missing policy spared.

Several of these hold only while requests do not overlap (`SingleDesk`, `SingleCrew`, `~crowded`,
`Alone`, `SingleChecker`, `Single`, `scenario.parallel = 1`), while no release was written over
(`~reopened`), or while one reader of a token does not overlap another one (`OneReader`) and no
edit of a build a completion (`NoEdits`). The condition is part of the property where overlapping
requests do break it, and section 5 lists what happens then; the other conjuncts are claimed, and
checked, under any overlap.

### Bounds, and why they are enough

Overlap: two handlers at once, because every race listed as a hazard is between one stale reader
and one writer (or a sequence of writers, which one slot and the one-transaction requests
provide); two rotations that find no open QR code need the activation between them, so one
scenario of `EnrollmentRaces` has three; four sessions in `CreditRaces` allow a request, its
decision, and two rivals of either. Scenarios (`Handlers`, `Scenarios`, `Crowds`, ...) restrict a
behaviour to the operations around one question; their union has every operation. Slots and
records of consent are alike, so in `Enrollment` a request takes the first free one.

Documents: one more than the number the code tells apart. `MaxCommands` of one or two give a
superseding and a superseded command, and the expiry job is exempt from it; three
commands in `DeviceReports` give an older, a current and a newer version; two payments
compete for two instalments, one of which needs both; three QR codes are one used, one
cancelled and one open; two builds and two versions collide and do not.

Time: two days (hours in `BorrowerRaces`) cover before, at and after a deadline; a token valid for
two days with a window of one is renewed at, before and after its window. Limits: retries and
attempts are 1 or 2 instead of 5, for a counter is only compared with its limit (with the limit of
1 in `DeviceReports` and `DeviceLifecycle` a failed push is not repeated; the repetition is in
`Notifications` and `BackOffice`). Two callers of the SLA job suffice for one stale save over
another. Faults: one crash, lost answer or expired code per behaviour; a second adds a handler
that finds what the first left, which the next request does too. Amounts: 33 percent of 26 keys at
99 paise does not divide evenly, so that the rounding counts.

`CHECK_DEADLOCK FALSE` everywhere: with time and documents at their bound and all requests
served a system of requests has nothing to do. The proofs lift the bounds for the
properties they cover.

### Fairness

* `DeviceLifecycle!FairSpec`: weak fairness of the next step of each flight: a handler whose
  process lives goes on. Nothing makes a request arrive or a phone answer. The expiry job is
  strongly fair, because its timer fires every minute and finds the slot it needs free
  again and again (slots are a bound of the model; the process has no such limit). No crash
  is allowed in that run; the next minute's run would take over anyway unless the job
  stopped after it updated the device, see the hazard at `scheduledJobs.js:315`.
* `BorrowerRequests!FairSpec`: weak fairness of the timer's runs of the SLA job only: the timer
  starts it again and again and the database answers. Nobody promises that the endpoint is
  called. Failed runs are allowed, up to their bound.
* `Enrollment!FairSpec`: the borrower goes on (asks for and enters codes, accepts, activates), the
  dealer replaces a QR code that has expired, and requests in progress commit or are aborted.
  Rotation of a good code, expiry and death are not fair and may still happen.
* `AppNotifications!NotificationsFairness`: batches start and go on, and back-off times pass.

## 4. What is proved

Every property of a passing run is a theorem, except the four liveness properties. A theorem
holds for every value of the constants that satisfies the named assumptions of its
module: any number of handlers, documents, phones, texts and clerks, any policy and any
amounts.

| Module | Theorem | Statement | Argument |
|---|---|---|---|
| `DeviceLifecycleProofs` | `Typing` | `Spec => []TypeOK` | `TypeOK` is inductive; it types the copies that flights carry and the commands they point at |
| | `Settlement` | `Spec => []SettledIffReleaseQueued` | through `SettledInv` |
| | `Transience` | `Spec => []PendingIsOpen` | through `PendingInv` |
| | `Lifecycle` | `Spec => []LifecycleInv` | both |
| | `TemporaryUnlocks` | `Spec => JobsRespectTempUnlock` | every job write re-evaluates its filter; a job's clock reading is not in the future |
| | `Deadline` | `Spec => EndlessUnlockNeedsFailure` | through `DeadlineInv`: what an acknowledgement that passed the time check has read |
| `CreditProofs` | `Shapes` | `Spec => []TypeOK` | part of the invariant `IInv` |
| | `Refinement` | `Spec => Serializable` | a commit is one `Perform` of `CreditAccounts`, every other step a stutter |
| | `Conservation` | `Spec => []BooksAgree` | each operator preserves it |
| | `DecisionsFinal` | `Spec => DecisionsStand` | likewise |
| | `RequestsAccount` | `Spec => []RequestsExplained` | a decision moves one request from one sum to another |
| `BorrowerRequestProofs` | `Typing` | `Spec => []TypeOK` | the allocation of a payment never exceeds what is due |
| | `Money` | `Spec => []ScheduleExplained` | a commit adds to both sums what it allocates, once for each version of the payment |
| | `Once` | `Spec => []DoneOnce` | an approval that succeeds moves the version of its payment; a breach is raised by the run that saved the case, and a single run saves a case once |
| | `Refinement` | `Spec => Escalates` | each save of a case is a step of the ladder, although the case was read before; what an overlapping run found still had its time over |
| `DeviceControlProofs` | `Shapes` | `Spec => []TypeOK` | part of `IInv` |
| | `Agreement` | `Spec => []RestrictionsAgree` | versions of commands never exceed the desired one, which grows in the step that creates a command; what depends on the release is claimed until it is written over |
| | `Refinement` | `Spec => ConfirmsWanted` | updates, acknowledgements and releases are `Want`, `Confirm` and `Release`, writing over a release is `Reopen`, the rest stutters |
| | `Confirmation` | `Spec => AppliedInOrder` | alone, an acknowledgement compares its version with the device it saves |
| `EnrollmentProofs` | `Shapes` | `Spec => []TypeOK` | part of `IInv` |
| | `CurrentVersion` | `Spec => []OneCurrent` | a publication unsets every version it does not set, in one transaction |
| | `Activation` | `Spec => []ActivatedAsAccepted` | what an activation read of token and consent still holds when its conditional updates succeed |
| | `OneDeviceEach` | `Spec => []OneEnrollment` | the borrower is linked by the step that creates the device; while he is not, there is one open code, and of two rotations that took it in their snapshots one is aborted |
| | `ConsentForce` | `Spec => []ConsentInForce` | alone, a rotation decides on the borrower as it is, and an edit saves what it read |
| `AppNotificationProofs` | `Repetitions` | `Spec => []NotificationsInv` | unless batches overlapped, a job is held by one, as it is; a phone that may still be pushed to has shown the job at most once for each fault |
| | `Shown` | `Spec => []SentWasShown` | a batch that will record a job as sent has an accepted push behind it |
| `BackOfficeProofs` | `Terms` | `Spec => []TermsAgreed` | the history of slabs only grows, so a version in hand keeps its meaning |
| | `Edits` | `Spec => NoLostEdit` | an edit that named a version is applied only while it is current |
| | `Onboarding` | `Spec => OnboardingHeld` | at most one creation holds the partner; while it does, there is room for one |
| | `Recovery` | `Spec => []RecoveryHeld` | a visit that will save a count has read it; the ones that died are counted |
| | `LockOrders` | `Spec => []OneLockOrder` | orders, and checks about to make one, are as many as unlocks, and one more while the phone is locked |
| | `Compromises` | `Spec => CompromiseHandled` | only a decision writes over a critical flag; the flags a check saves are the ones it found; a check ends with each critical flag spared, ordered, or met on a phone that was locked |
| | `Reminders`, `Announcements` | `Spec => []RemindersUnique`, `Spec => AnnouncedAtEnd` | alone, what a caller has looked for is still there, or still missing, when it creates; it ends at the notification, or by one of the exits named |
| | `Overrides` | `Spec => TokensRenewed` | superseding leaves none active, and a reader's copy is not overtaken by another reader |
| | `Builds` | `Spec => []BuildsInstallable` | a completion that deletes a file has lost the version to another build |

What the models assume of the constants is what the code requires: amounts and
`versionCode` are positive, a loan has an instalment, limits are natural numbers, a due date is
a day. Sets over which something is summed or counted are finite.

The invariants say what a handler may still rely on after its last `await`.
`SettledIffReleaseQueued` alone is not inductive: a release handler decides on a schedule it
read earlier, so `SettledInv` adds that a schedule read as settled is still settled
(nothing unsets it), and that an acknowledgement in progress applies the type of the command
it names. `PendingIsOpen` needs `PendingInv`: an acknowledgement of the *latest* command of
the awaited type that is about to save the command must already have moved the device
out of the waiting state, which requires that the state it assigns differs from the one it
read. `CommandRaces` checks their conjunction. `DeadlineInv` says that an acknowledgement of a
temporary unlock about to save the device passed the time check on a device in that state,
or skipped it.

For credits, `TypeOK` is not inductive either: a commit computes balances from a snapshot,
and only a snapshot that is still current keeps them natural. `SoundTransactions` says
that an open transaction was allowed on its snapshot and that the documents it will save
are still those of the snapshot (`Current`). A commit preserves it because it changes only
documents it saves (`Kept`), and aborts every transaction that saves one of them. From it
`StillApplies` concludes that what a commit writes is what the same request would write
reading the present database, which is the step of the abstract specification.

The sums (`RequestsExplained`, `ScheduleExplained`) are folds of the community modules, whose
recursion picks the elements in an unknown order. `FiniteSums` shows that such a sum exists
and does not depend on the order, and what becomes of it when the function changes at one
element. Its inductions run over the subsets of a finite set, stated for a set of subsets
in place of a predicate, so that no operator is passed to a theorem.

`DeviceControlProofs` adds to the types that commands agree with the settings they were made
from, and that there is a newest version ever issued (`Issued`): the abstract register
names it as a maximum, which a proof must show to exist. `EnrollmentProofs` adds what a flight may rely
on: a token and a consent once bound stay bound, a consumed token stays consumed.
`BackOfficeProofs` carries one invariant per service through `BackOffice`: a step of another
service leaves it alone.

Three attempts at a proof corrected the model's claims. A temporary unlock without a deadline
was said to need a failed delivery: it needs a command recorded as failed, which two
overlapping confirmations of one command also leave, or a second confirmation of a release.
A spent override token may become usable again when a download overlaps its
revocation or use. An edit of an upload session that overlaps two completions may leave a build
without its file. The properties say so now.

Only model-checked: the four liveness properties (`TempUnlockExpires`, `EscalationReached`,
`Onboarded`, `JobsEnd`), since the prover has no rule for fairness; and the two
counterexamples of section 5.

## 5. Where code and documents disagree

Two have a run whose counterexample is the story; `PROJECT.json` quotes the line.

* `FindRelock`: the EMI job relocks a phone whose release was queued after the job read it.
* `FindNoCurrentConsent`: publishing the current consent text again leaves no text current,
  for the transaction unsets it in the database and then saves a document whose
  `isCurrent` was read as true and is no modified path.

Others met while modelling. The models contain the behaviour, and the properties above are
stated so that they hold with it:

* The EMI job saves `overdue` over an instalment paid since it read the schedule
  (`scheduledJobs.js:494`; `device-states.md:220` says every instalment of a phone in
  release is paid or waived).
* An owner's phone acknowledging an expired temporary unlock gets one without a deadline
  (`app.controller.js:3161`; the comment at `scheduledJobs.js:309`).
* The delivery worker saves its result over an acknowledgement
  (`fcmDeliveryWorker.js:315`; `restriction-results-emi-reminder-contract.md:207` calls an
  acknowledged command terminal).
* The late acknowledgement of an unlock makes a phone `ACTIVE` that has been locked since
  (`app.controller.js:3159`; `device-states.md:32`).
* Nothing reverts `UNLOCK_PENDING` when delivery attempts run out
  (`fcmDeliveryWorker.js:229`; `device-states.md:204`).
* Two overlapping submissions leave two pending purchases (`distributor.controller.js:710`;
  `credit_purchase_system_for_tenant.md:353`), two pending payments
  (`app.controller.js:2268`; `flows.md:1461`) or two open cases (`app.controller.js:2404`;
  `flows.md:1178`).
* A rejection overlapping an approval of the same payment leaves it decided twice
  (`distributor.controller.js:2804`; `testing payout.md:668`).
* Overlapping acknowledgements of two restriction versions move `appliedVersion` back
  (`app.controller.js:3136`; `deviceRestrictions.test.js:144`).
* The SLA job reopens, one level up, a case decided since it read it
  (`scheduledJobs.js:168`; `context.md:160`). `Escalation` says so: a hand-over clears the decider.
* Two overlapping runs of the SLA job flag one breach twice, put a case back from the
  administrator to the partner, and give the partner its time anew (`scheduledJobs.js:155`; the
  comment at `system.controller.js:89` has the endpoint called every 30 minutes, whatever the
  timer does).
* A job, the risk auto-lock or an acknowledgement writes its state over `RELEASE_PENDING` or
  `RELEASED` (`scheduledJobs.js:524`, `riskManagement.service.js:646`, `app.controller.js:3159`);
  `FindRelock` is the case a document speaks of. Commands are accepted again, a setting may
  be wanted again, and a second approval may unlock.
* Rotations of the QR code that began before the phone was linked leave several open codes
  behind (`borrowerEnrollment.service.js:426`).
* The request for an upcoming reminder answers 201 also when its visible notification was
  refused or failed (`appNotifications.js:277`).
* A risk lock of a phone whose release was queued meanwhile sets it to `LOCKED`; if a release is
  queued before the command is created, the hook refuses the command
  (`riskManagement.service.js:646`).
* Two confirmations of one temporary unlock that end differently leave it failed without a
  source (`app.controller.js:3170`), and a later one then skips the time check.
* A download that overlaps a revocation or a use of the same override token revives it
  (`admin.controller.js:5750`).
* Two completions of one session overlap, the first is refused for a build of the same version,
  and an edit gives that build another version: the second creates its build, and the first
  deletes the file of it (`appBuildDirectUpload.service.js:289`).
* Overlapping requests leave two active override tokens, two published builds, two usable
  reset tokens, one more guess of a code than allowed, two active reminders. None of these
  collections has an index that would refuse it.
* A discount request whose configuration was replaced stays pending and blocks the next one
  until it is rejected; a reminder out of attempts stays pending and stands for later ones.

## 6. Not modelled

* Policy versions (`desiredPolicyVersion`, `appliedPolicyVersion`): the backend writes and
  returns them and compares them nowhere; what they mean is the app's, which is not here.
* Contents of payloads, wording, audit logs, metrics caches, and notifications written beside
  a modelled step: no modelled decision reads them. Authorisation and sessions.
* The attempts of the consent and sign-up codes (`AccountRecovery` has the attempts of the
  same kind of record); back-off times, which are a free choice of when a command is due.
* Telemetry and location, partner leads, support contact, mail, uploads: single writes.
* `adminDeviceTesting.service.js`, seeds and migrations: they write documents directly, outside
  the rules of normal operation. The portal, a client of the API.

What could come next: the policy job's metrics and the recomputation of `TenantMetrics`
against the documents; the release of a phone and the enrolment of its borrower for
another one, which would join `DeviceLifecycle` and `Enrollment`; a proof of what the
four liveness properties need of safety (that the next step of every handler in progress
is enabled).
