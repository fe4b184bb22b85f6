-------------------------- MODULE AppNotifications --------------------------
(***************************************************************************)
(* Push notifications to the apps of tenants and partners: accounts        *)
(* register and give up the tokens of their phones, a caller queues one    *)
(* AppNotificationJob for each account it addresses, and the delivery      *)
(* batch pushes every due job to every active token of its account.  A     *)
(* batch works on the documents it read at its start, may be run by the    *)
(* timer and by the cron endpoint at once, and may die between two steps.  *)
(***************************************************************************)
EXTENDS Integers, Sequences, FiniteSets

CONSTANTS Accounts, Tokens,
          Owner,       \* the account of each phone's token
          Workers,     \* delivery batches that may run at once
          JobLimit,    \* bound: jobs queued
          JobRetries,  \* AppNotificationJob.maxRetries
          JobFaults    \* bound: batches that die and answers that are lost

ASSUME NotificationAssumption ==
  /\ Owner \in [Tokens -> Accounts]
  /\ JobRetries \in Nat \ {0} /\ JobLimit \in Nat /\ JobFaults \in Nat
  /\ IsFiniteSet(Accounts)

VARIABLES enabled,   \* Account.isActive
          pushTokens,\* AccountPushToken of each phone
          jobs,      \* the AppNotificationJob documents, in order of creation
          shown,     \* how often each phone has shown each job
          batch,     \* for each worker the jobs it read and where it is among them
          jobFaults, \* faults so far
          overlapped \* two batches have held the same job at once

jobVars == <<enabled, pushTokens, jobs, shown, batch, jobFaults, overlapped>>

JobIds == 1..JobLimit
JobStatuses == {"pending", "sent", "failed", "skipped"}
JobDocs == [account : Accounts, status : JobStatuses, retryCount : 0..JobRetries, due : BOOLEAN]
NewJob(a) == [account |-> a, status |-> "pending", retryCount |-> 0, due |-> TRUE]

(* What a worker holds: the jobs still to do, each as it was read, and the *)
(* tokens of the oldest of them that it has still to push to.              *)
Copies(ids) == [j \in ids |-> jobs[j]]
NoBatch == [docs |-> <<>>, step |-> "idle", left |-> {}, sent |-> 0]
Unsent(w) == DOMAIN batch[w].docs
HeldJob(w) == CHOOSE j \in Unsent(w) : \A k \in Unsent(w) : j <= k
HeldDoc(w) == batch[w].docs[HeldJob(w)]

Reachable(a) == \E t \in Tokens : Owner[t] = a /\ pushTokens[t] = "active"

NotificationsInit ==
  /\ enabled = Accounts
  /\ pushTokens = [t \in Tokens |-> "none"]
  /\ jobs = <<>>
  /\ shown = [t \in Tokens |-> [j \in JobIds |-> 0]]
  /\ batch = [w \in Workers |-> NoBatch]
  /\ jobFaults = 0
  /\ overlapped = FALSE

(* registerAccountPushToken: an upsert that makes the token active again.  *)
RegisterToken(t) ==
  /\ Owner[t] \in enabled /\ pushTokens[t] # "active"
  /\ pushTokens' = [pushTokens EXCEPT ![t] = "active"]
  /\ UNCHANGED <<enabled, jobs, shown, batch, jobFaults, overlapped>>

(* deactivateAccountPushToken, on logout.                                  *)
DeactivateToken(t) ==
  /\ Owner[t] \in enabled /\ pushTokens[t] = "active"
  /\ pushTokens' = [pushTokens EXCEPT ![t] = "inactive"]
  /\ UNCHANGED <<enabled, jobs, shown, batch, jobFaults, overlapped>>

(* updateAdminAccountStatus; the account's tokens are left as they are.    *)
DisableAccount(a) ==
  /\ a \in enabled
  /\ enabled' = enabled \ {a}
  /\ UNCHANGED <<pushTokens, jobs, shown, batch, jobFaults, overlapped>>

(* queueTenantNotification and queuePartnerNotification, for one recipient *)
(* or for all: a job for every enabled account that some phone serves.     *)
QueueNotification(targets) ==
  LET reached == {a \in targets \cap enabled : Reachable(a)} IN
  /\ reached # {} /\ Len(jobs) + Cardinality(reached) <= JobLimit
  /\ \E order \in [1..Cardinality(reached) -> reached] :
       /\ \A a \in reached : \E i \in DOMAIN order : order[i] = a
       /\ jobs' = jobs \o [i \in DOMAIN order |-> NewJob(order[i])]
  /\ UNCHANGED <<enabled, pushTokens, shown, batch, jobFaults, overlapped>>

\* Mutants: the filter forgets that a sent job is finished, or stops one retry early.
DeliverableSent(doc) == doc.status # "skipped" /\ doc.retryCount < JobRetries /\ doc.due
DeliverableEarly(doc) ==
  doc.status \in {"pending", "failed"} /\ doc.retryCount + 1 < JobRetries /\ doc.due
Deliverable(doc) == doc.status \in {"pending", "failed"} /\ doc.retryCount < JobRetries /\ doc.due

(* runAppNotificationDeliveryBatch reads the jobs that are due.            *)
SelectJobs(w) ==
  LET due == {j \in DOMAIN jobs : Deliverable(jobs[j])}
  IN /\ batch[w].step = "idle" /\ due # {}
     /\ batch' = [batch EXCEPT ![w] = [docs |-> Copies(due), step |-> "tokens", left |-> {}, sent |-> 0]]
     /\ overlapped' = (overlapped \/ \E v \in Workers : Unsent(v) \cap due # {})
     /\ UNCHANGED <<enabled, pushTokens, jobs, shown, jobFaults>>

NextJob(w) ==
  LET rest == Unsent(w) \ {HeldJob(w)}
  IN [docs |-> [j \in rest |-> batch[w].docs[j]], step |-> IF rest = {} THEN "idle" ELSE "tokens",
      left |-> {}, sent |-> 0]

(* save() writes the fields that differ from the copy that was read.       *)
SavedJob(doc, read, new) == [f \in DOMAIN doc |-> IF new[f] = read[f] THEN doc[f] ELSE new[f]]

SaveJob(w, new) ==
  /\ jobs' = [jobs EXCEPT ![HeldJob(w)] = SavedJob(@, HeldDoc(w), new)]
  /\ batch' = [batch EXCEPT ![w] = NextJob(w)]

(* A job whose account has no active token any more is skipped for good.   *)
ReadTokens(w) ==
  LET active == {t \in Tokens : Owner[t] = HeldDoc(w).account /\ pushTokens[t] = "active"} IN
  /\ batch[w].step = "tokens"
  /\ IF active = {}
     THEN SaveJob(w, [HeldDoc(w) EXCEPT !.status = "skipped"])
     ELSE /\ batch' = [batch EXCEPT ![w] = [batch[w] EXCEPT !.left = active, !.step = "push"]]
          /\ UNCHANGED jobs
  /\ UNCHANGED <<enabled, pushTokens, shown, jobFaults, overlapped>>

Delivered(w, t) == shown' = [shown EXCEPT ![t][HeldJob(w)] = @ + 1]

\* A token is done with; an accepted push counts.
CrossedOff(b, t, accepted) == [b EXCEPT !.left = @ \ {t}, !.sent = @ + accepted]

PushAccepted(w, t) ==
  /\ t \in batch[w].left
  /\ Delivered(w, t)
  /\ batch' = [batch EXCEPT ![w] = CrossedOff(@, t, 1)]
  /\ UNCHANGED <<enabled, pushTokens, jobs, jobFaults, overlapped>>

PushFailed(w, t) ==
  /\ t \in batch[w].left
  /\ batch' = [batch EXCEPT ![w] = CrossedOff(@, t, 0)]
  /\ UNCHANGED <<enabled, pushTokens, jobs, shown, jobFaults, overlapped>>

(* The message reached the phone but the answer of the service did not     *)
(* reach the batch.                                                        *)
PushAnswerLost(w, t) ==
  /\ t \in batch[w].left /\ jobFaults < JobFaults
  /\ Delivered(w, t)
  /\ batch' = [batch EXCEPT ![w] = CrossedOff(@, t, 0)]
  /\ jobFaults' = jobFaults + 1
  /\ UNCHANGED <<enabled, pushTokens, jobs, overlapped>>

(* isInvalidFcmTokenError: the token is deactivated whatever has become of *)
(* it since it was read.                                                   *)
PushInvalid(w, t) ==
  /\ t \in batch[w].left
  /\ pushTokens' = [pushTokens EXCEPT ![t] = "inactive"]
  /\ batch' = [batch EXCEPT ![w] = CrossedOff(@, t, 0)]
  /\ UNCHANGED <<enabled, jobs, shown, jobFaults, overlapped>>

\* Mutant: the batch counts its answers instead of the accepted ones.
AnyAnswered(w) == batch[w].sent >= 0
AnySent(w) == batch[w].sent > 0

SaveResult(w) ==
  /\ batch[w].step = "push" /\ batch[w].left = {}
  /\ SaveJob(w, IF AnySent(w)
                THEN [HeldDoc(w) EXCEPT !.status = "sent"]
                ELSE [HeldDoc(w) EXCEPT !.status = "failed", !.retryCount = @ + 1, !.due = FALSE])
  /\ UNCHANGED <<enabled, pushTokens, shown, jobFaults, overlapped>>

(* The process stops in the middle of a batch.                             *)
BatchDies(w) ==
  /\ batch[w].step # "idle" /\ jobFaults < JobFaults
  /\ batch' = [batch EXCEPT ![w] = NoBatch]
  /\ jobFaults' = jobFaults + 1
  /\ UNCHANGED <<enabled, pushTokens, jobs, shown, overlapped>>

(* nextRetryAt passes.                                                     *)
RetryDue(j) ==
  /\ j \in DOMAIN jobs /\ ~jobs[j].due
  /\ jobs' = [jobs EXCEPT ![j].due = TRUE]
  /\ UNCHANGED <<enabled, pushTokens, shown, batch, jobFaults, overlapped>>

BatchStep(w) ==
  \/ ReadTokens(w) \/ SaveResult(w)
  \/ \E t \in Tokens : PushAccepted(w, t) \/ PushFailed(w, t) \/ PushAnswerLost(w, t) \/ PushInvalid(w, t)

NotificationsNext ==
  \/ \E t \in Tokens : RegisterToken(t) \/ DeactivateToken(t)
  \/ \E a \in Accounts : DisableAccount(a)
  \/ \E targets \in SUBSET Accounts : QueueNotification(targets)
  \/ \E w \in Workers : SelectJobs(w) \/ BatchStep(w) \/ BatchDies(w)
  \/ \E j \in JobIds : RetryDue(j)

(* The timer keeps starting batches, a push gets an answer or times out,   *)
(* and time passes.                                                        *)
NotificationsFairness ==
  /\ \A w \in Workers : WF_jobVars(BatchStep(w))
  /\ WF_jobVars(\E w \in Workers : SelectJobs(w))
  /\ \A j \in JobIds : WF_jobVars(RetryDue(j))

Spec == NotificationsInit /\ [][NotificationsNext]_jobVars /\ NotificationsFairness
-----------------------------------------------------------------------------
(* The documents keep their shape; a job is never retried beyond its limit.*)
NotificationsTypeOK ==
  /\ enabled \subseteq Accounts
  /\ pushTokens \in [Tokens -> {"none", "active", "inactive"}]
  /\ jobs \in Seq(JobDocs) /\ Len(jobs) <= JobLimit
  /\ shown \in [Tokens -> [JobIds -> Nat]]
  /\ batch = [w \in Workers |-> [docs |-> batch[w].docs, step |-> batch[w].step,
                                 left |-> batch[w].left, sent |-> batch[w].sent]]
  /\ \A w \in Workers :
       /\ batch[w].step \in {"idle", "tokens", "push"}
       /\ batch[w].left \subseteq Tokens /\ batch[w].sent \in Nat
       /\ (batch[w].step = "idle") = (Unsent(w) = {})
       /\ Unsent(w) \subseteq DOMAIN jobs
  /\ jobFaults \in 0..JobFaults /\ overlapped \in BOOLEAN

(* A job recorded as sent has been shown by a phone of its account, however*)
(* batches overlap (AppNotificationJob.status, fcmDeliveryWorker).         *)
SentWasShown ==
  \A j \in DOMAIN jobs : jobs[j].status = "sent" =>
    \E t \in Tokens : Owner[t] = jobs[j].account /\ shown[t][j] > 0

(* A phone shows a job twice only if two batches held it at once, a batch  *)
(* died before saving, or an answer was lost: a retry repeats only what    *)
(* reached nobody.                                                         *)
DuplicatesExplained ==
  ~overlapped => \A t \in Tokens, j \in JobIds : shown[t][j] <= 1 + jobFaults

(* The shape of the documents, and no unexplained repetition of a push.    *)
NotificationsInv == NotificationsTypeOK /\ DuplicatesExplained

(* Every job ends for good: sent, skipped, or its retries are used up,     *)
(* although stale batches may turn a sent job into a failed one again.     *)
JobEnded(j) == jobs[j].status \in {"sent", "skipped"} \/ jobs[j].retryCount >= JobRetries
JobsEnd == \A j \in JobIds : j \in DOMAIN jobs ~> [](j \in DOMAIN jobs /\ JobEnded(j))
=============================================================================
