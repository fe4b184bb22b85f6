------------------------ MODULE AppNotificationProofs ------------------------
(* What the delivery batches of AppNotifications keep for every number of   *)
(* phones, batches and jobs: no push is repeated without a reason, and a     *)
(* job recorded as sent was shown.                                           *)
EXTENDS AppNotifications, WellFoundedInduction, FiniteSetTheorems, SequenceTheorems, TLAPS

\* A set of numbers has a least one.
LEMMA Earliest ==
  ASSUME NEW S, S \subseteq Nat, S # {}
  PROVE  \E j \in S : \A k \in S : j <= k
<1> DEFINE R == OpToRel(<, Nat)
<1>1. IsWellFoundedOn(R, Nat)
  BY NatLessThanWellFounded
<1>2. \A j, k \in Nat : j < k => <<j, k>> \in R
  BY DEF OpToRel
<1> HIDE DEF R
<1> DEFINE N == Nat
<1> IsWellFoundedOn(R, N) /\ S \subseteq N
  BY <1>1
<1> HIDE DEF N
<1>3. PICK j \in S : \A k \in S : ~ (<<k, j>> \in R)
  BY WFMin
<1> USE DEF N
<1>4. ASSUME NEW k \in S PROVE j <= k
  <2>1. j \in Nat /\ k \in Nat
    OBVIOUS
  <2>2. ~ (k < j)
    BY <1>2, <1>3, <2>1
  <2> QED  BY <2>1, <2>2
<1> QED  BY <1>4

-----------------------------------------------------------------------------
(* The inductive invariant *)

Oldest(b) == CHOOSE j \in DOMAIN b.docs : \A k \in DOMAIN b.docs : j <= k

ShownBy(a, j, seen) == \E t \in Tokens : Owner[t] = a /\ seen[t][j] > 0

\* A batch holds copies of jobs as they were when they were due, pushes the oldest to
\* phones of its account, and counts a push only when one of them has shown it.
HeldBy(b, docs, seen) ==
  /\ b = [docs |-> b.docs, step |-> b.step, left |-> b.left, sent |-> b.sent]
  /\ b.step \in {"idle", "tokens", "push"} /\ b.left \subseteq Tokens /\ b.sent \in Nat
  /\ b.step = "idle" <=> DOMAIN b.docs = {}
  /\ DOMAIN b.docs \subseteq DOMAIN docs
  /\ \A j \in DOMAIN b.docs :
       b.docs[j] \in JobDocs /\ Deliverable(b.docs[j]) /\ b.docs[j].account = docs[j].account
  /\ b.step # "push" => b.left = {} /\ b.sent = 0
  /\ \A t \in b.left : Owner[t] = b.docs[Oldest(b)].account
  /\ b.sent > 0 => ShownBy(b.docs[Oldest(b)].account, Oldest(b), seen)

SentShown(docs, seen) ==
  \A j \in DOMAIN docs : docs[j].status = "sent" => ShownBy(docs[j].account, j, seen)

Typed ==
  /\ enabled \subseteq Accounts
  /\ pushTokens \in [Tokens -> {"none", "active", "inactive"}]
  /\ jobs \in Seq(JobDocs) /\ Len(jobs) <= JobLimit
  /\ shown \in [Tokens -> [JobIds -> Nat]]
  /\ batch = [w \in Workers |-> batch[w]]
  /\ jobFaults \in 0..JobFaults /\ overlapped \in BOOLEAN

\* A job is held by one batch at most, which knows it as it is.
Alone ==
  \A w \in Workers : \A j \in DOMAIN batch[w].docs :
    jobs[j] = batch[w].docs[j] /\ \A v \in Workers : j \in DOMAIN batch[v].docs => v = w

\* Nothing the program knows says that this phone may have shown this job already.
Fresh(docs, j) == j \in DOMAIN docs => docs[j].status # "sent"
Unpushed(b, t, j) == b.sent > 0 /\ Oldest(b) = j => t \in b.left
Unfinished(t, j) == Fresh(jobs, j) /\ \A w \in Workers : Unpushed(batch[w], t, j)

Counted ==
  \A t \in Tokens, j \in JobIds :
    shown[t][j] <= 1 + jobFaults /\ (Unfinished(t, j) => shown[t][j] <= jobFaults)

Inv ==
  /\ Typed
  /\ \A w \in Workers : HeldBy(batch[w], jobs, shown)
  /\ SentShown(jobs, shown)
  /\ ~overlapped => Alone /\ Counted

\* The invariant contains both properties.
LEMMA InvImplies == Inv => NotificationsInv /\ SentWasShown
<1> SUFFICES ASSUME Inv PROVE NotificationsInv /\ SentWasShown
  OBVIOUS
<1>1. SentWasShown
  BY DEF Inv, SentWasShown, SentShown, ShownBy
<1>2. DuplicatesExplained
  BY DEF Inv, DuplicatesExplained, Counted
<1>3. NotificationsTypeOK
  <2>1. \A w \in Workers :
          /\ batch[w] = [docs |-> batch[w].docs, step |-> batch[w].step,
                         left |-> batch[w].left, sent |-> batch[w].sent]
          /\ batch[w].step \in {"idle", "tokens", "push"}
          /\ batch[w].left \subseteq Tokens /\ batch[w].sent \in Nat
          /\ (batch[w].step = "idle") = (Unsent(w) = {})
          /\ Unsent(w) \subseteq DOMAIN jobs
    BY DEF Inv, HeldBy, Unsent
  <2>2. Typed
    BY DEF Inv
  <2>3. batch = [w \in Workers |-> [docs |-> batch[w].docs, step |-> batch[w].step,
                                   left |-> batch[w].left, sent |-> batch[w].sent]]
    BY <2>1, <2>2 DEF Typed
  <2> QED  BY <2>1, <2>2, <2>3 DEF NotificationsTypeOK, Typed
<1> QED  BY <1>1, <1>2, <1>3 DEF NotificationsInv

-----------------------------------------------------------------------------
(* Documents *)

\* The job a batch works on is one it holds, and was due when it was read.
LEMMA OldestHeld ==
  ASSUME Inv, NEW w \in Workers, batch[w].step # "idle"
  PROVE  /\ HeldJob(w) = Oldest(batch[w]) /\ HeldJob(w) \in DOMAIN batch[w].docs
         /\ HeldJob(w) \in DOMAIN jobs /\ HeldJob(w) \in JobIds
         /\ HeldDoc(w) = batch[w].docs[HeldJob(w)] /\ HeldDoc(w) \in JobDocs
         /\ Deliverable(HeldDoc(w)) /\ HeldDoc(w).account = jobs[HeldJob(w)].account
<1>1. HeldBy(batch[w], jobs, shown) /\ Typed
  BY DEF Inv
<1>2. HeldJob(w) = Oldest(batch[w])
  BY DEF HeldJob, Oldest, Unsent
<1>3. DOMAIN jobs = 1..Len(jobs) /\ Len(jobs) \in Nat /\ DOMAIN jobs \subseteq JobIds
  BY <1>1, NotificationAssumption DEF Typed, JobIds
<1>4. DOMAIN batch[w].docs # {} /\ DOMAIN batch[w].docs \subseteq Nat
  BY <1>1, <1>3 DEF HeldBy
<1>5. Oldest(batch[w]) \in DOMAIN batch[w].docs
  BY <1>4, Earliest DEF Oldest
<1> QED  BY <1>1, <1>2, <1>3, <1>5 DEF HeldBy, HeldDoc

\* A save keeps the account, and the status unless the batch changed it.
LEMMA SavedFields ==
  ASSUME NEW doc \in JobDocs, NEW read \in JobDocs, NEW new \in JobDocs, new.account = read.account
  PROVE  /\ SavedJob(doc, read, new) \in JobDocs
         /\ SavedJob(doc, read, new).account = doc.account
         /\ new.status = read.status => SavedJob(doc, read, new).status = doc.status
         /\ new.status # read.status => SavedJob(doc, read, new).status = new.status
BY DEF SavedJob, JobDocs

\* Later documents, and later counts.
Grown(docs, later) ==
  /\ DOMAIN docs \subseteq DOMAIN later
  /\ \A j \in DOMAIN docs : later[j].account = docs[j].account

Counts == [Tokens -> [JobIds -> Nat]]
Risen(seen, later) ==
  /\ seen \in Counts /\ later \in Counts
  /\ \A t \in Tokens, j \in JobIds : seen[t][j] <= later[t][j]

\* What was shown stays shown.
LEMMA ShownLater ==
  ASSUME NEW seen, NEW later, Risen(seen, later), NEW a, NEW j \in JobIds, ShownBy(a, j, seen)
  PROVE  ShownBy(a, j, later)
<1>1. PICK t \in Tokens : Owner[t] = a /\ seen[t][j] > 0
  BY DEF ShownBy
<1>2. seen[t][j] \in Nat /\ later[t][j] \in Nat /\ seen[t][j] <= later[t][j]
  BY DEF Risen, Counts
<1> QED  BY <1>1, <1>2 DEF ShownBy

\* What a batch relies on survives jobs that are added or changed and messages that are
\* shown.
LEMMA HeldLater ==
  ASSUME NEW b, NEW docs, NEW seen, NEW docs_, NEW seen_, HeldBy(b, docs, seen),
         Grown(docs, docs_), Risen(seen, seen_), DOMAIN docs \subseteq JobIds,
         b.sent > 0 => Oldest(b) \in JobIds
  PROVE  HeldBy(b, docs_, seen_)
<1>1. b.sent > 0 => ShownBy(b.docs[Oldest(b)].account, Oldest(b), seen_)
  BY ShownLater DEF HeldBy
<1> QED  BY <1>1 DEF HeldBy, Grown

\* So does the evidence behind jobs recorded as sent, if each new record has its own.
LEMMA SentLater ==
  ASSUME Inv, NEW docs_, NEW seen_, Grown(jobs, docs_), Risen(shown, seen_),
         \A j \in DOMAIN docs_ : docs_[j].status = "sent" =>
           \/ j \in DOMAIN jobs /\ jobs[j].status = "sent"
           \/ ShownBy(docs_[j].account, j, seen_)
  PROVE  SentShown(docs_, seen_)
<1>1. DOMAIN jobs \subseteq JobIds
  BY NotificationAssumption DEF Inv, Typed, JobIds
<1>2. ASSUME NEW j \in DOMAIN docs_, docs_[j].status = "sent", j \in DOMAIN jobs,
             jobs[j].status = "sent"
      PROVE  ShownBy(docs_[j].account, j, seen_)
  <2>1. ShownBy(jobs[j].account, j, shown) /\ docs_[j].account = jobs[j].account
    BY <1>2 DEF Inv, SentShown, Grown
  <2> QED  BY <2>1, <1>1, <1>2, ShownLater
<1> QED  BY <1>2 DEF SentShown

-----------------------------------------------------------------------------
(* What a turn of one batch has to show *)

\* Only this batch changes.
Turn(w) ==
  /\ batch' = [v \in Workers |-> batch'[v]]
  /\ \A v \in Workers : v # w => batch'[v] = batch[v]

\* Jobs are numbered from 1, up to their limit.
LEMMA JobsNumbered == ASSUME Inv PROVE DOMAIN jobs = 1..Len(jobs) /\ Len(jobs) \in Nat /\ DOMAIN jobs \subseteq JobIds
BY NotificationAssumption DEF Inv, Typed, JobIds

\* A batch that does not move goes on relying on what it did.
LEMMA OthersHeld ==
  ASSUME Inv, Grown(jobs, jobs'), Risen(shown, shown'), NEW v \in Workers, batch'[v] = batch[v]
  PROVE  HeldBy(batch'[v], jobs', shown')
<1>1. HeldBy(batch[v], jobs, shown)
  BY DEF Inv
<1>2. batch[v].sent > 0 => batch[v].step # "idle"
  BY <1>1 DEF HeldBy
<1>3. batch[v].sent > 0 => Oldest(batch[v]) \in JobIds
  BY <1>2, OldestHeld
<1>4. HeldBy(batch[v], jobs', shown')
  BY <1>1, <1>3, JobsNumbered, HeldLater
<1> QED  BY <1>4

\* A step of one batch keeps the invariant if that batch and what it shows and saves do.
LEMMA TurnNext ==
  ASSUME Inv, NEW w \in Workers, Turn(w), HeldBy(batch'[w], jobs', shown'),
         Grown(jobs, jobs'), Risen(shown, shown'), SentShown(jobs', shown'),
         jobs' \in Seq(JobDocs), Len(jobs') <= JobLimit, enabled' \subseteq Accounts,
         pushTokens' \in [Tokens -> {"none", "active", "inactive"}],
         jobFaults' \in 0..JobFaults, overlapped' \in BOOLEAN,
         ~overlapped' => Alone' /\ Counted'
  PROVE  Inv'
<1>1. \A v \in Workers : HeldBy(batch'[v], jobs', shown')
  BY OthersHeld DEF Turn
<1>2. Typed'
  BY DEF Typed, Turn, Risen, Counts
<1> QED  BY <1>1, <1>2 DEF Inv

\* The batch keeps some of the jobs it holds, and writes only a job it no longer holds.
LEMMA AloneTurn ==
  ASSUME Inv, Alone, NEW w \in Workers, Turn(w),
         DOMAIN batch'[w].docs \subseteq DOMAIN batch[w].docs,
         \A j \in DOMAIN batch'[w].docs : batch'[w].docs[j] = batch[w].docs[j],
         \A j \in DOMAIN jobs : (j \in DOMAIN batch[w].docs => j \in DOMAIN batch'[w].docs) => jobs'[j] = jobs[j]
  PROVE  Alone'
<1>1. ASSUME NEW v \in Workers, NEW j \in DOMAIN batch'[v].docs
      PROVE  /\ j \in DOMAIN batch[v].docs /\ batch'[v].docs[j] = batch[v].docs[j]
             /\ j \in DOMAIN jobs
  BY DEF Turn, Inv, HeldBy
<1>2. ASSUME NEW v \in Workers, NEW j \in DOMAIN batch'[v].docs PROVE jobs'[j] = batch'[v].docs[j]
  <2>1. jobs[j] = batch[v].docs[j] /\ (j \in DOMAIN batch[w].docs => v = w)
    BY <1>1, <1>2 DEF Alone
  <2>2. jobs'[j] = jobs[j]
    BY <1>1, <1>2, <2>1
  <2> QED  BY <1>1, <1>2, <2>1, <2>2
<1>3. ASSUME NEW v \in Workers, NEW u \in Workers, NEW j \in DOMAIN batch'[v].docs,
             j \in DOMAIN batch'[u].docs
      PROVE  u = v
  BY <1>1, <1>3 DEF Alone
<1> QED  BY <1>2, <1>3 DEF Alone

\* No push in this turn, and what may have been shown is remembered.
LEMMA CountedTurn ==
  ASSUME Inv, Counted, NEW w \in Workers, Turn(w), shown' = shown, jobFaults' = jobFaults,
         \A t \in Tokens, j \in JobIds :
           Fresh(jobs', j) /\ Unpushed(batch'[w], t, j) => Fresh(jobs, j) /\ Unpushed(batch[w], t, j)
  PROVE  Counted'
<1>1. ASSUME NEW t \in Tokens, NEW j \in JobIds, Unfinished(t, j)' PROVE Unfinished(t, j)
  <2>1. Fresh(jobs', j) /\ \A v \in Workers : Unpushed(batch'[v], t, j)
    BY <1>1 DEF Unfinished
  <2>2. Fresh(jobs, j) /\ Unpushed(batch[w], t, j)
    BY <2>1
  <2>3. \A v \in Workers : v # w => Unpushed(batch[v], t, j)
    BY <2>1 DEF Turn
  <2> QED  BY <2>2, <2>3 DEF Unfinished
<1>2. ASSUME NEW t \in Tokens, NEW j \in JobIds
      PROVE  shown'[t][j] <= 1 + jobFaults' /\ (Unfinished(t, j)' => shown'[t][j] <= jobFaults')
  <2>1. shown[t][j] <= 1 + jobFaults /\ (Unfinished(t, j) => shown[t][j] <= jobFaults)
    BY DEF Counted
  <2> QED  BY <1>1, <2>1
<1> QED  BY <1>2 DEF Counted

\* Counts that do not change do not fall.
LEMMA CountsStay == ASSUME Inv PROVE Risen(shown, shown)
<1>1. shown \in Counts
  BY DEF Inv, Typed, Counts
<1>2. \A t \in Tokens, j \in JobIds : shown[t][j] <= shown[t][j]
  BY <1>1 DEF Counts
<1> QED  BY <1>1, <1>2 DEF Risen

\* Jobs that do not change are still there.
LEMMA DocsStay == \A docs : Grown(docs, docs)
BY DEF Grown

-----------------------------------------------------------------------------
(* The steps that no batch takes *)

\* A step that touches phones and accounts only keeps the invariant.
LEMMA QuietNext ==
  ASSUME Inv, UNCHANGED <<jobs, shown, batch, jobFaults, overlapped>>, enabled' \subseteq Accounts,
         pushTokens' \in [Tokens -> {"none", "active", "inactive"}]
  PROVE  Inv'
<1>1. Typed'
  BY DEF Inv, Typed
<1>2. (~overlapped => Alone /\ Counted)'
  BY DEF Inv, Alone, Counted, Unfinished
<1> QED  BY <1>1, <1>2 DEF Inv

\* Registering a phone keeps the invariant.
LEMMA RegisterNext == ASSUME Inv, NEW t \in Tokens, RegisterToken(t) PROVE Inv'
BY QuietNext DEF RegisterToken, Inv, Typed

\* Deactivating a phone keeps the invariant.
LEMMA DeactivateNext == ASSUME Inv, NEW t \in Tokens, DeactivateToken(t) PROVE Inv'
BY QuietNext DEF DeactivateToken, Inv, Typed

\* Disabling an account keeps the invariant.
LEMMA DisableNext == ASSUME Inv, NEW a \in Accounts, DisableAccount(a) PROVE Inv'
BY QuietNext DEF DisableAccount, Inv, Typed

\* The documents change, the batches and what they have shown do not.
LEMMA DocsNext ==
  ASSUME Inv, UNCHANGED <<enabled, pushTokens, shown, batch, jobFaults, overlapped>>,
         jobs' \in Seq(JobDocs), Len(jobs') <= JobLimit, Grown(jobs, jobs'),
         \A j \in DOMAIN jobs : jobs'[j].status = jobs[j].status,
         \A j \in DOMAIN jobs' : j \notin DOMAIN jobs => jobs'[j].status # "sent",
         \A j \in DOMAIN jobs : jobs[j].due => jobs'[j] = jobs[j]
  PROVE  Inv'
<1>1. Typed'
  BY DEF Inv, Typed
<1>2. \A v \in Workers : HeldBy(batch'[v], jobs', shown')
  BY CountsStay, OthersHeld
<1>3. SentShown(jobs', shown)
  BY CountsStay, SentLater
<1>4. ASSUME Alone PROVE Alone'
  <2>1. ASSUME NEW v \in Workers, NEW j \in DOMAIN batch[v].docs PROVE jobs'[j] = batch[v].docs[j]
    <3>1. HeldBy(batch[v], jobs, shown) /\ jobs[j] = batch[v].docs[j]
      BY <1>4, <2>1 DEF Inv, Alone
    <3>2. j \in DOMAIN jobs /\ jobs[j].due
      BY <2>1, <3>1 DEF HeldBy, Deliverable
    <3> QED  BY <3>1, <3>2
  <2> QED  BY <1>4, <2>1 DEF Alone
<1>5. ASSUME Counted PROVE Counted'
  <2>1. \A t \in Tokens, j \in JobIds : Unfinished(t, j)' => Unfinished(t, j)
    BY DEF Unfinished, Fresh, Grown
  <2> QED  BY <1>5, <2>1 DEF Counted
<1> QED  BY <1>1, <1>2, <1>3, <1>4, <1>5 DEF Inv

\* New jobs have not been shown and are held by no batch.
LEMMA QueueNext ==
  ASSUME Inv, NEW targets \in SUBSET Accounts, QueueNotification(targets) PROVE Inv'
<1> DEFINE reached == {a \in targets \cap enabled : Reachable(a)}
<1> DEFINE n == Cardinality(reached)
<1>1. n \in Nat /\ reached \subseteq Accounts
  <2>1. reached \subseteq Accounts
    OBVIOUS
  <2> QED  BY <2>1, NotificationAssumption, FS_Subset, FS_CardinalityType
<1>2. PICK order \in [1..n -> reached] :
        jobs' = jobs \o [i \in DOMAIN order |-> NewJob(order[i])]
  BY DEF QueueNotification
<1>3. Len(jobs) + n <= JobLimit /\ UNCHANGED <<enabled, pushTokens, shown, batch, jobFaults, overlapped>>
  BY DEF QueueNotification
<1>4. /\ \A a \in Accounts : NewJob(a) \in JobDocs /\ NewJob(a).status = "pending"
  BY NotificationAssumption DEF NewJob, JobDocs, JobStatuses
<1> HIDE DEF n, reached
<1> DEFINE added == [i \in 1..n |-> NewJob(order[i])]
<1>5. added \in Seq(JobDocs) /\ Len(added) = n /\ jobs' = jobs \o added
  <2>1. \A i \in 1..n : NewJob(order[i]) \in JobDocs
    BY <1>1, <1>4
  <2>2. DOMAIN order = 1..n
    OBVIOUS
  <2> QED  BY <1>1, <1>2, <2>1, <2>2
<1>6. \A i \in 1..n : added[i].status = "pending"
  BY <1>1, <1>4
<1> HIDE DEF added
<1>7. jobs \in Seq(JobDocs)
  BY DEF Inv, Typed
<1>8. /\ jobs' \in Seq(JobDocs) /\ Len(jobs') = Len(jobs) + n
      /\ \A j \in 1..Len(jobs) : jobs'[j] = jobs[j]
      /\ \A j \in (Len(jobs) + 1)..(Len(jobs) + n) : jobs'[j] = added[j - Len(jobs)]
  BY <1>1, <1>5, <1>7
<1>9. \A j \in DOMAIN jobs' : j \notin DOMAIN jobs => jobs'[j].status # "sent"
  <2>1. ASSUME NEW j \in DOMAIN jobs', j \notin DOMAIN jobs PROVE jobs'[j].status # "sent"
    <3>1. j \in (Len(jobs) + 1)..(Len(jobs) + n) /\ j - Len(jobs) \in 1..n
      BY <1>1, <1>7, <1>8, <2>1
    <3> QED  BY <1>6, <1>8, <3>1
  <2> QED  BY <2>1
<1>10. Grown(jobs, jobs') /\ Len(jobs') <= JobLimit /\ DOMAIN jobs = 1..Len(jobs)
  <2>1. DOMAIN jobs = 1..Len(jobs) /\ DOMAIN jobs' = 1..Len(jobs') /\ Len(jobs) \in Nat
    BY <1>7, <1>8
  <2>2. DOMAIN jobs \subseteq DOMAIN jobs'
    BY <1>1, <1>8, <2>1
  <2>3. Len(jobs') <= JobLimit
    BY <1>3, <1>8
  <2>4. \A j \in DOMAIN jobs : jobs'[j] = jobs[j]
    BY <1>8, <2>1
  <2> QED  BY <2>1, <2>2, <2>3, <2>4 DEF Grown
<1> QED  BY <1>3, <1>8, <1>9, <1>10, DocsNext

\* A failed job that is due again is not one recorded as sent.
LEMMA RetryDueNext == ASSUME Inv, NEW j \in JobIds, RetryDue(j) PROVE Inv'
<1>1. jobs \in Seq(JobDocs) /\ Len(jobs) <= JobLimit
  BY DEF Inv, Typed
<1>2. /\ j \in DOMAIN jobs /\ ~jobs[j].due /\ jobs' = [jobs EXCEPT ![j].due = TRUE]
      /\ UNCHANGED <<enabled, pushTokens, shown, batch, jobFaults, overlapped>>
  BY DEF RetryDue
<1>3. jobs[j] \in JobDocs
  BY <1>1, <1>2
<1>4. [jobs[j] EXCEPT !.due = TRUE] \in JobDocs
      /\ [jobs[j] EXCEPT !.due = TRUE].status = jobs[j].status
      /\ [jobs[j] EXCEPT !.due = TRUE].account = jobs[j].account
  BY <1>3 DEF JobDocs
<1>5. PICK doc \in JobDocs : /\ doc = [jobs[j] EXCEPT !.due = TRUE] /\ jobs' = [jobs EXCEPT ![j] = doc]
                             /\ doc.status = jobs[j].status /\ doc.account = jobs[j].account
  BY <1>2, <1>4
<1>6. /\ jobs' \in Seq(JobDocs) /\ Len(jobs') = Len(jobs) /\ DOMAIN jobs' = DOMAIN jobs
      /\ \A k \in DOMAIN jobs : k # j => jobs'[k] = jobs[k]
      /\ jobs'[j].status = jobs[j].status /\ jobs'[j].account = jobs[j].account
  <2>1. j \in 1..Len(jobs) /\ DOMAIN jobs = 1..Len(jobs) /\ Len(jobs) \in Nat
    BY <1>1, <1>2
  <2>2. jobs' = [jobs EXCEPT ![j] = doc] /\ doc \in JobDocs
    BY <1>5
  <2>3. jobs' \in Seq(JobDocs) /\ Len(jobs') = Len(jobs)
    BY <1>1, <2>1, <2>2
  <2>4. DOMAIN jobs' = DOMAIN jobs /\ jobs'[j] = doc /\ \A k \in DOMAIN jobs : k # j => jobs'[k] = jobs[k]
    BY <2>1, <2>2
  <2> QED  BY <1>5, <2>3, <2>4
<1>7. Grown(jobs, jobs')
  BY <1>6 DEF Grown
<1> QED  BY <1>1, <1>2, <1>6, <1>7, DocsNext

-----------------------------------------------------------------------------
(* The steps of a batch *)

\* What a batch is made of.
LEMMA ShapeOf ==
  ASSUME Inv, NEW w \in Workers
  PROVE  /\ HeldBy(batch[w], jobs, shown) /\ batch = [v \in Workers |-> batch[v]]
         /\ batch[w] = [docs |-> batch[w].docs, step |-> batch[w].step,
                        left |-> batch[w].left, sent |-> batch[w].sent]
BY DEF Inv, Typed, HeldBy

\* Replacing the entry of one batch is a turn of it.
LEMMA TurnOf ==
  ASSUME Inv, NEW w \in Workers, NEW r, batch' = [batch EXCEPT ![w] = r]
  PROVE  Turn(w) /\ batch'[w] = r
BY ShapeOf DEF Turn

\* A batch takes jobs as they are, or the overlap is recorded.
LEMMA SelectNext == ASSUME Inv, NEW w \in Workers, SelectJobs(w) PROVE Inv'
<1> DEFINE due_ == {j \in DOMAIN jobs : Deliverable(jobs[j])}
<1>1. PICK due : due = due_
  OBVIOUS
<1>2. /\ batch[w].step = "idle" /\ due # {}
      /\ batch' = [batch EXCEPT ![w] = [docs |-> Copies(due), step |-> "tokens", left |-> {}, sent |-> 0]]
      /\ overlapped' = (overlapped \/ \E v \in Workers : Unsent(v) \cap due # {})
      /\ UNCHANGED <<enabled, pushTokens, jobs, shown, jobFaults>>
  BY <1>1 DEF SelectJobs
<1>3. /\ Turn(w) /\ batch'[w] = [docs |-> Copies(due), step |-> "tokens", left |-> {}, sent |-> 0]
  BY <1>2, TurnOf
<1>4. /\ DOMAIN Copies(due) = due /\ \A j \in due : Copies(due)[j] = jobs[j]
      /\ \A j \in due : j \in DOMAIN jobs /\ Deliverable(jobs[j]) /\ jobs[j] \in JobDocs
  BY <1>1 DEF Copies, Inv, Typed
<1>5. HeldBy(batch'[w], jobs', shown')
  BY <1>2, <1>3, <1>4 DEF HeldBy
<1>6. batch[w].sent = 0 /\ DOMAIN batch[w].docs = {}
  BY <1>2, ShapeOf DEF HeldBy
<1>7. ASSUME ~overlapped' PROVE Alone'
  <2>1. Alone /\ \A v \in Workers : DOMAIN batch[v].docs \cap due = {}
    BY <1>2, <1>7 DEF Inv, Unsent, Typed
  <2>2. \A v \in Workers : v # w => batch'[v] = batch[v]
    BY <1>3 DEF Turn
  <2>3. DOMAIN batch'[w].docs = due /\ \A j \in due : batch'[w].docs[j] = jobs[j]
    BY <1>3, <1>4
  <2>4. \A v \in Workers : \A j \in DOMAIN batch'[v].docs : jobs[j] = batch'[v].docs[j]
    BY <2>1, <2>2, <2>3 DEF Alone
  <2>5. \A u, v \in Workers : \A j \in DOMAIN batch'[u].docs : j \in DOMAIN batch'[v].docs => u = v
    BY <2>1, <2>2, <2>3 DEF Alone
  <2> QED  BY <1>2, <2>4, <2>5 DEF Alone
<1>8. ASSUME ~overlapped' PROVE Counted'
  <2>1. Counted
    BY <1>2, <1>8 DEF Inv, Typed
  <2>2. \A t, j : Unpushed(batch[w], t, j)
    BY <1>6 DEF Unpushed
  <2> QED  BY <1>2, <1>3, <2>1, <2>2, CountedTurn
<1>9. Risen(shown, shown') /\ Grown(jobs, jobs') /\ SentShown(jobs', shown')
  BY <1>2, CountsStay, DocsStay DEF Inv
<1>10. overlapped' \in BOOLEAN
  BY <1>2
<1> QED  BY <1>2, <1>3, <1>5, <1>7, <1>8, <1>9, <1>10, TurnNext DEF Inv, Typed

\* A job whose status is replaced.
LEMMA Marked ==
  ASSUME NEW doc \in JobDocs, NEW status \in JobStatuses
  PROVE  /\ [doc EXCEPT !.status = status] \in JobDocs
         /\ [doc EXCEPT !.status = status].account = doc.account
         /\ [doc EXCEPT !.status = status].status = status
BY DEF JobDocs

\* A job whose attempt failed.
LEMMA Retried ==
  ASSUME NEW doc \in JobDocs, doc.retryCount < JobRetries
  PROVE  LET retried == [doc EXCEPT !.status = "failed", !.retryCount = @ + 1, !.due = FALSE]
         IN  retried \in JobDocs /\ retried.account = doc.account /\ retried.status = "failed"
<1>1. doc.retryCount + 1 \in 0..JobRetries
  BY NotificationAssumption DEF JobDocs
<1> QED  BY <1>1 DEF JobDocs, JobStatuses

\* The batch without the job it has finished.
LEMMA NextHeld ==
  ASSUME Inv, NEW w \in Workers, batch[w].step # "idle"
  PROVE  /\ DOMAIN NextJob(w).docs = DOMAIN batch[w].docs \ {HeldJob(w)}
         /\ \A j \in DOMAIN NextJob(w).docs : NextJob(w).docs[j] = batch[w].docs[j]
         /\ NextJob(w).left = {} /\ NextJob(w).sent = 0
         /\ HeldBy(NextJob(w), jobs, shown)
<1>1. HeldBy(batch[w], jobs, shown)
  BY ShapeOf
<1>2. /\ DOMAIN NextJob(w).docs = DOMAIN batch[w].docs \ {HeldJob(w)}
      /\ \A j \in DOMAIN NextJob(w).docs : NextJob(w).docs[j] = batch[w].docs[j]
      /\ NextJob(w).left = {} /\ NextJob(w).sent = 0 /\ NextJob(w).step \in {"idle", "tokens"}
      /\ NextJob(w).step = "idle" <=> DOMAIN NextJob(w).docs = {}
      /\ NextJob(w) = [docs |-> NextJob(w).docs, step |-> NextJob(w).step,
                       left |-> NextJob(w).left, sent |-> NextJob(w).sent]
  BY DEF NextJob, Unsent
<1>3. HeldBy(NextJob(w), jobs, shown)
  BY <1>1, <1>2 DEF HeldBy
<1> QED  BY <1>2, <1>3

\* A batch saves what has become of a job, and goes on to the next.
LEMMA SaveNext ==
  ASSUME Inv, NEW w \in Workers, NEW new \in JobDocs, batch[w].step # "idle", SaveJob(w, new),
         UNCHANGED <<enabled, pushTokens, shown, jobFaults, overlapped>>,
         new.account = HeldDoc(w).account, new.status = "sent" <=> batch[w].sent > 0
  PROVE  Inv'
<1> DEFINE h == HeldJob(w)
<1>1. /\ h = Oldest(batch[w]) /\ h \in DOMAIN batch[w].docs /\ h \in DOMAIN jobs /\ h \in JobIds
      /\ HeldDoc(w) = batch[w].docs[h] /\ HeldDoc(w) \in JobDocs /\ Deliverable(HeldDoc(w))
      /\ HeldDoc(w).account = jobs[h].account
  BY OldestHeld
<1>2. jobs \in Seq(JobDocs) /\ Len(jobs) <= JobLimit /\ jobs[h] \in JobDocs
  BY <1>1 DEF Inv, Typed
<1>3. PICK doc \in JobDocs : /\ doc = SavedJob(jobs[h], HeldDoc(w), new)
                             /\ doc.account = jobs[h].account
                             /\ new.status = HeldDoc(w).status => doc.status = jobs[h].status
                             /\ new.status # HeldDoc(w).status => doc.status = new.status
  BY <1>1, <1>2, SavedFields
<1>4. jobs' = [jobs EXCEPT ![h] = doc]
  <2>1. jobs' = [jobs EXCEPT ![h] = SavedJob(jobs[h], HeldDoc(w), new)]
    BY DEF SaveJob
  <2> QED  BY <1>3, <2>1
<1>5. Turn(w) /\ batch'[w] = NextJob(w)
  <2>1. PICK r : r = NextJob(w)
    OBVIOUS
  <2>2. batch' = [batch EXCEPT ![w] = r]
    BY <2>1 DEF SaveJob
  <2> QED  BY <2>1, <2>2, TurnOf
<1> HIDE DEF h
<1>6. /\ jobs' \in Seq(JobDocs) /\ Len(jobs') <= JobLimit
      /\ DOMAIN jobs' = DOMAIN jobs /\ jobs'[h] = doc
      /\ \A k \in DOMAIN jobs : k # h => jobs'[k] = jobs[k]
  <2>1. h \in 1..Len(jobs) /\ DOMAIN jobs = 1..Len(jobs) /\ Len(jobs) \in Nat
    BY <1>1, <1>2
  <2>2. jobs' \in Seq(JobDocs) /\ Len(jobs') = Len(jobs)
    BY <1>2, <1>4, <2>1
  <2> QED  BY <1>2, <1>4, <2>1, <2>2
<1>7. Grown(jobs, jobs') /\ Risen(shown, shown')
  BY <1>3, <1>6, CountsStay DEF Grown
<1>8. HeldBy(batch'[w], jobs', shown')
  <2>1. HeldBy(NextJob(w), jobs, shown) /\ NextJob(w).sent = 0
    BY NextHeld
  <2> QED  BY <1>5, <1>7, <2>1, JobsNumbered, HeldLater
<1>9. SentShown(jobs', shown')
  <2>1. doc.status = "sent" => jobs[h].status = "sent" \/ batch[w].sent > 0
    BY <1>3
  <2>2. batch[w].sent > 0 => ShownBy(doc.account, h, shown)
    BY <1>1, <1>3, ShapeOf DEF HeldBy
  <2>3. \A j \in DOMAIN jobs' : jobs'[j].status = "sent" =>
           \/ j \in DOMAIN jobs /\ jobs[j].status = "sent"
           \/ ShownBy(jobs'[j].account, j, shown)
    BY <1>1, <1>6, <2>1, <2>2
  <2> QED  BY <1>7, <2>3, SentLater
<1>10. ASSUME ~overlapped PROVE Alone'
  <2>1. Alone
    BY <1>10 DEF Inv
  <2>2. /\ DOMAIN batch'[w].docs = DOMAIN batch[w].docs \ {h}
        /\ \A j \in DOMAIN batch'[w].docs : batch'[w].docs[j] = batch[w].docs[j]
    BY <1>5, NextHeld DEF h
  <2>3. \A j \in DOMAIN jobs : (j \in DOMAIN batch[w].docs => j \in DOMAIN batch'[w].docs) => jobs'[j] = jobs[j]
    BY <1>1, <1>6, <2>2
  <2> QED  BY <1>5, <2>1, <2>2, <2>3, AloneTurn
<1>11. ASSUME ~overlapped PROVE Counted'
  <2>1. Alone /\ Counted
    BY <1>11 DEF Inv
  <2>2. jobs[h].status # "sent" /\ HeldDoc(w).status # "sent"
    BY <1>1, <2>1 DEF Alone, Deliverable
  <2>3. ASSUME NEW t, NEW j, Fresh(jobs', j) PROVE Fresh(jobs, j) /\ Unpushed(batch[w], t, j)
    <3>1. CASE j = h
      <4>1. doc.status # "sent"
        BY <1>1, <1>6, <2>3, <3>1 DEF Fresh
      <4>2. ~(batch[w].sent > 0)
        BY <1>3, <2>2, <4>1
      <4> QED  BY <2>2, <3>1, <4>2 DEF Fresh, Unpushed
    <3>2. CASE j # h
      BY <1>1, <1>6, <2>3, <3>2 DEF Fresh, Unpushed
    <3> QED  BY <3>1, <3>2
  <2> QED  BY <1>5, <2>1, <2>3, CountedTurn
<1>12. enabled' \subseteq Accounts /\ pushTokens' \in [Tokens -> {"none", "active", "inactive"}]
       /\ jobFaults' \in 0..JobFaults /\ overlapped' \in BOOLEAN /\ overlapped' = overlapped
  BY DEF Inv, Typed
<1> QED  BY <1>5, <1>6, <1>7, <1>8, <1>9, <1>10, <1>11, <1>12, TurnNext

\* Reading the phones of a job pushes nothing yet.
LEMMA TokensNext == ASSUME Inv, NEW w \in Workers, ReadTokens(w) PROVE Inv'
<1>1. PICK active : active = {t \in Tokens : Owner[t] = HeldDoc(w).account /\ pushTokens[t] = "active"}
  OBVIOUS
<1>2. batch[w].step = "tokens" /\ UNCHANGED <<enabled, pushTokens, shown, jobFaults, overlapped>>
  BY DEF ReadTokens
<1>3. HeldBy(batch[w], jobs, shown) /\ batch[w].sent = 0
  BY <1>2, ShapeOf DEF HeldBy
<1>4. HeldDoc(w) \in JobDocs /\ HeldJob(w) = Oldest(batch[w]) /\ HeldDoc(w) = batch[w].docs[HeldJob(w)]
  BY <1>2, OldestHeld
<1>5. CASE active = {}
  <2>1. PICK new \in JobDocs : /\ new = [HeldDoc(w) EXCEPT !.status = "skipped"]
                               /\ new.account = HeldDoc(w).account /\ new.status = "skipped"
    <3>1. "skipped" \in JobStatuses
      BY DEF JobStatuses
    <3> QED  BY <1>4, <3>1, Marked
  <2>2. SaveJob(w, new)
    BY <1>1, <1>5, <2>1 DEF ReadTokens
  <2>3. new.status # "sent" /\ ~(batch[w].sent > 0) /\ batch[w].step # "idle"
    BY <1>2, <1>3, <2>1
  <2> QED  BY <1>2, <2>1, <2>2, <2>3, SaveNext
<1>6. CASE active # {}
  <2>1. batch' = [batch EXCEPT ![w] = [batch[w] EXCEPT !.left = active, !.step = "push"]] /\ UNCHANGED jobs
    BY <1>1, <1>6 DEF ReadTokens
  <2>2. PICK r : r = [docs |-> batch[w].docs, step |-> "push", left |-> active, sent |-> 0]
    OBVIOUS
  <2>3. batch' = [batch EXCEPT ![w] = r]
    <3>1. PICK docs, step, left :
            batch[w] = [docs |-> docs, step |-> step, left |-> left, sent |-> 0] /\ docs = batch[w].docs
      BY <1>3, ShapeOf
    <3>2. [batch[w] EXCEPT !.left = active, !.step = "push"] =
            [docs |-> docs, step |-> "push", left |-> active, sent |-> 0]
      <4>1. PICK b : b = batch[w] /\ b = [docs |-> docs, step |-> step, left |-> left, sent |-> 0]
        BY <3>1
      <4>2. [b EXCEPT !.left = active, !.step = "push"] =
              [docs |-> docs, step |-> "push", left |-> active, sent |-> 0]
        <5>1. PICK c : c = [b EXCEPT !.left = active]
          OBVIOUS
        <5>2. c = [docs |-> docs, step |-> step, left |-> active, sent |-> 0]
          BY <4>1, <5>1
        <5>3. [c EXCEPT !.step = "push"] = [docs |-> docs, step |-> "push", left |-> active, sent |-> 0]
          BY <5>2
        <5>4. [b EXCEPT !.left = active, !.step = "push"] = [c EXCEPT !.step = "push"]
          BY <4>1, <5>1, <5>2
        <5> QED  BY <5>3, <5>4
      <4> QED  BY <4>1, <4>2
    <3> QED  BY <2>1, <2>2, <3>1, <3>2
  <2>4. Turn(w) /\ batch'[w] = r
    BY <2>3, TurnOf
  <2>5. HeldBy(r, jobs, shown)
    <3>1. Oldest(r) = Oldest(batch[w])
      BY <2>2 DEF Oldest
    <3>2. \A t \in active : t \in Tokens /\ Owner[t] = r.docs[Oldest(r)].account
      BY <1>1, <1>4, <2>2, <3>1
    <3> QED  BY <1>2, <1>3, <2>2, <3>2 DEF HeldBy
  <2>6. ASSUME Alone PROVE Alone'
    <3>1. batch'[w].docs = batch[w].docs
      BY <2>2, <2>4
    <3> QED  BY <2>1, <2>4, <2>6, <3>1, AloneTurn
  <2>7. ASSUME Counted PROVE Counted'
    <3>1. \A t, j : Unpushed(batch[w], t, j)
      BY <1>3 DEF Unpushed
    <3> QED  BY <1>2, <2>1, <2>4, <2>7, <3>1, CountedTurn
  <2>8. Risen(shown, shown') /\ Grown(jobs, jobs') /\ SentShown(jobs', shown') /\ HeldBy(batch'[w], jobs', shown')
    BY <1>2, <2>1, <2>4, <2>5, CountsStay, DocsStay DEF Inv
  <2> QED  BY <1>2, <2>1, <2>4, <2>6, <2>7, <2>8, TurnNext DEF Inv, Typed
<1> QED  BY <1>5, <1>6

\* A result is saved as sent only with an accepted push behind it.
LEMMA ResultNext == ASSUME Inv, NEW w \in Workers, SaveResult(w) PROVE Inv'
<1>1. /\ batch[w].step = "push" /\ UNCHANGED <<enabled, pushTokens, shown, jobFaults, overlapped>>
      /\ SaveJob(w, IF AnySent(w)
                     THEN [HeldDoc(w) EXCEPT !.status = "sent"]
                     ELSE [HeldDoc(w) EXCEPT !.status = "failed", !.retryCount = @ + 1, !.due = FALSE])
  BY DEF SaveResult
<1>2. HeldDoc(w) \in JobDocs /\ Deliverable(HeldDoc(w))
  BY <1>1, OldestHeld
<1>3. CASE AnySent(w)
  <2>1. PICK new \in JobDocs : /\ new = [HeldDoc(w) EXCEPT !.status = "sent"]
                               /\ new.account = HeldDoc(w).account /\ new.status = "sent"
    <3>1. "sent" \in JobStatuses
      BY DEF JobStatuses
    <3> QED  BY <1>2, <3>1, Marked
  <2> QED  BY <1>1, <1>3, <2>1, SaveNext DEF AnySent
<1>4. CASE ~AnySent(w)
  <2>1. HeldDoc(w).retryCount < JobRetries
    BY <1>2 DEF Deliverable
  <2>2. PICK new \in JobDocs :
          /\ new = [HeldDoc(w) EXCEPT !.status = "failed", !.retryCount = @ + 1, !.due = FALSE]
          /\ new.account = HeldDoc(w).account /\ new.status = "failed"
    BY <1>2, <2>1, Retried
  <2> QED  BY <1>1, <1>4, <2>2, SaveNext DEF AnySent
<1> QED  BY <1>3, <1>4

\* A batch that dies is counted as a fault and holds nothing.
LEMMA DiesNext == ASSUME Inv, NEW w \in Workers, BatchDies(w) PROVE Inv'
<1>1. /\ batch' = [batch EXCEPT ![w] = NoBatch] /\ jobFaults < JobFaults /\ jobFaults' = jobFaults + 1
      /\ UNCHANGED <<enabled, pushTokens, jobs, shown, overlapped>>
  BY DEF BatchDies
<1>2. Turn(w) /\ batch'[w] = NoBatch
  BY <1>1, TurnOf
<1>3. HeldBy(NoBatch, jobs, shown) /\ DOMAIN NoBatch.docs = {}
  BY DEF HeldBy, NoBatch
<1>4. jobFaults \in 0..JobFaults /\ shown \in Counts
  BY DEF Inv, Typed, Counts
<1>5. ASSUME Alone PROVE Alone'
  BY <1>1, <1>2, <1>3, <1>5, AloneTurn DEF Turn, Alone
<1>6. ASSUME Counted PROVE Counted'
  <2>1. ASSUME NEW t \in Tokens, NEW j \in JobIds
        PROVE  shown'[t][j] <= 1 + jobFaults' /\ (Unfinished(t, j)' => shown'[t][j] <= jobFaults')
    <3>1. shown[t][j] \in Nat /\ shown[t][j] <= 1 + jobFaults
      BY <1>4, <1>6 DEF Counted, Counts
    <3> QED  BY <1>1, <1>4, <3>1
  <2> QED  BY <2>1 DEF Counted
<1>7. Risen(shown, shown') /\ Grown(jobs, jobs') /\ SentShown(jobs', shown') /\ HeldBy(batch'[w], jobs', shown')
  BY <1>1, <1>2, <1>3, CountsStay, DocsStay DEF Inv
<1>8. jobFaults' \in 0..JobFaults
  BY <1>1, <1>4, NotificationAssumption
<1> QED  BY <1>1, <1>2, <1>5, <1>6, <1>7, <1>8, TurnNext DEF Inv, Typed

\* A phone answers: it is crossed off, and counted when it accepted.
LEMMA AnswerNext ==
  ASSUME Inv, NEW w \in Workers, NEW t \in batch[w].left, NEW sent \in Nat,
         batch' = [batch EXCEPT ![w] =
                     [docs |-> batch[w].docs, step |-> batch[w].step, left |-> batch[w].left \ {t}, sent |-> sent]],
         sent = batch[w].sent \/ (sent = batch[w].sent + 1 /\ shown'[t][HeldJob(w)] > 0),
         Risen(shown, shown'), UNCHANGED <<enabled, jobs, overlapped>>,
         pushTokens' \in [Tokens -> {"none", "active", "inactive"}], jobFaults' \in 0..JobFaults,
         ~overlapped /\ Alone /\ Counted => Counted'
  PROVE  Inv'
<1>1. PICK r : r = [docs |-> batch[w].docs, step |-> batch[w].step, left |-> batch[w].left \ {t}, sent |-> sent]
  OBVIOUS
<1>2. Turn(w) /\ batch'[w] = r
  BY <1>1, TurnOf
<1>3. /\ HeldBy(batch[w], jobs, shown) /\ batch[w].step = "push" /\ batch[w].step # "idle"
      /\ t \in Tokens /\ Owner[t] = batch[w].docs[Oldest(batch[w])].account
  BY ShapeOf DEF HeldBy
<1>4. HeldJob(w) = Oldest(batch[w]) /\ HeldJob(w) \in JobIds
  BY <1>3, OldestHeld
<1>5. HeldBy(r, jobs, shown')
  <2>1. Oldest(r) = Oldest(batch[w]) /\ r.docs = batch[w].docs
    BY <1>1 DEF Oldest
  <2>2. batch[w].sent > 0 => ShownBy(batch[w].docs[Oldest(batch[w])].account, Oldest(batch[w]), shown')
    BY <1>3, <1>4, ShownLater DEF HeldBy
  <2>3. sent = batch[w].sent + 1 /\ shown'[t][HeldJob(w)] > 0 =>
          ShownBy(batch[w].docs[Oldest(batch[w])].account, Oldest(batch[w]), shown')
    BY <1>3, <1>4 DEF ShownBy
  <2>4. r.sent > 0 => ShownBy(r.docs[Oldest(r)].account, Oldest(r), shown')
    BY <1>1, <2>1, <2>2, <2>3
  <2>5. \A u \in r.left : u \in Tokens /\ Owner[u] = r.docs[Oldest(r)].account
    BY <1>1, <1>3, <2>1 DEF HeldBy
  <2>6. /\ r = [docs |-> r.docs, step |-> r.step, left |-> r.left, sent |-> r.sent]
        /\ r.step = "push" /\ r.sent \in Nat
    BY <1>1, <1>3
  <2> QED  BY <1>3, <2>1, <2>4, <2>5, <2>6 DEF HeldBy
<1>6. ASSUME Alone PROVE Alone'
  <2>1. batch'[w].docs = batch[w].docs
    BY <1>1, <1>2
  <2> QED  BY <1>2, <1>6, <2>1, AloneTurn
<1>7. Grown(jobs, jobs') /\ HeldBy(batch'[w], jobs', shown')
  BY <1>2, <1>5, DocsStay
<1>8. SentShown(jobs', shown')
  BY <1>7, SentLater
<1>9. ~overlapped' => Alone' /\ Counted'
  BY <1>6 DEF Inv
<1> QED  BY <1>2, <1>7, <1>8, <1>9, TurnNext DEF Inv, Typed

\* What a batch has in hand when it pushes.
LEMMA PushTyped ==
  ASSUME Inv, NEW w \in Workers, NEW t \in batch[w].left
  PROVE  /\ t \in Tokens /\ HeldJob(w) \in JobIds /\ batch[w].sent \in Nat /\ batch[w].step # "idle"
         /\ shown \in Counts /\ jobFaults \in 0..JobFaults
         /\ pushTokens \in [Tokens -> {"none", "active", "inactive"}]
         /\ HeldJob(w) = Oldest(batch[w]) /\ HeldJob(w) \in DOMAIN batch[w].docs
<1>1. t \in Tokens /\ batch[w].step # "idle" /\ batch[w].sent \in Nat
  BY ShapeOf DEF HeldBy
<1>2. shown \in Counts /\ jobFaults \in 0..JobFaults
      /\ pushTokens \in [Tokens -> {"none", "active", "inactive"}]
  BY DEF Inv, Typed, Counts
<1> QED  BY <1>1, <1>2, OldestHeld

\* A delivery shows one job on one phone once more.
LEMMA DeliveredNext ==
  ASSUME NEW w, NEW t \in Tokens, HeldJob(w) \in JobIds, shown \in Counts, Delivered(w, t)
  PROVE  /\ Risen(shown, shown')
         /\ shown'[t][HeldJob(w)] = shown[t][HeldJob(w)] + 1 /\ shown[t][HeldJob(w)] \in Nat
         /\ \A u \in Tokens, j \in JobIds : (u # t \/ j # HeldJob(w)) => shown'[u][j] = shown[u][j]
<1>1. PICK h \in JobIds : h = HeldJob(w)
  OBVIOUS
<1>2. shown' = [shown EXCEPT ![t][h] = @ + 1]
  BY <1>1 DEF Delivered
<1>3. shown[t] \in [JobIds -> Nat] /\ shown[t][h] + 1 \in Nat
  BY DEF Counts
<1>4. PICK line \in [JobIds -> Nat] : line = [shown[t] EXCEPT ![h] = shown[t][h] + 1]
  BY <1>3
<1>5. shown' = [shown EXCEPT ![t] = line]
  BY <1>2, <1>4
<1>6. /\ line[h] = shown[t][h] + 1 /\ shown[t][h] \in Nat
      /\ \A j \in JobIds : j # h => line[j] = shown[t][j]
  BY <1>3, <1>4
<1>7. /\ shown' \in Counts /\ shown'[t] = line
      /\ \A u \in Tokens : u # t => shown'[u] = shown[u]
  BY <1>5 DEF Counts
<1>8. \A u \in Tokens, j \in JobIds : (u # t \/ j # h) => shown'[u][j] = shown[u][j]
  BY <1>6, <1>7
<1>9. \A u \in Tokens, j \in JobIds : shown[u][j] <= shown'[u][j]
  <2>1. ASSUME NEW u \in Tokens, NEW j \in JobIds PROVE shown[u][j] <= shown'[u][j]
    <3>1. shown[u][j] \in Nat
      BY DEF Counts
    <3> QED  BY <1>6, <1>7, <1>8, <3>1
  <2> QED  BY <2>1
<1> QED  BY <1>1, <1>6, <1>7, <1>8, <1>9 DEF Risen

\* A token that is crossed off, with what it counts.
LEMMA Crossing ==
  ASSUME Inv, NEW w \in Workers, NEW t, NEW n \in Nat
  PROVE  CrossedOff(batch[w], t, n) =
           [docs |-> batch[w].docs, step |-> batch[w].step,
            left |-> batch[w].left \ {t}, sent |-> batch[w].sent + n]
<1>1. PICK b, docs, step, left, sent :
        /\ b = batch[w] /\ b = [docs |-> docs, step |-> step, left |-> left, sent |-> sent]
        /\ docs = batch[w].docs /\ step = batch[w].step /\ left = batch[w].left /\ sent = batch[w].sent
  BY ShapeOf
<1>2. PICK c : c = [b EXCEPT !.left = left \ {t}]
  OBVIOUS
<1>3. c = [docs |-> docs, step |-> step, left |-> left \ {t}, sent |-> sent]
  BY <1>1, <1>2
<1>4. [c EXCEPT !.sent = sent + n] = [docs |-> docs, step |-> step, left |-> left \ {t}, sent |-> sent + n]
  BY <1>3
<1>5. [b EXCEPT !.left = @ \ {t}, !.sent = @ + n] = [c EXCEPT !.sent = sent + n]
  BY <1>1, <1>2, <1>3
<1> QED  BY <1>1, <1>3, <1>4, <1>5 DEF CrossedOff

\* Nobody knows yet whether a phone that is still to push to has shown the job.
LEMMA ToPush ==
  ASSUME Inv, Alone, NEW w \in Workers, NEW t \in batch[w].left PROVE Unfinished(t, HeldJob(w))
<1>1. HeldJob(w) = Oldest(batch[w]) /\ HeldJob(w) \in DOMAIN batch[w].docs
  BY PushTyped
<1>2. PICK h : h = HeldJob(w)
  OBVIOUS
<1>3. jobs[h] = batch[w].docs[h] /\ Deliverable(batch[w].docs[h])
  <2>1. h \in DOMAIN batch[w].docs /\ HeldBy(batch[w], jobs, shown)
    BY <1>1, <1>2, ShapeOf
  <2>2. Deliverable(batch[w].docs[h])
    BY <2>1 DEF HeldBy
  <2> QED  BY <2>1, <2>2 DEF Alone
<1>4. Fresh(jobs, h)
  BY <1>3 DEF Fresh, Deliverable
<1>5. ASSUME NEW v \in Workers PROVE Unpushed(batch[v], t, h)
  <2>1. CASE v = w
    BY <2>1 DEF Unpushed
  <2>2. CASE v # w
    <3>1. SUFFICES ASSUME batch[v].sent > 0, Oldest(batch[v]) = h PROVE FALSE
      BY DEF Unpushed
    <3>2. batch[v].step # "idle"
      <4>1. HeldBy(batch[v], jobs, shown)
        BY ShapeOf
      <4>2. ~(batch[v].sent = 0)
        BY <3>1
      <4> QED  BY <4>1, <4>2 DEF HeldBy
    <3>3. h \in DOMAIN batch[v].docs
      BY <3>1, <3>2, OldestHeld
    <3> QED  BY <1>1, <1>2, <2>2, <3>3 DEF Alone
  <2> QED  BY <2>1, <2>2
<1> QED  BY <1>2, <1>4, <1>5 DEF Unfinished

\* An accepted push is counted and was shown.
LEMMA AcceptedNext ==
  ASSUME Inv, NEW w \in Workers, NEW t \in batch[w].left, PushAccepted(w, t) PROVE Inv'
<1>1. /\ Delivered(w, t) /\ UNCHANGED <<enabled, pushTokens, jobs, jobFaults, overlapped>>
      /\ batch' = [batch EXCEPT ![w] = [docs |-> batch[w].docs, step |-> batch[w].step,
                                       left |-> batch[w].left \ {t}, sent |-> batch[w].sent + 1]]
  BY Crossing DEF PushAccepted
<1>2. /\ t \in Tokens /\ HeldJob(w) \in JobIds /\ batch[w].sent \in Nat /\ batch[w].step # "idle"
      /\ shown \in Counts /\ jobFaults \in 0..JobFaults
      /\ pushTokens \in [Tokens -> {"none", "active", "inactive"}]
      /\ HeldJob(w) = Oldest(batch[w]) /\ HeldJob(w) \in DOMAIN batch[w].docs
  BY PushTyped
<1>3. PICK h \in JobIds : h = HeldJob(w)
  BY <1>2
<1>4. /\ Risen(shown, shown') /\ shown'[t][h] = shown[t][h] + 1 /\ shown[t][h] \in Nat
      /\ \A u \in Tokens, j \in JobIds : (u # t \/ j # h) => shown'[u][j] = shown[u][j]
  BY <1>1, <1>2, <1>3, DeliveredNext
<1>5. shown'[t][h] > 0
  BY <1>4
<1>6. ASSUME ~overlapped, Alone, Counted PROVE Counted'
  <2>1. Unfinished(t, h)
    BY <1>3, <1>6, ToPush
  <2>2. Turn(w) /\ batch'[w] = [docs |-> batch[w].docs, step |-> batch[w].step,
                                left |-> batch[w].left \ {t}, sent |-> batch[w].sent + 1]
    <3>1. PICK r : r = [docs |-> batch[w].docs, step |-> batch[w].step,
                        left |-> batch[w].left \ {t}, sent |-> batch[w].sent + 1]
      OBVIOUS
    <3> QED  BY <1>1, <3>1, TurnOf
  <2>3. ASSUME NEW u \in Tokens, NEW j \in JobIds
        PROVE  shown'[u][j] <= 1 + jobFaults' /\ (Unfinished(u, j)' => shown'[u][j] <= jobFaults')
    <3>1. CASE u = t /\ j = h
      <4>1. shown[t][h] <= jobFaults
        BY <1>2, <1>6, <2>1 DEF Counted
      <4>2. ~Unfinished(u, j)'
        <5>1. Oldest(batch'[w]) = h /\ batch'[w].sent > 0 /\ t \notin batch'[w].left
          BY <1>2, <1>3, <2>2 DEF Oldest
        <5> QED  BY <3>1, <5>1 DEF Unfinished, Unpushed
      <4> QED  BY <1>1, <1>2, <1>4, <3>1, <4>1, <4>2
    <3>2. CASE ~(u = t /\ j = h)
      <4>1. shown'[u][j] = shown[u][j] /\ jobFaults' = jobFaults
        BY <1>1, <1>4, <3>2
      <4>2. Unfinished(u, j)' => Unfinished(u, j)
        <5>1. Unpushed(batch'[w], u, j) => Unpushed(batch[w], u, j)
          <6>1. Oldest(batch'[w]) = Oldest(batch[w])
            BY <2>2 DEF Oldest
          <6>2. batch'[w].sent > 0 /\ batch'[w].left \subseteq batch[w].left
            BY <1>2, <2>2
          <6> QED  BY <6>1, <6>2 DEF Unpushed
        <5> QED  BY <1>1, <2>2, <5>1 DEF Unfinished, Turn
      <4> QED  BY <1>6, <4>1, <4>2 DEF Counted
    <3> QED  BY <3>1, <3>2
  <2> QED  BY <2>3 DEF Counted
<1>7. PICK sent \in Nat : sent = batch[w].sent + 1
  BY <1>2
<1> QED  BY <1>1, <1>2, <1>3, <1>4, <1>5, <1>6, <1>7, AnswerNext

\* A token that is crossed off and counts nothing.
LEMMA CrossingNone ==
  ASSUME Inv, NEW w \in Workers, NEW t
  PROVE  CrossedOff(batch[w], t, 0) =
           [docs |-> batch[w].docs, step |-> batch[w].step,
            left |-> batch[w].left \ {t}, sent |-> batch[w].sent]
<1>1. PICK n \in Nat : n = batch[w].sent
  BY ShapeOf DEF HeldBy
<1>2. CrossedOff(batch[w], t, 0) =
        [docs |-> batch[w].docs, step |-> batch[w].step,
         left |-> batch[w].left \ {t}, sent |-> batch[w].sent + 0]
  BY Crossing
<1>3. n + 0 = n
  OBVIOUS
<1> QED  BY <1>1, <1>2, <1>3

\* Phones that do not count leave the record of the batch as it is.
LEMMA UncountedNext ==
  ASSUME Inv, Counted, NEW w \in Workers, NEW t, UNCHANGED <<jobs, shown, jobFaults>>,
         batch' = [batch EXCEPT ![w] = CrossedOff(@, t, 0)]
  PROVE  Counted'
<1>1. batch[w].sent \in Nat
  BY ShapeOf DEF HeldBy
<1>2. PICK r : r = [docs |-> batch[w].docs, step |-> batch[w].step,
                    left |-> batch[w].left \ {t}, sent |-> batch[w].sent]
  OBVIOUS
<1>3. batch' = [batch EXCEPT ![w] = r]
  BY <1>1, <1>2, CrossingNone
<1>4. Turn(w) /\ batch'[w] = r
  BY <1>3, TurnOf
<1>5. \A u, j : Unpushed(r, u, j) => Unpushed(batch[w], u, j)
  <2>1. Oldest(r) = Oldest(batch[w]) /\ r.sent = batch[w].sent /\ r.left \subseteq batch[w].left
    BY <1>2 DEF Oldest
  <2> QED  BY <2>1 DEF Unpushed
<1> QED  BY <1>4, <1>5, CountedTurn

\* A push that fails shows nothing.
LEMMA FailedNext ==
  ASSUME Inv, NEW w \in Workers, NEW t \in batch[w].left, PushFailed(w, t) PROVE Inv'
<1>1. PICK sent \in Nat : sent = batch[w].sent
  BY PushTyped
<1>2. batch' = [batch EXCEPT ![w] = [docs |-> batch[w].docs, step |-> batch[w].step,
                                   left |-> batch[w].left \ {t}, sent |-> sent]]
  BY <1>1, CrossingNone DEF PushFailed
<1>3. ~overlapped /\ Alone /\ Counted => Counted'
  BY UncountedNext DEF PushFailed
<1> QED  BY <1>1, <1>2, <1>3, AnswerNext, PushTyped, CountsStay DEF PushFailed

\* An invalid token shows nothing and is deactivated.
LEMMA InvalidNext ==
  ASSUME Inv, NEW w \in Workers, NEW t \in batch[w].left, PushInvalid(w, t) PROVE Inv'
<1>1. PICK sent \in Nat : sent = batch[w].sent
  BY PushTyped
<1>2. batch' = [batch EXCEPT ![w] = [docs |-> batch[w].docs, step |-> batch[w].step,
                                   left |-> batch[w].left \ {t}, sent |-> sent]]
  BY <1>1, CrossingNone DEF PushInvalid
<1>3. ~overlapped /\ Alone /\ Counted => Counted'
  BY UncountedNext DEF PushInvalid
<1>4. pushTokens' \in [Tokens -> {"none", "active", "inactive"}]
  BY PushTyped DEF PushInvalid
<1> QED  BY <1>1, <1>2, <1>3, <1>4, AnswerNext, PushTyped, CountsStay DEF PushInvalid

\* A message shown without an answer is counted as a fault.
LEMMA AnswerLostNext ==
  ASSUME Inv, NEW w \in Workers, NEW t \in batch[w].left, PushAnswerLost(w, t) PROVE Inv'
<1>1. /\ Delivered(w, t) /\ jobFaults < JobFaults /\ jobFaults' = jobFaults + 1
      /\ UNCHANGED <<enabled, pushTokens, jobs, overlapped>>
  BY DEF PushAnswerLost
<1>2. /\ t \in Tokens /\ HeldJob(w) \in JobIds /\ batch[w].sent \in Nat /\ batch[w].step # "idle"
      /\ shown \in Counts /\ jobFaults \in 0..JobFaults
      /\ pushTokens \in [Tokens -> {"none", "active", "inactive"}]
      /\ HeldJob(w) = Oldest(batch[w]) /\ HeldJob(w) \in DOMAIN batch[w].docs
  BY PushTyped
<1>3. PICK h \in JobIds : h = HeldJob(w)
  BY <1>2
<1>4. PICK sent \in Nat : sent = batch[w].sent
  BY <1>2
<1>5. batch' = [batch EXCEPT ![w] = [docs |-> batch[w].docs, step |-> batch[w].step,
                                   left |-> batch[w].left \ {t}, sent |-> sent]]
  BY <1>4, CrossingNone DEF PushAnswerLost
<1>6. /\ Risen(shown, shown') /\ shown'[t][h] = shown[t][h] + 1 /\ shown[t][h] \in Nat
      /\ \A u \in Tokens, j \in JobIds : (u # t \/ j # h) => shown'[u][j] = shown[u][j]
  BY <1>1, <1>2, <1>3, DeliveredNext
<1>7. ASSUME ~overlapped, Alone, Counted PROVE Counted'
  <2>1. shown[t][h] <= jobFaults
    BY <1>1, <1>2, <1>3, <1>7, ToPush DEF Counted
  <2>2. ASSUME NEW u \in Tokens, NEW j \in JobIds
        PROVE  shown'[u][j] <= 1 + jobFaults' /\ (Unfinished(u, j)' => shown'[u][j] <= jobFaults')
    <3>1. CASE u = t /\ j = h
      BY <1>1, <1>2, <1>6, <2>1, <3>1
    <3>2. CASE ~(u = t /\ j = h)
      <4>1. shown'[u][j] = shown[u][j] /\ shown[u][j] <= 1 + jobFaults /\ shown[u][j] \in Nat
        BY <1>2, <1>6, <1>7, <3>2 DEF Counted, Counts
      <4> QED  BY <1>1, <1>2, <4>1
    <3> QED  BY <3>1, <3>2
  <2> QED  BY <2>2 DEF Counted
<1>8. jobFaults' \in 0..JobFaults
  BY <1>1, <1>2, NotificationAssumption
<1> QED  BY <1>1, <1>2, <1>4, <1>5, <1>6, <1>7, <1>8, AnswerNext

-----------------------------------------------------------------------------
(* Every step, and the theorem *)

\* Nothing has been queued or shown at first.
LEMMA InvInit == NotificationsInit => Inv
<1> SUFFICES ASSUME NotificationsInit PROVE Inv
  OBVIOUS
<1>1. /\ enabled = Accounts /\ pushTokens = [t \in Tokens |-> "none"] /\ jobs = <<>>
      /\ shown = [t \in Tokens |-> [j \in JobIds |-> 0]] /\ batch = [w \in Workers |-> NoBatch]
      /\ jobFaults = 0 /\ overlapped = FALSE
  BY DEF NotificationsInit
<1>2. Typed
  <2>1. jobs \in Seq(JobDocs) /\ Len(jobs) <= JobLimit
    BY <1>1, NotificationAssumption
  <2>2. shown \in [Tokens -> [JobIds -> Nat]] /\ pushTokens \in [Tokens -> {"none", "active", "inactive"}]
    BY <1>1
  <2>3. overlapped \in BOOLEAN
    BY <1>1
  <2>4. jobFaults \in 0..JobFaults
    <3>1. 0 \in 0..JobFaults
      BY NotificationAssumption
    <3> QED  BY <1>1, <3>1
  <2>5. \A w \in Workers : batch[w] = NoBatch
    BY <1>1
  <2>6. batch = [w \in Workers |-> batch[w]]
    BY <1>1, <2>5
  <2> QED  BY <1>1, <2>1, <2>2, <2>3, <2>6, <2>4 DEF Typed
<1>3. \A w \in Workers : HeldBy(batch[w], jobs, shown) /\ DOMAIN batch[w].docs = {}
  BY <1>1 DEF HeldBy, NoBatch
<1>4. SentShown(jobs, shown) /\ Alone
  BY <1>1, <1>3 DEF SentShown, Alone
<1>5. Counted
  BY <1>1 DEF Counted
<1> QED  BY <1>2, <1>3, <1>4, <1>5 DEF Inv

\* Every step keeps the invariant.
LEMMA InvStep == Inv /\ [NotificationsNext]_jobVars => Inv'
<1> SUFFICES ASSUME Inv, [NotificationsNext]_jobVars PROVE Inv'
  OBVIOUS
<1>1. ASSUME NEW t \in Tokens, RegisterToken(t) \/ DeactivateToken(t) PROVE Inv'
  BY <1>1, RegisterNext, DeactivateNext
<1>2. ASSUME NEW a \in Accounts, DisableAccount(a) PROVE Inv'
  BY <1>2, DisableNext
<1>3. ASSUME NEW targets \in SUBSET Accounts, QueueNotification(targets) PROVE Inv'
  BY <1>3, QueueNext
<1>4. ASSUME NEW w \in Workers, SelectJobs(w) \/ BatchDies(w) PROVE Inv'
  BY <1>4, SelectNext, DiesNext
<1>5. ASSUME NEW w \in Workers, ReadTokens(w) \/ SaveResult(w) PROVE Inv'
  BY <1>5, TokensNext, ResultNext
<1>6. ASSUME NEW w \in Workers, NEW t \in Tokens,
             PushAccepted(w, t) \/ PushFailed(w, t) \/ PushAnswerLost(w, t) \/ PushInvalid(w, t)
      PROVE  Inv'
  <2>1. t \in batch[w].left
    BY <1>6 DEF PushAccepted, PushFailed, PushAnswerLost, PushInvalid
  <2> QED  BY <1>6, <2>1, AcceptedNext, FailedNext, AnswerLostNext, InvalidNext
<1>7. ASSUME NEW j \in JobIds, RetryDue(j) PROVE Inv'
  BY <1>7, RetryDueNext
<1>8. CASE UNCHANGED jobVars
  BY <1>8, QuietNext DEF jobVars, Inv, Typed
<1> QED  BY <1>1, <1>2, <1>3, <1>4, <1>5, <1>6, <1>7, <1>8 DEF NotificationsNext, BatchStep

\* The documents keep their shapes, no job is retried beyond its limit, and a phone shows a
\* job again only when batches held it together, one died before it saved, or an answer was
\* lost (runAppNotificationDeliveryBatch).
THEOREM Repetitions == Spec => []NotificationsInv
BY InvInit, InvStep, InvImplies, PTL DEF Spec

\* A job that is recorded as sent was shown by a phone of its account, however batches
\* overlap, die, lose answers and overwrite each other (AppNotificationJob.status).
THEOREM Shown == Spec => []SentWasShown
BY InvInit, InvStep, InvImplies, PTL DEF Spec
=============================================================================
