---------------------------- MODULE EmiReminders ----------------------------
(***************************************************************************)
(* Reminders of an instalment of one borrower.  The dealer, the            *)
(* administrator and the EMI policy job queue an EMI_REMINDER command      *)
(* through queueEmiReminder, which looks for an active reminder of the     *)
(* same kind and instalment first and creates one only when there is none, *)
(* and which gives an upcoming reminder of a device-owner phone a visible  *)
(* NOTIFICATION command, again after looking for one.  The delivery batch  *)
(* sends reminders with a bounded number of attempts and leaves the        *)
(* reminder pending when one fails.                                        *)
(***************************************************************************)
EXTENDS Integers, Sequences, FiniteSets, FiniteSetsExt

CONSTANTS Installments, \* numbers of the instalments
          Callers,      \* requests and jobs in progress at once
          Urgencies,    \* scenarios: the callers that work at once, the kind of phone, and
                        \* bounds: reminder and notification commands, callers that stop half-way
                        \* or whose notification fails
          Attempts      \* delivery attempts of a command, 5 in the code

ASSUME ReminderAssumption ==
  /\ Installments \subseteq Nat /\ Attempts \in Nat \ {0}
  /\ \A u \in Urgencies : u.running \in BOOLEAN /\ u.commands \in Nat /\ IsFiniteSet(u.callers)

VARIABLES phone,     \* the Device: running app or device owner, release state
          unpaid,    \* unpaid instalments of the schedule
          past,      \* instalments whose due date has passed
          reminded,  \* instalments with an upcoming reminder created today
          commands,  \* EMI_REMINDER and NOTIFICATION commands, in order of creation
          caller,    \* what each caller is doing and has read
          pusher,    \* the delivery batch: the command it holds, as it read it
          mishaps, together, \* deaths and swallowed errors so far; the scenario of this behaviour
          loosened   \* a forced run, or an answer that a push overwrites, has happened

reminderVars == <<phone, unpaid, past, reminded, commands, caller, pusher, mishaps, together, loosened>>

Kinds == {"UPCOMING", "OVERDUE"}
CommandNumbers == UNION {1..u.commands : u \in Urgencies}
CommandStatuses == {"pending", "sent", "acknowledged", "failed"}
ReminderDocs == [kind : Kinds, installment : Installments, source : {0}, status : CommandStatuses,
                 retryCount : 0..Attempts]
VisibleDocs == [kind : {"VISIBLE"}, installment : Installments, source : CommandNumbers,
                status : CommandStatuses, retryCount : 0..Attempts]
NewDoc(kind, i, source) ==
  [kind |-> kind, installment |-> i, source |-> source, status |-> "pending",
   retryCount |-> 0]
NoCaller == [step |-> "idle"]
NoPush == [id |-> 0]

RemindersInit ==
  /\ together \in Urgencies
  /\ phone = [running |-> together.running, release |-> "no"]
  /\ unpaid = Installments
  /\ past = {}
  /\ reminded = {}
  /\ commands = <<>>
  /\ caller = [c \in Callers |-> NoCaller]
  /\ pusher = NoPush
  /\ mishaps = 0
  /\ loosened = FALSE

Becomes(c, r) == caller' = [caller EXCEPT ![c] = r]
Finishes(c) == Becomes(c, NoCaller)

(* findUpcomingEmiInstallment and getOverdueInstallments: the earliest.    *)
Candidates(kind) == IF kind = "UPCOMING" THEN unpaid \ past ELSE unpaid \cap past
Wanted(c, kind, i, dedupe) ==
  [step |-> IF dedupe THEN "find" ELSE "create", kind |-> kind, installment |-> i]

(* The handlers read device and schedule and ask for a reminder of the     *)
(* earliest instalment; queueEmiReminder refuses in a release state.       *)
Request(c, kind) ==
  /\ c \in together.callers /\ caller[c].step = "idle" /\ phone.release = "no"
  /\ Candidates(kind) # {}
  /\ Becomes(c, Wanted(c, kind, Min(Candidates(kind)), TRUE))
  /\ UNCHANGED <<phone, unpaid, past, reminded, commands, pusher, mishaps, together, loosened>>
QueueOverdueReminder(c) == Request(c, "OVERDUE")
QueueUpcomingReminder(c) == Request(c, "UPCOMING")
SendUpcomingPayment(c) == Request(c, "UPCOMING")
SendAdminReminder(c, kind) == Request(c, kind)

(* runEmiPolicyJob reminds of an upcoming instalment once a day, and of an *)
(* overdue one in its grace period; forced runs do not look for an active  *)
(* reminder.                                                               *)
PolicyJob(c, kind, i, force) ==
  /\ c \in together.callers /\ caller[c].step = "idle" /\ phone.release = "no"
  /\ i \in Candidates(kind)
  /\ Becomes(c, Wanted(c, kind, i, ~force))
  /\ loosened' = (loosened \/ force)
  /\ UNCHANGED <<phone, unpaid, past, reminded, commands, pusher, mishaps, together>>
RemindOfUpcoming(c, i, force) == (force \/ i \notin reminded) /\ PolicyJob(c, "UPCOMING", i, force)
RemindOfGrace(c, i, force) == PolicyJob(c, "OVERDUE", i, force)

Active(k) == commands[k].status \in {"pending", "sent"}
\* Mutant: only a reminder not yet sent counts as active.
UnsentReminder(kind, i) ==
  {k \in DOMAIN commands :
     commands[k].status = "pending" /\ commands[k].kind = kind /\ commands[k].installment = i}
SameReminder(kind, i) ==
  {k \in DOMAIN commands : Active(k) /\ commands[k].kind = kind /\ commands[k].installment = i}

(* What follows once the reminder is there: nothing more for an overdue one*)
(* or for the running app, which presents reminders itself.                *)
Announce(c, k) ==
  IF caller[c].kind = "UPCOMING" /\ ~phone.running
  THEN Becomes(c, [step |-> "look", installment |-> caller[c].installment, source |-> k])
  ELSE Finishes(c)

\* Mutant: a reminder that exists is taken to have been announced.
ReuseQuietly(c, k) == Finishes(c)

(* The active reminder found is announced as a new one would be.           *)
Reuse(c, k) == Announce(c, k)

Find(c) ==
  LET same == SameReminder(caller[c].kind, caller[c].installment) IN
  /\ caller[c].step = "find"
  /\ IF same = {} THEN Becomes(c, [caller[c] EXCEPT !.step = "create"])
                  ELSE Reuse(c, Max(same))
  /\ UNCHANGED <<phone, unpaid, past, reminded, commands, pusher, mishaps, together, loosened>>

(* DeviceCommand.create; preventCommandsAfterRelease may refuse it.        *)
Create(c) ==
  /\ caller[c].step = "create"
  /\ IF phone.release # "no"
     THEN Finishes(c) /\ UNCHANGED <<commands, reminded>>
     ELSE /\ Len(commands) < together.commands
          /\ commands' = Append(commands, NewDoc(caller[c].kind, caller[c].installment, 0))
          /\ reminded' = IF caller[c].kind = "UPCOMING"
                         THEN reminded \cup {caller[c].installment} ELSE reminded
          /\ Announce(c, Len(commands) + 1)
  /\ UNCHANGED <<phone, unpaid, past, pusher, mishaps, together, loosened>>

Shown(k) == \E n \in DOMAIN commands : commands[n].source = k

(* queueUpcomingEmiNotification.                                           *)
Look(c) ==
  /\ caller[c].step = "look"
  /\ IF Shown(caller[c].source) THEN Finishes(c)
                                ELSE Becomes(c, [caller[c] EXCEPT !.step = "notify"])
  /\ UNCHANGED <<phone, unpaid, past, reminded, commands, pusher, mishaps, together, loosened>>

(* The hook lets a notification through until the release is complete.     *)
Notify(c) ==
  /\ caller[c].step = "notify" /\ phone.release # "done" /\ Len(commands) < together.commands
  /\ commands' = Append(commands, NewDoc("VISIBLE", caller[c].installment, caller[c].source))
  /\ Finishes(c)
  /\ UNCHANGED <<phone, unpaid, past, reminded, pusher, mishaps, together, loosened>>

(* safeQueueUpcomingEmiNotification swallows what goes wrong, the refusal  *)
(* of the hook or an error of the database: the request ends all the same, *)
(* and answers 201.                                                        *)
NotifyRefused(c) ==
  /\ caller[c].step = "notify" /\ phone.release = "done"
  /\ Finishes(c)
  /\ UNCHANGED <<phone, unpaid, past, reminded, commands, pusher, mishaps, together, loosened>>
NotifyFails(c) ==
  /\ caller[c].step \in {"look", "notify"} /\ mishaps < together.mishaps
  /\ mishaps' = mishaps + 1
  /\ Finishes(c)
  /\ UNCHANGED <<phone, unpaid, past, reminded, commands, pusher, together, loosened>>

CallerDies(c) ==
  /\ caller[c].step # "idle" /\ mishaps < together.mishaps
  /\ mishaps' = mishaps + 1
  /\ Finishes(c)
  /\ UNCHANGED <<phone, unpaid, past, reminded, commands, pusher, together, loosened>>

-----------------------------------------------------------------------------
(* The delivery batch, for these two command types; when an attempt is due *)
(* is left out.                                                            *)
Sendable(k) == commands[k].status \in {"pending", "failed"} /\ commands[k].retryCount < Attempts

Take(k) ==
  /\ pusher = NoPush /\ k \in DOMAIN commands /\ Sendable(k)
  /\ pusher' = [id |-> k, doc |-> commands[k]]
  /\ UNCHANGED <<phone, unpaid, past, reminded, commands, caller, mishaps, together, loosened>>

SavedReminder(doc, read, new) == [f \in DOMAIN doc |-> IF new[f] = read[f] THEN doc[f] ELSE new[f]]
SavePushed(new) ==
  /\ commands' = [commands EXCEPT ![pusher.id] = SavedReminder(@, pusher.doc, new)]
  /\ pusher' = NoPush
  /\ UNCHANGED <<phone, unpaid, past, reminded, caller, mishaps, together, loosened>>

Pushed == pusher # NoPush /\ SavePushed([pusher.doc EXCEPT !.status = "sent"])

(* Without a token, or when the push fails, a reminder stays pending.      *)
Unsent(doc) ==
  [doc EXCEPT !.status = IF doc.kind = "VISIBLE" THEN "failed" ELSE "pending",
              !.retryCount = @ + 1]
NotPushed == pusher # NoPush /\ SavePushed(Unsent(pusher.doc))

(* The phone fetches a command by its push or by its sync, and             *)
(* acknowledges it; both outcomes are terminal.                            *)
Acknowledge(k) ==
  /\ k \in DOMAIN commands /\ Active(k) /\ phone.release = "no"
  /\ commands' = [commands EXCEPT ![k].status = "acknowledged"]
  /\ loosened' = (loosened \/ pusher.id = k)
  /\ UNCHANGED <<phone, unpaid, past, reminded, caller, pusher, mishaps, together>>

-----------------------------------------------------------------------------
(* What happens to the loan and the phone meanwhile.                       *)

Pay(i) ==
  /\ i \in unpaid
  /\ unpaid' = unpaid \ {i}
  /\ UNCHANGED <<phone, past, reminded, commands, caller, pusher, mishaps, together, loosened>>

FallDue(i) ==
  /\ i \notin past /\ \A n \in Installments \ past : i <= n
  /\ past' = past \cup {i}
  /\ UNCHANGED <<phone, unpaid, reminded, commands, caller, pusher, mishaps, together, loosened>>

DayEnds ==
  /\ reminded # {} /\ reminded' = {}
  /\ UNCHANGED <<phone, unpaid, past, commands, caller, pusher, mishaps, together, loosened>>

ReleaseGoes(from, to) ==
  /\ phone.release = from /\ phone' = [phone EXCEPT !.release = to]
  /\ UNCHANGED <<unpaid, past, reminded, commands, caller, pusher, mishaps, together, loosened>>

QueueRelease ==
  /\ unpaid = {} /\ ReleaseGoes("no", "pending")
CompleteRelease == ReleaseGoes("pending", "done")

(* A job or an acknowledgement that read the device before saves its own   *)
(* state over the release.                                                 *)
WriteOverRelease == ReleaseGoes("pending", "no") \/ ReleaseGoes("done", "no")

CallerStep(c) == Find(c) \/ Create(c) \/ Look(c) \/ Notify(c) \/ NotifyRefused(c) \/ NotifyFails(c)

RemindersNext ==
  \/ \E c \in Callers :
       \/ QueueOverdueReminder(c) \/ QueueUpcomingReminder(c) \/ SendUpcomingPayment(c)
       \/ \E kind \in Kinds : SendAdminReminder(c, kind)
       \/ \E i \in Installments, force \in BOOLEAN : RemindOfUpcoming(c, i, force) \/ RemindOfGrace(c, i, force)
       \/ CallerStep(c) \/ CallerDies(c)
  \/ \E k \in CommandNumbers : Take(k) \/ Acknowledge(k)
  \/ Pushed \/ NotPushed
  \/ \E i \in Installments : Pay(i) \/ FallDue(i)
  \/ DayEnds \/ QueueRelease \/ CompleteRelease \/ WriteOverRelease

-----------------------------------------------------------------------------
(* The documents keep their shape, and no command is pushed more often than*)
(* it may be retried.                                                      *)
RemindersTypeOK ==
  /\ phone \in [running : BOOLEAN, release : {"no", "pending", "done"}]
  /\ unpaid \subseteq Installments /\ past \subseteq Installments
  /\ Len(commands) <= together.commands
  /\ \A k \in DOMAIN commands : commands[k] \in ReminderDocs \cup VisibleDocs
  /\ pusher.id \in {0} \cup DOMAIN commands
  /\ \A c \in Callers : caller[c].step \in {"idle", "find", "create", "look", "notify"}

Alone == Cardinality(together.callers) = 1

(* A device has at most one active reminder of a kind and instalment, as   *)
(* long as requests do not overlap, no run was forced, and no push wrote   *)
(* its result over an acknowledgement (queueEmiReminder, deduplicateActive;*)
(* upcoming reminder api contract.md:188).                                 *)
OneActiveReminder ==
  Alone /\ ~loosened =>
    \A k, n \in DOMAIN commands :
      /\ Active(k) /\ Active(n) /\ commands[k].kind \in Kinds
      /\ commands[k].kind = commands[n].kind /\ commands[k].installment = commands[n].installment
      => k = n

(* A reminder is announced by at most one visible notification, whatever   *)
(* has become of that notification, as long as requests do not overlap     *)
(* (queueUpcomingEmiNotification).                                         *)
OneVisible ==
  Alone => \A k \in DOMAIN commands : Cardinality({n \in DOMAIN commands : commands[n].source = k}) <= 1

(* No reminder is sent twice for one purpose: its attempts are bounded, and*)
(* it and its visible notification are unique.                             *)
RemindersUnique == RemindersTypeOK /\ OneActiveReminder /\ OneVisible

(* A request for an upcoming instalment that ends without a mishap leaves a*)
(* visible notification for an owner's phone whose release is not complete,*)
(* also when the reminder it found was left unannounced by a caller that   *)
(* died or whose notification failed (queueEmiReminder).  That it answered *)
(* 201 says less: a swallowed error gives the same answer.                 *)
Ends(c) == caller[c].step # "idle" /\ caller'[c].step = "idle" /\ mishaps' = mishaps
WantsNotification(c) ==
  /\ ~phone.running /\ phone.release # "done"
  /\ \/ caller[c].step \in {"look", "notify"}
     \/ caller[c].step = "find" /\ caller[c].kind = "UPCOMING"
AnnouncedAtEnd ==
  [][\A c \in Callers : Ends(c) /\ WantsNotification(c) =>
       \E n \in DOMAIN commands' :
         commands'[n].kind = "VISIBLE" /\ commands'[n].installment = caller[c].installment]_reminderVars
=============================================================================
