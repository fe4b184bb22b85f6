--------------------------- MODULE DeviceControls ---------------------------
(***************************************************************************)
(* The settings of one managed phone that operators change and the phone   *)
(* confirms: app restrictions (RESTRICTIONS_UPDATE) and a security control *)
(* (SET_.._BLOCKED; the three are alike and independent).  Both are a      *)
(* desired value with a version and an applied value with a version, but   *)
(* their acknowledgements are not alike: that of a control is one          *)
(* transaction, that of a restriction saves a device read earlier.         *)
(*                                                                         *)
(* The phone is the environment: it learns of a command by a push message  *)
(* or by a sync, and acknowledges what it has learnt of, in any order, as  *)
(* late and as often as it likes.  It says it applied what it was told.    *)
(*                                                                         *)
(* A save writes the paths whose value the handler changed.                *)
(***************************************************************************)
EXTENDS Integers, FiniteSets, FiniteSetsExt

CONSTANTS Slots,      \* bound: requests and worker runs in flight at once
          Scenarios,  \* bound: the settings and handlers that occur together, how
                      \* many of these overlap and how many commands they create
          Keys,       \* restrictions, or the control, that can be on
          Commands,   \* bound: DeviceCommand documents that may be created
          MaxFailures, \* bound: handlers that die between two steps
          MaxRetries  \* deliveries of a command (its retryCount stays below)

ASSUME RetriesAssumption == MaxRetries \in Nat \ {0}
ASSUME FailuresAssumption == MaxFailures \in Nat

VARIABLES
  scenario,  \* the one of this run
  released,  \* Device.state: "no", "pending" (RELEASE_PENDING) or "done" (RELEASED)
  reopened,  \* whether another state was ever written over these two
  settings,  \* restrictionState and one entry of securityControlState
  commands,  \* the DeviceCommand documents
  known,     \* commands the phone has learnt of
  flight,    \* handlers in progress, with what they have read
  failures   \* handlers that have died so far

vars == <<scenario, released, reopened, settings, commands, known, flight, failures>>
bounds == <<scenario, failures>>
state == <<released, reopened>>

-----------------------------------------------------------------------------
(* Documents *)

SettingNames == {"restrictions", "control"}
Settings == [desired : SUBSET Keys, desiredVersion : Nat,
             applied : SUBSET Keys, appliedVersion : Nat]
NewSetting == [desired |-> {}, desiredVersion |-> 0, applied |-> {}, appliedVersion |-> 0]

Kinds == SettingNames \cup {"release"}
ActiveStatuses == {"pending", "sent"}
Statuses == ActiveStatuses \cup {"acknowledged", "failed", "expired"}
Sources == {"none", "delivery", "device_enforcement"}

NoCommand == [kind |-> "none", version |-> 0, value |-> {}, status |-> "none",
              source |-> "none", retries |-> 0]
CommandDocs == [kind : Kinds, version : Nat, value : SUBSET Keys, status : Statuses,
                source : Sources, retries : Nat]

Created == {k \in Commands : commands[k] # NoCommand}
Active(kind) == {k \in Commands : commands[k].kind = kind /\ commands[k].status \in ActiveStatuses}
Terminal(c) ==
  c.status = "acknowledged" \/ (c.status = "failed" /\ c.source = "device_enforcement")

(* updateMany over the commands ks, and create of k.                       *)
ExpireAndCreate(ks, k, doc) ==
  /\ k \notin Created /\ Cardinality(Created) < scenario.creates
  /\ commands' = [j \in Commands |->
       IF j = k THEN doc
       ELSE IF j \in ks THEN [commands[j] EXCEPT !.status = "expired"]
       ELSE commands[j]]

(* Mutant of NewCommand: a status of another queue.                        *)
QueuedCommand(kind, version, value) ==
  [NoCommand EXCEPT !.kind = kind, !.version = version, !.value = value,
                    !.status = "queued"]

NewCommand(kind, version, value) ==
  [NoCommand EXCEPT !.kind = kind, !.version = version, !.value = value,
                    !.status = "pending"]

Init ==
  /\ scenario \in Scenarios
  /\ released = "no" /\ reopened = FALSE
  /\ settings = [n \in SettingNames |-> NewSetting]
  /\ commands = [k \in Commands |-> NoCommand]
  /\ known = {}
  /\ flight = [s \in Slots |-> [op |-> "idle"]]
  /\ failures = 0

-----------------------------------------------------------------------------
(* Handlers in progress *)

Idle == [op |-> "idle"]
At(s, op) == flight[s].op = op
Begin(s, f) ==
  /\ flight[s] = Idle
  /\ Cardinality({t \in Slots : flight[t] # Idle}) < scenario.parallel
  /\ flight' = [flight EXCEPT ![s] = f]
Continue(s, f) == flight' = [flight EXCEPT ![s] = f]
End(s) == Continue(s, Idle)

(* An error or a crash between two steps of a handler: the next one never  *)
(* happens.                                                                *)
Fail(s) ==
  /\ flight[s] # Idle /\ failures < MaxFailures
  /\ failures' = failures + 1
  /\ End(s)
  /\ UNCHANGED <<scenario, state, settings, commands, known>>

-----------------------------------------------------------------------------
(* Operators: queueDeviceRestrictionUpdate, queueDeviceSecurityControlUpdate *)

Toggled(value, key, on) == IF on THEN value \cup {key} ELSE value \ {key}

(* A retry must repeat a desired value that is still to be applied.        *)
RetryAllowed(n, key, on) ==
  /\ (key \in settings[n].desired) = on
  /\ settings[n].appliedVersion < settings[n].desiredVersion

UpdateRead(s, n, key, on, retry) ==
  /\ n \in scenario.settings
  /\ retry => RetryAllowed(n, key, on)
  /\ n = "control" => released = "no"
  /\ Begin(s, [op |-> "update", name |-> n, key |-> key, on |-> on, retry |-> retry,
               version |-> settings[n].desiredVersion])
  /\ UNCHANGED <<bounds, state, settings, commands, known>>

(* The conditions of the retry's findOneAndUpdate.                         *)
RetryStillMatches(f) ==
  LET d == settings[f.name] IN
  d.desiredVersion = f.version /\ (f.key \in d.desired) = f.on

(* Mutant of NextVersion: computed from the document read before.          *)
NextVersionOfRead(f) == IF f.retry THEN f.version ELSE f.version + 1

(* $inc, unless it is a retry.                                             *)
NextVersion(f) ==
  IF f.retry THEN settings[f.name].desiredVersion ELSE settings[f.name].desiredVersion + 1

Superseded(n) ==
  IF n = "control" THEN Active(n) ELSE {k \in Active(n) : commands[k].status = "pending"}

UpdateCommit(s, k) ==
  LET f == flight[s]
      d == [settings[f.name] EXCEPT
              !.desired = IF f.retry THEN @ ELSE Toggled(@, f.key, f.on),
              !.desiredVersion = NextVersion(f)] IN
  /\ At(s, "update")
  /\ f.retry => RetryStillMatches(f)
  /\ released = "no"                      \* the hook of DeviceCommand
  /\ settings' = [settings EXCEPT ![f.name] = d]
  /\ ExpireAndCreate(Superseded(f.name), k, NewCommand(f.name, d.desiredVersion, d.desired))
  /\ End(s)
  /\ UNCHANGED <<bounds, state, known>>

UpdateRefused(s) ==
  /\ At(s, "update")
  /\ released # "no" \/ (flight[s].retry /\ ~RetryStillMatches(flight[s]))
  /\ End(s)
  /\ UNCHANGED <<bounds, state, settings, commands, known>>

(* approvePayment lifts what the device it read before had, if anything.   *)
ClearRead(s) ==
  /\ "clear" \in scenario.handlers
  /\ settings.restrictions.desired # {} \/ settings.restrictions.applied # {}
  /\ Begin(s, [op |-> "clear"])
  /\ UNCHANGED <<bounds, state, settings, commands, known>>

ClearCommit(s, k) ==
  LET version == settings.restrictions.desiredVersion + 1 IN
  /\ At(s, "clear") /\ released = "no"
  /\ settings' = [settings EXCEPT !.restrictions.desired = {},
                                  !.restrictions.desiredVersion = version]
  /\ ExpireAndCreate(Active("restrictions"), k, NewCommand("restrictions", version, {}))
  /\ End(s)
  /\ UNCHANGED <<bounds, state, known>>

(* queueDeviceRelease, which may be repeated while the release has failed. *)
Release(k) ==
  /\ "release" \in scenario.handlers
  /\ released # "done" /\ Active("release") = {}
  /\ ExpireAndCreate(Active("restrictions") \cup Active("control"), k,
                     NewCommand("release", 0, {}))
  /\ released' = "pending"
  /\ UNCHANGED <<bounds, reopened, settings, known, flight>>

(* A job or an acknowledgement that read the phone before its release and  *)
(* whose save does not look at the state again.                            *)
WriteOverRelease ==
  /\ "relock" \in scenario.handlers /\ released # "no"
  /\ released' = "no" /\ reopened' = TRUE
  /\ UNCHANGED <<bounds, settings, commands, known, flight>>

-----------------------------------------------------------------------------
(* Delivery: runFcmDeliveryBatch, started for the command just created and *)
(* by a timer, so that two runs may have the same command; getDeviceSyncState. *)

Deliverable(c) ==
  /\ c.retries < MaxRetries
  /\ c.status = "pending" \/ (c.status = "failed" /\ c.source # "device_enforcement")

PushRead(s, k) ==
  /\ "push" \in scenario.handlers
  /\ Deliverable(commands[k])
  /\ Begin(s, [op |-> "push", id |-> k, read |-> commands[k]])
  /\ UNCHANGED <<bounds, state, settings, commands, known>>

(* messaging().send(): from now on the phone may know the command.         *)
PushSend(s) ==
  /\ At(s, "push")
  /\ known' = known \cup {flight[s].id}
  /\ Continue(s, [flight[s] EXCEPT !.op = "pushed"])
  /\ UNCHANGED <<bounds, state, settings, commands>>

SavedSource(read, source, stored) == IF read.source = source THEN stored ELSE source

PushSave(s) ==
  LET f == flight[s] IN
  /\ At(s, "pushed")
  /\ commands' = [commands EXCEPT
       ![f.id].status = "sent",
       ![f.id].source = SavedSource(f.read, "none", @)]
  /\ End(s)
  /\ UNCHANGED <<bounds, state, settings, known>>

(* No token, or the provider refuses: saved as failed, to be retried.      *)
PushFailed(s) ==
  LET f == flight[s] IN
  /\ At(s, "push")
  /\ commands' = [commands EXCEPT
       ![f.id].status = IF f.read.status = "failed" THEN @ ELSE "failed",
       ![f.id].retries = f.read.retries + 1,
       ![f.id].source = SavedSource(f.read, "delivery", @)]
  /\ End(s)
  /\ UNCHANGED <<bounds, state, settings, known>>

(* The latest active command of the control, by its version.               *)
Latest(ks) == {k \in ks : \A j \in ks : commands[j].version <= commands[k].version}

Handed == Active("restrictions") \cup Active("release") \cup Latest(Active("control"))

(* pingDevice and syncDevice; only a command of the control becomes sent.  *)
Sync ==
  /\ "sync" \in scenario.handlers
  /\ known' = known \cup Handed
  /\ commands' = [k \in Commands |->
       IF k \in Latest(Active("control")) THEN [commands[k] EXCEPT !.status = "sent"]
       ELSE commands[k]]
  /\ UNCHANGED <<bounds, state, settings, flight>>

-----------------------------------------------------------------------------
(* acknowledgeDeviceCommand *)

Outcomes == {"acknowledged", "failed"}
Unread == [n \in SettingNames |-> NewSetting]
Recorded(f) == [f EXCEPT !.op = "ack_status", !.device = Unread, !.done = FALSE]

AckRead(s, k, outcome) ==
  /\ k \in known /\ commands[k].kind \in {"restrictions", "release"}
  /\ commands[k].kind = "restrictions" => released = "no"
  /\ ~Terminal(commands[k])
  /\ Begin(s, [op |-> IF outcome = "acknowledged" THEN "ack_device" ELSE "ack_status",
               id |-> k, outcome |-> outcome, read |-> commands[k],
               done |-> outcome = "acknowledged" /\ released = "done",
               device |-> IF outcome = "acknowledged" THEN settings ELSE Unread])
  /\ UNCHANGED <<bounds, state, settings, commands, known>>

(* Mutant of Advances: any acknowledgement is recorded.                    *)
AlwaysAdvances(f) == TRUE

(* shouldAdvanceAppliedRestrictionState, of the device read before.        *)
Advances(f) == f.read.version >= f.device.restrictions.appliedVersion

(* device.save() of an acknowledged restriction.                           *)
AckRestrictions(s) ==
  LET f == flight[s]  old == f.device.restrictions IN
  /\ At(s, "ack_device") /\ f.read.kind = "restrictions"
  /\ settings' =
       IF Advances(f)
       THEN [settings EXCEPT
               !.restrictions.applied = IF f.read.value = old.applied THEN @ ELSE f.read.value,
               !.restrictions.appliedVersion =
                  IF f.read.version = old.appliedVersion THEN @ ELSE f.read.version]
       ELSE settings
  /\ Continue(s, Recorded(f))
  /\ UNCHANGED <<bounds, state, commands, known>>

(* buildReleasedDeviceSecurityControlState replaces the whole entry.       *)
ReleasedControl(entry) ==
  LET version == Max({entry.desiredVersion, entry.appliedVersion}) + 1 IN
  [desired |-> {}, desiredVersion |-> version, applied |-> {}, appliedVersion |-> version]

AckRelease(s) ==
  LET f == flight[s]  old == f.device.restrictions IN
  /\ At(s, "ack_device") /\ f.read.kind = "release"
  /\ released' = IF f.done THEN released ELSE "done"
  /\ settings' = [settings EXCEPT
       !.restrictions.desired = IF old.desired = {} THEN @ ELSE {},
       !.restrictions.applied = IF old.applied = {} THEN @ ELSE {},
       !.control = ReleasedControl(f.device.control)]
  /\ Continue(s, Recorded(f))
  /\ UNCHANGED <<bounds, reopened, commands, known>>

(* command.save(), and the other releases are superseded by this one.      *)
AckStatus(s) ==
  LET f == flight[s]
      source == IF f.outcome = "failed" THEN "device_enforcement" ELSE "none"
      closed == IF f.read.kind = "release" /\ f.outcome = "acknowledged"
                THEN Active("release") \ {f.id} ELSE {} IN
  /\ At(s, "ack_status")
  /\ commands' = [k \in Commands |->
       IF k = f.id
       THEN [commands[k] EXCEPT
               !.status = IF f.read.status = f.outcome THEN @ ELSE f.outcome,
               !.source = SavedSource(f.read, source, @)]
       ELSE IF k \in closed THEN [commands[k] EXCEPT !.status = "expired"]
       ELSE commands[k]]
  /\ End(s)
  /\ UNCHANGED <<bounds, state, settings, known>>

(* Mutant of Current: a confirmation of any version is recorded.           *)
CurrentOrOlder(c) == c.version <= settings.control.desiredVersion

Current(c) == c.version = settings.control.desiredVersion

(* acknowledgeSecurityControlCommand: one transaction from the first read. *)
AckControl(k, outcome) ==
  LET c == commands[k] IN
  /\ k \in known /\ c.kind = "control" /\ ~Terminal(c)
  /\ commands' = [commands EXCEPT
       ![k].status = outcome,
       ![k].source = IF outcome = "failed" THEN "device_enforcement" ELSE "none"]
  /\ settings' = IF outcome = "acknowledged" /\ Current(c)
                 THEN [settings EXCEPT !.control.applied = c.value,
                                       !.control.appliedVersion = c.version]
                 ELSE settings
  /\ UNCHANGED <<bounds, state, known, flight>>

-----------------------------------------------------------------------------
Handle(s) ==
  \/ \E n \in SettingNames, key \in Keys, on, retry \in BOOLEAN : UpdateRead(s, n, key, on, retry)
  \/ \E k \in Commands : \/ UpdateCommit(s, k) \/ ClearCommit(s, k) \/ PushRead(s, k)
                         \/ \E outcome \in Outcomes : AckRead(s, k, outcome)
  \/ UpdateRefused(s) \/ ClearRead(s)
  \/ PushSend(s) \/ PushSave(s) \/ PushFailed(s)
  \/ AckRestrictions(s) \/ AckRelease(s) \/ AckStatus(s)
  \/ Fail(s)

Next ==
  \/ Sync \/ WriteOverRelease
  \/ \E s \in Slots : Handle(s)
  \/ \E k \in Commands : \/ Release(k)
                         \/ \E outcome \in Outcomes : AckControl(k, outcome)

Spec == Init /\ [][Next]_vars

-----------------------------------------------------------------------------
(* Properties *)

Flights ==
  {Idle}
  \cup [op : {"update"}, name : SettingNames, key : Keys, on : BOOLEAN, retry : BOOLEAN,
        version : Nat]
  \cup [op : {"clear"}]
  \cup [op : {"push", "pushed"}, id : Commands, read : CommandDocs]
  \cup [op : {"ack_device", "ack_status"}, id : Commands, outcome : Outcomes,
        done : BOOLEAN, read : CommandDocs, device : [SettingNames -> Settings]]

(* The documents keep the shapes of their schemas.                         *)
TypeOK ==
  /\ scenario \in Scenarios
  /\ released \in {"no", "pending", "done"} /\ reopened \in BOOLEAN
  /\ settings \in [SettingNames -> Settings]
  /\ commands \in [Commands -> CommandDocs \cup {NoCommand}]
  /\ known \in SUBSET Commands
  /\ flight \in [Slots -> Flights]
  /\ failures \in Nat

(* Unless a release was written over, a version names one value: two       *)
(* operators who change a setting at once never give two values the same   *)
(* version, a retry repeats the value its version had, and the newest      *)
(* version is the value wanted.                                            *)
OneValuePerVersion ==
  ~reopened => \A j, k \in Created :
    /\ commands[j].kind = commands[k].kind /\ commands[j].version = commands[k].version
         => commands[j].value = commands[k].value
    /\ commands[k].kind \in SettingNames =>
         LET d == settings[commands[k].kind] IN
         /\ commands[k].version <= d.desiredVersion
         /\ commands[k].version = d.desiredVersion /\ released # "done"
              => commands[k].value = d.desired

(* What waits to be delivered is what is wanted: of each setting at most   *)
(* one command is pending, and it has the newest version; none is once a   *)
(* release has been queued.  After a release that was written over, the    *)
(* device takes commands again, which the acknowledgement of the release   *)
(* does not expire: then only the restrictions keep the newest version.    *)
PendingIsWanted ==
  \A n \in SettingNames :
    LET waiting == {k \in Commands : commands[k].kind = n /\ commands[k].status = "pending"} IN
    /\ Cardinality(waiting) <= 1
    /\ waiting # {} => released = "no" \/ reopened
    /\ n = "restrictions" \/ ~reopened =>
         \A k \in waiting : commands[k].version = settings[n].desiredVersion

(* Both: a version stands for one value, and the one waiting is wanted.    *)
RestrictionsAgree == OneValuePerVersion /\ PendingIsWanted

(* Confirmations of a control that come late, twice or out of order, a     *)
(* release in the middle of them, and its being written over as long as    *)
(* requests do not overlap, keep the promise of ConfirmedRegister.  An     *)
(* acknowledgement of the release that overlaps the control's new updates  *)
(* saves a version counted from the one it read.                           *)
ControlRegister == INSTANCE ConfirmedRegister WITH
  Values <- SUBSET Keys, Off <- {},
  desired <- settings.control.desired, desiredVersion <- settings.control.desiredVersion,
  applied <- settings.control.applied, appliedVersion <- settings.control.appliedVersion,
  mode <- IF ~reopened THEN "kept" ELSE IF scenario.parallel = 1 THEN "reopened" ELSE "lost",
  issued <- Max({0} \cup {commands[k].version : k \in {j \in Created : commands[j].kind = "control"}})

ConfirmsWanted == ControlRegister!Spec

(* As long as requests do not overlap, late, repeated and reordered        *)
(* acknowledgements of restrictions and handlers that die after one of     *)
(* their two saves leave a true record: the applied version only grows,    *)
(* and, unless a release was written over, the applied value is the one    *)
(* that version had.                                                       *)
AppliedInOrder ==
  [][scenario.parallel = 1 =>
       LET d == settings'.restrictions IN
       /\ d.appliedVersion >= settings.restrictions.appliedVersion
       /\ d.appliedVersion > 0 /\ released' # "done" /\ ~reopened' =>
            \E k \in known : /\ commands[k].kind = "restrictions"
                             /\ commands[k].version = d.appliedVersion
                             /\ commands[k].value = d.applied]_vars
=============================================================================
