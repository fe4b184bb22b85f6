------------------------ MODULE DeviceControlProofs ------------------------
(* What holds of DeviceControls for every set of keys, commands, slots and  *)
(* scenarios.                                                               *)
EXTENDS DeviceControls, FiniteSetTheorems, TLAPS

-----------------------------------------------------------------------------
(* Documents *)

CreatingOps == {"push", "pushed", "ack_device", "ack_status"}

\* Handlers and the phone know only commands that exist.
KnownExist ==
  /\ known \subseteq Created
  /\ \A s \in Slots : flight[s].op \in CreatingOps => flight[s].id \in Created

\* The created commands are those with a document.
LEMMA CreatedType ==
  ASSUME TypeOK PROVE \A k \in Commands : k \in Created <=> commands[k] \in CommandDocs
<1>1. NoCommand \notin CommandDocs
  BY DEF NoCommand, CommandDocs, Kinds, SettingNames
<1> QED  BY <1>1 DEF TypeOK, Created

\* What a step does to the commands: none disappears, kind, version and value of a
\* command never change, and none waits for delivery again.
CommandsKept ==
  /\ commands' \in [Commands -> CommandDocs \cup {NoCommand}]
  /\ \A k \in Created :
       /\ commands'[k] \in CommandDocs
       /\ commands'[k].kind = commands[k].kind
       /\ commands'[k].version = commands[k].version
       /\ commands'[k].value = commands[k].value
       /\ commands'[k].status = "pending" => commands[k].status = "pending"

NoneCreated ==
  /\ CommandsKept
  /\ \A k \in Commands \ Created : commands'[k] = NoCommand

OneCreated(k, doc) ==
  /\ CommandsKept
  /\ k \in Commands \ Created /\ commands'[k] = doc
  /\ \A j \in Commands \ (Created \cup {k}) : commands'[j] = NoCommand

\* A step that leaves the commands alone creates none.
LEMMA KeptSame == ASSUME TypeOK, UNCHANGED commands PROVE NoneCreated
BY CreatedType DEF NoneCreated, CommandsKept, TypeOK, Created

\* A new command is a pending document with the arguments it was given.
LEMMA NewCommandType ==
  ASSUME NEW kind \in Kinds, NEW version \in Nat, NEW value \in SUBSET Keys
  PROVE  /\ NewCommand(kind, version, value) \in CommandDocs
         /\ NewCommand(kind, version, value).kind = kind
         /\ NewCommand(kind, version, value).version = version
         /\ NewCommand(kind, version, value).value = value
         /\ NewCommand(kind, version, value).status = "pending"
BY DEF NewCommand, NoCommand, CommandDocs, Statuses, ActiveStatuses, Sources

\* Changing a command's status keeps the rest of it.
LEMMA StatusType ==
  ASSUME NEW c \in CommandDocs, NEW status \in Statuses
  PROVE  /\ [c EXCEPT !.status = status] \in CommandDocs
         /\ [c EXCEPT !.status = status].kind = c.kind
         /\ [c EXCEPT !.status = status].version = c.version
         /\ [c EXCEPT !.status = status].value = c.value
         /\ [c EXCEPT !.status = status].status = status
BY DEF CommandDocs

\* Expiring commands and creating one changes nothing else of the others.
LEMMA CreationKeeps ==
  ASSUME TypeOK, NEW ks, ks \subseteq Created, NEW k \in Commands, NEW doc \in CommandDocs,
         ExpireAndCreate(ks, k, doc)
  PROVE  /\ OneCreated(k, doc)
         /\ \A j \in Created :
              commands'[j].status = IF j \in ks THEN "expired" ELSE commands[j].status
<1>1. \A j \in Created : commands[j] \in CommandDocs /\ j # k
  BY CreatedType DEF ExpireAndCreate, Created
<1>2. ASSUME NEW j \in Commands
      PROVE  commands'[j] = IF j = k THEN doc
                            ELSE IF j \in ks THEN [commands[j] EXCEPT !.status = "expired"]
                            ELSE commands[j]
  BY <1>2 DEF ExpireAndCreate
<1>3. ASSUME NEW j \in Created
      PROVE  /\ commands'[j] \in CommandDocs
             /\ commands'[j].kind = commands[j].kind
             /\ commands'[j].version = commands[j].version
             /\ commands'[j].value = commands[j].value
             /\ commands'[j].status = IF j \in ks THEN "expired" ELSE commands[j].status
  <2>1. CASE j \notin ks
    BY <1>1, <1>2, <2>1 DEF Created
  <2>2. CASE j \in ks
    <3>1. commands'[j] = [commands[j] EXCEPT !.status = "expired"]
      BY <1>1, <1>2, <2>2 DEF Created
    <3>2. commands[j] \in CommandDocs /\ "expired" \in Statuses
      BY <1>1 DEF Statuses
    <3> QED  BY <2>2, <3>1, <3>2, StatusType
  <2> QED  BY <2>1, <2>2
<1>4. \A j \in Commands \ (Created \cup {k}) : commands'[j] = NoCommand
  BY <1>2 DEF Created
<1>5. commands'[k] = doc /\ k \notin Created
  BY <1>2 DEF ExpireAndCreate
<1>6. commands' \in [Commands -> CommandDocs \cup {NoCommand}]
  <2>1. \A j \in Commands : commands'[j] \in CommandDocs \cup {NoCommand}
    BY <1>3, <1>4, <1>5
  <2> QED  BY <2>1 DEF ExpireAndCreate
<1> QED  BY <1>3, <1>4, <1>5, <1>6 DEF OneCreated, CommandsKept

\* A save of one command changes status, source and retries of that one alone.
SavedAs(k, doc) == commands' = [commands EXCEPT ![k] = doc]

\* Saving a command keeps the kind, version and value it had.
LEMMA SaveKeeps ==
  ASSUME TypeOK, NEW k \in Created, NEW doc \in CommandDocs, SavedAs(k, doc),
         doc.kind = commands[k].kind, doc.version = commands[k].version,
         doc.value = commands[k].value,
         doc.status = "pending" => commands[k].status = "pending"
  PROVE  NoneCreated
BY CreatedType DEF SavedAs, NoneCreated, CommandsKept, TypeOK, Created

\* The save after a push creates and rewrites no command.
LEMMA PushSaveKeeps ==
  ASSUME TypeOK, KnownExist, NEW s \in Slots, PushSave(s)
  PROVE  NoneCreated
<1> DEFINE k == flight[s].id
           source == SavedSource(flight[s].read, "none", commands[k].source)
           doc == [commands[k] EXCEPT !.status = "sent", !.source = source]
<1>1. k \in Created /\ k \in Commands /\ commands[k] \in CommandDocs
  BY CreatedType DEF KnownExist, CreatingOps, PushSave, At, Created
<1>2. commands' = [commands EXCEPT ![k].status = "sent", ![k].source = source]
  BY DEF PushSave
<1>3. source \in Sources
  BY <1>1 DEF SavedSource, CommandDocs, Sources
<1>4. commands' = [commands EXCEPT ![k] = doc]
  BY <1>1, <1>2 DEF TypeOK
<1>5. /\ doc \in CommandDocs /\ doc.kind = commands[k].kind
      /\ doc.version = commands[k].version /\ doc.value = commands[k].value
      /\ doc.status = "sent"
  BY <1>1, <1>3 DEF CommandDocs, Statuses, ActiveStatuses
<1> HIDE DEF doc
<1> QED  BY <1>1, <1>4, <1>5, SaveKeeps DEF SavedAs

\* Neither does the save after a failed push.
LEMMA PushFailedKeeps ==
  ASSUME TypeOK, KnownExist, NEW s \in Slots, PushFailed(s)
  PROVE  NoneCreated
<1> DEFINE f == flight[s]
           k == f.id
           status == IF f.read.status = "failed" THEN commands[k].status ELSE "failed"
           retries == f.read.retries + 1
           source == SavedSource(f.read, "delivery", commands[k].source)
           doc == [commands[k] EXCEPT !.status = status, !.retries = retries, !.source = source]
<1>1. k \in Created /\ k \in Commands /\ commands[k] \in CommandDocs
  BY CreatedType DEF KnownExist, CreatingOps, PushFailed, At, Created
<1>2. f.read \in CommandDocs
  BY DEF PushFailed, At, TypeOK, Flights, Idle
<1>3. commands' = [commands EXCEPT ![k].status = status, ![k].retries = retries,
                                   ![k].source = source]
  BY DEF PushFailed
<1>4. /\ source \in Sources /\ retries \in Nat /\ status \in Statuses
      /\ status = "pending" => commands[k].status = "pending"
  BY <1>1, <1>2 DEF SavedSource, CommandDocs, Sources, Statuses
<1>5. commands' = [commands EXCEPT ![k] = doc]
  BY <1>1, <1>3 DEF TypeOK
<1>6. /\ doc \in CommandDocs /\ doc.kind = commands[k].kind
      /\ doc.version = commands[k].version /\ doc.value = commands[k].value
      /\ doc.status = status
  <2> HIDE DEF source, retries, status
  <2> QED  BY <1>1, <1>4 DEF CommandDocs
<1> HIDE DEF doc, status, source, retries, f, k
<1> QED  BY <1>1, <1>4, <1>5, <1>6, SaveKeeps DEF SavedAs

\* Neither does a synchronisation.
LEMMA SyncKeeps == ASSUME TypeOK, Sync PROVE NoneCreated
<1>1. ASSUME NEW k \in Commands
      PROVE  /\ k \in Created <=> commands[k] \in CommandDocs
             /\ k \notin Created => commands[k] = NoCommand
  BY <1>1, CreatedType DEF Created
<1>2. Latest(Active("control")) \subseteq Created
  BY DEF Latest, Active, Created, NoCommand
<1>3. ASSUME NEW k \in Commands
      PROVE  commands'[k] = IF k \in Latest(Active("control"))
                            THEN [commands[k] EXCEPT !.status = "sent"] ELSE commands[k]
  BY <1>3 DEF Sync
<1>4. \A k \in Commands \ Created : commands'[k] = NoCommand
  BY <1>1, <1>2, <1>3
<1>5. ASSUME NEW k \in Created
      PROVE  /\ commands'[k] \in CommandDocs
             /\ commands'[k].kind = commands[k].kind
             /\ commands'[k].version = commands[k].version
             /\ commands'[k].value = commands[k].value
             /\ commands'[k].status = "pending" => commands[k].status = "pending"
  <2>1. k \in Commands /\ commands[k] \in CommandDocs /\ "sent" \in Statuses
    BY <1>1 DEF Created, Statuses, ActiveStatuses
  <2>2. CASE commands'[k] = commands[k]
    BY <2>1, <2>2
  <2>3. CASE commands'[k] = [commands[k] EXCEPT !.status = "sent"]
    BY <2>1, <2>3, StatusType
  <2> QED  BY <1>3, <2>1, <2>2, <2>3
<1>6. commands' \in [Commands -> CommandDocs \cup {NoCommand}]
  <2>1. \A k \in Commands : commands'[k] \in CommandDocs \cup {NoCommand}
    BY <1>4, <1>5
  <2> QED  BY <2>1 DEF Sync
<1> QED  BY <1>4, <1>5, <1>6 DEF NoneCreated, CommandsKept

\* Neither does the status an acknowledgement records.
LEMMA AckStatusKeeps ==
  ASSUME TypeOK, KnownExist, NEW s \in Slots, AckStatus(s)
  PROVE  NoneCreated
<1> DEFINE f == flight[s]
           source == SavedSource(f.read, IF f.outcome = "failed" THEN "device_enforcement" ELSE "none",
                                 commands[f.id].source)
           status == IF f.read.status = f.outcome THEN commands[f.id].status ELSE f.outcome
           saved == [commands[f.id] EXCEPT !.status = status, !.source = source]
           closed == IF f.read.kind = "release" /\ f.outcome = "acknowledged"
                     THEN Active("release") \ {f.id} ELSE {}
<1>1. /\ f.id \in Created /\ f.id \in Commands /\ commands[f.id] \in CommandDocs
      /\ f.outcome \in Outcomes
  <2>1. f.op = "ack_status" /\ f \in Flights
    BY DEF AckStatus, At, TypeOK
  <2>2. f.outcome \in Outcomes
    BY <2>1 DEF Flights, Idle
  <2>3. f.id \in Created
    BY <2>1 DEF KnownExist, CreatingOps
  <2> QED  BY <2>2, <2>3, CreatedType DEF Created
<1>2. ASSUME NEW k \in Commands
      PROVE  /\ k \in Created <=> commands[k] \in CommandDocs
             /\ k \notin Created => commands[k] = NoCommand
  BY <1>2, CreatedType DEF Created
<1>3. closed \subseteq Created
  BY DEF Active, Created, NoCommand
<1>4. ASSUME NEW k \in Commands
      PROVE  commands'[k] = IF k = f.id THEN saved
                            ELSE IF k \in closed THEN [commands[k] EXCEPT !.status = "expired"]
                            ELSE commands[k]
  BY <1>4, Zenon DEF AckStatus
<1>5. /\ source \in Sources /\ status \in Statuses
      /\ status = "pending" => commands[f.id].status = "pending"
  BY <1>1 DEF SavedSource, CommandDocs, Sources, Statuses, Outcomes
<1>6. /\ saved \in CommandDocs /\ saved.kind = commands[f.id].kind
      /\ saved.version = commands[f.id].version /\ saved.value = commands[f.id].value
      /\ saved.status = status
  <2> HIDE DEF source, status, f
  <2> QED  BY <1>1, <1>5 DEF CommandDocs
<1> HIDE DEF saved, closed, status, source, f
<1>7. \A k \in Commands \ Created : commands'[k] = NoCommand
  BY <1>1, <1>2, <1>3, <1>4
<1>8. ASSUME NEW k \in Created
      PROVE  /\ commands'[k] \in CommandDocs
             /\ commands'[k].kind = commands[k].kind
             /\ commands'[k].version = commands[k].version
             /\ commands'[k].value = commands[k].value
             /\ commands'[k].status = "pending" => commands[k].status = "pending"
  <2>1. k \in Commands /\ commands[k] \in CommandDocs /\ "expired" \in Statuses
    BY <1>2 DEF Created, Statuses
  <2>2. CASE commands'[k] = commands[k]
    BY <2>1, <2>2
  <2>3. CASE commands'[k] = [commands[k] EXCEPT !.status = "expired"]
    BY <2>1, <2>3, StatusType
  <2>4. CASE k = f.id
    BY <1>4, <1>5, <1>6, <2>1, <2>4
  <2> QED  BY <1>4, <2>1, <2>2, <2>3, <2>4
<1>9. commands' \in [Commands -> CommandDocs \cup {NoCommand}]
  <2>1. \A k \in Commands : commands'[k] \in CommandDocs \cup {NoCommand}
    BY <1>7, <1>8
  <2> QED  BY <2>1 DEF AckStatus
<1> QED  BY <1>7, <1>8, <1>9 DEF NoneCreated, CommandsKept

\* Neither does the acknowledgement of a security control.
LEMMA AckControlKeeps ==
  ASSUME TypeOK, KnownExist, NEW k \in Commands, NEW outcome \in Outcomes, AckControl(k, outcome)
  PROVE  NoneCreated
<1> DEFINE source == IF outcome = "failed" THEN "device_enforcement" ELSE "none"
           doc == [commands[k] EXCEPT !.status = outcome, !.source = source]
<1>1. k \in Created /\ commands[k] \in CommandDocs
  BY CreatedType DEF KnownExist, AckControl
<1>2. commands' = [commands EXCEPT ![k].status = outcome, ![k].source = source]
  BY DEF AckControl
<1>3. source \in Sources /\ outcome \in Statuses /\ outcome # "pending"
  BY DEF Sources, Outcomes, Statuses
<1>4. commands' = [commands EXCEPT ![k] = doc]
  BY <1>1, <1>2 DEF TypeOK
<1>5. /\ doc \in CommandDocs /\ doc.kind = commands[k].kind
      /\ doc.version = commands[k].version /\ doc.value = commands[k].value
      /\ doc.status = outcome
  <2> HIDE DEF source
  <2> QED  BY <1>1, <1>3 DEF CommandDocs
<1> HIDE DEF doc
<1> QED  BY <1>1, <1>3, <1>4, <1>5, SaveKeeps DEF SavedAs
-----------------------------------------------------------------------------
(* What each kind of step does *)

KeptSetting(n) ==
  /\ settings'[n].desired = settings[n].desired
  /\ settings'[n].desiredVersion = settings[n].desiredVersion

Versions(kind) == {commands[k].version : k \in {j \in Created : commands[j].kind = kind}}

\* What an operator's value of the control was ever numbered.
ControlVersions == {0} \cup Versions("control")

UpdateOps == {"update", "clear"}

\* A new value is wanted, or the one wanted is sent again.
Wants(n, version, value, k) ==
  /\ released = "no" /\ UNCHANGED <<released, reopened, known>>
  /\ \E s \in Slots : flight[s].op \in UpdateOps
  /\ OneCreated(k, NewCommand(n, version, value))
  /\ settings' = [settings EXCEPT ![n] = [settings[n] EXCEPT !.desired = value,
                                                             !.desiredVersion = version]]
  /\ \/ version = settings[n].desiredVersion + 1
     \/ /\ version = settings[n].desiredVersion /\ value = settings[n].desired
        /\ n = "control" => version \in ControlVersions
  /\ \A j \in Created : commands[j].kind = n => commands'[j].status # "pending"

\* A release is queued.
Releases(k) ==
  /\ released # "done" /\ released' = "pending"
  /\ UNCHANGED <<reopened, settings, known, flight>>
  /\ OneCreated(k, NewCommand("release", 0, {}))
  /\ \A j \in Created : commands[j].kind \in SettingNames => commands'[j].status # "pending"

\* A wanted control is recorded as applied.
Confirms(k) ==
  /\ UNCHANGED <<released, reopened, known, flight>> /\ NoneCreated
  /\ k \in Created /\ commands[k].kind = "control"
  /\ commands[k].version = settings["control"].desiredVersion
  /\ settings' = [settings EXCEPT !["control"] =
                    [settings["control"] EXCEPT !.applied = commands[k].value,
                                                !.appliedVersion = commands[k].version]]

\* Nothing wanted changes.
Quiet ==
  /\ NoneCreated /\ UNCHANGED <<released, reopened>>
  /\ settings' \in [SettingNames -> Settings]
  /\ settings'["control"] = settings["control"]
  /\ KeptSetting("restrictions")

\* A release is written over.
Reopens ==
  /\ reopened' /\ released' = "no" /\ NoneCreated
  /\ UNCHANGED <<settings, commands, known, flight>>

\* A retry in progress repeats a version an operator's value had.
RetryKnown ==
  \A s \in Slots :
    flight[s].op = "update" /\ flight[s].name = "control" /\ flight[s].retry =>
      flight[s].version \in ControlVersions

\* Committing an update asks the device for a newer version.
LEMMA UpdateCommitWants ==
  ASSUME TypeOK, RetryKnown, NEW s \in Slots, NEW k \in Commands, UpdateCommit(s, k)
  PROVE  \E n \in SettingNames, version \in Nat, value \in SUBSET Keys : Wants(n, version, value, k)
<1> DEFINE f == flight[s]
           value == IF f.retry THEN settings[f.name].desired
                    ELSE Toggled(settings[f.name].desired, f.key, f.on)
           version == NextVersion(f)
           d == [settings[f.name] EXCEPT !.desired = value, !.desiredVersion = version]
<1>1. f.op = "update" /\ f \in Flights
  BY DEF UpdateCommit, At, TypeOK
<1>2. f.name \in SettingNames /\ f.key \in Keys /\ f.retry \in BOOLEAN
  BY <1>1 DEF Flights, Idle
<1>3. settings[f.name] \in Settings
  BY <1>2 DEF TypeOK
<1>4. value \in SUBSET Keys /\ version \in Nat
  BY <1>2, <1>3 DEF Toggled, NextVersion, Settings
<1>5. \/ version = settings[f.name].desiredVersion + 1
      \/ /\ version = settings[f.name].desiredVersion /\ value = settings[f.name].desired
         /\ f.name = "control" => version \in ControlVersions
  <2>1. CASE f.retry
    <3>1. settings[f.name].desiredVersion = f.version
      BY <2>1 DEF UpdateCommit, RetryStillMatches
    <3> QED  BY <1>1, <2>1, <3>1 DEF NextVersion, RetryKnown
  <2>2. CASE ~f.retry
    BY <1>2, <2>2 DEF NextVersion
  <2> QED  BY <2>1, <2>2
<1>6. /\ released = "no" /\ UNCHANGED <<released, reopened, known>>
      /\ settings' = [settings EXCEPT ![f.name] = d]
      /\ ExpireAndCreate(Superseded(f.name), k, NewCommand(f.name, d.desiredVersion, d.desired))
  BY Zenon DEF UpdateCommit, state
<1>7. d.desiredVersion = version /\ d.desired = value
  <2> HIDE DEF value, version
  <2> QED  BY <1>3 DEF Settings
<1>8. NewCommand(f.name, version, value) \in CommandDocs
  BY <1>2, <1>4, NewCommandType DEF Kinds
<1>9. Superseded(f.name) \subseteq Created
  BY DEF Superseded, Active, ActiveStatuses, Created, NoCommand
<1>10. \A j \in Created : commands[j].kind = f.name /\ commands[j].status = "pending"
                            => j \in Superseded(f.name)
  BY DEF Superseded, Active, ActiveStatuses, Created
<1> HIDE DEF value, version, d, f
<1>11. /\ OneCreated(k, NewCommand(f.name, version, value))
       /\ \A j \in Created :
            commands'[j].status = IF j \in Superseded(f.name) THEN "expired" ELSE commands[j].status
  BY <1>6, <1>7, <1>8, <1>9, CreationKeeps
<1>12. Wants(f.name, version, value, k)
  BY <1>1, <1>5, <1>6, <1>10, <1>11 DEF Wants, d, f, UpdateOps
<1> QED  BY <1>2, <1>4, <1>12

\* Committing a clearance asks it for no restriction at all.
LEMMA ClearCommitWants ==
  ASSUME TypeOK, NEW s \in Slots, NEW k \in Commands, ClearCommit(s, k)
  PROVE  \E version \in Nat : Wants("restrictions", version, {}, k)
<1> DEFINE version == settings["restrictions"].desiredVersion + 1
           doc == NewCommand("restrictions", version, {})
<1>1. settings \in [SettingNames -> Settings] /\ settings["restrictions"] \in Settings
  BY DEF TypeOK, SettingNames
<1>2. version \in Nat
  BY <1>1 DEF Settings
<1>3. /\ released = "no" /\ UNCHANGED <<released, reopened, known>>
      /\ flight[s].op = "clear"
      /\ ExpireAndCreate(Active("restrictions"), k, doc)
      /\ settings' = [settings EXCEPT !.restrictions.desired = {},
                                      !.restrictions.desiredVersion = version]
  BY DEF ClearCommit, state, At
<1>4. settings' = [settings EXCEPT !["restrictions"] =
                     [settings["restrictions"] EXCEPT !.desired = {}, !.desiredVersion = version]]
  BY <1>1, <1>3 DEF SettingNames
<1>5. doc \in CommandDocs
  BY <1>2, NewCommandType DEF Kinds, SettingNames
<1>6. Active("restrictions") \subseteq Created
  BY DEF Active, ActiveStatuses, Created, NoCommand
<1> HIDE DEF doc
<1>7. /\ OneCreated(k, doc)
      /\ \A j \in Created :
           commands'[j].status = IF j \in Active("restrictions") THEN "expired" ELSE commands[j].status
  BY <1>3, <1>5, <1>6, CreationKeeps
<1>8. \A j \in Created : commands[j].kind = "restrictions" => commands'[j].status # "pending"
  BY <1>7 DEF Active, ActiveStatuses, Created
<1> QED  BY <1>2, <1>3, <1>4, <1>7, <1>8 DEF Wants, doc, UpdateOps

\* A release clears every setting and creates its command.
LEMMA ReleaseReleases ==
  ASSUME TypeOK, NEW k \in Commands, Release(k) PROVE Releases(k)
<1> DEFINE doc == NewCommand("release", 0, {})
           ks == Active("restrictions") \cup Active("control")
<1>1. doc \in CommandDocs
  BY NewCommandType DEF Kinds
<1>2. ks \subseteq Created
  BY DEF Active, ActiveStatuses, Created, NoCommand
<1>3. ExpireAndCreate(ks, k, doc)
  BY DEF Release
<1>4. \A j \in Created : commands[j].kind \in SettingNames /\ commands[j].status = "pending" => j \in ks
  BY DEF Active, ActiveStatuses, Created, SettingNames
<1> HIDE DEF doc, ks
<1>5. /\ OneCreated(k, doc)
      /\ \A j \in Created : commands'[j].status = IF j \in ks THEN "expired" ELSE commands[j].status
  BY <1>1, <1>2, <1>3, CreationKeeps
<1> QED  BY <1>4, <1>5 DEF Releases, Release, doc

\* The acknowledgement of a control confirms its version, or changes no setting.
LEMMA AckControlConfirms ==
  ASSUME TypeOK, KnownExist, NEW k \in Commands, NEW outcome \in Outcomes, AckControl(k, outcome)
  PROVE  \/ Confirms(k)
         \/ Quiet /\ UNCHANGED <<settings, known, flight>>
<1>1. NoneCreated /\ UNCHANGED <<released, reopened, known, flight>>
  BY AckControlKeeps DEF AckControl, state
<1>2. CASE outcome = "acknowledged" /\ Current(commands[k])
  <2>1. settings' = [settings EXCEPT !.control.applied = commands[k].value,
                                     !.control.appliedVersion = commands[k].version]
    BY <1>2 DEF AckControl
  <2>2. settings \in [SettingNames -> Settings]
    BY DEF TypeOK
  <2>3. settings' = [settings EXCEPT !["control"] =
                       [settings["control"] EXCEPT !.applied = commands[k].value,
                                                   !.appliedVersion = commands[k].version]]
    BY <2>1, <2>2 DEF SettingNames
  <2> QED  BY <1>1, <1>2, <2>3 DEF Confirms, AckControl, Current, KnownExist
<1>3. CASE ~(outcome = "acknowledged" /\ Current(commands[k]))
  BY <1>1, <1>3 DEF AckControl, Quiet, KeptSetting, TypeOK
<1> QED  BY <1>2, <1>3

\* A release is confirmed: the record of the control is closed.
Finishes(entry) ==
  /\ released' \in {released, "done"} /\ UNCHANGED <<reopened, known>> /\ NoneCreated
  /\ settings' \in [SettingNames -> Settings]
  /\ settings'["control"] = ReleasedControl(entry)
  /\ settings'["restrictions"].desiredVersion = settings["restrictions"].desiredVersion

\* A released setting is a setting, at a newer version than before.
LEMMA ReleasedType ==
  ASSUME NEW entry \in Settings
  PROVE  /\ ReleasedControl(entry) \in Settings
         /\ ReleasedControl(entry).desired = {} /\ ReleasedControl(entry).applied = {}
         /\ ReleasedControl(entry).desiredVersion > entry.desiredVersion
         /\ ReleasedControl(entry).appliedVersion = ReleasedControl(entry).desiredVersion
<1> DEFINE newest == Max({entry.desiredVersion, entry.appliedVersion})
<1>1. entry.desiredVersion \in Nat /\ entry.appliedVersion \in Nat
  BY DEF Settings
<1>2. \E x \in {entry.desiredVersion, entry.appliedVersion} :
        \A y \in {entry.desiredVersion, entry.appliedVersion} : x >= y
  BY <1>1
<1>3. newest \in Nat /\ newest >= entry.desiredVersion
  BY <1>1, <1>2 DEF Max
<1> HIDE DEF newest
<1>4. ReleasedControl(entry) = [desired |-> {}, desiredVersion |-> newest + 1,
                                applied |-> {}, appliedVersion |-> newest + 1]
  BY DEF ReleasedControl, newest
<1> QED  BY <1>1, <1>3, <1>4 DEF Settings

AckFlights == [op : {"ack_device", "ack_status"}, id : Commands, outcome : Outcomes,
               done : BOOLEAN, read : CommandDocs, device : [SettingNames -> Settings]]

\* What an acknowledgement in flight carries.
LEMMA AckFlight ==
  ASSUME TypeOK, NEW s \in Slots, flight[s].op \in {"ack_device", "ack_status"}
  PROVE  flight[s] \in AckFlights
<1>1. flight[s] \in Flights
  BY DEF TypeOK
<1> QED  BY <1>1 DEF Flights, AckFlights, Idle

\* The acknowledgement of restrictions changes nothing that is wanted.
LEMMA AckRestrictionsQuiet ==
  ASSUME TypeOK, NEW s \in Slots, AckRestrictions(s)
  PROVE  Quiet /\ UNCHANGED <<commands, known>>
<1> DEFINE f == flight[s]
           r == settings["restrictions"]
           old == f.device["restrictions"]
           applied == IF f.read.value = old.applied THEN r.applied ELSE f.read.value
           version == IF f.read.version = old.appliedVersion THEN r.appliedVersion ELSE f.read.version
           new == [r EXCEPT !.applied = applied, !.appliedVersion = version]
<1>1. UNCHANGED <<released, reopened, commands, known>> /\ NoneCreated
  BY KeptSame DEF AckRestrictions, state
<1>2. settings \in [SettingNames -> Settings] /\ r \in Settings
  BY DEF TypeOK, SettingNames
<1>3. f.read \in CommandDocs /\ old \in Settings
  <2>1. f \in AckFlights
    BY AckFlight DEF AckRestrictions, At
  <2> QED  BY <2>1 DEF AckFlights, SettingNames
<1>4. applied \in SUBSET Keys /\ version \in Nat
  BY <1>2, <1>3 DEF Settings, CommandDocs
<1>5. settings' \in {settings, [settings EXCEPT !["restrictions"] = new]}
  <2>1. settings' = settings \/ settings' = [settings EXCEPT !.restrictions.applied = applied,
                                                            !.restrictions.appliedVersion = version]
    BY DEF AckRestrictions
  <2> QED  BY <1>2, <2>1 DEF SettingNames
<1>6. /\ new \in Settings /\ new.desired = r.desired /\ new.desiredVersion = r.desiredVersion
  <2> HIDE DEF applied, version
  <2> QED  BY <1>2, <1>4 DEF Settings
<1> HIDE DEF new
<1>7. /\ settings' \in [SettingNames -> Settings] /\ settings'["control"] = settings["control"]
      /\ KeptSetting("restrictions")
  BY <1>2, <1>5, <1>6 DEF SettingNames, KeptSetting
<1> QED  BY <1>1, <1>7 DEF Quiet

\* The acknowledgement of a release finishes it, from the setting it read.
LEMMA AckReleaseFinishes ==
  ASSUME TypeOK, NEW s \in Slots, AckRelease(s)
  PROVE  /\ Finishes(flight[s].device["control"]) /\ UNCHANGED commands
         /\ released' = IF flight[s].done THEN released ELSE "done"
<1> DEFINE f == flight[s]
           r == settings["restrictions"]
           old == f.device["restrictions"]
           desired == IF old.desired = {} THEN r.desired ELSE {}
           applied == IF old.applied = {} THEN r.applied ELSE {}
           new == [r EXCEPT !.desired = desired, !.applied = applied]
           closed == ReleasedControl(f.device["control"])
<1>1. /\ UNCHANGED <<commands, reopened, known>> /\ NoneCreated
      /\ released' = IF f.done THEN released ELSE "done"
  BY KeptSame DEF AckRelease
<1>2. settings \in [SettingNames -> Settings] /\ r \in Settings
  BY DEF TypeOK, SettingNames
<1>3. closed \in Settings
  <2>1. f \in AckFlights
    BY AckFlight DEF AckRelease, At
  <2>2. f.device["control"] \in Settings
    BY <2>1 DEF AckFlights, SettingNames
  <2> QED  BY <2>2, ReleasedType
<1>4. desired \in SUBSET Keys /\ applied \in SUBSET Keys
  BY <1>2 DEF Settings
<1>5. settings' = [settings EXCEPT !.restrictions.desired = desired,
                                   !.restrictions.applied = applied, !.control = closed]
  BY Zenon DEF AckRelease
<1> HIDE DEF closed, desired, applied
<1>6. settings' = [settings EXCEPT !["restrictions"] = new, !["control"] = closed]
  BY <1>2, <1>5 DEF SettingNames
<1>7. new \in Settings /\ new.desiredVersion = r.desiredVersion
  BY <1>2, <1>4 DEF Settings
<1> HIDE DEF new
<1>8. /\ settings' \in [SettingNames -> Settings] /\ settings'["control"] = closed
      /\ settings'["restrictions"].desiredVersion = r.desiredVersion
  BY <1>2, <1>3, <1>6, <1>7 DEF SettingNames
<1> QED  BY <1>1, <1>8 DEF Finishes, closed

\* A step that leaves settings and release alone is quiet.
LEMMA UnchangedQuiet ==
  ASSUME TypeOK, NoneCreated, UNCHANGED <<state, settings>> PROVE Quiet
BY DEF Quiet, KeptSetting, TypeOK, state

-----------------------------------------------------------------------------
(* Every step *)

\* A retry has found its setting wanted and not yet applied.
RetryRead(f) ==
  /\ f.version = settings[f.name].desiredVersion
  /\ settings[f.name].appliedVersion < settings[f.name].desiredVersion

\* What a handler that takes a step holds afterwards.
Moves(s) ==
  \E f \in Flights :
    /\ flight' = [flight EXCEPT ![s] = f]
    /\ flight[s] # Idle \/ Begin(s, f)
    /\ f.op \in CreatingOps => f.id \in Created
    /\ f.op = "update" /\ f.retry => RetryRead(f)
    /\ f.op = "ack_device" => /\ UNCHANGED <<released, reopened, settings, commands>>
                              /\ \E k \in Created : f.read = commands[k]
                              /\ f.device = settings
                              /\ f.done => released = "done"

\* A request that ends moves its slot.
LEMMA EndMoves == ASSUME NEW s \in Slots, flight[s] # Idle, End(s) PROVE Moves(s)
<1>1. Idle \in Flights
  BY DEF Flights
<1>2. Idle.op \notin CreatingOps /\ Idle.op # "ack_device" /\ Idle.op # "update"
  BY DEF Idle, CreatingOps
<1> QED  BY <1>1, <1>2 DEF End, Continue, Moves

\* Reading for an update moves one slot.
LEMMA UpdateReadMoves ==
  ASSUME TypeOK, NEW s \in Slots, NEW n \in SettingNames, NEW key \in Keys, NEW on \in BOOLEAN,
         NEW retry \in BOOLEAN, UpdateRead(s, n, key, on, retry)
  PROVE  Moves(s)
<1> DEFINE f == [op |-> "update", name |-> n, key |-> key, on |-> on, retry |-> retry,
                 version |-> settings[n].desiredVersion]
<1>1. settings[n].desiredVersion \in Nat
  BY DEF TypeOK, Settings
<1>2. /\ f \in Flights /\ f.op \notin CreatingOps /\ f.op # "ack_device"
      /\ f.retry => RetryRead(f)
  BY <1>1 DEF Flights, CreatingOps, UpdateRead, RetryAllowed, RetryRead
<1>3. Begin(s, f)
  BY DEF UpdateRead
<1> HIDE DEF f
<1>4. flight' = [flight EXCEPT ![s] = f]
  BY <1>3 DEF Begin
<1> QED  BY <1>2, <1>3, <1>4 DEF Moves

\* So does reading for a clearance.
LEMMA ClearReadMoves == ASSUME NEW s \in Slots, ClearRead(s) PROVE Moves(s)
<1>1. [op |-> "clear"] \in Flights
  BY DEF Flights
<1> QED  BY <1>1 DEF ClearRead, Begin, Moves, CreatingOps

\* So does reading for a push.
LEMMA PushReadMoves ==
  ASSUME TypeOK, NEW s \in Slots, NEW k \in Commands, PushRead(s, k) PROVE Moves(s)
<1> DEFINE f == [op |-> "push", id |-> k, read |-> commands[k]]
<1>1. k \in Created /\ commands[k] \in CommandDocs
  BY CreatedType DEF PushRead, Deliverable, Created, NoCommand
<1>2. f \in Flights /\ f.id \in Created /\ f.op # "ack_device" /\ f.op # "update"
  BY <1>1 DEF Flights
<1>3. Begin(s, f)
  BY DEF PushRead
<1> HIDE DEF f
<1>4. flight' = [flight EXCEPT ![s] = f]
  BY <1>3 DEF Begin
<1> QED  BY <1>2, <1>3, <1>4 DEF Moves

\* Sending moves one slot; the device then knows only created commands.
LEMMA PushSendMoves ==
  ASSUME TypeOK, KnownExist, NEW s \in Slots, PushSend(s) PROVE Moves(s) /\ known' \subseteq Created
<1> DEFINE f == [flight[s] EXCEPT !.op = "pushed"]
<1>1. flight[s] \in Flights /\ flight[s].op = "push"
  BY DEF PushSend, At, TypeOK
<1>2. flight[s] \in [op : {"push", "pushed"}, id : Commands, read : CommandDocs]
  BY <1>1 DEF Flights, Idle
<1>3. flight[s].id \in Created
  BY <1>1 DEF KnownExist, CreatingOps
<1>4. /\ f \in [op : {"push", "pushed"}, id : Commands, read : CommandDocs]
      /\ f.id = flight[s].id /\ f.op = "pushed"
  BY <1>2
<1>5. f \in Flights
  BY <1>4 DEF Flights
<1>6. flight' = [flight EXCEPT ![s] = f] /\ known' = known \cup {flight[s].id}
  BY DEF PushSend, Continue
<1>7. flight[s] # Idle
  BY <1>1 DEF Idle
<1> HIDE DEF f
<1> QED  BY <1>3, <1>4, <1>5, <1>6, <1>7 DEF Moves, KnownExist

\* An acknowledgement is read for a command that exists.
LEMMA AckReadMoves ==
  ASSUME TypeOK, KnownExist, NEW s \in Slots, NEW k \in Commands, NEW outcome \in Outcomes,
         AckRead(s, k, outcome)
  PROVE  Moves(s)
<1> DEFINE f == [op |-> IF outcome = "acknowledged" THEN "ack_device" ELSE "ack_status",
                 id |-> k, outcome |-> outcome, read |-> commands[k],
                 done |-> outcome = "acknowledged" /\ released = "done",
                 device |-> IF outcome = "acknowledged" THEN settings ELSE Unread]
<1>1. k \in Created /\ commands[k] \in CommandDocs
  BY CreatedType DEF AckRead, KnownExist
<1>2. settings \in [SettingNames -> Settings] /\ Unread \in [SettingNames -> Settings]
  BY DEF TypeOK, Unread, NewSetting, Settings
<1>3. f \in AckFlights
  BY <1>1, <1>2 DEF AckFlights
<1>4. f \in Flights
  BY <1>3 DEF AckFlights, Flights
<1>5. /\ f.id \in Created /\ f.read = commands[k] /\ f.op # "update"
      /\ f.op = "ack_device" => f.device = settings /\ (f.done => released = "done")
  BY <1>1
<1>6. /\ Begin(s, f) /\ flight' = [flight EXCEPT ![s] = f]
      /\ UNCHANGED <<released, reopened, settings, commands>>
  BY DEF AckRead, Begin, state
<1> HIDE DEF f
<1> QED  BY <1>1, <1>4, <1>5, <1>6 DEF Moves

\* What an acknowledgement recorded is carried to its next part.
LEMMA RecordedMoves ==
  ASSUME TypeOK, KnownExist, NEW s \in Slots, flight[s].op = "ack_device",
         Continue(s, Recorded(flight[s]))
  PROVE  Moves(s)
<1> DEFINE f == Recorded(flight[s])
<1>1. flight[s] \in AckFlights /\ flight[s].id \in Created
  BY AckFlight DEF KnownExist, CreatingOps
<1>2. Unread \in [SettingNames -> Settings]
  BY DEF Unread, NewSetting, Settings
<1>3. f \in AckFlights /\ f.id = flight[s].id /\ f.op = "ack_status"
  BY <1>1, <1>2 DEF AckFlights, Recorded
<1>4. f \in Flights
  BY <1>3 DEF AckFlights, Flights
<1>5. flight' = [flight EXCEPT ![s] = f] /\ flight[s] # Idle
  BY DEF Continue, Idle
<1> HIDE DEF f
<1> QED  BY <1>1, <1>3, <1>4, <1>5 DEF Moves

\* A synchronisation hands out created commands only.
LEMMA HandedExist == Handed \subseteq Created
BY DEF Handed, Latest, Active, ActiveStatuses, Created, NoCommand

Effect ==
  \/ \E n \in SettingNames, version \in Nat, value \in SUBSET Keys, k \in Commands :
       Wants(n, version, value, k)
  \/ \E k \in Commands : Releases(k)
  \/ \E k \in Commands : Confirms(k)
  \/ \E s \in Slots : AckRelease(s)
  \/ Quiet
  \/ Reopens

Motion ==
  /\ known' \subseteq Created
  /\ UNCHANGED flight \/ \E s \in Slots : Moves(s)
  /\ UNCHANGED scenario /\ failures' \in Nat

\* Each step of a handler has one of the named effects.
LEMMA HandleEffect ==
  ASSUME TypeOK, KnownExist, RetryKnown, NEW s \in Slots, Handle(s) PROVE Effect /\ Motion
<1>0. known \subseteq Created /\ failures \in Nat /\ (UNCHANGED failures => failures' \in Nat)
  BY DEF KnownExist, TypeOK
<1>1. ASSUME NEW n \in SettingNames, NEW key \in Keys, NEW on \in BOOLEAN, NEW retry \in BOOLEAN,
             UpdateRead(s, n, key, on, retry)
      PROVE  Effect /\ Motion
  BY <1>0, <1>1, UpdateReadMoves, KeptSame, UnchangedQuiet DEF UpdateRead, Effect, Motion, bounds
<1>2. ASSUME NEW k \in Commands, UpdateCommit(s, k) PROVE Effect /\ Motion
  <2>1. Effect
    BY <1>2, UpdateCommitWants DEF Effect
  <2> QED  BY <1>0, <1>2, <2>1, EndMoves DEF UpdateCommit, Motion, bounds, At, Idle
<1>3. ASSUME NEW k \in Commands, ClearCommit(s, k) PROVE Effect /\ Motion
  <2>1. Effect
    BY <1>3, ClearCommitWants DEF Effect, SettingNames
  <2> QED  BY <1>0, <1>3, <2>1, EndMoves DEF ClearCommit, Motion, bounds, At, Idle
<1>4. ASSUME NEW k \in Commands, PushRead(s, k) PROVE Effect /\ Motion
  BY <1>0, <1>4, PushReadMoves, KeptSame, UnchangedQuiet DEF PushRead, Effect, Motion, bounds
<1>5. ASSUME NEW k \in Commands, NEW outcome \in Outcomes, AckRead(s, k, outcome)
      PROVE  Effect /\ Motion
  BY <1>0, <1>5, AckReadMoves, KeptSame, UnchangedQuiet DEF AckRead, Effect, Motion, bounds
<1>6. CASE UpdateRefused(s)
  BY <1>0, <1>6, EndMoves, KeptSame, UnchangedQuiet DEF UpdateRefused, Effect, Motion, bounds, At, Idle
<1>7. CASE ClearRead(s)
  BY <1>0, <1>7, ClearReadMoves, KeptSame, UnchangedQuiet DEF ClearRead, Effect, Motion, bounds
<1>8. CASE PushSend(s)
  BY <1>0, <1>8, PushSendMoves, KeptSame, UnchangedQuiet DEF PushSend, Effect, Motion, bounds
<1>9. CASE PushSave(s)
  <2>1. At(s, "pushed") /\ End(s) /\ UNCHANGED <<bounds, state, settings, known>>
    BY <1>9, Zenon DEF PushSave
  <2>2. NoneCreated
    BY <1>9, PushSaveKeeps
  <2>3. Moves(s)
    BY <2>1, EndMoves DEF At, Idle
  <2> QED  BY <1>0, <2>1, <2>2, <2>3, UnchangedQuiet DEF Effect, Motion, bounds
<1>10. CASE PushFailed(s)
  <2>1. At(s, "push") /\ End(s) /\ UNCHANGED <<bounds, state, settings, known>>
    BY <1>10, Zenon DEF PushFailed
  <2>2. NoneCreated
    BY <1>10, PushFailedKeeps
  <2>3. Moves(s)
    BY <2>1, EndMoves DEF At, Idle
  <2> QED  BY <1>0, <2>1, <2>2, <2>3, UnchangedQuiet DEF Effect, Motion, bounds
<1>11. CASE AckRestrictions(s)
  BY <1>0, <1>11, RecordedMoves, AckRestrictionsQuiet DEF AckRestrictions, At, Effect, Motion, bounds
<1>12. CASE AckRelease(s)
  BY <1>0, <1>12, RecordedMoves DEF AckRelease, At, Effect, Motion, bounds
<1>13. CASE AckStatus(s)
  <2>1. At(s, "ack_status") /\ End(s) /\ UNCHANGED <<bounds, state, settings, known>>
    BY <1>13, Zenon DEF AckStatus
  <2>2. NoneCreated
    BY <1>13, AckStatusKeeps
  <2>3. Moves(s)
    BY <2>1, EndMoves DEF At, Idle
  <2> QED  BY <1>0, <2>1, <2>2, <2>3, UnchangedQuiet DEF Effect, Motion, bounds
<1>14. CASE Fail(s)
  BY <1>0, <1>14, EndMoves, KeptSame, UnchangedQuiet DEF Fail, Effect, Motion
<1> QED
  BY <1>1, <1>2, <1>3, <1>4, <1>5, <1>6, <1>7, <1>8, <1>9, <1>10, <1>11, <1>12, <1>13, <1>14
  DEF Handle

\* So has every step.
LEMMA NextEffect ==
  ASSUME TypeOK, KnownExist, RetryKnown, [Next]_vars PROVE Effect /\ Motion
<1>0. known \subseteq Created /\ failures \in Nat /\ (UNCHANGED failures => failures' \in Nat)
  BY DEF KnownExist, TypeOK
<1>1. CASE UNCHANGED vars
  BY <1>0, <1>1, KeptSame, UnchangedQuiet DEF vars, state, Effect, Motion
<1>2. CASE Sync
  <2>1. known' \subseteq Created
    BY <1>0, <1>2, HandedExist DEF Sync
  <2> QED  BY <1>0, <1>2, <2>1, SyncKeeps, UnchangedQuiet DEF Sync, Effect, Motion, bounds
<1>3. ASSUME NEW k \in Commands, Release(k) PROVE Effect /\ Motion
  BY <1>0, <1>3, ReleaseReleases DEF Release, Effect, Motion, bounds
<1>4. ASSUME NEW k \in Commands, NEW outcome \in Outcomes, AckControl(k, outcome)
      PROVE  Effect /\ Motion
  BY <1>0, <1>4, AckControlConfirms DEF AckControl, Effect, Motion, bounds
<1>5. CASE WriteOverRelease
  BY <1>0, <1>5, KeptSame DEF WriteOverRelease, Effect, Motion, Reopens, bounds
<1> QED  BY <1>1, <1>2, <1>3, <1>4, <1>5, HandleEffect DEF Next

-----------------------------------------------------------------------------
(* Types *)

\* Those effects keep settings and commands typed.
LEMMA EffectTypes ==
  ASSUME TypeOK, Effect
  PROVE  /\ CommandsKept /\ settings' \in [SettingNames -> Settings]
         /\ released' \in {"no", "pending", "done"} /\ reopened' \in BOOLEAN
<1>0. released \in {"no", "pending", "done"} /\ reopened \in BOOLEAN /\ settings \in [SettingNames -> Settings]
  BY DEF TypeOK
<1>1. ASSUME NEW n \in SettingNames, NEW version \in Nat, NEW value \in SUBSET Keys,
             NEW k \in Commands, Wants(n, version, value, k)
      PROVE  /\ CommandsKept /\ settings' \in [SettingNames -> Settings]
             /\ released' \in {"no", "pending", "done"} /\ reopened' \in BOOLEAN
  <2>1. [settings[n] EXCEPT !.desired = value, !.desiredVersion = version] \in Settings
    BY <1>0 DEF Settings
  <2> QED  BY <1>0, <1>1, <2>1 DEF Wants, OneCreated
<1>2. ASSUME NEW k \in Commands, Releases(k)
      PROVE  /\ CommandsKept /\ settings' \in [SettingNames -> Settings]
             /\ released' \in {"no", "pending", "done"} /\ reopened' \in BOOLEAN
  BY <1>0, <1>2 DEF Releases, OneCreated
<1>3. ASSUME NEW k \in Commands, Confirms(k)
      PROVE  /\ CommandsKept /\ settings' \in [SettingNames -> Settings]
             /\ released' \in {"no", "pending", "done"} /\ reopened' \in BOOLEAN
  <2>1. commands[k].version \in Nat /\ commands[k].value \in SUBSET Keys
    BY <1>3, CreatedType DEF Confirms, CommandDocs, Created
  <2>2. [settings["control"] EXCEPT !.applied = commands[k].value,
                                    !.appliedVersion = commands[k].version] \in Settings
    BY <1>0, <2>1 DEF Settings, SettingNames
  <2> QED  BY <1>0, <1>3, <2>2 DEF Confirms, NoneCreated
<1>4. ASSUME NEW s \in Slots, AckRelease(s)
      PROVE  /\ CommandsKept /\ settings' \in [SettingNames -> Settings]
             /\ released' \in {"no", "pending", "done"} /\ reopened' \in BOOLEAN
  BY <1>0, <1>4, AckReleaseFinishes DEF Finishes, NoneCreated
<1>5. CASE Quiet
  BY <1>0, <1>5 DEF Quiet, NoneCreated
<1>6. CASE Reopens
  BY <1>0, <1>6 DEF Reopens, NoneCreated
<1> QED  BY <1>1, <1>2, <1>3, <1>4, <1>5, <1>6 DEF Effect

\* Commands are never deleted.
LEMMA CreatedGrows == ASSUME TypeOK, CommandsKept PROVE Created \subseteq Created'
<1>1. NoCommand \notin CommandDocs
  BY DEF NoCommand, CommandDocs, Kinds, SettingNames
<1> QED  BY <1>1 DEF CommandsKept, Created

\* The versions of a kind are numbers.
LEMMA VersionType ==
  ASSUME TypeOK PROVE \A kind : Versions(kind) \subseteq Nat
BY CreatedType DEF Versions, Created, CommandDocs

\* Commands of a kind none of which is created keep their versions.
LEMMA VersionsKept ==
  ASSUME TypeOK, NoneCreated PROVE \A kind : Versions(kind)' = Versions(kind)
<1>1. NoCommand \notin CommandDocs
  BY DEF NoCommand, CommandDocs, Kinds, SettingNames
<1>2. Created' = Created
  BY <1>1 DEF NoneCreated, CommandsKept, Created
<1> QED  BY <1>2 DEF Versions, NoneCreated, CommandsKept

\* Creating a command adds its version to those of its kind, and to no other.
LEMMA VersionsGrow ==
  ASSUME TypeOK, NEW kind, NEW k \in Commands, NEW doc \in CommandDocs, OneCreated(k, doc)
  PROVE  /\ Created' = Created \cup {k}
         /\ Versions(kind)' = IF doc.kind = kind THEN Versions(kind) \cup {doc.version}
                              ELSE Versions(kind)
<1>1. NoCommand \notin CommandDocs
  BY DEF NoCommand, CommandDocs, Kinds, SettingNames
<1>2. Created' = Created \cup {k}
  BY <1>1 DEF OneCreated, CommandsKept, Created
<1>3. commands'[k] = doc /\ k \notin Created
  BY DEF OneCreated
<1>4. \A j \in Created : commands'[j].kind = commands[j].kind /\ commands'[j].version = commands[j].version
  BY DEF OneCreated, CommandsKept
<1>5. ASSUME NEW v
      PROVE  v \in Versions(kind)' <=> v \in Versions(kind) \/ (doc.kind = kind /\ v = doc.version)
  BY <1>2, <1>3, <1>4 DEF Versions
<1> QED  BY <1>2, <1>5

\* The newest version of the control is one a value had, or the control is closed.
ControlKnown ==
  \/ settings["control"].desiredVersion \in ControlVersions
  \/ settings["control"].appliedVersion = settings["control"].desiredVersion

\* No version is forgotten.
LEMMA VersionsStay == ASSUME TypeOK, Effect PROVE ControlVersions \subseteq ControlVersions'
<1>1. ASSUME NEW k \in Commands, NEW doc \in CommandDocs, OneCreated(k, doc)
      PROVE  Versions("control") \subseteq Versions("control")'
  BY <1>1, VersionsGrow
<1>2. ASSUME NoneCreated PROVE Versions("control") \subseteq Versions("control")'
  BY <1>2, VersionsKept
<1>3. ASSUME NEW n \in SettingNames, NEW version \in Nat, NEW value \in SUBSET Keys,
             NEW k \in Commands, Wants(n, version, value, k)
      PROVE  Versions("control") \subseteq Versions("control")'
  <2>1. NewCommand(n, version, value) \in CommandDocs
    BY NewCommandType DEF Kinds
  <2> QED  BY <1>1, <1>3, <2>1 DEF Wants
<1>4. ASSUME NEW k \in Commands, Releases(k)
      PROVE  Versions("control") \subseteq Versions("control")'
  <2>1. NewCommand("release", 0, {}) \in CommandDocs
    BY NewCommandType DEF Kinds
  <2> QED  BY <1>1, <1>4, <2>1 DEF Releases
<1>5. ASSUME NEW s \in Slots, AckRelease(s) PROVE NoneCreated
  BY <1>5, AckReleaseFinishes DEF Finishes
<1>6. Versions("control") \subseteq Versions("control")'
  BY <1>2, <1>3, <1>4, <1>5 DEF Effect, Confirms, Quiet, Reopens
<1> QED  BY <1>6 DEF ControlVersions

\* Every effect leaves the control's version one that is known.
LEMMA ControlKnownNext == ASSUME TypeOK, RetryKnown, ControlKnown, Effect PROVE ControlKnown'
<1>0. settings \in [SettingNames -> Settings] /\ settings["control"] \in Settings
  BY DEF TypeOK, SettingNames
<1>1. ControlVersions \subseteq ControlVersions'
  BY VersionsStay
<1>2. settings'["control"] = settings["control"] => ControlKnown'
  BY <1>1 DEF ControlKnown
<1>3. ASSUME NEW n \in SettingNames, NEW version \in Nat, NEW value \in SUBSET Keys,
             NEW k \in Commands, Wants(n, version, value, k)
      PROVE  ControlKnown'
  <2>1. CASE n = "control"
    <3>1. settings'["control"].desiredVersion = version
      BY <1>0, <1>3, <2>1 DEF Wants, Settings
    <3>2. NewCommand(n, version, value) \in CommandDocs
          /\ NewCommand(n, version, value).kind = n
          /\ NewCommand(n, version, value).version = version
      BY NewCommandType DEF Kinds
    <3>3. version \in Versions("control")'
      BY <1>3, <2>1, <3>2, VersionsGrow DEF Wants
    <3> QED  BY <3>1, <3>3 DEF ControlKnown, ControlVersions
  <2>2. CASE n # "control"
    BY <1>0, <1>2, <1>3, <2>2 DEF Wants, SettingNames
  <2> QED  BY <2>1, <2>2
<1>4. ASSUME NEW k \in Commands, Confirms(k) PROVE ControlKnown'
  <2>1. settings'["control"].desiredVersion = settings["control"].desiredVersion
        /\ settings'["control"].appliedVersion = settings["control"].desiredVersion
    BY <1>0, <1>4 DEF Confirms, SettingNames, Settings
  <2> QED  BY <2>1 DEF ControlKnown
<1>5. ASSUME NEW s \in Slots, AckRelease(s) PROVE ControlKnown'
  <2>1. flight[s].device["control"] \in Settings
    BY <1>5, AckFlight DEF AckRelease, At, AckFlights, SettingNames
  <2>2. settings'["control"].appliedVersion = settings'["control"].desiredVersion
    BY <1>5, <2>1, AckReleaseFinishes, ReleasedType DEF Finishes
  <2> QED  BY <2>2 DEF ControlKnown
<1> QED  BY <1>2, <1>3, <1>4, <1>5 DEF Effect, Releases, Quiet, Reopens

\* What a retry repeats stays known.
LEMMA RetryKnownNext == ASSUME TypeOK, RetryKnown, ControlKnown, Effect, Motion PROVE RetryKnown'
<1>1. ControlVersions \subseteq ControlVersions'
  BY VersionsStay
<1>2. CASE UNCHANGED flight
  BY <1>1, <1>2 DEF RetryKnown
<1>3. ASSUME NEW s \in Slots, Moves(s) PROVE RetryKnown'
  <2>1. PICK f \in Flights : /\ flight' = [flight EXCEPT ![s] = f]
                             /\ f.op = "update" /\ f.retry => RetryRead(f)
    BY <1>3 DEF Moves
  <2>2. flight'[s] = f /\ \A t \in Slots : t # s => flight'[t] = flight[t]
    BY <2>1 DEF TypeOK
  <2>3. f.op = "update" /\ f.name = "control" /\ f.retry => f.version \in ControlVersions
    <3>1. SUFFICES ASSUME f.name = "control", RetryRead(f) PROVE f.version \in ControlVersions
      BY <2>1
    <3>2. settings["control"] \in Settings
      BY DEF TypeOK, SettingNames
    <3> QED  BY <3>1, <3>2 DEF RetryRead, ControlKnown, Settings
  <2> QED  BY <1>1, <2>2, <2>3 DEF RetryKnown
<1> QED  BY <1>2, <1>3 DEF Motion

\* The part of the invariant every step relies on.
Basics == TypeOK /\ KnownExist /\ ControlKnown /\ RetryKnown

\* Every step keeps the types, and the device knows only created commands.
LEMMA TypesNext ==
  ASSUME Basics, [Next]_vars PROVE Basics'
<1>0. TypeOK /\ KnownExist /\ ControlKnown /\ RetryKnown
  BY DEF Basics
<1>1. Effect /\ Motion
  BY <1>0, NextEffect
<1>2. /\ CommandsKept /\ settings' \in [SettingNames -> Settings]
      /\ released' \in {"no", "pending", "done"} /\ reopened' \in BOOLEAN
  BY <1>0, <1>1, EffectTypes
<1>3. Created \subseteq Created'
  BY <1>0, <1>2, CreatedGrows
<1>4. /\ flight' \in [Slots -> Flights]
      /\ \A s \in Slots : flight'[s].op \in CreatingOps => flight'[s].id \in Created
  <2>1. CASE UNCHANGED flight
    BY <1>0, <2>1 DEF TypeOK, KnownExist
  <2>2. ASSUME NEW s \in Slots, Moves(s)
        PROVE  /\ flight' \in [Slots -> Flights]
               /\ \A t \in Slots : flight'[t].op \in CreatingOps => flight'[t].id \in Created
    <3>1. PICK f \in Flights : /\ flight' = [flight EXCEPT ![s] = f]
                               /\ f.op \in CreatingOps => f.id \in Created
      BY <2>2 DEF Moves
    <3>2. /\ flight \in [Slots -> Flights]
          /\ \A t \in Slots : flight[t].op \in CreatingOps => flight[t].id \in Created
      BY <1>0 DEF TypeOK, KnownExist
    <3> QED  BY <3>1, <3>2
  <2> QED  BY <1>1, <2>1, <2>2 DEF Motion
<1>5. known' \subseteq Created /\ known' \subseteq Commands /\ scenario' \in Scenarios /\ failures' \in Nat
  BY <1>0, <1>1 DEF Motion, TypeOK, Created
<1>6. TypeOK'
  BY <1>2, <1>4, <1>5 DEF TypeOK, CommandsKept
<1>7. KnownExist'
  BY <1>3, <1>4, <1>5 DEF KnownExist
<1>8. ControlKnown' /\ RetryKnown'
  BY <1>0, <1>1, ControlKnownNext, RetryKnownNext
<1> QED  BY <1>6, <1>7, <1>8 DEF Basics

\* They hold at the start.
LEMMA TypesInit == Init => Basics
<1> SUFFICES ASSUME Init PROVE Basics
  OBVIOUS
<1>1. NewSetting \in Settings
  BY DEF NewSetting, Settings
<1>2. Idle \in Flights
  BY DEF Flights
<1>3. flight = [s \in Slots |-> Idle]
  BY DEF Init, Idle
<1>4. TypeOK
  BY <1>1, <1>2, <1>3 DEF Init, TypeOK
<1>5. KnownExist
  BY <1>3 DEF Init, KnownExist, Idle, CreatingOps
<1>6. ControlKnown
  BY DEF Init, ControlKnown, ControlVersions, NewSetting, SettingNames
<1>7. RetryKnown
  BY <1>3 DEF RetryKnown, Idle
<1> QED  BY <1>4, <1>5, <1>6, <1>7 DEF Basics

\* In every run the documents keep the shapes of their schemas, and what handlers and
\* the phone know of are commands that exist.
THEOREM Shapes == Spec => []TypeOK
<1>1. Init => Basics
  BY TypesInit
<1>2. Basics /\ [Next]_vars => Basics'
  BY TypesNext
<1>3. Basics => TypeOK
  BY DEF Basics
<1> QED  BY <1>1, <1>2, <1>3, PTL DEF Spec

-----------------------------------------------------------------------------
(* The invariant *)

\* Requests do not overlap.
Alone == scenario.parallel = 1
OneHandler == \A s, t \in Slots : flight[s] # Idle /\ flight[t] # Idle => s = t

\* No release was written over, or no request overlapped one.
Ordered == ~reopened \/ Alone

\* No command is newer than the control wanted, a version of it is one value, and the
\* command that has the version wanted has the value wanted.
ControlAgrees ==
  /\ \A v \in Versions("control") : v <= settings["control"].desiredVersion
  /\ \A j, k \in Created :
       /\ commands[j].kind = "control" /\ commands[k].kind = "control"
       /\ commands[j].version = commands[k].version
       => commands[j].value = commands[k].value
  /\ \A k \in Created :
       commands[k].kind = "control" /\ commands[k].version = settings["control"].desiredVersion
         => commands[k].value = settings["control"].desired

\* The same of restrictions, whose version a confirmed release leaves as it is.
RestrictionAgrees ==
  /\ \A j, k \in Created :
       /\ commands[j].kind = "restrictions" /\ commands[k].kind = "restrictions"
       /\ commands[j].version = commands[k].version
       => commands[j].value = commands[k].value
  /\ \A k \in Created :
       /\ commands[k].kind = "restrictions" /\ released # "done"
       /\ commands[k].version = settings["restrictions"].desiredVersion
       => commands[k].value = settings["restrictions"].desired

CommandsAgree ==
  /\ Ordered => ControlAgrees
  /\ ~reopened => RestrictionAgrees
  /\ \A v \in Versions("restrictions") : v <= settings["restrictions"].desiredVersion
  /\ ~reopened /\ released # "done" => settings["control"].desiredVersion \in ControlVersions
  /\ \A k \in Created :
       commands[k].kind = "release" => commands[k].value = {} /\ (released # "no" \/ reopened)

\* Of a setting one command waits, it is the newest, and no release has been queued that was
\* not written over.
OneWaits ==
  /\ \A j, k \in Created :
       /\ commands[j].kind = commands[k].kind /\ commands[j].kind \in SettingNames
       /\ commands[j].status = "pending" /\ commands[k].status = "pending"
       => j = k
  /\ \A k \in Created :
       commands[k].kind \in SettingNames /\ commands[k].status = "pending" =>
         /\ released = "no" \/ reopened
         /\ commands[k].kind = "restrictions" \/ ~reopened =>
              commands[k].version = settings[commands[k].kind].desiredVersion

\* Whoever confirms a release has read a control that no later command has changed.
ReadLast ==
  \A s \in Slots :
    flight[s].op = "ack_device" /\ flight[s].read.kind = "release" =>
      /\ ~reopened => released # "no" /\ (flight[s].done => released = "done")
      /\ Ordered =>
           \A v \in Versions("control") : v <= flight[s].device["control"].desiredVersion

\* The newest version an operator's value of the control ever had.
Newest(m) == m \in ControlVersions /\ \A v \in ControlVersions : v <= m

IInv == /\ Basics /\ (Alone => OneHandler)
        /\ CommandsAgree /\ OneWaits /\ ReadLast
        /\ \E m \in Nat : Newest(m)

\* The inductive invariant holds at the start.
LEMMA IInvInit == Init => IInv
<1> SUFFICES ASSUME Init PROVE IInv
  OBVIOUS
<1>1. Created = {} /\ \A kind : Versions(kind) = {}
  BY DEF Init, Created, Versions
<1>2. settings["control"].desiredVersion = 0 /\ released = "no"
  BY DEF Init, NewSetting, SettingNames
<1>3. Newest(0)
  BY <1>1 DEF Newest, ControlVersions
<1>4. ReadLast /\ OneHandler
  BY DEF Init, ReadLast, OneHandler, Idle
<1>5. CommandsAgree
  BY <1>1, <1>2 DEF CommandsAgree, ControlAgrees, RestrictionAgrees, ControlVersions
<1> QED  BY <1>1, <1>3, <1>4, <1>5, TypesInit DEF IInv, OneWaits

Agreed == CommandsAgree /\ OneWaits /\ \E m \in Nat : Newest(m)

\* A created command's version is among those of its kind.
LEMMA VersionOf == \A k \in Created : commands[k].version \in Versions(commands[k].kind)
BY DEF Versions

\* A newer version of a control agrees with the commands.
LEMMA WantsControl ==
  ASSUME IInv, NEW version \in Nat, NEW value \in SUBSET Keys, NEW k \in Commands,
         Wants("control", version, value, k), Ordered
  PROVE  ControlAgrees'
<1> DEFINE doc == NewCommand("control", version, value)
<1>1. /\ doc \in CommandDocs /\ doc.kind = "control" /\ doc.version = version /\ doc.value = value
  BY NewCommandType DEF Kinds, SettingNames
<1> HIDE DEF doc
<1>2. OneCreated(k, doc)
  BY DEF Wants, doc
<1>3. settings'["control"].desired = value /\ settings'["control"].desiredVersion = version
  <2>1. settings \in [SettingNames -> Settings] /\ settings["control"] \in Settings
    BY DEF IInv, Basics, TypeOK, SettingNames
  <2> QED  BY <2>1 DEF Wants, Settings, SettingNames
<1>4. /\ Created' = Created \cup {k} /\ k \notin Created /\ commands'[k] = doc
      /\ Versions("control")' = Versions("control") \cup {version}
  BY <1>1, <1>2, VersionsGrow DEF OneCreated, IInv, Basics
<1>5. \A j \in Created : /\ commands'[j].kind = commands[j].kind
                         /\ commands'[j].version = commands[j].version
                         /\ commands'[j].value = commands[j].value
  BY <1>2 DEF OneCreated, CommandsKept
<1>6. ControlAgrees /\ Versions("control") \subseteq Nat /\ settings["control"].desiredVersion \in Nat
  <2>1. settings["control"].desiredVersion \in Nat
    BY DEF IInv, Basics, TypeOK, Settings, SettingNames
  <2> QED  BY <2>1, VersionType DEF IInv, Basics, CommandsAgree
<1>7. \/ version = settings["control"].desiredVersion + 1
      \/ version = settings["control"].desiredVersion /\ value = settings["control"].desired
  BY DEF Wants
<1>8. \A v \in Versions("control") : v <= version
  BY <1>6, <1>7 DEF ControlAgrees
<1>9. \A j \in Created : commands[j].kind = "control" /\ commands[j].version = version
                           => commands[j].value = value
  <2>1. SUFFICES ASSUME NEW j \in Created, commands[j].kind = "control", commands[j].version = version
                 PROVE  commands[j].value = value
    OBVIOUS
  <2>2. version <= settings["control"].desiredVersion
    BY <1>6, <2>1, VersionOf DEF ControlAgrees
  <2> QED  BY <1>6, <1>7, <2>1, <2>2 DEF ControlAgrees
<1>10. ASSUME NEW i \in Created', NEW j \in Created', commands'[i].kind = "control",
              commands'[j].kind = "control", commands'[i].version = commands'[j].version
       PROVE  commands'[i].value = commands'[j].value
  <2>1. CASE i \in Created /\ j \in Created
    BY <1>5, <1>6, <1>10, <2>1 DEF ControlAgrees
  <2>2. CASE i = k \/ j = k
    BY <1>1, <1>4, <1>5, <1>9, <1>10, <2>2
  <2> QED  BY <1>4, <2>1, <2>2
<1>11. ASSUME NEW j \in Created', commands'[j].kind = "control", commands'[j].version = version
       PROVE  commands'[j].value = value
  BY <1>1, <1>4, <1>5, <1>9, <1>11
<1> QED  BY <1>3, <1>4, <1>8, <1>10, <1>11 DEF ControlAgrees

\* A newer version of the restrictions agrees with the commands.
LEMMA WantsRestriction ==
  ASSUME IInv, NEW version \in Nat, NEW value \in SUBSET Keys, NEW k \in Commands,
         Wants("restrictions", version, value, k), ~reopened
  PROVE  RestrictionAgrees'
<1> DEFINE doc == NewCommand("restrictions", version, value)
<1>1. /\ doc \in CommandDocs /\ doc.kind = "restrictions" /\ doc.version = version
      /\ doc.value = value
  BY NewCommandType DEF Kinds, SettingNames
<1> HIDE DEF doc
<1>2. OneCreated(k, doc) /\ released = "no"
  BY DEF Wants, doc
<1>3. settings'["restrictions"].desired = value /\ settings'["restrictions"].desiredVersion = version
  <2>1. settings \in [SettingNames -> Settings] /\ settings["restrictions"] \in Settings
    BY DEF IInv, Basics, TypeOK, SettingNames
  <2> QED  BY <2>1 DEF Wants, Settings, SettingNames
<1>4. Created' = Created \cup {k} /\ k \notin Created /\ commands'[k] = doc
  BY <1>1, <1>2, VersionsGrow DEF OneCreated, IInv, Basics
<1>5. \A j \in Created : /\ commands'[j].kind = commands[j].kind
                         /\ commands'[j].version = commands[j].version
                         /\ commands'[j].value = commands[j].value
  BY <1>2 DEF OneCreated, CommandsKept
<1>6. /\ RestrictionAgrees /\ settings["restrictions"].desiredVersion \in Nat
      /\ \A v \in Versions("restrictions") : v <= settings["restrictions"].desiredVersion
  BY DEF IInv, Basics, CommandsAgree, TypeOK, Settings, SettingNames
<1>7. \/ version = settings["restrictions"].desiredVersion + 1
      \/ version = settings["restrictions"].desiredVersion /\ value = settings["restrictions"].desired
  BY DEF Wants
<1>8. \A j \in Created : commands[j].kind = "restrictions" /\ commands[j].version = version
                           => commands[j].value = value
  <2>1. SUFFICES ASSUME NEW j \in Created, commands[j].kind = "restrictions",
                        commands[j].version = version
                 PROVE  commands[j].value = value
    OBVIOUS
  <2>2. version <= settings["restrictions"].desiredVersion
    BY <1>6, <2>1, VersionOf
  <2>3. version = settings["restrictions"].desiredVersion /\ value = settings["restrictions"].desired
    BY <1>6, <1>7, <2>2
  <2> QED  BY <1>2, <1>6, <2>1, <2>3 DEF RestrictionAgrees
<1>9. ASSUME NEW i \in Created', NEW j \in Created', commands'[i].kind = "restrictions",
             commands'[j].kind = "restrictions", commands'[i].version = commands'[j].version
      PROVE  commands'[i].value = commands'[j].value
  <2>1. CASE i \in Created /\ j \in Created
    BY <1>5, <1>6, <1>9, <2>1 DEF RestrictionAgrees
  <2>2. CASE i = k \/ j = k
    BY <1>1, <1>4, <1>5, <1>8, <1>9, <2>2
  <2> QED  BY <1>4, <2>1, <2>2
<1>10. ASSUME NEW j \in Created', commands'[j].kind = "restrictions", commands'[j].version = version
       PROVE  commands'[j].value = value
  BY <1>1, <1>4, <1>5, <1>8, <1>10
<1> QED  BY <1>3, <1>9, <1>10 DEF RestrictionAgrees

\* Commands of another kind, and a setting that is not touched, agree as before.
LEMMA OtherAgrees ==
  ASSUME Basics, NEW k \in Commands, NEW doc \in CommandDocs, OneCreated(k, doc)
  PROVE  /\ doc.kind # "control" /\ UNCHANGED settings["control"] /\ ControlAgrees => ControlAgrees'
         /\ doc.kind # "restrictions" /\ UNCHANGED settings["restrictions"] /\ RestrictionAgrees
              /\ (released' # "done" => released # "done")
              => RestrictionAgrees'
<1>1. Created' = Created \cup {k} /\ k \notin Created /\ commands'[k] = doc
  BY VersionsGrow DEF OneCreated, Basics
<1>2. \A j \in Created : /\ commands'[j].kind = commands[j].kind
                         /\ commands'[j].version = commands[j].version
                         /\ commands'[j].value = commands[j].value
  BY DEF OneCreated, CommandsKept
<1>3. ASSUME doc.kind # "control", UNCHANGED settings["control"], ControlAgrees
      PROVE  ControlAgrees'
  <2>1. Versions("control")' = Versions("control")
    BY <1>3, VersionsGrow DEF Basics
  <2>2. \A j \in Created' : commands'[j].kind = "control" => j \in Created
    BY <1>1, <1>3
  <2> QED  BY <1>2, <1>3, <2>1, <2>2 DEF ControlAgrees
<1>4. ASSUME doc.kind # "restrictions", UNCHANGED settings["restrictions"], RestrictionAgrees,
             released' # "done" => released # "done"
      PROVE  RestrictionAgrees'
  <2>1. \A j \in Created' : commands'[j].kind = "restrictions" => j \in Created
    BY <1>1, <1>4
  <2> QED  BY <1>2, <1>4, <2>1 DEF RestrictionAgrees
<1> QED  BY <1>3, <1>4

\* Asking for a newer version keeps settings and commands in agreement.
LEMMA WantsAgreed ==
  ASSUME IInv, Motion, NEW n \in SettingNames, NEW version \in Nat, NEW value \in SUBSET Keys,
         NEW k \in Commands, Wants(n, version, value, k)
  PROVE  Agreed'
<1> DEFINE doc == NewCommand(n, version, value)
<1>1. /\ doc \in CommandDocs /\ doc.kind = n /\ doc.version = version
      /\ doc.value = value /\ doc.status = "pending" /\ n # "release"
  BY NewCommandType DEF Kinds, SettingNames
<1> HIDE DEF doc
<1>2. released = "no" /\ released' = "no" /\ reopened' = reopened /\ OneCreated(k, doc)
  BY DEF Wants, doc
<1>3. /\ settings'[n].desired = value /\ settings'[n].desiredVersion = version
      /\ \A i \in SettingNames \ {n} : settings'[i] = settings[i]
      /\ \A i \in SettingNames : settings[i] \in Settings
  <2>1. settings \in [SettingNames -> Settings] /\ settings[n] \in Settings
    BY DEF IInv, Basics, TypeOK
  <2> QED  BY <2>1 DEF Wants, Settings
<1>4. \/ version = settings[n].desiredVersion + 1
      \/ version = settings[n].desiredVersion /\ value = settings[n].desired
  BY DEF Wants
<1>5. settings[n].desiredVersion \in Nat
  BY <1>3 DEF Settings
<1>6. /\ Created' = Created \cup {k} /\ k \notin Created /\ commands'[k] = doc
      /\ \A kind : Versions(kind)' = IF kind = n THEN Versions(kind) \cup {version} ELSE Versions(kind)
      /\ \A kind : Versions(kind) \subseteq Nat
  BY <1>1, <1>2, VersionsGrow, VersionType DEF OneCreated, IInv, Basics
<1>7. \A j \in Created :
        /\ commands'[j].kind = commands[j].kind /\ commands'[j].version = commands[j].version
        /\ commands'[j].value = commands[j].value
        /\ commands'[j].status = "pending" => commands[j].status = "pending"
        /\ commands[j].version \in Nat
  <2>1. \A j \in Created : commands[j].version \in Nat
    BY CreatedType DEF IInv, Basics, Created, CommandDocs
  <2> QED  BY <1>2, <2>1 DEF OneCreated, CommandsKept
<1>8. Ordered' <=> Ordered
  BY <1>2 DEF Ordered, Alone, Motion
<1>9. CommandsAgree'
  <2>1. Ordered' => ControlAgrees'
    <3>1. CASE n = "control"
      BY <1>8, <3>1, WantsControl
    <3>2. CASE n # "control"
      BY <1>1, <1>2, <1>3, <1>8, <3>2, OtherAgrees DEF IInv, CommandsAgree, SettingNames
    <3> QED  BY <3>1, <3>2
  <2>2. ~reopened' => RestrictionAgrees'
    <3>1. CASE n = "restrictions"
      BY <1>2, <3>1, WantsRestriction
    <3>2. CASE n # "restrictions"
      BY <1>1, <1>2, <1>3, <3>2, OtherAgrees DEF IInv, CommandsAgree, SettingNames
    <3> QED  BY <3>1, <3>2
  <2>3. \A v \in Versions("restrictions")' : v <= settings'["restrictions"].desiredVersion
    <3>1. \A v \in Versions("restrictions") : v <= settings["restrictions"].desiredVersion
      BY DEF IInv, CommandsAgree
    <3>2. CASE n = "restrictions"
      BY <1>3, <1>4, <1>5, <1>6, <3>1, <3>2
    <3>3. CASE n # "restrictions"
      BY <1>3, <1>6, <3>1, <3>3 DEF SettingNames
    <3> QED  BY <3>2, <3>3
  <2>4. ~reopened' /\ released' # "done" => settings'["control"].desiredVersion \in ControlVersions'
    <3>1. CASE n = "control"
      BY <1>3, <1>6, <3>1 DEF ControlVersions
    <3>2. CASE n # "control"
      BY <1>2, <1>3, <1>6, <3>2 DEF ControlVersions, SettingNames, IInv, CommandsAgree
    <3> QED  BY <3>1, <3>2
  <2>5. ASSUME NEW j \in Created', commands'[j].kind = "release"
        PROVE  commands'[j].value = {} /\ (released' # "no" \/ reopened')
    BY <1>1, <1>2, <1>6, <1>7, <2>5 DEF IInv, CommandsAgree
  <2> QED  BY <2>1, <2>2, <2>3, <2>4, <2>5 DEF CommandsAgree
<1>10. OneWaits'
  <2>1. \A j \in Created : commands[j].kind = n => commands'[j].status # "pending"
    BY DEF Wants
  <2>2. ASSUME NEW i \in Created', NEW j \in Created', commands'[i].kind = commands'[j].kind,
               commands'[i].kind \in SettingNames,
               commands'[i].status = "pending", commands'[j].status = "pending"
        PROVE  i = j
    <3>1. CASE i \in Created /\ j \in Created
      BY <1>7, <2>2, <3>1 DEF IInv, OneWaits
    <3>2. CASE i = k \/ j = k
      BY <1>1, <1>6, <1>7, <2>1, <2>2, <3>2
    <3> QED  BY <1>6, <3>1, <3>2
  <2>3. ASSUME NEW j \in Created', commands'[j].kind \in SettingNames, commands'[j].status = "pending"
        PROVE  /\ released' = "no" \/ reopened'
               /\ commands'[j].kind = "restrictions" \/ ~reopened' =>
                    commands'[j].version = settings'[commands'[j].kind].desiredVersion
    <3>1. CASE j = k
      BY <1>1, <1>2, <1>3, <1>6, <3>1
    <3>2. CASE j # k
      <4>1. j \in Created /\ commands[j].kind # n
        BY <1>6, <1>7, <2>1, <2>3, <3>2
      <4> QED  BY <1>2, <1>3, <1>7, <2>3, <4>1 DEF IInv, OneWaits
    <3> QED  BY <3>1, <3>2
  <2> QED  BY <2>2, <2>3 DEF OneWaits
<1>11. \E m \in Nat : Newest(m)'
  <2>1. PICK m \in Nat : Newest(m)
    BY DEF IInv
  <2>2. CASE n = "control" /\ version > m
    <3>1. Newest(version)'
      BY <1>6, <2>1, <2>2 DEF Newest, ControlVersions
    <3> QED  BY <3>1
  <2>3. CASE ~(n = "control" /\ version > m)
    <3>1. Newest(m)'
      BY <1>6, <2>1, <2>3 DEF Newest, ControlVersions
    <3> QED  BY <3>1
  <2> QED  BY <2>2, <2>3
<1> QED  BY <1>9, <1>10, <1>11 DEF Agreed

\* So does a release.
LEMMA ReleasesAgreed == ASSUME IInv, Motion, NEW k \in Commands, Releases(k) PROVE Agreed'
<1> DEFINE doc == NewCommand("release", 0, {})
<1>1. doc \in CommandDocs /\ doc.kind = "release" /\ doc.version = 0 /\ doc.value = {}
  BY NewCommandType DEF Kinds
<1> HIDE DEF doc
<1>2. /\ released # "done" /\ released' = "pending" /\ settings' = settings
      /\ reopened' = reopened /\ OneCreated(k, doc)
      /\ \A j \in Created : commands[j].kind \in SettingNames => commands'[j].status # "pending"
  BY DEF Releases, doc
<1>3. Created' = Created \cup {k} /\ k \notin Created /\ commands'[k] = doc
  BY <1>1, <1>2, VersionsGrow DEF OneCreated, IInv, Basics
<1>4. /\ Versions("control")' = Versions("control")
      /\ Versions("restrictions")' = Versions("restrictions")
  BY <1>1, <1>2, VersionsGrow DEF IInv, Basics
<1>5. \A j \in Created :
        /\ commands'[j].kind = commands[j].kind /\ commands'[j].version = commands[j].version
        /\ commands'[j].value = commands[j].value
  BY <1>2 DEF OneCreated, CommandsKept
<1>6. CommandsAgree'
  <2>1. Ordered' <=> Ordered
    BY <1>2 DEF Ordered, Alone, Motion
  <2>2. (Ordered' => ControlAgrees') /\ (~reopened' => RestrictionAgrees')
    BY <1>1, <1>2, <2>1, OtherAgrees DEF IInv, CommandsAgree
  <2>3. ASSUME NEW j \in Created', commands'[j].kind = "release"
        PROVE  commands'[j].value = {} /\ (released' # "no" \/ reopened')
    BY <1>1, <1>2, <1>3, <1>5, <2>3 DEF IInv, CommandsAgree
  <2>4. ~reopened' /\ released' # "done" => settings'["control"].desiredVersion \in ControlVersions'
    BY <1>2, <1>4 DEF IInv, CommandsAgree, ControlVersions
  <2>5. \A v \in Versions("restrictions")' : v <= settings'["restrictions"].desiredVersion
    BY <1>2, <1>4 DEF IInv, CommandsAgree
  <2> QED  BY <2>2, <2>3, <2>4, <2>5 DEF CommandsAgree
<1>7. OneWaits'
  BY <1>1, <1>2, <1>3, <1>5 DEF OneWaits, SettingNames
<1>8. \E m \in Nat : Newest(m)'
  BY <1>2, <1>4 DEF IInv, Newest, ControlVersions
<1> QED  BY <1>6, <1>7, <1>8 DEF Agreed

\* Nothing is created, and what is wanted of a setting changes only when a release is
\* confirmed, which closes the control.
LEMMA KeptAgreed ==
  ASSUME IInv, Motion, NoneCreated, reopened => reopened',
         settings'["restrictions"].desiredVersion = settings["restrictions"].desiredVersion,
         ~reopened' /\ released' # "done" => /\ released' = released
                                             /\ \A n \in SettingNames : KeptSetting(n),
         ~reopened' /\ released' = "done" => released # "no",
         \/ KeptSetting("control")
         \/ /\ settings'["control"].desiredVersion \in Nat
            /\ Ordered' => \A v \in Versions("control") : v < settings'["control"].desiredVersion
  PROVE  Agreed'
<1>1. Created' = Created /\ \A kind : Versions(kind)' = Versions(kind)
  <2>1. NoCommand \notin CommandDocs
    BY DEF NoCommand, CommandDocs, Kinds, SettingNames
  <2>2. Created' = Created
    BY <2>1 DEF NoneCreated, CommandsKept, Created
  <2> QED  BY <2>2, VersionsKept DEF IInv, Basics
<1>2. \A j \in Created :
        /\ commands'[j].kind = commands[j].kind /\ commands'[j].version = commands[j].version
        /\ commands'[j].value = commands[j].value
        /\ commands'[j].status = "pending" => commands[j].status = "pending"
  BY DEF NoneCreated, CommandsKept
<1>3. Ordered' => Ordered
  BY DEF Ordered, Alone, Motion
<1>4. Versions("control") \subseteq Nat /\ settings'["control"].desiredVersion \in Nat
  BY VersionType DEF IInv, Basics, TypeOK, Settings, SettingNames, KeptSetting
<1>5. CommandsAgree'
  <2>1. ASSUME Ordered' PROVE ControlAgrees'
    <3>1. ControlAgrees
      BY <1>3, <2>1 DEF IInv, CommandsAgree
    <3>2. \A j, k \in Created :
            /\ commands'[j].kind = "control" /\ commands'[k].kind = "control"
            /\ commands'[j].version = commands'[k].version
            => commands'[j].value = commands'[k].value
      BY <1>2, <3>1 DEF ControlAgrees
    <3>3. CASE KeptSetting("control")
      BY <1>1, <1>2, <3>1, <3>2, <3>3 DEF ControlAgrees, KeptSetting
    <3>4. CASE \A v \in Versions("control") : v < settings'["control"].desiredVersion
      <4>1. ASSUME NEW v \in Versions("control"), v < settings'["control"].desiredVersion
            PROVE  v <= settings'["control"].desiredVersion /\ v # settings'["control"].desiredVersion
        <5>1. v \in Nat
          BY <1>4
        <5> QED  BY <1>4, <4>1, <5>1
      <4>2. \A j \in Created : commands'[j].kind = "control" =>
              commands'[j].version # settings'["control"].desiredVersion
        <5>1. \A j \in Created : commands[j].kind = "control" => commands[j].version \in Versions("control")
          BY VersionOf
        <5> QED  BY <1>2, <3>4, <4>1, <5>1
      <4> QED  BY <1>1, <3>2, <3>4, <4>1, <4>2 DEF ControlAgrees
    <3> QED  BY <2>1, <3>3, <3>4
  <2>2. ASSUME ~reopened' PROVE RestrictionAgrees'
    <3>1. RestrictionAgrees
      BY <2>2 DEF IInv, CommandsAgree
    <3> QED  BY <1>1, <1>2, <2>2, <3>1 DEF RestrictionAgrees, KeptSetting, SettingNames
  <2>3. \A v \in Versions("restrictions")' : v <= settings'["restrictions"].desiredVersion
    BY <1>1 DEF IInv, CommandsAgree
  <2>4. ~reopened' /\ released' # "done" => settings'["control"].desiredVersion \in ControlVersions'
    BY <1>1 DEF IInv, CommandsAgree, ControlVersions, KeptSetting, SettingNames
  <2>5. ASSUME NEW j \in Created, commands'[j].kind = "release"
        PROVE  commands'[j].value = {} /\ (released' # "no" \/ reopened')
    BY <1>2, <2>5 DEF IInv, CommandsAgree
  <2> QED  BY <1>1, <2>1, <2>2, <2>3, <2>4, <2>5 DEF CommandsAgree
<1>6. OneWaits'
  <2>1. ASSUME NEW i \in Created, NEW j \in Created, commands'[i].kind = commands'[j].kind,
               commands'[i].kind \in SettingNames,
               commands'[i].status = "pending", commands'[j].status = "pending"
        PROVE  i = j
    BY <1>2, <2>1 DEF IInv, OneWaits
  <2>2. ASSUME NEW j \in Created, commands'[j].kind \in SettingNames, commands'[j].status = "pending"
        PROVE  /\ released' = "no" \/ reopened'
               /\ commands'[j].kind = "restrictions" \/ ~reopened' =>
                    commands'[j].version = settings'[commands'[j].kind].desiredVersion
    <3>1. /\ released = "no" \/ reopened
          /\ commands[j].kind = "restrictions" \/ ~reopened =>
               commands[j].version = settings[commands[j].kind].desiredVersion
      BY <1>2, <2>2 DEF IInv, OneWaits
    <3>2. ~reopened' => released' # "done" /\ released' = "no" /\ \A n \in SettingNames : KeptSetting(n)
      BY <3>1
    <3>3. commands'[j].kind = "restrictions" =>
            commands'[j].version = settings'["restrictions"].desiredVersion
      BY <1>2, <3>1
    <3>4. ~reopened' => commands'[j].version = settings'[commands'[j].kind].desiredVersion
      BY <1>2, <2>2, <3>1, <3>2 DEF KeptSetting
    <3> QED  BY <3>2, <3>3, <3>4
  <2> QED  BY <1>1, <2>1, <2>2 DEF OneWaits
<1>7. \E m \in Nat : Newest(m)'
  BY <1>1 DEF IInv, Newest, ControlVersions
<1> QED  BY <1>5, <1>6, <1>7 DEF Agreed

\* So does a confirmation.
LEMMA ConfirmsAgreed == ASSUME IInv, Motion, NEW k \in Commands, Confirms(k) PROVE Agreed'
<1>1. settings \in [SettingNames -> Settings]
  BY DEF IInv, Basics, TypeOK
<1>2. \A n \in SettingNames : KeptSetting(n)
  BY <1>1 DEF Confirms, KeptSetting, Settings, SettingNames
<1>3. settings'["restrictions"].desiredVersion = settings["restrictions"].desiredVersion
  BY <1>2 DEF KeptSetting, SettingNames
<1> QED  BY <1>2, <1>3, KeptAgreed DEF Confirms, SettingNames

\* So does a quiet step.
LEMMA QuietAgreed == ASSUME IInv, Motion, Quiet PROVE Agreed'
<1>1. \A n \in SettingNames : KeptSetting(n)
  BY DEF Quiet, KeptSetting, SettingNames
<1>2. settings'["restrictions"].desiredVersion = settings["restrictions"].desiredVersion
  BY <1>1 DEF KeptSetting, SettingNames
<1> QED  BY <1>1, <1>2, KeptAgreed DEF Quiet, SettingNames

\* So does writing over a release.
LEMMA ReopensAgreed == ASSUME IInv, Motion, Reopens PROVE Agreed'
<1>1. KeptSetting("control")
  BY DEF Reopens, KeptSetting
<1> QED  BY <1>1, KeptAgreed DEF Reopens

\* The setting it read holds the last version of the control.
LEMMA AckReleaseLast ==
  ASSUME IInv, NEW s \in Slots, AckRelease(s)
  PROVE  /\ ~reopened => released # "no" /\ (flight[s].done => released = "done")
         /\ flight[s].device["control"] \in Settings
         /\ Ordered => \A v \in Versions("control") : v <= flight[s].device["control"].desiredVersion
<1>1. flight[s].op = "ack_device" /\ flight[s].read.kind = "release"
  BY DEF AckRelease, At
<1>2. flight[s] \in AckFlights
  BY <1>1, AckFlight DEF IInv, Basics
<1> QED  BY <1>1, <1>2 DEF IInv, ReadLast, AckFlights, SettingNames

\* So finishing from that setting keeps the agreement.
LEMMA FinishesAgreed == ASSUME IInv, Motion, NEW s \in Slots, AckRelease(s) PROVE Agreed'
<1> DEFINE entry == flight[s].device["control"]
<1>1. /\ Finishes(entry) /\ UNCHANGED commands
      /\ released' = IF flight[s].done THEN released ELSE "done"
  BY AckReleaseFinishes DEF IInv, Basics
<1>2. /\ ~reopened => released # "no" /\ (flight[s].done => released = "done")
      /\ entry \in Settings
      /\ Ordered => \A v \in Versions("control") : v <= entry.desiredVersion
  BY AckReleaseLast
<1> HIDE DEF entry
<1>3. /\ settings'["control"].desiredVersion > entry.desiredVersion
      /\ settings'["control"].desiredVersion \in Nat /\ entry.desiredVersion \in Nat
  BY <1>1, <1>2, ReleasedType DEF Finishes, Settings
<1>4. reopened' = reopened /\ (Ordered' <=> Ordered)
  BY <1>1 DEF Finishes, Ordered, Alone, Motion
<1>5. Ordered' => \A v \in Versions("control") : v < settings'["control"].desiredVersion
  <2>1. Versions("control") \subseteq Nat
    BY VersionType DEF IInv, Basics
  <2> QED  BY <1>2, <1>3, <1>4, <2>1
<1>6. ~reopened' => released' = "done" /\ released # "no"
  BY <1>1, <1>2, <1>4
<1> QED  BY <1>1, <1>3, <1>4, <1>5, <1>6, KeptAgreed DEF Finishes

\* Every effect keeps it.
LEMMA AgreedNext == ASSUME IInv, Effect, Motion PROVE Agreed'
BY WantsAgreed, ReleasesAgreed, ConfirmsAgreed, FinishesAgreed, QuietAgreed, ReopensAgreed DEF Effect

\* A handler starts while no other runs.
LEMMA StartsAlone ==
  ASSUME TypeOK, Alone, OneHandler, NEW s \in Slots, NEW f, Begin(s, f)
  PROVE  /\ flight'[s] = f /\ \A t \in Slots : t # s => flight'[t] = flight[t] /\ flight[t] = Idle
         /\ OneHandler'
<1> DEFINE running == {t \in Slots : flight[t] # Idle}
<1>1. \A t, u \in running : t = u
  BY DEF OneHandler
<1>2. Cardinality(running) < 1
  BY DEF Begin, Alone
<1>3. running = {}
  <2> HIDE DEF running
  <2>1. CASE running # {}
    <3>1. PICK t : t \in running
      BY <2>1
    <3>2. running = {t}
      BY <1>1, <3>1
    <3>3. Cardinality(running) = 1
      BY <3>2, FS_Singleton
    <3> QED  BY <1>2, <3>3
  <2> QED  BY <2>1
<1>4. flight' = [flight EXCEPT ![s] = f] /\ flight \in [Slots -> Flights]
  BY DEF Begin, TypeOK
<1>5. flight'[s] = f /\ \A t \in Slots : t # s => flight'[t] = flight[t] /\ flight[t] = Idle
  BY <1>3, <1>4
<1> QED  BY <1>5 DEF OneHandler

\* A handler goes on or ends while no other runs.
LEMMA GoesOnAlone ==
  ASSUME TypeOK, OneHandler, NEW s \in Slots, flight[s] # Idle, NEW f, Continue(s, f)
  PROVE  /\ flight'[s] = f /\ \A t \in Slots : t # s => flight'[t] = flight[t] /\ flight[t] = Idle
         /\ OneHandler'
<1>1. flight' = [flight EXCEPT ![s] = f] /\ flight \in [Slots -> Flights]
  BY DEF Continue, TypeOK
<1>2. \A t \in Slots : t # s => flight[t] = Idle
  BY DEF OneHandler
<1>3. flight'[s] = f /\ \A t \in Slots : t # s => flight'[t] = flight[t] /\ flight[t] = Idle
  BY <1>1, <1>2
<1> QED  BY <1>3 DEF OneHandler

\* Requests that may not overlap stay alone.
LEMMA OneHandlerNext == ASSUME TypeOK, Alone, OneHandler, Motion PROVE OneHandler'
<1>1. CASE UNCHANGED flight
  BY <1>1 DEF OneHandler
<1>2. ASSUME NEW s \in Slots, Moves(s) PROVE OneHandler'
  <2>1. PICK f \in Flights : flight' = [flight EXCEPT ![s] = f] /\ (flight[s] # Idle \/ Begin(s, f))
    BY <1>2 DEF Moves
  <2>2. CASE Begin(s, f)
    BY <2>2, StartsAlone
  <2>3. CASE flight[s] # Idle
    BY <2>1, <2>3, GoesOnAlone DEF Continue
  <2> QED  BY <2>1, <2>2, <2>3
<1> QED  BY <1>1, <1>2 DEF Motion

\* Every effect keeps what an acknowledgement in flight has read.
LEMMA ReadLastNext == ASSUME IInv, Effect, Motion PROVE ReadLast'
<1>0. TypeOK /\ KnownExist
  BY DEF IInv, Basics
<1> DEFINE Keeps ==
             /\ reopened => reopened'
             /\ ~reopened' /\ released # "no" =>
                  released' # "no" /\ (released = "done" => released' = "done")
             /\ \/ Versions("control")' = Versions("control")
                \/ released = "no" /\ \E t \in Slots : flight[t].op \in UpdateOps
<1>1. Keeps
  <2>1. ASSUME NEW n \in SettingNames, NEW version \in Nat, NEW value \in SUBSET Keys,
               NEW k \in Commands, Wants(n, version, value, k)
        PROVE  Keeps
    BY <2>1 DEF Wants
  <2>2. ASSUME NEW k \in Commands, Releases(k) PROVE Keeps
    <3>1. NewCommand("release", 0, {}) \in CommandDocs
          /\ NewCommand("release", 0, {}).kind = "release"
      BY NewCommandType DEF Kinds
    <3> QED  BY <1>0, <2>2, <3>1, VersionsGrow DEF Releases
  <2>3. ASSUME NEW k \in Commands, Confirms(k) PROVE Keeps
    BY <1>0, <2>3, VersionsKept DEF Confirms
  <2>4. ASSUME NEW s \in Slots, AckRelease(s) PROVE Keeps
    BY <1>0, <2>4, AckReleaseFinishes, VersionsKept DEF Finishes
  <2>5. CASE Quiet
    BY <1>0, <2>5, VersionsKept DEF Quiet
  <2>6. CASE Reopens
    BY <1>0, <2>6, VersionsKept DEF Reopens
  <2> QED  BY <2>1, <2>2, <2>3, <2>4, <2>5, <2>6 DEF Effect
<1>2. SUFFICES ASSUME NEW s \in Slots, flight'[s].op = "ack_device", flight'[s].read.kind = "release"
               PROVE  /\ ~reopened' => released' # "no" /\ (flight'[s].done => released' = "done")
                      /\ Ordered' => \A v \in Versions("control")' :
                                       v <= flight'[s].device["control"].desiredVersion
  BY DEF ReadLast
<1>3. Ordered' => Ordered
  BY <1>1 DEF Ordered, Alone, Motion
<1>4. CASE flight'[s] = flight[s]
  <2>1. ~reopened' => released' # "no" /\ (flight'[s].done => released' = "done")
    BY <1>1, <1>2, <1>4 DEF IInv, ReadLast
  <2>2. Ordered => \A v \in Versions("control") : v <= flight[s].device["control"].desiredVersion
    BY <1>2, <1>4 DEF IInv, ReadLast
  <2>3. Ordered' => Versions("control")' = Versions("control")
    <3>1. SUFFICES ASSUME Ordered', released = "no", NEW t \in Slots, flight[t].op \in UpdateOps
                   PROVE  FALSE
      BY <1>1
    <3>2. reopened /\ Alone
      BY <1>2, <1>3, <1>4, <3>1 DEF IInv, ReadLast, Ordered
    <3>3. flight[t] # Idle /\ flight[s] # Idle /\ flight[t].op # flight[s].op
      BY <1>2, <1>4, <3>1 DEF Idle, UpdateOps
    <3> QED  BY <3>2, <3>3 DEF IInv, OneHandler
  <2> QED  BY <1>3, <1>4, <2>1, <2>2, <2>3
<1>5. CASE flight'[s] # flight[s]
  <2>1. flight \in [Slots -> Flights]
    BY <1>0 DEF TypeOK
  <2>2. Moves(s)
    BY <1>5, <2>1 DEF Motion, Moves
  <2>3. /\ UNCHANGED <<released, reopened, settings, commands>> /\ flight'[s].device = settings
        /\ flight'[s].done => released = "done"
        /\ \E k \in Created : flight'[s].read = commands[k]
    BY <1>2, <2>1, <2>2 DEF Moves
  <2>4. released # "no" \/ reopened
    BY <1>2, <2>3 DEF IInv, CommandsAgree
  <2>5. Ordered => \A v \in Versions("control") : v <= settings["control"].desiredVersion
    BY DEF IInv, CommandsAgree, ControlAgrees
  <2>6. Versions("control")' = Versions("control")
    BY <2>3 DEF Versions, Created
  <2> QED  BY <1>3, <2>3, <2>4, <2>5, <2>6
<1> QED  BY <1>4, <1>5

\* The inductive invariant holds in every state.
LEMMA Invariance == Spec => []IInv
<1>1. Init => IInv
  BY IInvInit
<1>2. IInv /\ [Next]_vars => IInv'
  <2>1. SUFFICES ASSUME IInv, [Next]_vars PROVE IInv'
    OBVIOUS
  <2>2. Basics' /\ Effect /\ Motion
    BY <2>1, TypesNext, NextEffect DEF IInv, Basics
  <2>3. Agreed' /\ ReadLast'
    BY <2>1, <2>2, AgreedNext, ReadLastNext
  <2>4. (\E m \in Nat : Newest(m))'
    BY <2>3 DEF Agreed
  <2>5. (Alone => OneHandler)'
    <3>1. Alone' => Alone
      BY <2>2 DEF Motion, Alone
    <3> QED  BY <2>1, <2>2, <3>1, OneHandlerNext DEF IInv, Basics
  <2> QED  BY <2>2, <2>3, <2>4, <2>5 DEF Agreed, IInv
<1> QED  BY <1>1, <1>2, PTL DEF Spec

-----------------------------------------------------------------------------
(* What follows from it *)

\* However requests, retries and dying handlers overlap, a version of a setting stands for
\* one value, and what waits to be delivered is what is wanted, as long as no job or
\* acknowledgement has written another state over a release.  Even then, at most one command
\* of a setting waits, and of the restrictions it is the newest.
THEOREM Agreement == Spec => []RestrictionsAgree
<1>1. IInv => RestrictionsAgree
  <2>1. SUFFICES ASSUME IInv PROVE OneValuePerVersion /\ PendingIsWanted
    BY DEF RestrictionsAgree
  <2>2. OneValuePerVersion
    <3>1. SUFFICES ASSUME ~reopened, NEW j \in Created, NEW k \in Created
                   PROVE  /\ commands[j].kind = commands[k].kind /\ commands[j].version = commands[k].version
                               => commands[j].value = commands[k].value
                          /\ commands[k].kind \in SettingNames =>
                               /\ commands[k].version <= settings[commands[k].kind].desiredVersion
                               /\ commands[k].version = settings[commands[k].kind].desiredVersion
                                    /\ released # "done"
                                  => commands[k].value = settings[commands[k].kind].desired
      BY DEF OneValuePerVersion
    <3>2. ControlAgrees /\ RestrictionAgrees
      BY <2>1, <3>1 DEF IInv, CommandsAgree, Ordered
    <3>3. commands[k].kind \in Kinds /\ commands[k].version \in Versions(commands[k].kind)
      BY <2>1, CreatedType, VersionOf DEF IInv, Basics, Created, CommandDocs
    <3>4. CASE commands[k].kind = "control"
      BY <3>2, <3>3, <3>4 DEF ControlAgrees
    <3>5. CASE commands[k].kind = "restrictions"
      BY <2>1, <3>2, <3>3, <3>5 DEF RestrictionAgrees, IInv, CommandsAgree
    <3>6. CASE commands[k].kind = "release"
      BY <2>1, <3>6 DEF IInv, CommandsAgree, SettingNames
    <3> QED  BY <3>3, <3>4, <3>5, <3>6 DEF Kinds, SettingNames
  <2>3. ASSUME NEW n \in SettingNames
        PROVE  LET waiting == {k \in Commands : commands[k].kind = n /\ commands[k].status = "pending"} IN
               /\ Cardinality(waiting) <= 1
               /\ waiting # {} => released = "no" \/ reopened
               /\ n = "restrictions" \/ ~reopened =>
                    \A k \in waiting : commands[k].version = settings[n].desiredVersion
    <3> DEFINE waiting == {k \in Commands : commands[k].kind = n /\ commands[k].status = "pending"}
    <3>1. waiting \subseteq Created
      BY DEF Created, NoCommand
    <3>2. \A j, k \in waiting : j = k
      BY <2>1, <3>1 DEF IInv, OneWaits
    <3>3. waiting = {} \/ \E k \in waiting : waiting = {k}
      BY <3>2
    <3>4. Cardinality(waiting) <= 1
      <4> HIDE DEF waiting
      <4>1. Cardinality(waiting) \in {0, 1}
        BY <3>3, FS_EmptySet, FS_Singleton, Zenon
      <4> QED  BY <4>1
    <3>5. \A k \in waiting :
            /\ released = "no" \/ reopened
            /\ n = "restrictions" \/ ~reopened => commands[k].version = settings[n].desiredVersion
      BY <2>1, <3>1 DEF IInv, OneWaits
    <3> QED  BY <3>4, <3>5
  <2> QED  BY <2>2, <2>3 DEF PendingIsWanted
<1> QED  BY <1>1, Invariance, PTL

IssuedVersion == Max({0} \cup {commands[k].version : k \in {j \in Created : commands[j].kind = "control"}})

\* The greatest element, where one is known.
LEMMA MaxIs ==
  ASSUME NEW S, S \subseteq Nat, NEW m \in S, \A v \in S : v <= m PROVE Max(S) = m
<1>1. \A x \in S : (\A y \in S : x >= y) => x = m
  OBVIOUS
<1>2. \E x \in S : \A y \in S : x >= y
  OBVIOUS
<1> QED  BY <1>1, <1>2 DEF Max

\* What is promised at present.
Mode == IF ~reopened THEN "kept" ELSE IF scenario.parallel = 1 THEN "reopened" ELSE "lost"

\* The handlers keep the promise of ConfirmedRegister for the controls: late, repeated and
\* reordered confirmations, releases read before they are saved, and releases written over,
\* are its steps.
LEMMA StepRegisters ==
  ASSUME IInv, Effect, Motion
  PROVE  ControlRegister!Next \/ UNCHANGED ControlRegister!vars
<1> DEFINE d == settings["control"]
           S == {0} \cup Versions("control")
<1>0. /\ settings \in [SettingNames -> Settings] /\ d \in Settings
      /\ TypeOK /\ KnownExist
  BY DEF IInv, Basics, TypeOK, SettingNames
<1>1. PICK m \in Nat : Newest(m)
  BY DEF IInv
<1>2. S \subseteq Nat /\ m \in S /\ (\A v \in S : v <= m) /\ IssuedVersion = m
  <2>1. S \subseteq Nat /\ m \in S /\ \A v \in S : v <= m
    BY <1>0, <1>1, VersionType DEF Newest, ControlVersions
  <2>2. Max(S) = m
    BY <2>1, MaxIs
  <2> QED  BY <2>1, <2>2 DEF IssuedVersion, Versions
<1>3. IssuedVersion' = Max(S')
  BY DEF IssuedVersion, Versions
<1>4. S' = S => IssuedVersion' = m
  BY <1>2, <1>3 DEF IssuedVersion, Versions
<1>5. d.desiredVersion \in S => ~(d.desiredVersion > IssuedVersion)
  BY <1>2
<1>6. /\ Mode = "kept" <=> ~reopened
      /\ Mode = "lost" <=> reopened /\ ~Alone
      /\ Mode # "lost" => Ordered
      /\ reopened' = reopened => Mode' = Mode
      /\ reopened' => Mode' \in {"reopened", "lost"}
      /\ Mode = "lost" /\ reopened' => Mode' = "lost"
  BY DEF Mode, Alone, Ordered, Motion
<1>7. /\ UNCHANGED ControlRegister!vars <=>
           /\ d'.desired = d.desired /\ d'.desiredVersion = d.desiredVersion
           /\ d'.applied = d.applied /\ d'.appliedVersion = d.appliedVersion
           /\ IssuedVersion' = IssuedVersion /\ Mode' = Mode
      /\ ControlRegister!Next <=>
           \/ \E v \in SUBSET Keys :
                /\ Mode = "kept" => ~(d.desiredVersion > IssuedVersion)
                /\ d'.desired = v /\ d'.desiredVersion = d.desiredVersion + 1
                /\ IssuedVersion' = d'.desiredVersion
                /\ d'.applied = d.applied /\ d'.appliedVersion = d.appliedVersion /\ Mode' = Mode
           \/ /\ ~(d.desiredVersion > IssuedVersion)
              /\ d'.applied = d.desired /\ d'.appliedVersion = d.desiredVersion
              /\ d'.desired = d.desired /\ d'.desiredVersion = d.desiredVersion
              /\ IssuedVersion' = IssuedVersion /\ Mode' = Mode
           \/ /\ d'.desired = {} /\ d'.applied = {}
              /\ d'.desiredVersion > IssuedVersion
              /\ d'.appliedVersion = d'.desiredVersion
              /\ IssuedVersion' = IssuedVersion /\ Mode' = Mode
           \/ /\ Mode = "kept" /\ Mode' \in {"reopened", "lost"}
              /\ d'.desired = d.desired /\ d'.desiredVersion = d.desiredVersion
              /\ d'.applied = d.applied /\ d'.appliedVersion = d.appliedVersion
              /\ IssuedVersion' = IssuedVersion
           \/ Mode = "lost" /\ Mode' = "lost"
  BY Zenon DEF ControlRegister!vars, ControlRegister!Next, ControlRegister!Want,
       ControlRegister!Confirm, ControlRegister!Release, ControlRegister!Reopen,
       ControlRegister!Unpromised, ControlRegister!Closed, IssuedVersion, Mode
<1>8. ASSUME NEW n \in SettingNames, NEW version \in Nat, NEW value \in SUBSET Keys,
             NEW k \in Commands, Wants(n, version, value, k), Ordered
      PROVE  ControlRegister!Next \/ UNCHANGED ControlRegister!vars
  <2>1. /\ NewCommand(n, version, value) \in CommandDocs
        /\ NewCommand(n, version, value).kind = n
        /\ NewCommand(n, version, value).version = version
    BY NewCommandType DEF Kinds
  <2>2. Versions("control")' = IF n = "control" THEN Versions("control") \cup {version}
                               ELSE Versions("control")
    BY <1>0, <1>8, <2>1, VersionsGrow DEF Wants
  <2>3. /\ \A v \in S : v <= d.desiredVersion
        /\ Mode = "kept" => ~(d.desiredVersion > IssuedVersion)
        /\ Mode' = Mode
    <3>1. \A v \in Versions("control") : v <= d.desiredVersion
      BY <1>8 DEF IInv, CommandsAgree, ControlAgrees
    <3>2. ~reopened => d.desiredVersion \in S
      BY <1>8 DEF Wants, IInv, CommandsAgree, ControlVersions
    <3>3. d.desiredVersion \in Nat
      BY <1>0 DEF Settings
    <3>4. reopened' = reopened
      BY <1>8 DEF Wants
    <3> QED  BY <1>5, <1>6, <3>1, <3>2, <3>3, <3>4
  <2>4. CASE n # "control"
    <3>1. d' = d /\ S' = S
      BY <1>0, <1>8, <2>2, <2>4 DEF Wants, SettingNames
    <3> QED  BY <1>2, <1>4, <1>7, <2>3, <3>1
  <2>5. CASE n = "control"
    <3>1. /\ d'.desired = value /\ d'.desiredVersion = version
          /\ d'.applied = d.applied /\ d'.appliedVersion = d.appliedVersion
      BY <1>0, <1>8, <2>5 DEF Wants, Settings
    <3>2. CASE version = d.desiredVersion + 1
      <4>1. S' \subseteq Nat /\ version \in S' /\ \A v \in S' : v <= version
        <5>1. d.desiredVersion \in Nat
          BY <1>0 DEF Settings
        <5> QED  BY <1>2, <2>2, <2>3, <2>5, <3>2, <5>1
      <4>2. IssuedVersion' = version
        BY <1>3, <4>1, MaxIs
      <4> QED  BY <1>7, <2>3, <3>1, <3>2, <4>2
    <3>3. CASE version = d.desiredVersion /\ value = d.desired /\ version \in ControlVersions
      <4>1. S' = S
        BY <2>2, <2>5, <3>3 DEF ControlVersions
      <4>2. d' = d
        <5>1. d' = [d EXCEPT !.desired = value, !.desiredVersion = version]
          BY <1>0, <1>8, <2>5 DEF Wants
        <5> QED  BY <1>0, <3>3, <5>1 DEF Settings
      <4> QED  BY <1>2, <1>4, <1>7, <2>3, <4>1, <4>2
    <3> QED  BY <1>8, <2>5, <3>2, <3>3 DEF Wants
  <2> QED  BY <2>4, <2>5
<1>9. ASSUME NEW k \in Commands, Releases(k)
      PROVE  ControlRegister!Next \/ UNCHANGED ControlRegister!vars
  <2>1. NewCommand("release", 0, {}) \in CommandDocs /\ NewCommand("release", 0, {}).kind = "release"
    BY NewCommandType DEF Kinds
  <2>2. S' = S /\ d' = d /\ Mode' = Mode
    BY <1>0, <1>6, <1>9, <2>1, VersionsGrow DEF Releases
  <2> QED  BY <1>2, <1>4, <1>7, <2>2
<1>10. ASSUME NEW k \in Commands, Confirms(k), Ordered
       PROVE  ControlRegister!Next \/ UNCHANGED ControlRegister!vars
  <2>1. S' = S /\ Mode' = Mode
    BY <1>0, <1>6, <1>10, VersionsKept DEF Confirms
  <2>2. commands[k].version = d.desiredVersion /\ d.desiredVersion \in S
    BY <1>10 DEF Confirms, Versions
  <2>3. ~(d.desiredVersion > IssuedVersion)
    BY <1>5, <2>2
  <2>4. commands[k].value = d.desired
    BY <1>10, <2>2 DEF Confirms, IInv, CommandsAgree, ControlAgrees
  <2>5. /\ d'.applied = d.desired /\ d'.appliedVersion = d.desiredVersion
        /\ d'.desired = d.desired /\ d'.desiredVersion = d.desiredVersion
    BY <1>0, <1>10, <2>2, <2>4 DEF Confirms, Settings, SettingNames
  <2> QED  BY <1>2, <1>4, <1>7, <2>1, <2>3, <2>5
<1>11. ASSUME NEW s \in Slots, AckRelease(s), Ordered
       PROVE  ControlRegister!Next \/ UNCHANGED ControlRegister!vars
  <2> DEFINE entry == flight[s].device["control"]
  <2>1. Finishes(entry)
    BY <1>0, <1>11, AckReleaseFinishes
  <2>2. entry \in Settings /\ \A v \in Versions("control") : v <= entry.desiredVersion
    BY <1>11, AckReleaseLast
  <2> HIDE DEF entry
  <2>3. S' = S /\ Mode' = Mode
    BY <1>0, <1>6, <2>1, VersionsKept DEF Finishes
  <2>4. /\ d'.desired = {} /\ d'.applied = {} /\ d'.appliedVersion = d'.desiredVersion
        /\ d'.desiredVersion > entry.desiredVersion /\ d'.desiredVersion \in Nat
        /\ entry.desiredVersion \in Nat
    BY <2>1, <2>2, ReleasedType DEF Finishes, Settings
  <2>5. d'.desiredVersion > m
    BY <1>2, <2>2, <2>4
  <2> QED  BY <1>2, <1>4, <1>7, <2>3, <2>4, <2>5
<1>12. CASE Quiet
  <2>1. S' = S /\ d' = d /\ Mode' = Mode
    BY <1>0, <1>6, <1>12, VersionsKept DEF Quiet
  <2> QED  BY <1>2, <1>4, <1>7, <2>1
<1>13. CASE Reopens
  <2>1. S' = S /\ d' = d /\ reopened'
    BY <1>0, <1>13, VersionsKept DEF Reopens
  <2>2. reopened => Mode' = Mode
    BY <2>1 DEF Mode, Motion
  <2> QED  BY <1>2, <1>4, <1>6, <1>7, <2>1, <2>2
<1>14. CASE Mode = "lost"
  <2>1. reopened'
    <3>1. reopened /\ \A s \in Slots : AckRelease(s) => reopened' = reopened
      BY <1>0, <1>6, <1>14, AckReleaseFinishes DEF Finishes
    <3> QED  BY <3>1 DEF Effect, Wants, Releases, Confirms, Quiet, Reopens
  <2> QED  BY <1>6, <1>7, <1>14, <2>1
<1>15. CASE Mode # "lost"
  BY <1>6, <1>8, <1>9, <1>10, <1>11, <1>12, <1>13, <1>15 DEF Effect
<1> QED  BY <1>14, <1>15

\* The initial states are those of the confirmed register.
LEMMA InitRegisters == Init => ControlRegister!Init
<1> SUFFICES ASSUME Init PROVE ControlRegister!Init
  OBVIOUS
<1>1. Created = {} /\ settings["control"] = NewSetting
  BY DEF Init, Created, SettingNames
<1>2. IssuedVersion = 0
  <2>1. {commands[k].version : k \in {j \in Created : commands[j].kind = "control"}} = {}
    BY <1>1
  <2>2. {0} \cup {commands[k].version : k \in {j \in Created : commands[j].kind = "control"}} = {0}
    BY <2>1
  <2>3. Max({0}) = 0
    BY MaxIs
  <2> QED  BY <2>2, <2>3 DEF IssuedVersion
<1>3. ControlRegister!Init <=>
        /\ settings["control"].desired = {} /\ settings["control"].desiredVersion = 0
        /\ settings["control"].applied = {} /\ settings["control"].appliedVersion = 0
        /\ IssuedVersion = 0 /\ Mode = "kept"
  BY Zenon DEF ControlRegister!Init, IssuedVersion, Mode
<1>4. Mode = "kept"
  BY DEF Init, Mode
<1> QED  BY <1>1, <1>2, <1>3, <1>4 DEF NewSetting

\* Confirmations that come late, twice or out of order, handlers that die between their
\* saves and a release in the middle of it all: the record of a security control is always
\* one that ConfirmedRegister could have, which keeps it off for good after a release only
\* until a job or an acknowledgement writes another state over the release.
THEOREM Refinement == Spec => ConfirmsWanted
<1>1. Init => ControlRegister!Init
  BY InitRegisters
<1>2. IInv /\ [Next]_vars => [ControlRegister!Next]_(ControlRegister!vars)
  <2>1. SUFFICES ASSUME IInv, [Next]_vars
                 PROVE  ControlRegister!Next \/ UNCHANGED ControlRegister!vars
    OBVIOUS
  <2>2. Effect /\ Motion
    BY <2>1, NextEffect DEF IInv, Basics
  <2> QED  BY <2>1, <2>2, StepRegisters
<1> QED  BY <1>1, <1>2, Invariance, PTL DEF Spec, ConfirmsWanted, ControlRegister!Spec
-----------------------------------------------------------------------------
(* The record of the restrictions *)

\* The phone was told to apply this value under this version.
Told(version, value) ==
  \E k \in known : /\ commands[k].kind = "restrictions"
                   /\ commands[k].version = version /\ commands[k].value = value

\* An acknowledgement in progress is about a command the phone knows, which is still what it
\* was when it was read, and finds the record as it read it.
Fresh(f) ==
  f.op = "ack_device" =>
    /\ f.id \in known
    /\ f.read.kind = commands[f.id].kind /\ f.read.version = commands[f.id].version
    /\ f.read.value = commands[f.id].value
    /\ f.device["restrictions"].applied = settings["restrictions"].applied
    /\ f.device["restrictions"].appliedVersion = settings["restrictions"].appliedVersion
    /\ f.done /\ ~reopened => released = "done"

TrueRecord ==
  settings["restrictions"].appliedVersion > 0 /\ released # "done" /\ ~reopened =>
    Told(settings["restrictions"].appliedVersion, settings["restrictions"].applied)

InOrder == OneHandler /\ TrueRecord /\ \A s \in Slots : Fresh(flight[s])

\* The record as it was, and known commands that are what they were.
RecordKept ==
  /\ settings'["restrictions"].applied = settings["restrictions"].applied
  /\ settings'["restrictions"].appliedVersion = settings["restrictions"].appliedVersion
  /\ known \subseteq known'
  /\ ~reopened' => ~reopened /\ (released = "done" => released' = "done")

\* The applied version only grows, and what it says the phone had been told.
Grows ==
  /\ settings'["restrictions"].appliedVersion >= settings["restrictions"].appliedVersion
  /\ settings'["restrictions"].appliedVersion > 0 /\ released' # "done" /\ ~reopened' =>
       Told(settings'["restrictions"].appliedVersion, settings'["restrictions"].applied)

\* What the device was told stays known to it.
LEMMA ToldStays ==
  ASSUME KnownExist, CommandsKept, known \subseteq known', NEW version, NEW value, Told(version, value)
  PROVE  \E k \in known' : /\ commands'[k].kind = "restrictions"
                           /\ commands'[k].version = version /\ commands'[k].value = value
BY DEF Told, KnownExist, CommandsKept

\* The applied version is a number.
LEMMA AppliedType == ASSUME TypeOK PROVE settings["restrictions"].appliedVersion \in Nat
BY DEF TypeOK, SettingNames, Settings

\* A step that keeps the record keeps it true and growing.
LEMMA RecordStays ==
  ASSUME TypeOK, KnownExist, InOrder, CommandsKept, RecordKept PROVE TrueRecord' /\ Grows
<1>1. TrueRecord'
  <2>1. SUFFICES ASSUME settings'["restrictions"].appliedVersion > 0, released' # "done", ~reopened'
                 PROVE  \E k \in known' : /\ commands'[k].kind = "restrictions"
                                          /\ commands'[k].version = settings'["restrictions"].appliedVersion
                                          /\ commands'[k].value = settings'["restrictions"].applied
    BY DEF TrueRecord, Told
  <2>2. Told(settings["restrictions"].appliedVersion, settings["restrictions"].applied)
    BY <2>1 DEF RecordKept, InOrder, TrueRecord
  <2>3. known \subseteq known'
    BY DEF RecordKept
  <2>4. PICK k \in known' : /\ commands'[k].kind = "restrictions"
                            /\ commands'[k].version = settings["restrictions"].appliedVersion
                            /\ commands'[k].value = settings["restrictions"].applied
    BY <2>2, <2>3, ToldStays
  <2> QED  BY <2>4 DEF RecordKept
<1>2. Grows
  <2>1. settings'["restrictions"].appliedVersion > 0 /\ released' # "done" /\ ~reopened' =>
          Told(settings["restrictions"].appliedVersion, settings["restrictions"].applied)
    BY DEF RecordKept, InOrder, TrueRecord
  <2>2. settings'["restrictions"].appliedVersion >= settings["restrictions"].appliedVersion
    BY AppliedType DEF RecordKept
  <2> QED  BY <2>1, <2>2 DEF Grows, RecordKept
<1> QED  BY <1>1, <1>2

\* A flight that no step touched stays fresh while the record is kept.
LEMMA StaysFresh ==
  ASSUME KnownExist, CommandsKept, RecordKept, NEW s \in Slots, Fresh(flight[s]), flight'[s] = flight[s]
  PROVE  Fresh(flight[s])'
<1>1. CASE flight[s].op = "ack_device"
  <2>1. flight[s].id \in Created
    BY <1>1 DEF KnownExist, CreatingOps
  <2> QED  BY <1>1, <2>1 DEF Fresh, CommandsKept, RecordKept
<1>2. CASE flight[s].op # "ack_device"
  BY <1>2 DEF Fresh
<1> QED  BY <1>1, <1>2

\* The one handler in progress takes a step that leaves the record alone.
LEMMA OneActs ==
  ASSUME TypeOK, KnownExist, InOrder, CommandsKept, RecordKept, NEW s \in Slots, OneHandler',
         \A t \in Slots : t # s => flight'[t] = flight[t],
         flight'[s].op = "ack_device" => Fresh(flight[s])'
  PROVE  InOrder' /\ Grows
<1>1. \A t \in Slots : Fresh(flight[t])'
  <2>1. ASSUME NEW t \in Slots, t # s PROVE Fresh(flight[t])'
    BY <2>1, StaysFresh DEF InOrder
  <2>2. flight'[s].op # "ack_device" => Fresh(flight[s])'
    BY DEF Fresh
  <2> QED  BY <2>1, <2>2
<1> QED  BY <1>1, RecordStays DEF InOrder
\* A step that leaves the settings alone keeps the record.
LEMMA SameRecord ==
  ASSUME UNCHANGED settings, UNCHANGED <<released, reopened>>, known \subseteq known' PROVE RecordKept
BY DEF RecordKept

\* So does asking for a newer version.
LEMMA WantsRecord ==
  ASSUME TypeOK, NEW n \in SettingNames, NEW version \in Nat, NEW value \in SUBSET Keys, NEW k \in Commands,
         Wants(n, version, value, k)
  PROVE  RecordKept
<1>1. settings \in [SettingNames -> Settings]
  BY DEF TypeOK
<1>2. PICK new : new = [settings[n] EXCEPT !.desired = value, !.desiredVersion = version]
  OBVIOUS
<1>3. new.applied = settings[n].applied /\ new.appliedVersion = settings[n].appliedVersion
  <2>1. settings[n] \in Settings
    BY <1>1
  <2> QED  BY <1>2, <2>1 DEF Settings
<1>4. settings' = [settings EXCEPT ![n] = new]
  BY <1>2 DEF Wants
<1>5. /\ settings'["restrictions"].applied = settings["restrictions"].applied
      /\ settings'["restrictions"].appliedVersion = settings["restrictions"].appliedVersion
  <2>1. CASE n = "restrictions"
    BY <1>1, <1>3, <1>4, <2>1
  <2>2. CASE n # "restrictions"
    BY <1>1, <1>4, <2>2 DEF SettingNames
  <2> QED  BY <2>1, <2>2
<1> QED  BY <1>5 DEF Wants, RecordKept

\* Handlers that start, and read.
LEMMA StartOrder ==
  ASSUME TypeOK, KnownExist, Alone, InOrder, CommandsKept, NEW s \in Slots, NEW f, Begin(s, f),
         UNCHANGED <<state, settings, commands, known>>, f.op = "ack_device" => Fresh(f)
  PROVE  InOrder' /\ Grows
<1>1. /\ flight'[s] = f /\ \A t \in Slots : t # s => flight'[t] = flight[t]
      /\ OneHandler'
  BY StartsAlone DEF InOrder
<1>2. RecordKept
  BY SameRecord DEF state
<1>3. f.op = "ack_device" => Fresh(flight[s])'
  BY <1>1 DEF Fresh, state
<1> QED  BY <1>1, <1>2, <1>3, OneActs

\* Reading an acknowledgement keeps the order.
LEMMA AckReadOrder ==
  ASSUME TypeOK, KnownExist, Alone, InOrder, CommandsKept, NEW s \in Slots, NEW k \in Commands,
         NEW outcome \in Outcomes, AckRead(s, k, outcome)
  PROVE  InOrder' /\ Grows
<1>1. PICK f : f = [op |-> IF outcome = "acknowledged" THEN "ack_device" ELSE "ack_status",
                    id |-> k, outcome |-> outcome, read |-> commands[k],
                    done |-> outcome = "acknowledged" /\ released = "done",
                    device |-> IF outcome = "acknowledged" THEN settings ELSE Unread]
  OBVIOUS
<1>2. Begin(s, f) /\ k \in known /\ UNCHANGED <<state, settings, commands, known>>
  BY <1>1 DEF AckRead
<1>3. /\ f.id = k /\ f.read = commands[k] /\ (f.done => released = "done")
      /\ f.op = "ack_device" => f.device = settings
  BY <1>1
<1>4. f.op = "ack_device" => Fresh(f)
  BY <1>2, <1>3 DEF Fresh
<1> QED  BY <1>2, <1>4, StartOrder

\* Handlers that go on or end, and leave the record alone.
LEMMA ProceedOrder ==
  ASSUME TypeOK, KnownExist, InOrder, CommandsKept, RecordKept, NEW s \in Slots, flight[s] # Idle,
         NEW f, Continue(s, f), f.op # "ack_device"
  PROVE  InOrder' /\ Grows
<1>1. flight'[s] = f /\ (\A t \in Slots : t # s => flight'[t] = flight[t]) /\ OneHandler'
  BY GoesOnAlone DEF InOrder
<1> QED  BY <1>1, OneActs

\* So does ending one.
LEMMA EndOrder ==
  ASSUME TypeOK, KnownExist, InOrder, CommandsKept, RecordKept, NEW s \in Slots, flight[s] # Idle, End(s)
  PROVE  InOrder' /\ Grows
<1>1. Continue(s, Idle) /\ Idle.op # "ack_device"
  BY DEF End, Idle
<1> QED  BY <1>1, ProceedOrder

\* A confirmed release closes the record.
LEMMA AckReleaseOrder ==
  ASSUME TypeOK, KnownExist, InOrder, CommandsKept, NEW s \in Slots, AckRelease(s)
  PROVE  InOrder' /\ Grows
<1>1. /\ flight[s].op = "ack_device" /\ UNCHANGED known /\ Continue(s, Recorded(flight[s]))
      /\ released' = "done" \/ reopened'
  BY DEF AckRelease, At, InOrder, Fresh
<1>2. flight[s] # Idle
  BY <1>1 DEF Idle
<1>3. Recorded(flight[s]).op = "ack_status"
  BY <1>1, AckFlight DEF AckFlights, Recorded
<1>4. PICK f : f = Recorded(flight[s])
  OBVIOUS
<1>5. Continue(s, f) /\ f.op = "ack_status"
  BY <1>1, <1>3, <1>4
<1>6. flight'[s] = f /\ (\A t \in Slots : t # s => flight'[t] = Idle) /\ OneHandler'
  BY <1>2, <1>5, GoesOnAlone DEF InOrder
<1>7. \A t \in Slots : Fresh(flight[t])'
  BY <1>5, <1>6 DEF Fresh, Idle
<1>8. TrueRecord'
  BY <1>1 DEF TrueRecord
<1>9. settings'["restrictions"].appliedVersion = settings["restrictions"].appliedVersion
  <2> DEFINE r == settings["restrictions"]
             old == flight[s].device["restrictions"]
             desired == IF old.desired = {} THEN r.desired ELSE {}
             applied == IF old.applied = {} THEN r.applied ELSE {}
             closed == ReleasedControl(flight[s].device["control"])
             new == [r EXCEPT !.desired = desired, !.applied = applied]
  <2>1. settings \in [SettingNames -> Settings] /\ r \in Settings
    BY DEF TypeOK, SettingNames
  <2>2. settings' = [settings EXCEPT !.restrictions.desired = desired,
                                     !.restrictions.applied = applied, !.control = closed]
    BY Zenon DEF AckRelease
  <2> HIDE DEF closed, desired, applied
  <2>3. settings' = [settings EXCEPT !["restrictions"] = new, !["control"] = closed]
    BY <2>1, <2>2 DEF SettingNames
  <2>4. new.appliedVersion = r.appliedVersion
    BY <2>1 DEF Settings
  <2> HIDE DEF new
  <2> QED  BY <2>1, <2>3, <2>4 DEF SettingNames
<1>10. Grows
  BY <1>1, <1>9, AppliedType DEF Grows
<1> QED  BY <1>6, <1>7, <1>8, <1>10 DEF InOrder

\* A confirmed restriction is recorded as the phone was told it.
LEMMA AckRestrictionsOrder ==
  ASSUME TypeOK, KnownExist, InOrder, CommandsKept, NEW s \in Slots, AckRestrictions(s)
  PROVE  InOrder' /\ Grows
<1>1. /\ flight[s].op = "ack_device" /\ flight[s].read.kind = "restrictions"
      /\ UNCHANGED <<released, reopened, known, commands>> /\ Continue(s, Recorded(flight[s]))
  BY DEF AckRestrictions, At, state
<1>2. flight[s] # Idle
  BY <1>1 DEF Idle
<1>3. PICK f : f = Recorded(flight[s])
  OBVIOUS
<1>4. Continue(s, f) /\ f.op = "ack_status" /\ flight[s] \in AckFlights
  <2>1. flight[s] \in AckFlights
    BY <1>1, AckFlight
  <2> QED  BY <1>1, <1>3, <2>1 DEF AckFlights, Recorded
<1>5. flight'[s] = f /\ (\A t \in Slots : t # s => flight'[t] = Idle) /\ OneHandler'
  BY <1>2, <1>4, GoesOnAlone DEF InOrder
<1>6. \A t \in Slots : Fresh(flight[t])'
  BY <1>4, <1>5 DEF Fresh, Idle
<1>7. Fresh(flight[s])
  BY DEF InOrder
<1> DEFINE r == settings["restrictions"]
           read == flight[s].read
           old == flight[s].device["restrictions"]
           applied == IF read.value = old.applied THEN r.applied ELSE read.value
           version == IF read.version = old.appliedVersion THEN r.appliedVersion ELSE read.version
           new == [r EXCEPT !.applied = applied, !.appliedVersion = version]
<1>8. old.applied = r.applied /\ old.appliedVersion = r.appliedVersion
  BY <1>1, <1>7 DEF Fresh
<1>9. applied = read.value /\ version = read.version
  BY <1>8
<1>10. settings \in [SettingNames -> Settings] /\ r \in Settings /\ read \in CommandDocs
  BY <1>4 DEF TypeOK, SettingNames, AckFlights
<1>11. \/ settings' = settings
       \/ settings' = [settings EXCEPT !["restrictions"] = new] /\ read.version >= r.appliedVersion
  <2>1. CASE Advances(flight[s])
    <3>1. settings' = [settings EXCEPT !.restrictions.applied = applied,
                                       !.restrictions.appliedVersion = version]
      BY <2>1 DEF AckRestrictions
    <3>2. read.version >= r.appliedVersion
      BY <2>1, <1>8 DEF Advances
    <3> QED  BY <1>10, <3>1, <3>2 DEF SettingNames
  <2>2. CASE ~Advances(flight[s])
    BY <2>2 DEF AckRestrictions
  <2> QED  BY <2>1, <2>2
<1>12. new.applied = read.value /\ new.appliedVersion = read.version
  <2> HIDE DEF applied, version
  <2> QED  BY <1>9, <1>10 DEF Settings
<1> HIDE DEF new, applied, version
<1>13. CASE settings' = settings
  <2>1. RecordKept
    BY <1>1, <1>13, SameRecord
  <2> QED  BY <2>1, <1>5, <1>6, RecordStays DEF InOrder
<1>14. CASE settings' = [settings EXCEPT !["restrictions"] = new] /\ read.version >= r.appliedVersion
  <2>1. settings'["restrictions"] = new
    BY <1>10, <1>14 DEF SettingNames
  <2>2. Told(read.version, read.value)
    BY <1>1, <1>7 DEF Fresh, Told
  <2>3. Grows
    BY <2>1, <2>2, <1>12, <1>14 DEF Grows
  <2>4. Told(settings["restrictions"].appliedVersion, settings["restrictions"].applied)'
    BY <2>1, <2>2, <1>1, <1>12 DEF Told
  <2> QED  BY <2>3, <2>4, <1>5, <1>6 DEF InOrder, TrueRecord
<1> QED  BY <1>11, <1>13, <1>14

\* So does each step of a handler.
LEMMA HandleOrder ==
  ASSUME TypeOK, KnownExist, RetryKnown, Alone, InOrder, CommandsKept, NEW s \in Slots, Handle(s)
  PROVE  InOrder' /\ Grows
<1>1. ASSUME NEW n \in SettingNames, NEW key \in Keys, NEW on \in BOOLEAN, NEW retry \in BOOLEAN,
             UpdateRead(s, n, key, on, retry)
      PROVE  InOrder' /\ Grows
  BY <1>1, StartOrder DEF UpdateRead
<1>2. ASSUME NEW k \in Commands, UpdateCommit(s, k) PROVE InOrder' /\ Grows
  <2>1. RecordKept
    BY <1>2, UpdateCommitWants, WantsRecord
  <2>2. flight[s] # Idle /\ End(s)
    BY <1>2 DEF UpdateCommit, At, Idle
  <2> QED  BY <2>1, <2>2, EndOrder
<1>3. ASSUME NEW k \in Commands, ClearCommit(s, k) PROVE InOrder' /\ Grows
  <2>1. RecordKept
    BY <1>3, ClearCommitWants, WantsRecord DEF SettingNames
  <2>2. flight[s] # Idle /\ End(s)
    BY <1>3 DEF ClearCommit, At, Idle
  <2> QED  BY <2>1, <2>2, EndOrder
<1>4. ASSUME NEW k \in Commands, PushRead(s, k) PROVE InOrder' /\ Grows
  BY <1>4, StartOrder DEF PushRead
<1>5. ASSUME NEW k \in Commands, NEW outcome \in Outcomes, AckRead(s, k, outcome) PROVE InOrder' /\ Grows
  BY <1>5, AckReadOrder
<1>6. CASE ClearRead(s)
  BY <1>6, StartOrder DEF ClearRead
<1>7. CASE UpdateRefused(s) \/ PushSave(s) \/ PushFailed(s) \/ AckStatus(s) \/ Fail(s)
  <2>1. flight[s] # Idle /\ End(s) /\ UNCHANGED <<state, settings, known>>
    <3>1. CASE Fail(s)
      BY <3>1 DEF Fail
    <3>2. CASE UpdateRefused(s)
      BY <3>2 DEF UpdateRefused, At, Idle
    <3>3. CASE PushSave(s)
      BY <3>3 DEF PushSave, At, Idle
    <3>4. CASE PushFailed(s)
      BY <3>4 DEF PushFailed, At, Idle
    <3>5. CASE AckStatus(s)
      <4>1. At(s, "ack_status") /\ End(s) /\ UNCHANGED <<bounds, state, settings, known>>
        BY <3>5, Zenon DEF AckStatus
      <4> QED  BY <4>1 DEF At, Idle
    <3> QED  BY <1>7, <3>1, <3>2, <3>3, <3>4, <3>5
  <2>2. RecordKept
    BY <2>1, SameRecord DEF state
  <2> QED  BY <2>1, <2>2, EndOrder
<1>8. CASE PushSend(s)
  <2>1. PICK f : f = [flight[s] EXCEPT !.op = "pushed"]
    OBVIOUS
  <2>2. flight[s].op = "push" /\ Continue(s, f) /\ known \subseteq known' /\ UNCHANGED <<state, settings>>
    BY <1>8, <2>1 DEF PushSend, At
  <2>3. f.op = "pushed"
    <3>1. flight[s] \in Flights
      BY DEF TypeOK
    <3>2. flight[s] \in [op : {"push", "pushed"}, id : Commands, read : CommandDocs]
      BY <2>2, <3>1 DEF Flights, Idle
    <3> QED  BY <2>1, <3>2
  <2>4. flight[s] # Idle
    BY <2>2 DEF Idle
  <2>5. RecordKept
    BY <2>2, SameRecord DEF state
  <2> QED  BY <2>2, <2>3, <2>4, <2>5, ProceedOrder
<1>9. CASE AckRestrictions(s) \/ AckRelease(s)
  BY <1>9, AckRestrictionsOrder, AckReleaseOrder
<1> QED  BY <1>1, <1>2, <1>3, <1>4, <1>5, <1>6, <1>7, <1>8, <1>9 DEF Handle

\* A request that is one step, or a sync, touches no handler in progress.
LEMMA OthersOrder ==
  ASSUME TypeOK, KnownExist, InOrder, CommandsKept, RecordKept, UNCHANGED flight
  PROVE  InOrder' /\ Grows
<1>1. OneHandler' /\ \A s \in Slots : Fresh(flight[s])'
  BY StaysFresh DEF InOrder, OneHandler
<1> QED  BY <1>1, RecordStays DEF InOrder

\* So does every step.
LEMMA OrderNext ==
  ASSUME Basics, Alone, InOrder, [Next]_vars PROVE InOrder' /\ Grows
<1>0. TypeOK /\ KnownExist /\ RetryKnown
  BY DEF Basics
<1>1. CommandsKept
  BY <1>0, NextEffect, EffectTypes
<1>2. ASSUME NEW s \in Slots, Handle(s) PROVE InOrder' /\ Grows
  BY <1>0, <1>1, <1>2, HandleOrder
<1>3. CASE Sync
  <2>1. RecordKept /\ UNCHANGED flight
    BY <1>3, SameRecord DEF Sync, state
  <2> QED  BY <1>0, <1>1, <2>1, OthersOrder
<1>4. ASSUME NEW k \in Commands, Release(k) PROVE InOrder' /\ Grows
  <2>1. RecordKept /\ UNCHANGED flight
    BY <1>4 DEF Release, RecordKept
  <2> QED  BY <1>0, <1>1, <2>1, OthersOrder
<1>5. ASSUME NEW k \in Commands, NEW outcome \in Outcomes, AckControl(k, outcome) PROVE InOrder' /\ Grows
  <2>1. UNCHANGED <<released, reopened, known, flight>>
    BY <1>5 DEF AckControl, state
  <2>2. settings'["restrictions"] = settings["restrictions"]
    <3>1. settings \in [SettingNames -> Settings]
      BY <1>0 DEF TypeOK
    <3>2. CASE Confirms(k)
      BY <3>1, <3>2 DEF Confirms, SettingNames
    <3>3. CASE UNCHANGED settings
      BY <3>3
    <3> QED  BY <1>0, <1>5, <3>2, <3>3, AckControlConfirms
  <2>3. RecordKept
    BY <2>1, <2>2 DEF RecordKept
  <2> QED  BY <1>0, <1>1, <2>1, <2>3, OthersOrder
<1>6. CASE UNCHANGED vars
  <2>1. RecordKept /\ UNCHANGED flight
    BY <1>6, SameRecord DEF vars, state
  <2> QED  BY <1>0, <1>1, <2>1, OthersOrder
<1>7. CASE WriteOverRelease
  <2>1. RecordKept /\ UNCHANGED flight
    BY <1>7 DEF WriteOverRelease, RecordKept
  <2> QED  BY <1>0, <1>1, <2>1, OthersOrder
<1> QED  BY <1>2, <1>3, <1>4, <1>5, <1>6, <1>7 DEF Next

\* It holds at the start.
LEMMA OrderInit == Init => InOrder
<1> SUFFICES ASSUME Init PROVE InOrder
  OBVIOUS
<1>1. \A s \in Slots : flight[s] = Idle
  BY DEF Init, Idle
<1>2. settings["restrictions"].appliedVersion = 0
  BY DEF Init, SettingNames, NewSetting
<1> QED  BY <1>1, <1>2 DEF InOrder, OneHandler, TrueRecord, Fresh, Idle

\* Late, repeated and reordered acknowledgements of restrictions, and handlers that die between their
\* two saves, leave the record in order when requests do not overlap, and true until a release
\* is written over (acknowledgeDeviceCommand, shouldAdvanceAppliedRestrictionState).
THEOREM Confirmation == Spec => AppliedInOrder
<1>1. Init => Basics /\ (Alone => InOrder)
  BY TypesInit, OrderInit
<1>2. Basics /\ (Alone => InOrder) /\ [Next]_vars
        => Basics' /\ (Alone => InOrder)' /\ (Alone => InOrder' /\ Grows)
  <2>1. SUFFICES ASSUME Basics, Alone => InOrder, [Next]_vars
                 PROVE  Basics' /\ (Alone => InOrder)' /\ (Alone => InOrder' /\ Grows)
    OBVIOUS
  <2>2. Basics'
    BY <2>1, TypesNext
  <2>3. UNCHANGED scenario
    BY <2>1, NextEffect DEF Motion, Basics
  <2>4. Alone' <=> Alone
    BY <2>3 DEF Alone
  <2> QED  BY <2>1, <2>2, <2>4, OrderNext
<1>3. ASSUME Alone => InOrder' /\ Grows
      PROVE  [scenario.parallel = 1 =>
                LET d == settings'.restrictions IN
                /\ d.appliedVersion >= settings.restrictions.appliedVersion
                /\ d.appliedVersion > 0 /\ released' # "done" /\ ~reopened' =>
                     \E k \in known : /\ commands[k].kind = "restrictions"
                                      /\ commands[k].version = d.appliedVersion
                                      /\ commands[k].value = d.applied]_vars
  BY <1>3 DEF Alone, Grows, Told
<1> QED  BY <1>1, <1>2, <1>3, PTL DEF Spec, AppliedInOrder
=============================================================================
