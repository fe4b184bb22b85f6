------------------------------ MODULE AppBuilds ------------------------------
(***************************************************************************)
(* The builds of the borrower app on one channel.  An administrator opens  *)
(* an upload session, the browser uploads the APK to a staging file, and   *)
(* the completion inspects it, copies it to its permanent file, creates    *)
(* the draft build and deletes the staging file.  Builds are edited,       *)
(* published, which archives the published one, and archived.  Every       *)
(* request reads its document first and saves it later; nothing is in a    *)
(* transaction.                                                            *)
(***************************************************************************)
EXTENDS Integers, FiniteSets

CONSTANTS Sessions,    \* uploads, each of which may become a build
          Versions,    \* version codes
          BuildDesks,  \* requests in progress at once
          BuildScenes, \* scenarios: which operations each of them may do
          BuildLapses  \* bound: requests that die, and sessions that expire

ASSUME VersionsAssumption == Versions \subseteq Nat \ {0}

VARIABLES builds,   \* the AppBuild made from each session
          sessions, \* the AppBuildUploadSession documents
          staged,   \* the APK in the staging file of each session
          stored,   \* sessions whose permanent file exists
          desk,     \* what each request does and has read
          buildLapses, scene

buildVars == <<builds, sessions, staged, stored, desk, buildLapses, scene>>

NoBuild == [status |-> "none", version |-> 0]
BuildDocs == [status : {"draft", "published", "archived"}, version : Versions]
NoSession == [status |-> "none", version |-> 0, open |-> FALSE, build |-> FALSE]
SessionStatuses == {"pending", "finalizing", "completed", "failed", "expired"}
SessionDocs == [status : SessionStatuses, version : Versions, open : BOOLEAN, build : BOOLEAN]
AtRest == [op |-> "none"]

BuildsInit ==
  /\ scene \in BuildScenes
  /\ builds = [s \in Sessions |-> NoBuild]
  /\ sessions = [s \in Sessions |-> NoSession]
  /\ staged = [s \in Sessions |-> "none"]
  /\ stored = {}
  /\ desk = [d \in BuildDesks |-> AtRest]
  /\ buildLapses = 0

Built == {s \in Sessions : builds[s] # NoBuild}
Starts(d, op) == op \in scene[d] /\ desk[d] = AtRest
At(d, op) == desk[d].op = op
Moves(d, r) == desk' = [desk EXCEPT ![d] = r]
Leaves(d) == Moves(d, AtRest)

-----------------------------------------------------------------------------
(* Upload sessions.                                                        *)

(* createDirectBuildUploadSession refuses a version that has a build.      *)
OpenSession(d, s, v) ==
  /\ Starts(d, "upload") /\ sessions[s] = NoSession /\ builds[s] = NoBuild
  /\ \A b \in Built : builds[b].version # v
  /\ sessions' = [sessions EXCEPT ![s] = [status |-> "pending", version |-> v, open |-> TRUE, build |-> FALSE]]
  /\ UNCHANGED <<builds, staged, stored, desk, buildLapses, scene>>

(* The browser uploads to the signed address; what arrives may be no APK.  *)
Upload(s, apk) ==
  /\ sessions[s].status \in {"pending", "failed"} /\ staged[s] = "none" /\ sessions[s].open
  /\ staged' = [staged EXCEPT ![s] = apk]
  /\ UNCHANGED <<builds, sessions, stored, desk, buildLapses, scene>>

SessionLapses(s) ==
  /\ sessions[s].open /\ buildLapses < BuildLapses
  /\ buildLapses' = buildLapses + 1
  /\ sessions' = [sessions EXCEPT ![s].open = FALSE]
  /\ UNCHANGED <<builds, staged, stored, desk, scene>>

SetSession(s, status) == sessions' = [sessions EXCEPT ![s].status = status]

(* completeDirectBuildUploadSession reads the session; only a pending one  *)
(* within its time goes on, and one past its time is marked.               *)
Completable(session) == session.status = "pending" /\ session.open

BeginCompletion(d, s) ==
  /\ Starts(d, "complete") /\ sessions[s] # NoSession
  /\ \/ Completable(sessions[s]) /\ Moves(d, [op |-> "claim", session |-> s])
     \/ /\ sessions[s].status # "completed" /\ ~sessions[s].open
        /\ Moves(d, [op |-> "expire", session |-> s])
  /\ UNCHANGED <<builds, sessions, staged, stored, buildLapses, scene>>

Claim(d) ==
  /\ At(d, "claim")
  /\ SetSession(desk[d].session, "finalizing")
  /\ Moves(d, [desk[d] EXCEPT !.op = "inspect"])
  /\ UNCHANGED <<builds, staged, stored, buildLapses, scene>>

ExpireSession(d) ==
  /\ At(d, "expire")
  /\ SetSession(desk[d].session, "expired")
  /\ staged' = [staged EXCEPT ![desk[d].session] = "none"]
  /\ Leaves(d)
  /\ UNCHANGED <<builds, stored, buildLapses, scene>>

(* markSessionFailure: a failure that may pass puts the session back.      *)
Fails(d, terminal) ==
  /\ SetSession(desk[d].session, IF terminal THEN "failed" ELSE "pending")
  /\ staged' = IF terminal THEN [staged EXCEPT ![desk[d].session] = "none"] ELSE staged
  /\ Leaves(d)

Inspect(d) ==
  /\ At(d, "inspect")
  /\ IF staged[desk[d].session] = "good"
     THEN /\ Moves(d, [desk[d] EXCEPT !.op = "copy"])
          /\ UNCHANGED <<sessions, staged>>
     ELSE Fails(d, staged[desk[d].session] = "bad")
  /\ UNCHANGED <<builds, stored, buildLapses, scene>>

Copy(d) ==
  LET s == desk[d].session IN
  /\ At(d, "copy")
  /\ IF s \in stored \/ staged[s] = "good"
     THEN /\ stored' = stored \cup {s}
          /\ Moves(d, [desk[d] EXCEPT !.op = "create"])
          /\ UNCHANGED <<sessions, staged>>
     ELSE Fails(d, FALSE) /\ UNCHANGED stored
  /\ UNCHANGED <<builds, buildLapses, scene>>

(* The unique index on the version.                                        *)
VersionTaken(v) == \E b \in Built : builds[b].version = v

\* Mutant: any duplicate key ends the session and deletes its file.
KeepsNoFile(s) == FALSE

(* After a duplicate key the build of this very session is its result, and *)
(* the build of another one ends the session and deletes its file.         *)
OwnBuild(s) == builds[s].version = sessions[s].version

(* The build of a session that was edited to another version meanwhile no  *)
(* longer stops a second completion, and the model keeps the later build.  *)
CreateBuild(d) ==
  LET s == desk[d].session
      v == sessions[s].version
  IN /\ At(d, "create")
     /\ \/ /\ ~VersionTaken(v)
           /\ builds' = [builds EXCEPT ![s] = [status |-> "draft", version |-> v]]
           /\ Moves(d, [desk[d] EXCEPT !.op = "clean"])
           /\ UNCHANGED <<sessions, staged, stored>>
        \/ /\ VersionTaken(v) /\ OwnBuild(s)
           /\ Moves(d, [desk[d] EXCEPT !.op = "clean"])
           /\ UNCHANGED <<builds, sessions, staged, stored>>
        \/ /\ VersionTaken(v) /\ ~OwnBuild(s)
           /\ stored' = stored \ {s}
           /\ Fails(d, TRUE)
           /\ UNCHANGED builds
     /\ UNCHANGED <<buildLapses, scene>>

Clean(d) ==
  /\ At(d, "clean")
  /\ staged' = [staged EXCEPT ![desk[d].session] = "none"]
  /\ Moves(d, [desk[d] EXCEPT !.op = "finish"])
  /\ UNCHANGED <<builds, sessions, stored, buildLapses, scene>>

(* markCompleted.                                                          *)
FinishCompletion(d) ==
  /\ At(d, "finish")
  /\ sessions' = [sessions EXCEPT ![desk[d].session].status = "completed", ![desk[d].session].build = TRUE]
  /\ Leaves(d)
  /\ UNCHANGED <<builds, staged, stored, buildLapses, scene>>

(* createAppBuild takes the APK with the request: it stores the file under  *)
(* a name of its own and creates the build, if the index lets it.          *)
CreateAppBuild(d, s, v) ==
  /\ Starts(d, "direct") /\ sessions[s] = NoSession /\ builds[s] = NoBuild
  /\ ~VersionTaken(v)
  /\ stored' = stored \cup {s}
  /\ builds' = [builds EXCEPT ![s] = [status |-> "draft", version |-> v]]
  /\ UNCHANGED <<sessions, staged, desk, buildLapses, scene>>

-----------------------------------------------------------------------------
(* Releases.  A request reads the build and saves what it changed.         *)

ReadBuild(d, op, s, v) ==
  /\ Starts(d, op) /\ s \in Built
  /\ op = "edit" /\ builds[s].status = "published" => v = builds[s].version
  /\ Moves(d, [op |-> op, build |-> s, read |-> builds[s], version |-> v])
  /\ UNCHANGED <<builds, sessions, staged, stored, buildLapses, scene>>

SavedBuild(doc, read, new) == [f \in DOMAIN doc |-> IF new[f] = read[f] THEN doc[f] ELSE new[f]]
SaveBuild(d, new) ==
  /\ builds' = [builds EXCEPT ![desk[d].build] = SavedBuild(@, desk[d].read, new)]
  /\ Leaves(d)
  /\ UNCHANGED <<sessions, staged, stored, buildLapses, scene>>

(* updateAppBuild; the index refuses a version that exists.                *)
SaveEdit(d) ==
  /\ At(d, "edit")
  /\ IF \E b \in Built \ {desk[d].build} : builds[b].version = desk[d].version
     THEN Leaves(d) /\ UNCHANGED <<builds, sessions, staged, stored, buildLapses, scene>>
     ELSE SaveBuild(d, [desk[d].read EXCEPT !.version = desk[d].version])

(* publishBuild archives the other published builds, then saves this one.  *)
Supplants(s, b) == b # s /\ builds[b].status = "published"

ArchiveOthers(d) ==
  /\ At(d, "publish")
  /\ builds' = [b \in Sessions |-> IF Supplants(desk[d].build, b)
                                   THEN [builds[b] EXCEPT !.status = "archived"] ELSE builds[b]]
  /\ Moves(d, [desk[d] EXCEPT !.op = "published"])
  /\ UNCHANGED <<sessions, staged, stored, buildLapses, scene>>
SavePublished(d) == At(d, "published") /\ SaveBuild(d, [desk[d].read EXCEPT !.status = "published"])

(* archiveAppBuild.                                                        *)
SaveArchived(d) == At(d, "archive") /\ SaveBuild(d, [desk[d].read EXCEPT !.status = "archived"])

DeskDies(d) ==
  /\ desk[d] # AtRest /\ buildLapses < BuildLapses
  /\ buildLapses' = buildLapses + 1
  /\ Leaves(d)
  /\ UNCHANGED <<builds, sessions, staged, stored, scene>>

BuildsNext ==
  \/ \E d \in BuildDesks :
       \/ \E s \in Sessions :
            \/ BeginCompletion(d, s)
            \/ \E v \in Versions : OpenSession(d, s, v) \/ CreateAppBuild(d, s, v)
            \/ \E v \in Versions : ReadBuild(d, "edit", s, v)
            \/ \E op \in {"publish", "archive"} : ReadBuild(d, op, s, builds[s].version)
       \/ Claim(d) \/ ExpireSession(d) \/ Inspect(d) \/ Copy(d) \/ CreateBuild(d) \/ Clean(d)
       \/ FinishCompletion(d) \/ SaveEdit(d) \/ ArchiveOthers(d) \/ SavePublished(d) \/ SaveArchived(d)
       \/ DeskDies(d)
  \/ \E s \in Sessions : SessionLapses(s) \/ \E apk \in {"good", "bad"} : Upload(s, apk)

-----------------------------------------------------------------------------
SingleDesk == \E d \in BuildDesks : \A e \in BuildDesks \ {d} : scene[e] = {}

(* Every build has the APK file it points to, however completions of the   *)
(* same session or of sessions for the same version overlap, die and are   *)
(* repeated (completeDirectBuildUploadSession).  An edit that overlaps two *)
(* of them may take the version away from the build that refused one, and  *)
(* the other then creates a build whose file the refused one has deleted.  *)
NoEdits == \A d \in BuildDesks : "edit" \notin scene[d]
BuildHasItsFile == SingleDesk \/ NoEdits => Built \subseteq stored

(* A session recorded as completed has its build, and each version has one.*)
CompletedHasBuild ==
  /\ \A s \in Sessions : sessions[s].status = "completed" => builds[s] # NoBuild
  /\ \A s, t \in Built : builds[s].version = builds[t].version => s = t

(* One build is published at a time, as long as requests do not overlap    *)
(* (publishAppBuild, AppBuild.js:113).                                     *)
OnePublished ==
  SingleDesk => \A s, t \in Sessions :
    builds[s].status = "published" /\ builds[t].status = "published" => s = t

(* What the portal lists can be installed: every build has its file, every *)
(* version and every completed session its one build, and one is published.*)
BuildsInstallable == BuildHasItsFile /\ CompletedHasBuild /\ OnePublished
=============================================================================
