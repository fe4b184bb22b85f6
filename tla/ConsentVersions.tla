--------------------------- MODULE ConsentVersions ---------------------------
(***************************************************************************)
(* The consent texts super admins write and publish.  Of the versions of   *)
(* one enrollment mode (the two modes are alike and independent) borrowers *)
(* are shown the current one.  Editing and publishing read the document,   *)
(* await other calls and save it; a save writes the paths whose value the  *)
(* handler changed, and fails on a document deleted in the meantime.       *)
(***************************************************************************)
EXTENDS Integers, FiniteSets

CONSTANTS Officers,   \* bound: requests of super admins in progress
          Versions,   \* bound: consent versions that may exist
          Scenarios,  \* bound: what occurs together, see the MC module
          MaxEdits    \* bound: times the text of a version is edited

VARIABLES scenario,  \* the one of this run
          versions,  \* the ConsentVersion documents of the mode
          editing    \* requests in progress, with what they have read

consentVars == <<versions, editing>>

NoVersion == [exists |-> FALSE, text |-> 0, current |-> FALSE, published |-> FALSE]
VersionDocs == [exists : BOOLEAN, text : 0..MaxEdits, current : BOOLEAN, published : BOOLEAN]
Draft == [NoVersion EXCEPT !.exists = TRUE]
Published == [Draft EXCEPT !.current = TRUE, !.published = TRUE]

Editable(doc) == doc.exists /\ ~doc.current /\ ~doc.published
Current == {v \in Versions : versions[v].current}

NoEdit == [op |-> "idle"]

InitConsents ==
  /\ versions \in {[v \in Versions |-> IF v = w THEN Published ELSE NoVersion] : w \in Versions}
  /\ editing = [o \in Officers |-> NoEdit]

Start(o, f) ==
  /\ editing[o] = NoEdit
  /\ Cardinality({p \in Officers : editing[p] # NoEdit}) < scenario.officers
  /\ editing' = [editing EXCEPT ![o] = f]

Finish(o) == editing' = [editing EXCEPT ![o] = NoEdit]

-----------------------------------------------------------------------------
CreateConsent(v) ==
  /\ scenario.officers > 0 /\ ~versions[v].exists
  /\ versions' = [versions EXCEPT ![v] = Draft]
  /\ UNCHANGED editing

EditRead(o, v) ==
  /\ Editable(versions[v]) /\ versions[v].text < MaxEdits
  /\ Start(o, [op |-> "edit", id |-> v, text |-> versions[v].text + 1])
  /\ UNCHANGED versions

(* Mutant of EditSave: it creates the document if there is none.           *)
EditUpsert(o) ==
  LET f == editing[o] IN
  /\ f.op = "edit"
  /\ versions' = [versions EXCEPT ![f.id].text = f.text]
  /\ Finish(o)

EditSave(o) ==
  LET f == editing[o] IN
  /\ f.op = "edit" /\ versions[f.id].exists
  /\ versions' = [versions EXCEPT ![f.id].text = f.text]
  /\ Finish(o)

(* The deletion names its conditions; a version that was never published   *)
(* has no acceptances.                                                     *)
DeleteConsent(v) ==
  /\ scenario.officers > 0 /\ Editable(versions[v])
  /\ versions' = [versions EXCEPT ![v] = NoVersion]
  /\ UNCHANGED editing

PublishRead(o, v) ==
  /\ versions[v].exists
  /\ scenario.republish \/ ~versions[v].current
  /\ Start(o, [op |-> "publish", id |-> v, current |-> versions[v].current])
  /\ UNCHANGED versions

(* Mutant of Unpublished: the versions that are current stay so.           *)
KeptCurrent == versions

(* updateMany: no version of the mode is current.                          *)
Unpublished ==
  [v \in Versions |-> IF versions[v].exists THEN [versions[v] EXCEPT !.current = FALSE] ELSE versions[v]]

(* One transaction.  The save writes isCurrent only where the version read *)
(* before was not current.                                                 *)
PublishCommit(o) ==
  LET f == editing[o] IN
  /\ f.op = "publish" /\ versions[f.id].exists
  /\ versions' = [Unpublished EXCEPT ![f.id].current = IF f.current THEN @ ELSE TRUE,
                                     ![f.id].published = TRUE]
  /\ Finish(o)

(* The document is gone, or the server dies: nothing is saved.             *)
EditFails(o) == editing[o] # NoEdit /\ Finish(o) /\ UNCHANGED versions

ConsentStep ==
  \/ \E v \in Versions : \/ CreateConsent(v) \/ DeleteConsent(v)
                         \/ \E o \in Officers : EditRead(o, v) \/ PublishRead(o, v)
  \/ \E o \in Officers : EditSave(o) \/ PublishCommit(o) \/ EditFails(o)

-----------------------------------------------------------------------------
(* Properties *)

ConsentTypeOK ==
  /\ versions \in [Versions -> VersionDocs]
  /\ \A v \in Versions : ~versions[v].exists => versions[v] = NoVersion
  /\ editing \in [Officers ->
       {NoEdit} \cup [op : {"edit"}, id : Versions, text : 1..MaxEdits]
                \cup [op : {"publish"}, id : Versions, current : BOOLEAN]]

(* Borrowers of a mode are never shown two texts: however publications     *)
(* overlap, at most one version is current, and it has been published.     *)
OneCurrent ==
  /\ Cardinality(Current) <= 1
  /\ \A v \in Current : versions[v].exists /\ versions[v].published

(* super-admin-flows.md: publishing a version "Sets the selected version   *)
(* isCurrent: true", and nothing else unsets it: some version is current.  *)
SomeCurrent == Current # {}
=============================================================================
