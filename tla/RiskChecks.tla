----------------------------- MODULE RiskChecks -----------------------------
(***************************************************************************)
(* The integrity checks and the risk flags of one device.  A check spends  *)
(* its challenge, raises a flag for every finding, or resolves what a clean*)
(* result may resolve, sets the security state of the device, and locks it *)
(* for a critical finding; the app reports events of its own; the          *)
(* administrator acknowledges and clears flags and queues a wipe.  Each of *)
(* these reads documents and writes them in later operations.              *)
(***************************************************************************)
EXTENDS Integers, Sequences, FiniteSets

CONSTANTS Checkers,       \* calls that may be in progress at once
          CheckScenes     \* scenarios: the operations of each of them, whether the phone may be
                          \* released, and bounds: challenges, flags, ends of the locked state

ASSUME CheckersAssumption == IsFiniteSet(Checkers)

VARIABLES challenges, \* the challenges issued: which call verifies them, and whether it has
          flags,      \* the RiskFlag documents
          security,   \* Device.deviceSecurityState
          phoneState, \* Device.state: LOCKED, RELEASE for a pending or complete release, ACTIVE for the rest
          lockOrders, \* LOCK commands of risk_auto_lock: their flag, and whether they are open
          checker,    \* what each call in progress has read
          unlocks,    \* times the phone left the locked state so far
          checkScene

riskVars == <<challenges, flags, security, phoneState, lockOrders, checker, unlocks, checkScene>>

PhoneLocked == phoneState = "LOCKED"

(* The kinds of finding that the code treats differently: a compromise of  *)
(* the device, and a setting that the borrower can change.                 *)
RiskTypes == {"ROOT_DETECTED", "USB_DEBUGGING_ENABLED"}
FindingSeverity(type) == IF type = "ROOT_DETECTED" THEN "critical" ELSE "medium"
FindingStatus(type) == IF type = "ROOT_DETECTED" THEN "compromised_permanent" ELSE "warning_pending"
AutoLockType(type) == type = "ROOT_DETECTED"

Inactive == {"resolved", "cleared"}
ActiveFlag(flag) == flag.status \notin Inactive
ActiveFlags == {k \in DOMAIN flags : ActiveFlag(flags[k])}

\* Mutant: the severity of the flag is forgotten.
HarmlessType(flag) == flag.status # "wiped" /\ flag.type = "USB_DEBUGGING_ENABLED"

(* isAutoResolvableRiskFlag.                                               *)
Resolvable(flag) == flag.severity # "critical" /\ flag.status # "wiped" /\ flag.type = "USB_DEBUGGING_ENABLED"

Rank == [HEALTHY |-> 1, WARNING |-> 2, LOCKED |-> 4, COMPROMISED_PERMANENT |-> 5,
         WIPED_PENDING_REPROVISION |-> 6]
Merged(state, next) == IF Rank[next] > Rank[state] THEN next ELSE state
StateOf(types) == IF "ROOT_DETECTED" \in types THEN "COMPROMISED_PERMANENT" ELSE "WARNING"

Unoccupied == [step |-> "none"]
NoMatch == [type |-> "none", flag |-> 0, read |-> <<>>]

RiskInit ==
  /\ checkScene \in CheckScenes
  /\ challenges = <<>> /\ flags = <<>> /\ lockOrders = <<>>
  /\ security = "HEALTHY" /\ phoneState = "ACTIVE"
  /\ checker = [c \in Checkers |-> Unoccupied]
  /\ unlocks = 0

Begins(c, op, r) == op \in checkScene.calls[c] /\ checker[c] = Unoccupied /\ checker' = [checker EXCEPT ![c] = r]
Proceeds(c, r) == checker' = [checker EXCEPT ![c] = r]
Concludes(c) == Proceeds(c, Unoccupied)

(* createRiskIntegrityChallenge and createIntegrityChallenge: the calls    *)
(* "check" and "verify" refuse the challenges of each other.               *)
IssueChallenge(call) ==
  /\ Len(challenges) < checkScene.challenges /\ \E c \in Checkers : call \in checkScene.calls[c]
  /\ challenges' = Append(challenges, [call |-> call, used |-> FALSE])
  /\ UNCHANGED <<flags, security, phoneState, lockOrders, checker, unlocks, checkScene>>
IssueRiskChallenge == IssueChallenge("check")
IssueIntegrityChallenge == IssueChallenge("verify")

(* verifyRiskIntegrity and verifyIntegrity: the challenge and the device as*)
(* they are read.                                                          *)
StartOn(c, call, k) ==
  /\ k \in DOMAIN challenges /\ challenges[k] = [call |-> call, used |-> FALSE]
  /\ Begins(c, call, [step |-> "decode", challenge |-> k, security |-> security,
                      state |-> phoneState, since |-> unlocks])
  /\ UNCHANGED <<challenges, flags, security, phoneState, lockOrders, unlocks, checkScene>>
StartRiskCheck(c, k) == StartOn(c, "check", k)
StartIntegrityCheck(c, k) == StartOn(c, "verify", k)

Assessing(c, found, enforced) ==
  [step |-> IF found = {} THEN "resolve" ELSE "find", found |-> found, todo |-> found, match |-> NoMatch,
   raised |-> {}, enforced |-> enforced,
   security |-> checker[c].security, state |-> checker[c].state, since |-> checker[c].since]

(* The verdict of the service: the challenge is saved as consumed, and what*)
(* was found is assessed and enforced.                                     *)
DecodeVerdict(c, found) ==
  /\ checker[c].step = "decode"
  /\ challenges' = [challenges EXCEPT ![checker[c].challenge].used = TRUE]
  /\ Proceeds(c, Assessing(c, found, TRUE))
  /\ UNCHANGED <<flags, security, phoneState, lockOrders, unlocks, checkScene>>

(* The service gives no verdict: that is a finding that a clean check      *)
(* resolves (here one with the borrower's settings), and nothing is        *)
(* enforced.  In the mode that enforces, verifyIntegrity leaves its        *)
(* challenge for another attempt.                                          *)
VerdictUnavailable(c, found) ==
  /\ checker[c].step = "decode" /\ "USB_DEBUGGING_ENABLED" \in found
  /\ challenges' = [challenges EXCEPT ![checker[c].challenge].used = (@ \/ challenges[checker[c].challenge].call = "check")]
  /\ Proceeds(c, Assessing(c, found, FALSE))
  /\ UNCHANGED <<flags, security, phoneState, lockOrders, unlocks, checkScene>>

(* upsertRiskFlagForFinding: looks for an active flag of the type, then    *)
(* saves the fields that differ from it, or creates one.                   *)
FindFlag(c) ==
  /\ checker[c].step = "find"
  /\ \E type \in checker[c].todo :
       LET same == {k \in ActiveFlags : flags[k].type = type}
           one == IF same = {} THEN 0 ELSE CHOOSE k \in same : \A n \in same : k <= n
       IN Proceeds(c, [checker[c] EXCEPT !.step = "upsert", !.todo = @ \ {type},
                         !.match = [type |-> type, flag |-> one,
                                    read |-> IF one = 0 THEN <<>> ELSE flags[one]]])
  /\ UNCHANGED <<challenges, flags, security, phoneState, lockOrders, unlocks, checkScene>>
Raise(flag, read, type) ==
  [flag EXCEPT !.severity = IF FindingSeverity(type) = "critical" /\ read.severity # "critical"
                            THEN "critical" ELSE @,
               !.status = IF read.status # FindingStatus(type) THEN FindingStatus(type) ELSE @]
UpsertFlag(c) ==
  /\ checker[c].step = "upsert"
  /\ LET m == checker[c].match
         k == IF m.flag = 0 THEN Len(flags) + 1 ELSE m.flag
     IN /\ k <= checkScene.flags
        /\ flags' = IF m.flag = 0
                    THEN Append(flags, [type |-> m.type, severity |-> FindingSeverity(m.type),
                                        status |-> FindingStatus(m.type)])
                    ELSE [flags EXCEPT ![k] = Raise(@, m.read, m.type)]
        /\ Proceeds(c, [checker[c] EXCEPT !.step = IF checker[c].todo = {} THEN "device" ELSE "find",
                                          !.raised = @ \cup {k}, !.match = NoMatch])
  /\ UNCHANGED <<challenges, security, phoneState, lockOrders, unlocks, checkScene>>

(* autoResolveRisksAfterCleanCheck reads the flags and saves them one by   *)
(* one; recordIntegrityAssessment then looks for an active one.            *)
FindResolvable(c) ==
  /\ checker[c].step = "resolve"
  /\ Proceeds(c, [step |-> "saving", left |-> {k \in ActiveFlags : Resolvable(flags[k])}])
  /\ UNCHANGED <<challenges, flags, security, phoneState, lockOrders, unlocks, checkScene>>
SaveResolved(c, k) ==
  /\ checker[c].step = "saving" /\ k \in checker[c].left
  /\ flags' = [flags EXCEPT ![k].status = "resolved"]
  /\ Proceeds(c, [checker[c] EXCEPT !.left = @ \ {k}])
  /\ UNCHANGED <<challenges, security, phoneState, lockOrders, unlocks, checkScene>>
LookForActive(c) ==
  /\ checker[c].step = "saving" /\ checker[c].left = {}
  /\ Proceeds(c, [step |-> "healthy", healthy |-> ActiveFlags = {}])
  /\ UNCHANGED <<challenges, flags, security, phoneState, lockOrders, unlocks, checkScene>>
SetHealthy(c) ==
  /\ checker[c].step = "healthy"
  /\ security' = IF checker[c].healthy THEN "HEALTHY" ELSE security
  /\ Concludes(c)
  /\ UNCHANGED <<challenges, flags, phoneState, lockOrders, unlocks, checkScene>>

(* The security state merged from the device as it was read; then          *)
(* enforceRiskAutoLock for each flag that has the severity for it.         *)
NeedsLock(raised) == {k \in raised : flags[k].severity = "critical" /\ AutoLockType(flags[k].type)}
Locking(c, todo) == [step |-> "lock", todo |-> todo, flag |-> 0, state |-> checker[c].state,
                     since |-> checker[c].since, critical |-> todo, spared |-> {}]
SetSecurity(c) ==
  /\ checker[c].step = "device"
  /\ security' = Merged(checker[c].security, StateOf(checker[c].found))
  /\ Proceeds(c, Locking(c, IF checker[c].enforced THEN NeedsLock(checker[c].raised) ELSE {}))
  /\ UNCHANGED <<challenges, flags, phoneState, lockOrders, unlocks, checkScene>>

OpenOrder(k) == \E n \in DOMAIN lockOrders : lockOrders[n].flag = k /\ lockOrders[n].open

(* The tenant has disabled the rule or not listed the type, the phone      *)
(* cannot lock, or there is no active policy EMI_LOCKED.                   *)
SpareFlag(c, k) ==
  /\ checker[c].step = "lock" /\ k \in checker[c].todo
  /\ Proceeds(c, [checker[c] EXCEPT !.todo = @ \ {k}, !.spared = @ \cup {k}])
  /\ UNCHANGED <<challenges, flags, security, phoneState, lockOrders, unlocks, checkScene>>

(* A device that was read locked or in a release state is left as it is.   *)
CheckLock(c, k) ==
  /\ checker[c].step = "lock" /\ k \in checker[c].todo
  /\ Proceeds(c, IF checker[c].state # "ACTIVE" \/ OpenOrder(k)
                 THEN [checker[c] EXCEPT !.todo = @ \ {k}]
                 ELSE [checker[c] EXCEPT !.step = "state", !.todo = @ \ {k}, !.flag = k])
  /\ UNCHANGED <<challenges, flags, security, phoneState, lockOrders, unlocks, checkScene>>

\* Mutant: the update has no condition.
AnyState == TRUE
LockApplies == ~PhoneLocked

(* The update locks over a release that was queued since the device was    *)
(* read; the hook refuses the command while the phone is being released.   *)
LockDevice(c) ==
  /\ checker[c].step = "state"
  /\ IF LockApplies
     THEN /\ phoneState' = "LOCKED" /\ security' = "LOCKED"
          /\ Proceeds(c, [checker[c] EXCEPT !.step = "order"])
     ELSE /\ UNCHANGED <<phoneState, security>>
          /\ Proceeds(c, [checker[c] EXCEPT !.step = "lock", !.flag = 0])
  /\ UNCHANGED <<challenges, flags, lockOrders, unlocks, checkScene>>
CreateOrder(c) ==
  /\ checker[c].step = "order" /\ phoneState # "RELEASE"
  /\ lockOrders' = Append(lockOrders, [flag |-> checker[c].flag, open |-> TRUE])
  /\ Proceeds(c, [checker[c] EXCEPT !.step = "lock", !.flag = 0])
  /\ UNCHANGED <<challenges, flags, security, phoneState, unlocks, checkScene>>
OrderRefused(c) ==
  /\ checker[c].step = "order" /\ phoneState = "RELEASE"
  /\ Concludes(c)
  /\ UNCHANGED <<challenges, flags, security, phoneState, lockOrders, unlocks, checkScene>>
EndLocking(c) ==
  /\ checker[c].step = "lock" /\ checker[c].todo = {}
  /\ Concludes(c)
  /\ UNCHANGED <<challenges, flags, security, phoneState, lockOrders, unlocks, checkScene>>

(* reportSecurityEvent: the device as it is read, a flag, and the lock.    *)
StartReport(c, type, severity) ==
  /\ Begins(c, "report", [step |-> "report", type |-> type, severity |-> severity,
                          state |-> phoneState, since |-> unlocks])
  /\ UNCHANGED <<challenges, flags, security, phoneState, lockOrders, unlocks, checkScene>>
CreateReported(c) ==
  /\ checker[c].step = "report" /\ Len(flags) < checkScene.flags
  /\ flags' = Append(flags, [type |-> checker[c].type, severity |-> checker[c].severity, status |-> "open"])
  /\ Proceeds(c, Locking(c, IF checker[c].severity = "critical" /\ AutoLockType(checker[c].type)
                            THEN {Len(flags) + 1} ELSE {}))
  /\ UNCHANGED <<challenges, security, phoneState, lockOrders, unlocks, checkScene>>

(* acknowledgeRiskFlag, whatever the flag's status; clearRiskFlag.         *)
AcknowledgeFlag(k) ==
  /\ k \in DOMAIN flags /\ \E c \in Checkers : "clear" \in checkScene.calls[c]
  /\ flags' = [flags EXCEPT ![k].status = "acknowledged"]
  /\ UNCHANGED <<challenges, security, phoneState, lockOrders, checker, unlocks, checkScene>>
ClearFlag(c, k) ==
  /\ k \in DOMAIN flags
  /\ Begins(c, "clear", [step |-> "others", flag |-> k])
  /\ flags' = [flags EXCEPT ![k].status = "cleared"]
  /\ UNCHANGED <<challenges, security, phoneState, lockOrders, unlocks, checkScene>>

NothingElse(k) == ActiveFlags \ {k} = {}

LookForOthers(c) ==
  /\ checker[c].step = "others"
  /\ Proceeds(c, [step |-> "healthy", healthy |-> NothingElse(checker[c].flag)])
  /\ UNCHANGED <<challenges, flags, security, phoneState, lockOrders, unlocks, checkScene>>

(* queueRiskFlagWipe: the command, then the flag, then the device.         *)
StartWipe(c, k) ==
  /\ k \in DOMAIN flags /\ flags[k].severity = "critical" /\ flags[k].type = "ROOT_DETECTED"
  /\ Begins(c, "wipe", [step |-> "wipe", flag |-> k])
  /\ UNCHANGED <<challenges, flags, security, phoneState, lockOrders, unlocks, checkScene>>
WipeFlag(c) ==
  /\ checker[c].step = "wipe"
  /\ flags' = [flags EXCEPT ![checker[c].flag].status = "wiped"]
  /\ Proceeds(c, [step |-> "wiped"])
  /\ UNCHANGED <<challenges, security, phoneState, lockOrders, unlocks, checkScene>>
WipeDevice(c) ==
  /\ checker[c].step = "wiped"
  /\ security' = "WIPED_PENDING_REPROVISION"
  /\ Concludes(c)
  /\ UNCHANGED <<challenges, flags, phoneState, lockOrders, unlocks, checkScene>>

(* The tenant unlocks the phone, or its release is queued, and a LOCK      *)
(* command ends.                                                           *)
LeavesFor(state) ==
  /\ phoneState' = state
  /\ unlocks' = IF PhoneLocked THEN unlocks + 1 ELSE unlocks
  /\ UNCHANGED <<challenges, flags, security, lockOrders, checker, checkScene>>
TenantUnlocks == PhoneLocked /\ unlocks < checkScene.unlocks /\ LeavesFor("ACTIVE")
ReleaseQueued ==
  /\ checkScene.releases /\ phoneState # "RELEASE" /\ (PhoneLocked => unlocks < checkScene.unlocks)
  /\ LeavesFor("RELEASE")
OrderEnds(n) ==
  /\ n \in DOMAIN lockOrders /\ lockOrders[n].open
  /\ lockOrders' = [lockOrders EXCEPT ![n].open = FALSE]
  /\ UNCHANGED <<challenges, flags, security, phoneState, checker, unlocks, checkScene>>

RiskNext ==
  \/ IssueRiskChallenge \/ IssueIntegrityChallenge \/ TenantUnlocks \/ ReleaseQueued
  \/ \E n \in DOMAIN lockOrders : OrderEnds(n)
  \/ \E k \in DOMAIN flags : AcknowledgeFlag(k)
  \/ \E c \in Checkers :
       \/ \E k \in DOMAIN challenges : StartRiskCheck(c, k) \/ StartIntegrityCheck(c, k)
       \/ \E found \in SUBSET RiskTypes : DecodeVerdict(c, found) \/ VerdictUnavailable(c, found)
       \/ FindFlag(c) \/ UpsertFlag(c)
       \/ FindResolvable(c) \/ LookForActive(c) \/ SetHealthy(c)
       \/ SetSecurity(c) \/ LockDevice(c) \/ CreateOrder(c) \/ OrderRefused(c) \/ EndLocking(c)
       \/ \E type \in RiskTypes, severity \in {"medium", "critical"} : StartReport(c, type, severity)
       \/ CreateReported(c) \/ LookForOthers(c) \/ WipeFlag(c) \/ WipeDevice(c)
       \/ \E k \in DOMAIN flags :
            SaveResolved(c, k) \/ SpareFlag(c, k) \/ CheckLock(c, k) \/ ClearFlag(c, k) \/ StartWipe(c, k)

-----------------------------------------------------------------------------
SingleChecker == \E c \in Checkers : \A d \in Checkers \ {c} : checkScene.calls[d] = {}

(* Without overlapping calls, the device is declared healthy only when no  *)
(* flag of it is active (clearRiskFlag, recordIntegrityAssessment),        *)
(* unless an acknowledgement re-opened one between the look and the write. *)
HealthyAnnounced ==
  [][SingleChecker /\ security' = "HEALTHY" /\ security # "HEALTHY"
     => \A k \in ActiveFlags : flags[k].status = "acknowledged"]_riskVars

(* A critical flag ends only when an administrator clears it: no clean     *)
(* check resolves it, however checks, reports and decisions overlap.       *)
CriticalStays ==
  [][\A k \in DOMAIN flags :
       k \in ActiveFlags /\ flags[k].severity = "critical" /\ ~ActiveFlag(flags'[k])
       => flags'[k].status = "cleared"]_riskVars

(* However checks overlap, a flag has one open LOCK command, and one more  *)
(* for each time the phone left the locked state (enforceRiskAutoLock).    *)
OneLockOrder ==
  \A k \in DOMAIN flags :
    Cardinality({n \in DOMAIN lockOrders : lockOrders[n].flag = k /\ lockOrders[n].open}) <= 1 + unlocks

(* A call that was told of a critical compromise, on a phone it did not    *)
(* read in a release state, ends with the phone locked or with a LOCK      *)
(* command of this flag created, unless the phone left the locked state    *)
(* meanwhile or the tenant's rules, the phone's capabilities or the missing*)
(* policy spared the flag (enforceRiskAutoLock).                           *)
CriticalLocks ==
  [][\A c \in Checkers :
       /\ checker[c].step \in {"lock", "order"} /\ checker'[c] = Unoccupied
       /\ unlocks = checker[c].since /\ checker[c].state # "RELEASE"
       => \A k \in checker[c].critical \ checker[c].spared :
            PhoneLocked \/ \E n \in DOMAIN lockOrders : lockOrders[n].flag = k]_riskVars

(* What the device and its flags say agrees: a critical flag ends by a     *)
(* decision, locks the phone, and keeps it from being called healthy.      *)
CompromiseHandled == HealthyAnnounced /\ CriticalStays /\ CriticalLocks
=============================================================================
