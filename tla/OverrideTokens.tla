--------------------------- MODULE OverrideTokens ---------------------------
(***************************************************************************)
(* The manual override tokens of one device-owner phone: signed QR codes   *)
(* that unlock it offline until they expire.  A new one supersedes the     *)
(* active ones and is then created, in two operations; a daily job and two *)
(* administrator calls do so when no token is valid for long enough; the   *)
(* administrator downloads and revokes tokens, and the phone reports later *)
(* which one it used.                                                      *)
(***************************************************************************)
EXTENDS Integers, Sequences

CONSTANTS TokenJobs,     \* requests and job runs in progress at once
          TokenCrews,    \* scenarios: the operations each of them may do
          TokenLimit,    \* bound: tokens made
          Validity,      \* life of a token
          RenewalWindow, \* a token that expires within it is renewed
          TokenDays,     \* bound: days that pass
          TokenDeaths    \* bound: operations that stop half-way

ASSUME ValidityAssumption == Validity \in Nat /\ RenewalWindow \in Nat /\ RenewalWindow < Validity

VARIABLES overrides,   \* the ManualOverrideToken documents, in order of creation
          day,         \* today
          tokenWork,   \* what each operation in progress does and has read
          tokenDeaths, crew

overrideVars == <<overrides, day, tokenWork, tokenDeaths, crew>>

OverrideStatuses == {"GENERATED", "DOWNLOADED", "USED", "EXPIRED", "SUPERSEDED", "REVOKED"}
ActiveStatus == {"GENERATED", "DOWNLOADED"}
UsableStatus == ActiveStatus \cup {"SUPERSEDED"}
SpentStatus == {"USED", "REVOKED", "EXPIRED"}
NewToken(expiry) == [status |-> "GENERATED", expires |-> expiry]
Resting == [op |-> "none"]
TokenReads == {"download", "revoke", "use"}

(* registerDevice creates the first token in its transaction.              *)
OverridesInit ==
  /\ crew \in TokenCrews
  /\ overrides = <<NewToken(Validity)>>
  /\ day = 0
  /\ tokenWork = [j \in TokenJobs |-> Resting]
  /\ tokenDeaths = 0

May(j, op) == op \in crew[j] /\ tokenWork[j] = Resting
Does(j, r) == tokenWork' = [tokenWork EXCEPT ![j] = r]
Rests(j) == Does(j, Resting)

(* hasValidManualOverrideToken.                                            *)
ValidBeyond(until) ==
  \E k \in DOMAIN overrides : overrides[k].status \in ActiveStatus /\ overrides[k].expires > until

\* Mutant: the renewal looks at today instead of the end of its window.
ValidToday(until) == \E k \in DOMAIN overrides : overrides[k].status \in ActiveStatus /\ overrides[k].expires > day

HasValid(until) == ValidBeyond(until)

(* generateDeviceManualOverrideToken.                                      *)
StartGenerate(j) ==
  /\ May(j, "generate") /\ Len(overrides) < TokenLimit
  /\ Does(j, [op |-> "supersede", goal |-> "generate", since |-> day])
  /\ UNCHANGED <<overrides, day, tokenDeaths, crew>>

(* backfillManualOverrideTokens and renewExpiringManualOverrideTokens.     *)
StartRenewal(j, op) ==
  /\ May(j, op) /\ Len(overrides) < TokenLimit
  /\ Does(j, [op |-> IF HasValid(IF op = "renew" THEN day + RenewalWindow ELSE day)
                     THEN "end" ELSE "supersede",
              goal |-> op, since |-> day])
  /\ UNCHANGED <<overrides, day, tokenDeaths, crew>>

(* runManualOverrideTokenRenewalJob: expireManualOverrideTokens, then the  *)
(* renewal.                                                                *)
Expired(doc) ==
  IF doc.status \in ActiveStatus /\ doc.expires <= day THEN [doc EXCEPT !.status = "EXPIRED"] ELSE doc

StartJob(j) ==
  /\ May(j, "job") /\ Len(overrides) < TokenLimit
  /\ overrides' = [k \in DOMAIN overrides |-> Expired(overrides[k])]
  /\ Does(j, [op |-> "check", goal |-> "renew", since |-> day])
  /\ UNCHANGED <<day, tokenDeaths, crew>>
CheckRenewal(j) ==
  /\ tokenWork[j].op = "check"
  /\ Does(j, [op |-> IF HasValid(day + RenewalWindow) THEN "end" ELSE "supersede",
              goal |-> "renew", since |-> day])
  /\ UNCHANGED <<overrides, day, tokenDeaths, crew>>

Retired(doc) == IF doc.status \in ActiveStatus THEN [doc EXCEPT !.status = "SUPERSEDED"] ELSE doc

(* generateManualOverrideTokenForDevice: updateMany, then create.          *)
Supersede(j) ==
  /\ tokenWork[j].op = "supersede"
  /\ overrides' = [k \in DOMAIN overrides |-> Retired(overrides[k])]
  /\ Does(j, [tokenWork[j] EXCEPT !.op = "create"])
  /\ UNCHANGED <<day, tokenDeaths, crew>>
CreateToken(j) ==
  /\ tokenWork[j].op = "create" /\ Len(overrides) < TokenLimit
  /\ overrides' = Append(overrides, NewToken(day + Validity))
  /\ Does(j, [tokenWork[j] EXCEPT !.op = "end"])
  /\ UNCHANGED <<day, tokenDeaths, crew>>
EndRenewal(j) ==
  /\ tokenWork[j].op = "end"
  /\ Rests(j)
  /\ UNCHANGED <<overrides, day, tokenDeaths, crew>>

(* getManualOverrideTokenById marks a new token as downloaded;             *)
(* revokeManualOverrideToken refuses a used one; the phone's sync, through *)
(* recordManualOverrideTokenUsage, marks a usable one as used and any      *)
(* outdated one as expired.  Each reads the token and saves it later.      *)
ReadToken(j, op, k) ==
  /\ May(j, op) /\ k \in DOMAIN overrides
  /\ \/ op = "download" /\ overrides[k].status = "GENERATED"
     \/ op = "revoke" /\ overrides[k].status \notin {"USED", "REVOKED"}
     \/ op = "use" /\ \/ overrides[k].expires <= day /\ overrides[k].status # "EXPIRED"
                      \/ overrides[k].expires > day /\ overrides[k].status \in UsableStatus
  /\ Does(j, [op |-> op, token |-> k, late |-> overrides[k].expires <= day])
  /\ UNCHANGED <<overrides, day, tokenDeaths, crew>>

SaveToken(j) ==
  /\ tokenWork[j].op \in TokenReads
  /\ LET status == CASE tokenWork[j].op = "download" -> "DOWNLOADED"
                     [] tokenWork[j].op = "revoke" -> "REVOKED"
                     [] OTHER -> IF tokenWork[j].late THEN "EXPIRED" ELSE "USED"
     IN overrides' = [overrides EXCEPT ![tokenWork[j].token].status = status]
  /\ Rests(j)
  /\ UNCHANGED <<day, tokenDeaths, crew>>

WorkDies(j) ==
  /\ tokenWork[j] # Resting /\ tokenDeaths < TokenDeaths
  /\ tokenDeaths' = tokenDeaths + 1
  /\ Rests(j)
  /\ UNCHANGED <<overrides, day, crew>>

DayPasses ==
  /\ day < TokenDays /\ day' = day + 1
  /\ UNCHANGED <<overrides, tokenWork, tokenDeaths, crew>>

OverridesNext ==
  \/ \E j \in TokenJobs :
       \/ StartGenerate(j) \/ StartJob(j) \/ CheckRenewal(j)
       \/ \E op \in {"renew", "backfill"} : StartRenewal(j, op)
       \/ Supersede(j) \/ CreateToken(j) \/ EndRenewal(j)
       \/ \E op \in TokenReads, k \in DOMAIN overrides : ReadToken(j, op, k)
       \/ SaveToken(j) \/ WorkDies(j)
  \/ DayPasses

-----------------------------------------------------------------------------
SingleCrew == \E j \in TokenJobs : \A i \in TokenJobs \ {j} : crew[i] = {}

(* One token at a time is active, through crashes, as long as operations   *)
(* do not overlap (generateManualOverrideTokenForDevice).                  *)
OneActiveToken ==
  SingleCrew =>
    \A k, n \in DOMAIN overrides :
      overrides[k].status \in ActiveStatus /\ overrides[n].status \in ActiveStatus => k = n

(* A token that was used, revoked or has run out never becomes usable      *)
(* again, although downloads save over what they read, while generations,  *)
(* renewals and the expiry overlap one reader of the token.                *)
Usable(k) == overrides[k].status \in UsableStatus /\ overrides[k].expires > day
OneReader == \E j \in TokenJobs : \A i \in TokenJobs \ {j} : crew[i] \cap TokenReads = {}
SpentStaysSpent ==
  [][OneReader => \A k \in DOMAIN overrides : ~Usable(k) => ~Usable(k)']_overrideVars

(* A renewal that ends leaves the phone a token that outlives the window,  *)
(* also after a generation that died between superseding and creating.     *)
RenewalLeavesToken ==
  [][\A j \in TokenJobs :
       SingleCrew /\ tokenWork[j].op = "end" /\ tokenWork[j].goal = "renew"
         /\ tokenWork'[j] = Resting /\ tokenDeaths' = tokenDeaths
       => ValidBeyond(tokenWork[j].since + RenewalWindow)]_overrideVars

(* The life of the tokens of a phone: one is active, a spent one stays     *)
(* spent, and a renewal leaves one that can be used.                       *)
TokensRenewed == []OneActiveToken /\ SpentStaysSpent /\ RenewalLeavesToken
=============================================================================
