-------------------------- MODULE AccountRecovery --------------------------
(***************************************************************************)
(* A forgotten password: the account asks for a code, one of a few tries   *)
(* verifies it, the verification retires the account's reset tokens and    *)
(* issues a new one, and the token sets a password.  Every call reads a    *)
(* document and saves it later; the provider of the codes may fail, calls  *)
(* overlap, and the process may stop between two operations.               *)
(***************************************************************************)
EXTENDS Integers, Sequences

CONSTANTS Visitors,      \* calls that may be in progress at once
          Crowds,        \* scenarios: the calls in progress, and bounds: the codes sent,
                         \* the calls that stop half-way and the providers that fail
          CodeLimit,     \* bound: codes sent
          ResetLimit,    \* bound: reset tokens issued
          MaxAttempts    \* OtpRecord.maxAttempts

ASSUME AttemptsAssumption == MaxAttempts \in Nat \ {0}
ASSUME CrowdsAssumption ==
  /\ CodeLimit \in Nat /\ ResetLimit \in Nat
  /\ \A c \in Crowds : c.codes \in 0..CodeLimit

VARIABLES codes,     \* the OtpRecord documents with purpose password_reset
          resets,    \* the PasswordResetToken documents
          holder,    \* Account.isActive
          password,  \* the reset token that set the password, 0 for the first one
          visit,     \* what each call in progress has read
          visitDeaths,
          tries,     \* how often each code has been compared
          changed,   \* how often each reset token has set the password
          crowded,   \* two calls have overlapped
          crowd

recoveryVars == <<codes, resets, holder, password, visit, visitDeaths, tries, changed, crowded, crowd>>

NewCode == [verified |-> FALSE, attempts |-> 0, cooling |-> TRUE, expired |-> FALSE]
NewReset(k) == [code |-> k, used |-> FALSE, expired |-> FALSE]
Away == [step |-> "away"]
UsableReset(token) == ~token.used /\ ~token.expired

RecoveryInit ==
  /\ crowd \in Crowds
  /\ codes = <<>> /\ resets = <<>>
  /\ holder = TRUE /\ password = 0
  /\ visit = [v \in Visitors |-> Away]
  /\ visitDeaths = 0
  /\ tries = [k \in 1..CodeLimit |-> 0]
  /\ changed = [r \in 1..ResetLimit |-> 0]
  /\ crowded = FALSE

Enters(v, r) ==
  /\ v \in crowd.visitors /\ visit[v] = Away
  /\ visit' = [visit EXCEPT ![v] = r]
  /\ crowded' = (crowded \/ \E w \in Visitors : visit[w] # Away)
Goes(v, r) == visit' = [visit EXCEPT ![v] = r] /\ UNCHANGED crowded
Departs(v) == Goes(v, Away)

(* forgotPasswordSendOtp, once the provider has accepted the message.      *)
SendCode ==
  /\ holder /\ Len(codes) < crowd.codes
  /\ codes' = Append(codes, NewCode)
  /\ UNCHANGED <<resets, holder, password, visit, visitDeaths, tries, changed, crowded, crowd>>

(* findActivePasswordResetOtpRecord.                                       *)
ActiveCode(k) == holder /\ k \in DOMAIN codes /\ ~codes[k].verified /\ ~codes[k].expired

(* forgotPasswordResendOtp; the cooldown starts again.                     *)
ResendCode(k) ==
  /\ ActiveCode(k) /\ ~codes[k].cooling
  /\ codes' = [codes EXCEPT ![k].cooling = TRUE]
  /\ UNCHANGED <<resets, holder, password, visit, visitDeaths, tries, changed, crowded, crowd>>

\* Mutant: one attempt too many is allowed.
AttemptsLeftOrOne(code) == code.attempts <= MaxAttempts
MayTry(code) == code.attempts < MaxAttempts

(* forgotPasswordVerifyOtp: counts the attempt in its copy, asks the       *)
(* provider, and saves the count unless the provider failed.               *)
StartVerify(v, k) ==
  /\ ActiveCode(k) /\ MayTry(codes[k])
  /\ Enters(v, [step |-> "compare", code |-> k, attempts |-> codes[k].attempts + 1])
  /\ UNCHANGED <<codes, resets, holder, password, visitDeaths, tries, changed, crowd>>
Compared(v) == tries' = [tries EXCEPT ![visit[v].code] = @ + 1]
WrongCode(v) ==
  /\ visit[v].step = "compare" /\ Compared(v)
  /\ codes' = [codes EXCEPT ![visit[v].code].attempts = visit[v].attempts]
  /\ Departs(v)
  /\ UNCHANGED <<resets, holder, password, visitDeaths, changed, crowd>>
RightCode(v) ==
  /\ visit[v].step = "compare" /\ Compared(v)
  /\ codes' = [codes EXCEPT ![visit[v].code].attempts = visit[v].attempts,
                            ![visit[v].code].verified = TRUE]
  /\ Goes(v, [step |-> "retire", code |-> visit[v].code])
  /\ UNCHANGED <<resets, holder, password, visitDeaths, changed, crowd>>

Outdated(token) == [token EXCEPT !.used = @ \/ ~token.expired]

RetireTokens(v) ==
  /\ visit[v].step = "retire"
  /\ resets' = [r \in DOMAIN resets |-> Outdated(resets[r])]
  /\ Goes(v, [visit[v] EXCEPT !.step = "issue"])
  /\ UNCHANGED <<codes, holder, password, visitDeaths, tries, changed, crowd>>
IssueToken(v) ==
  /\ visit[v].step = "issue" /\ Len(resets) < ResetLimit
  /\ resets' = Append(resets, NewReset(visit[v].code))
  /\ Departs(v)
  /\ UNCHANGED <<codes, holder, password, visitDeaths, tries, changed, crowd>>

(* resetForgotPassword reads the token and the account, then saves both at *)
(* once, in either order.                                                  *)
StartReset(v, r) ==
  /\ r \in DOMAIN resets /\ UsableReset(resets[r]) /\ holder
  /\ Enters(v, [step |-> "reset", token |-> r, left |-> {"account", "token"}])
  /\ UNCHANGED <<codes, resets, holder, password, visitDeaths, tries, changed, crowd>>

Spent(token) == [token EXCEPT !.used = TRUE]

SaveReset(v, what) ==
  /\ visit[v].step = "reset" /\ what \in visit[v].left
  /\ IF what = "account"
     THEN /\ password' = visit[v].token
          /\ changed' = [changed EXCEPT ![visit[v].token] = @ + 1]
          /\ UNCHANGED resets
     ELSE /\ resets' = [resets EXCEPT ![visit[v].token] = Spent(@)]
          /\ UNCHANGED <<password, changed>>
  /\ IF visit[v].left = {what} THEN Departs(v) ELSE Goes(v, [visit[v] EXCEPT !.left = @ \ {what}])
  /\ UNCHANGED <<codes, holder, visitDeaths, tries, crowd>>

(* The process stops, or the provider of the codes fails after it compared.*)
VisitDies(v) ==
  /\ visit[v] # Away /\ visitDeaths < crowd.deaths
  /\ visitDeaths' = visitDeaths + 1
  /\ IF visit[v].step = "compare" THEN Compared(v) ELSE UNCHANGED tries
  /\ Departs(v)
  /\ UNCHANGED <<codes, resets, holder, password, changed, crowd>>

(* The administrator's and the partner's account status calls.             *)
SetHolder ==
  /\ holder' = ~holder
  /\ UNCHANGED <<codes, resets, password, visit, visitDeaths, tries, changed, crowded, crowd>>

CoolDown(k) ==
  /\ k \in DOMAIN codes /\ codes[k].cooling
  /\ codes' = [codes EXCEPT ![k].cooling = FALSE]
  /\ UNCHANGED <<resets, holder, password, visit, visitDeaths, tries, changed, crowded, crowd>>
CodeExpires(k) ==
  /\ k \in DOMAIN codes /\ ~codes[k].expired
  /\ codes' = [codes EXCEPT ![k].expired = TRUE]
  /\ UNCHANGED <<resets, holder, password, visit, visitDeaths, tries, changed, crowded, crowd>>
ResetExpires(r) ==
  /\ r \in DOMAIN resets /\ ~resets[r].expired
  /\ resets' = [resets EXCEPT ![r].expired = TRUE]
  /\ UNCHANGED <<codes, holder, password, visit, visitDeaths, tries, changed, crowded, crowd>>

RecoveryNext ==
  \/ SendCode \/ SetHolder
  \/ \E k \in 1..CodeLimit : ResendCode(k) \/ CoolDown(k) \/ CodeExpires(k)
  \/ \E r \in 1..ResetLimit : ResetExpires(r)
  \/ \E v \in Visitors :
       \/ \E k \in 1..CodeLimit : StartVerify(v, k)
       \/ WrongCode(v) \/ RightCode(v) \/ RetireTokens(v) \/ IssueToken(v)
       \/ \E r \in 1..ResetLimit : StartReset(v, r)
       \/ \E what \in {"account", "token"} : SaveReset(v, what)
       \/ VisitDies(v)

-----------------------------------------------------------------------------
(* Without overlapping calls a code is compared at most maxAttempts times, *)
(* and once more for each provider failure (forgotPasswordVerifyOtp).      *)
AttemptsHeld ==
  ~crowded => \A k \in DOMAIN codes : tries[k] <= MaxAttempts + visitDeaths

(* Without overlapping calls an account has at most one usable reset token,*)
(* through crashes between retiring and issuing.                           *)
OneResetToken ==
  ~crowded => \A r, q \in DOMAIN resets : UsableReset(resets[r]) /\ UsableReset(resets[q]) => r = q

(* A reset token sets the password once, unless calls overlapped or one    *)
(* stopped between the two saves; it always comes from a verified code.    *)
ResetSetsOnce ==
  /\ ~crowded => \A r \in DOMAIN resets : changed[r] <= 1 + visitDeaths
  /\ \A r \in DOMAIN resets : codes[resets[r].code].verified

(* A password is set with a code that was not guessed, through one token,  *)
(* and once.                                                               *)
RecoveryHeld == AttemptsHeld /\ OneResetToken /\ ResetSetsOnce
=============================================================================
