----------------------------- MODULE Enrollment -----------------------------
(***************************************************************************)
(* How one borrower gets from a dealer's QR code to a managed phone: OTP,  *)
(* acceptance of the current consent text, activation; and the dealer's    *)
(* rotation of the QR code at any moment.  A borrower is enrolled either   *)
(* as a device owner or by the running app, whose activation claims the    *)
(* token and the borrower conditionally and may be repeated by the phone.  *)
(*                                                                         *)
(* Requests read outside their transaction.  That of a rotation reads too, *)
(* from the snapshot it began with, and is aborted if a document it writes *)
(* was written since; the other transactions only write, and commit at     *)
(* once.                                                                   *)
(***************************************************************************)
EXTENDS ConsentVersions, FiniteSetsExt

CONSTANTS Slots,      \* bound: requests of the borrower and the dealer in progress
          MaxTokens,  \* bound: QR codes given out
          Consents,   \* bound: acceptances recorded
          Phones,     \* phones that try to activate, each with its activationRequestId
          MaxLapses   \* bound: OTP expiries and requests that die

ASSUME TokensAssumption == MaxTokens \in Nat \ {0}
ASSUME BoundsAssumption ==
  /\ MaxEdits \in Nat /\ MaxLapses \in Nat
  /\ IsFiniteSet(Slots) /\ IsFiniteSet(Officers)
ASSUME ScenariosAssumption ==
  \A s \in Scenarios : s.tokens \in 1..MaxTokens /\ s.parallel \in Nat /\ s.officers \in Nat

VARIABLES borrower,  \* the User document
          tokens,    \* its EnrollmentTokens, in order of creation
          otps,      \* for each token the best unexpired consent OtpRecord
          consents,  \* the ConsentRecord documents
          devices,   \* the Device documents, of each phone
          flight,    \* requests in progress, with what they have read
          lapses     \* expiries and deaths so far

enrollVars == <<borrower, tokens, otps, consents, devices, flight, lapses>>
vars == <<scenario, versions, editing, borrower, tokens, otps, consents, devices, flight, lapses>>

Tokens == 1..MaxTokens
NoConsent == [token |-> 0, session |-> 0, version |-> "none", text |-> 0]
NoDevice == [token |-> 0, consent |-> "none"]
TokenDocs == [created : BOOLEAN, consumed : BOOLEAN, cancelled : BOOLEAN, expired : BOOLEAN]
NoToken == [created |-> FALSE, consumed |-> FALSE, cancelled |-> FALSE, expired |-> FALSE]
NewToken == [NoToken EXCEPT !.created = TRUE]

Running == scenario.mode = "running"
Open(t) == tokens[t].created /\ ~tokens[t].consumed /\ ~tokens[t].cancelled
Live(t) == Open(t) /\ ~tokens[t].expired
Linked == borrower.linked
Registered == {p \in Phones : devices[p] # NoDevice}
Idle == [op |-> "idle"]

(* createBorrowerEnrollment has committed.                                 *)
Init ==
  /\ scenario \in Scenarios
  /\ InitConsents
  /\ borrower = [consent |-> "none", linked |-> FALSE]
  /\ tokens = [t \in Tokens |-> IF t = 1 THEN NewToken ELSE NoToken]
  /\ otps = [t \in Tokens |-> "none"]
  /\ consents = [c \in Consents |-> NoConsent]
  /\ devices = [p \in Phones |-> NoDevice]
  /\ flight = [s \in Slots |-> Idle]
  /\ lapses = 0

(* Slots and acceptances are alike: a request takes the first that is free.*)
Begin(s, f) ==
  /\ flight[s] = Idle /\ s = CHOOSE r \in Slots : flight[r] = Idle
  /\ Cardinality({r \in Slots : flight[r] # Idle}) < scenario.parallel
  /\ (\E r \in Slots : flight[r] # Idle) => f.op \in scenario.beside
  /\ flight' = [flight EXCEPT ![s] = f]
End(s) == flight' = [flight EXCEPT ![s] = Idle]
At(s, op) == flight[s].op = op

-----------------------------------------------------------------------------
(* initiateConsentOtp, resendConsentOtp, verifyConsentOtp *)

(* Several records of one token differ in nothing the handlers tell apart. *)
SendOtp(t) ==
  /\ Live(t) /\ borrower.consent = "none" /\ Current # {}
  /\ otps[t] = "none"
  /\ otps' = [otps EXCEPT ![t] = "sent"]
  /\ UNCHANGED <<scenario, consentVars, borrower, tokens, consents, devices, flight, lapses>>

VerifyOtp(t) ==
  /\ otps[t] = "sent" /\ Live(t)
  /\ otps' = [otps EXCEPT ![t] = "verified"]
  /\ UNCHANGED <<scenario, consentVars, borrower, tokens, consents, devices, flight, lapses>>

Lapse == lapses < MaxLapses /\ lapses' = lapses + 1

ExpireOtp(t) ==
  /\ otps[t] # "none" /\ Lapse
  /\ otps' = [otps EXCEPT ![t] = "none"]
  /\ UNCHANGED <<scenario, consentVars, borrower, tokens, consents, devices, flight>>

(* The last token the bound allows does not expire.                        *)
ExpireToken(t) ==
  /\ Live(t) /\ t < scenario.tokens
  /\ tokens' = [tokens EXCEPT ![t].expired = TRUE]
  /\ UNCHANGED <<scenario, consentVars, borrower, otps, consents, devices, flight, lapses>>

-----------------------------------------------------------------------------
(* acceptConsent *)

Verified == {t \in Tokens : otps[t] = "verified"}
LiveTokens == {t \in Tokens : Live(t)}

(* Mutant of Matches: any verified OTP will do.                            *)
MatchesAny(t) == Verified # {} /\ t = Max(LiveTokens)

(* The latest verified OTP must be of the latest token that is live.       *)
Matches(t) == Verified # {} /\ t = Max(LiveTokens) /\ t = Max(Verified)

AcceptRead(s) ==
  /\ borrower.consent = "none" /\ LiveTokens # {}
  /\ \E t \in LiveTokens, v \in Current :
       /\ Matches(t)
       /\ Begin(s, [op |-> "accept", token |-> t, session |-> Max(Verified),
                    version |-> v, text |-> versions[v].text])
  /\ UNCHANGED <<scenario, consentVars, borrower, tokens, otps, consents, devices, lapses>>

AcceptCommit(s, c) ==
  LET f == flight[s] IN
  /\ At(s, "accept")
  /\ consents[c] = NoConsent /\ c = CHOOSE d \in Consents : consents[d] = NoConsent
  /\ consents' = [consents EXCEPT ![c] = [token |-> f.token, session |-> f.session,
                                          version |-> f.version, text |-> f.text]]
  /\ borrower' = [borrower EXCEPT !.consent = c]
  /\ End(s)
  /\ UNCHANGED <<scenario, consentVars, tokens, otps, devices, lapses>>

-----------------------------------------------------------------------------
(* getBorrowerEnrollmentQr, with a live token only where it is to rotate   *)

CanRotate == ~tokens[scenario.tokens].created

RotateRead(s) ==
  /\ ~Linked /\ Registered = {}
  /\ CanRotate
  /\ Begin(s, [op |-> "rotate", consented |-> borrower.consent # "none"])
  /\ UNCHANGED <<scenario, consentVars, borrower, tokens, otps, consents, devices, lapses>>

NextToken == Min({t \in Tokens : ~tokens[t].created})

(* The latest token neither consumed nor cancelled.                        *)
LatestOpen == LET open == {t \in Tokens : Open(t)} IN IF open = {} THEN 0 ELSE Max(open)

(* Mutant of Withdraws: the consent to the old QR code stands.             *)
WithdrawsNever(f) == FALSE

(* The consent is withdrawn if the request saw one.                        *)
Withdraws(f) == Running /\ f.consented /\ ~Linked

RotateStart(s) ==
  /\ At(s, "rotate") /\ CanRotate
  /\ flight' = [flight EXCEPT ![s] =
       [op |-> "rotating", old |-> LatestOpen, withdraws |-> Withdraws(flight[s]),
        user |-> borrower]]
  /\ UNCHANGED <<scenario, consentVars, borrower, tokens, otps, consents, devices, lapses>>

(* No other transaction has written what this one writes.                  *)
Intact(f) == (f.old # 0 => Open(f.old)) /\ (f.withdraws => borrower = f.user)

RotateCommit(s) ==
  LET f == flight[s] IN
  /\ At(s, "rotating") /\ Intact(f) /\ CanRotate
  /\ tokens' = [t \in Tokens |->
       IF t = NextToken THEN NewToken
       ELSE IF t = f.old THEN [tokens[t] EXCEPT !.cancelled = TRUE] ELSE tokens[t]]
  /\ borrower' = IF f.withdraws THEN [borrower EXCEPT !.consent = "none"] ELSE borrower
  /\ End(s)
  /\ UNCHANGED <<scenario, consentVars, otps, consents, devices, lapses>>

RotateAborts(s) ==
  /\ At(s, "rotating") /\ ~Intact(flight[s])
  /\ End(s)
  /\ UNCHANGED <<scenario, consentVars, borrower, tokens, otps, consents, devices, lapses>>

-----------------------------------------------------------------------------
(* registerDevice and registerRunningDevice *)

Bound(t) == borrower.consent # "none" /\ consents[borrower.consent].token = t

(* A device that exists answers a repeated request and refuses another.    *)
ActivateRead(s, p, t) ==
  /\ Running /\ Registered = {} /\ ~Linked
  /\ Live(t) /\ Bound(t)
  /\ Begin(s, [op |-> "activate", phone |-> p, token |-> t, consent |-> borrower.consent])
  /\ UNCHANGED <<scenario, consentVars, borrower, tokens, otps, consents, devices, lapses>>

(* Mutant of Claimable: the updates name only the ids.                     *)
ClaimableAlways(t) == TRUE

(* The conditions of the two updates of the transaction.                   *)
Claimable(t) == Live(t) /\ ~Linked

ActivateCommit(s) ==
  LET f == flight[s] IN
  /\ At(s, "activate") /\ Claimable(f.token) /\ devices[f.phone] = NoDevice
  /\ tokens' = [tokens EXCEPT ![f.token].consumed = TRUE]
  /\ borrower' = [borrower EXCEPT !.linked = TRUE]
  /\ devices' = [devices EXCEPT ![f.phone] = [token |-> f.token, consent |-> f.consent]]
  /\ End(s)
  /\ UNCHANGED <<scenario, consentVars, otps, consents, lapses>>

ActivateRefused(s) ==
  /\ At(s, "activate") /\ ~Claimable(flight[s].token)
  /\ End(s)
  /\ UNCHANGED <<scenario, consentVars, borrower, tokens, otps, consents, devices, lapses>>

(* A device owner: any token that is live, and no condition on the saves.  *)
RegisterRead(s, p, t) ==
  /\ ~Running /\ ~Linked /\ borrower.consent # "none" /\ Live(t)
  /\ Begin(s, [op |-> "register", phone |-> p, token |-> t, consent |-> borrower.consent])
  /\ UNCHANGED <<scenario, consentVars, borrower, tokens, otps, consents, devices, lapses>>

RegisterCommit(s) ==
  LET f == flight[s] IN
  /\ At(s, "register") /\ devices[f.phone] = NoDevice
  /\ tokens' = [tokens EXCEPT ![f.token].consumed = TRUE]
  /\ borrower' = [borrower EXCEPT !.linked = TRUE]
  /\ devices' = [devices EXCEPT ![f.phone] = [token |-> f.token, consent |-> f.consent]]
  /\ End(s)
  /\ UNCHANGED <<scenario, consentVars, otps, consents, lapses>>

(* The request dies before it commits, or is out of ids.                   *)
Fail(s) ==
  /\ flight[s] # Idle /\ Lapse
  /\ End(s)
  /\ UNCHANGED <<scenario, consentVars, borrower, tokens, otps, consents, devices>>

-----------------------------------------------------------------------------
Enroll ==
  \/ \E t \in Tokens : \/ SendOtp(t) \/ VerifyOtp(t) \/ ExpireOtp(t) \/ ExpireToken(t)
                       \/ \E s \in Slots, p \in Phones : ActivateRead(s, p, t) \/ RegisterRead(s, p, t)
  \/ \E s \in Slots : \/ AcceptRead(s)
                      \/ RotateRead(s) \/ RotateStart(s) \/ RotateCommit(s) \/ RotateAborts(s)
                      \/ ActivateCommit(s) \/ ActivateRefused(s) \/ RegisterCommit(s) \/ Fail(s)
                      \/ \E c \in Consents : AcceptCommit(s, c)

Next ==
  \/ Enroll
  \/ ConsentStep /\ UNCHANGED <<scenario, enrollVars>>

Spec == Init /\ [][Next]_vars

(* The borrower goes on, the dealer replaces an expired QR code, and no    *)
(* request waits forever.                                                  *)
FairSpec ==
  /\ Spec
  /\ \A t \in Tokens : WF_vars(SendOtp(t)) /\ WF_vars(VerifyOtp(t))
  /\ \A s \in Slots :
       /\ WF_vars(AcceptRead(s)) /\ WF_vars(\E c \in Consents : AcceptCommit(s, c))
       /\ WF_vars(RotateRead(s) /\ LiveTokens = {})
       /\ WF_vars(RotateStart(s)) /\ WF_vars(RotateCommit(s) \/ RotateAborts(s))
       /\ WF_vars(\E p \in Phones, t \in Tokens : ActivateRead(s, p, t) \/ RegisterRead(s, p, t))
       /\ WF_vars(ActivateCommit(s) \/ ActivateRefused(s) \/ RegisterCommit(s))

-----------------------------------------------------------------------------
(* Properties *)

Borrowers == [consent : Consents \cup {"none"}, linked : BOOLEAN]

Flights ==
  {Idle}
  \cup [op : {"accept"}, token : Tokens, session : Tokens, version : Versions, text : 0..MaxEdits]
  \cup [op : {"rotate"}, consented : BOOLEAN]
  \cup [op : {"rotating"}, old : 0..MaxTokens, withdraws : BOOLEAN, user : Borrowers]
  \cup [op : {"activate", "register"}, phone : Phones, token : Tokens, consent : Consents]

(* The documents keep the shapes of their schemas.                         *)
TypeOK ==
  /\ scenario \in Scenarios /\ ConsentTypeOK
  /\ borrower \in Borrowers
  /\ tokens \in [Tokens -> TokenDocs]
  /\ otps \in [Tokens -> {"none", "sent", "verified"}]
  /\ consents \in [Consents ->
       {NoConsent} \cup [token : Tokens, session : Tokens, version : Versions, text : 0..MaxEdits]]
  /\ devices \in [Phones -> {NoDevice} \cup [token : Tokens, consent : Consents]]
  /\ flight \in [Slots -> Flights]
  /\ lapses \in 0..MaxLapses

(* However rotations, acceptances, activations from two phones and their   *)
(* repetitions overlap, a running device was activated under a consent     *)
(* given, after an OTP, for the very QR code it used up, which was never   *)
(* cancelled.                                                              *)
ActivatedAsAccepted ==
  Running => \A p \in Registered :
    LET d == devices[p] IN
    /\ consents[d.consent].token = d.token /\ consents[d.consent].session = d.token
    /\ tokens[d.token].consumed /\ ~tokens[d.token].cancelled

(* A running borrower gets one device, whatever overlaps; a device owner   *)
(* as long as requests do not overlap.                                     *)
OneDevice ==
  Running \/ scenario.parallel = 1 => Cardinality(Registered) = IF Linked THEN 1 ELSE 0

(* A borrower without a phone has exactly one good QR code, however        *)
(* rotations overlap: there is one to scan, and withdrawing it withdraws   *)
(* them all.  (Rotations begun before the phone was linked may leave       *)
(* several afterwards, which no phone can use.)                            *)
OneOpenToken == ~Linked => Cardinality({t \in Tokens : Open(t)}) = 1

(* Both: one device, and until it comes one good QR code, of a borrower.   *)
OneEnrollment == OneDevice /\ OneOpenToken

(* As long as requests do not overlap, a running borrower's consent is for *)
(* the QR code in force, and the text accepted is the one published.       *)
ConsentInForce ==
  /\ scenario.parallel = 1 /\ Running /\ borrower.consent # "none" =>
       \A t \in Tokens : tokens[t].created /\ ~tokens[t].cancelled => Bound(t)
  /\ scenario.officers <= 1 => \A c \in Consents :
       consents[c] # NoConsent => consents[c].text = versions[consents[c].version].text

(* A borrower who goes on is enrolled, whatever expires, is rotated or     *)
(* dies on the way, unless requests overlap or no text is current.         *)
Onboarded == (scenario.parallel = 1 /\ ~scenario.republish) ~> Linked
=============================================================================
