-------------------------- MODULE EnrollmentProofs --------------------------
(* What holds of Enrollment for every set of QR codes, acceptances, phones, *)
(* consent versions and requests, and for every scenario.                   *)
EXTENDS Enrollment, FiniteSetTheorems, WellFoundedInduction, TLAPS

-----------------------------------------------------------------------------
(* Consent versions *)

\* Besides the types: the current version is one that was published.
ConsentInv ==
  /\ ConsentTypeOK
  /\ \A v, w \in Current : v = w
  /\ \A v \in Current : versions[v].exists /\ versions[v].published

\* The versions of a later state, one by one.
VersionsNext ==
  /\ versions' \in [Versions -> VersionDocs]
  /\ \A v \in Versions : ~versions'[v].exists => versions'[v] = NoVersion
  /\ \A v, w \in Versions : versions'[v].current /\ versions'[w].current => v = w
  /\ \A v \in Versions : versions'[v].current => versions'[v].exists /\ versions'[v].published

Edits == {NoEdit} \cup [op : {"edit"}, id : Versions, text : 1..MaxEdits]
                  \cup [op : {"publish"}, id : Versions, current : BOOLEAN]

\* A step that only creates, edits or publishes versions keeps the versions well formed.
LEMMA ConsentNext ==
  ASSUME VersionsNext, editing' \in [Officers -> Edits] PROVE ConsentInv'
BY DEF VersionsNext, ConsentInv, ConsentTypeOK, Current, Edits

\* A step that leaves the versions alone is one such step.
LEMMA ConsentSame == ASSUME ConsentInv PROVE (UNCHANGED versions => VersionsNext)
BY DEF VersionsNext, ConsentInv, ConsentTypeOK, Current

\* The two literal version documents are version documents.
LEMMA VersionDocType ==
  /\ NoVersion \in VersionDocs /\ ~NoVersion.exists /\ ~NoVersion.current
  /\ Draft \in VersionDocs /\ Draft.exists /\ ~Draft.current
<1>1. 0 \in 0..MaxEdits
  BY BoundsAssumption
<1>2. NoVersion \in VersionDocs /\ ~NoVersion.exists /\ ~NoVersion.current
  BY <1>1 DEF NoVersion, VersionDocs
<1>3. Draft \in VersionDocs /\ Draft.exists /\ ~Draft.current
  <2> HIDE DEF NoVersion
  <2> QED  BY <1>2 DEF Draft, VersionDocs
<1> QED  BY <1>2, <1>3

\* Replacing one officer's edit keeps the edits typed.
LEMMA EditingSet ==
  ASSUME ConsentInv, NEW o \in Officers, NEW f \in Edits, editing' = [editing EXCEPT ![o] = f]
  PROVE  editing' \in [Officers -> Edits]
BY DEF ConsentInv, ConsentTypeOK, Edits

\* So does ending one.
LEMMA FinishEdits ==
  ASSUME ConsentInv, NEW o \in Officers, Finish(o) PROVE editing' \in [Officers -> Edits]
BY EditingSet DEF Finish, Edits

\* Creating a draft keeps the consent invariant.
LEMMA CreateConsentKeeps ==
  ASSUME ConsentInv, NEW v \in Versions, CreateConsent(v) PROVE ConsentInv'
<1>1. VersionsNext
  BY VersionDocType DEF CreateConsent, VersionsNext, ConsentInv, ConsentTypeOK, Current
<1>2. editing' \in [Officers -> Edits]
  BY DEF CreateConsent, ConsentInv, ConsentTypeOK, Edits
<1> QED  BY <1>1, <1>2, ConsentNext

\* Deleting a draft keeps it.
LEMMA DeleteConsentKeeps ==
  ASSUME ConsentInv, NEW v \in Versions, DeleteConsent(v) PROVE ConsentInv'
<1>1. VersionsNext
  BY VersionDocType DEF DeleteConsent, VersionsNext, ConsentInv, ConsentTypeOK, Current
<1>2. editing' \in [Officers -> Edits]
  BY DEF DeleteConsent, ConsentInv, ConsentTypeOK, Edits
<1> QED  BY <1>1, <1>2, ConsentNext

\* Reading a version, to edit or to publish it, keeps it.
LEMMA ReadsKeep ==
  ASSUME ConsentInv, NEW o \in Officers, NEW v \in Versions, EditRead(o, v) \/ PublishRead(o, v)
  PROVE  ConsentInv'
<1>1. versions[v] \in VersionDocs
  BY DEF ConsentInv, ConsentTypeOK
<1>2. CASE EditRead(o, v)
  <2>1. versions[v].text + 1 \in 1..MaxEdits
    BY <1>1, <1>2, BoundsAssumption DEF EditRead, VersionDocs
  <2>2. [op |-> "edit", id |-> v, text |-> versions[v].text + 1] \in Edits
    BY <2>1 DEF Edits
  <2> QED  BY <1>2, <2>2, EditingSet, ConsentSame, ConsentNext DEF EditRead, Start
<1>3. CASE PublishRead(o, v)
  <2>1. versions[v].current \in BOOLEAN
    BY <1>1 DEF VersionDocs
  <2>2. [op |-> "publish", id |-> v, current |-> versions[v].current] \in Edits
    BY <2>1 DEF Edits
  <2> QED  BY <1>3, <2>2, EditingSet, ConsentSame, ConsentNext DEF PublishRead, Start
<1> QED  BY <1>2, <1>3

\* Saving an edit keeps it.
LEMMA EditSaveKeeps == ASSUME ConsentInv, NEW o \in Officers, EditSave(o) PROVE ConsentInv'
<1> DEFINE f == editing[o]
           doc == [versions[f.id] EXCEPT !.text = f.text]
<1>1. f \in Edits /\ f.op = "edit" /\ versions \in [Versions -> VersionDocs]
  BY DEF ConsentInv, ConsentTypeOK, EditSave, Edits
<1>2. f.id \in Versions /\ f.text \in 0..MaxEdits
  <2>1. f \in [op : {"edit"}, id : Versions, text : 1..MaxEdits]
    BY <1>1 DEF Edits, NoEdit
  <2> QED  BY <2>1, BoundsAssumption
<1>3. versions[f.id] \in VersionDocs /\ versions[f.id].exists
  BY <1>1, <1>2 DEF EditSave
<1>4. versions' = [versions EXCEPT ![f.id] = doc]
  BY <1>1, <1>2 DEF EditSave
<1>5. /\ doc \in VersionDocs /\ doc.exists = versions[f.id].exists
      /\ doc.current = versions[f.id].current /\ doc.published = versions[f.id].published
  BY <1>2, <1>3 DEF VersionDocs
<1> HIDE DEF doc, f
<1>6. VersionsNext
  BY <1>1, <1>2, <1>3, <1>4, <1>5 DEF VersionsNext, ConsentInv, ConsentTypeOK, Current
<1> QED  BY <1>6, FinishEdits, ConsentNext DEF EditSave

\* Publishing a version keeps it.
LEMMA PublishCommitKeeps == ASSUME ConsentInv, NEW o \in Officers, PublishCommit(o) PROVE ConsentInv'
<1> DEFINE f == editing[o]
           old == [versions[f.id] EXCEPT !.current = FALSE]
           doc == [old EXCEPT !.current = IF f.current THEN FALSE ELSE TRUE, !.published = TRUE]
<1>1. f \in Edits /\ f.op = "publish" /\ versions \in [Versions -> VersionDocs]
  BY DEF ConsentInv, ConsentTypeOK, PublishCommit, Edits
<1>2. f.id \in Versions
  BY <1>1 DEF Edits, NoEdit
<1>3. versions[f.id] \in VersionDocs /\ versions[f.id].exists
  BY <1>1, <1>2 DEF PublishCommit
<1>4. ASSUME NEW v \in Versions
      PROVE  /\ Unpublished[v] \in VersionDocs /\ ~Unpublished[v].current
             /\ ~Unpublished[v].exists => Unpublished[v] = NoVersion
  <2>1. versions[v] \in VersionDocs /\ (~versions[v].exists => versions[v] = NoVersion)
    BY DEF ConsentInv, ConsentTypeOK
  <2>2. CASE ~versions[v].exists
    BY <2>1, <2>2, VersionDocType DEF Unpublished
  <2>3. CASE versions[v].exists
    <3>1. Unpublished[v] = [versions[v] EXCEPT !.current = FALSE]
      BY <2>3 DEF Unpublished
    <3> QED  BY <2>1, <2>3, <3>1 DEF VersionDocs
  <2> QED  BY <2>2, <2>3
<1>5. versions' = [Unpublished EXCEPT ![f.id] = doc]
  <2>1. Unpublished \in [Versions -> VersionDocs]
    BY <1>4 DEF Unpublished
  <2>2. Unpublished[f.id] = old /\ old.current = FALSE
    BY <1>2, <1>3 DEF Unpublished, VersionDocs
  <2>3. versions' = [Unpublished EXCEPT ![f.id].current = IF f.current THEN @ ELSE TRUE,
                                        ![f.id].published = TRUE]
    BY DEF PublishCommit
  <2>4. versions' = [Unpublished EXCEPT ![f.id] =
                       [old EXCEPT !.current = IF f.current THEN old.current ELSE TRUE,
                                   !.published = TRUE]]
    <3> HIDE DEF f, old, Unpublished
    <3> QED  BY <1>2, <2>1, <2>2, <2>3
  <2> QED  BY <2>2, <2>4
<1>6. old \in VersionDocs /\ old.exists
  BY <1>3 DEF VersionDocs
<1>7. doc \in VersionDocs /\ doc.exists /\ doc.published
  <2> HIDE DEF old, f
  <2> QED  BY <1>6 DEF VersionDocs
<1> HIDE DEF doc, old, f
<1>8. \A v \in Versions : versions'[v] = IF v = f.id THEN doc ELSE Unpublished[v]
  BY <1>2, <1>5 DEF Unpublished
<1>9. versions' \in [Versions -> VersionDocs]
  BY <1>4, <1>5, <1>7, <1>8 DEF Unpublished
<1>10. VersionsNext
  BY <1>4, <1>7, <1>8, <1>9 DEF VersionsNext
<1> QED  BY <1>10, FinishEdits, ConsentNext DEF PublishCommit

\* Every step of the officers keeps it.
LEMMA ConsentStepKeeps == ASSUME ConsentInv, ConsentStep PROVE ConsentInv'
<1>1. ASSUME NEW o \in Officers, EditFails(o) PROVE ConsentInv'
  BY <1>1, FinishEdits, ConsentSame, ConsentNext DEF EditFails
<1> QED
  BY <1>1, CreateConsentKeeps, DeleteConsentKeeps, ReadsKeep, EditSaveKeeps, PublishCommitKeeps
  DEF ConsentStep

-----------------------------------------------------------------------------
(* Types *)

ConsentDocs == {NoConsent} \cup [token : Tokens, session : Tokens, version : Versions, text : 0..MaxEdits]

\* The two literal tokens are tokens.
LEMMA TokenFacts ==
  /\ NoToken \in TokenDocs /\ ~NoToken.created /\ ~NoToken.consumed /\ ~NoToken.cancelled
  /\ NewToken \in TokenDocs /\ NewToken.created /\ ~NewToken.consumed /\ ~NewToken.cancelled
<1>1. NoToken \in TokenDocs /\ ~NoToken.created /\ ~NoToken.consumed /\ ~NoToken.cancelled
  BY DEF NoToken, TokenDocs
<1>2. /\ NewToken \in TokenDocs /\ NewToken.created
      /\ NewToken.consumed = NoToken.consumed /\ NewToken.cancelled = NoToken.cancelled
  <2> HIDE DEF NoToken
  <2> QED  BY <1>1 DEF NewToken, TokenDocs
<1> QED  BY <1>1, <1>2

\* Marking a QR code.
LEMMA Marked ==
  ASSUME NEW t \in TokenDocs
  PROVE  /\ [t EXCEPT !.consumed = TRUE] \in TokenDocs
         /\ [t EXCEPT !.consumed = TRUE].created = t.created
         /\ [t EXCEPT !.consumed = TRUE].consumed
         /\ [t EXCEPT !.consumed = TRUE].cancelled = t.cancelled
         /\ [t EXCEPT !.cancelled = TRUE] \in TokenDocs
         /\ [t EXCEPT !.cancelled = TRUE].created = t.created
         /\ [t EXCEPT !.cancelled = TRUE].consumed = t.consumed
         /\ [t EXCEPT !.cancelled = TRUE].cancelled
         /\ [t EXCEPT !.expired = TRUE] \in TokenDocs
         /\ [t EXCEPT !.expired = TRUE].created = t.created
         /\ [t EXCEPT !.expired = TRUE].consumed = t.consumed
         /\ [t EXCEPT !.expired = TRUE].cancelled = t.cancelled
BY DEF TokenDocs

\* The parts of the state, each with its type.
LEMMA StateTypes ==
  ASSUME TypeOK
  PROVE  /\ scenario \in Scenarios
         /\ borrower \in Borrowers
         /\ tokens \in [Tokens -> TokenDocs]
         /\ otps \in [Tokens -> {"none", "sent", "verified"}]
         /\ consents \in [Consents -> ConsentDocs]
         /\ devices \in [Phones -> {NoDevice} \cup [token : Tokens, consent : Consents]]
         /\ flight \in [Slots -> Flights]
         /\ lapses \in 0..MaxLapses
BY DEF TypeOK, ConsentDocs

\* What a request in flight carries, by its operation.
LEMMA FlightTypes ==
  ASSUME TypeOK, NEW s \in Slots
  PROVE  /\ flight[s].op = "idle" => flight[s] = Idle
         /\ flight[s].op = "accept" =>
              /\ flight[s].token \in Tokens /\ flight[s].session \in Tokens
              /\ flight[s].version \in Versions /\ flight[s].text \in 0..MaxEdits
         /\ flight[s].op \in {"activate", "register"} =>
              flight[s].phone \in Phones /\ flight[s].token \in Tokens /\ flight[s].consent \in Consents
         /\ flight[s].op = "rotating" => flight[s].old \in 0..MaxTokens /\ flight[s].withdraws \in BOOLEAN
<1>1. flight[s] \in Flights
  BY DEF TypeOK
<1> QED  BY <1>1 DEF Flights, Idle

\* What a step leaves in the flights: those of one request may change.
Sets(s, f) == f \in Flights /\ flight' = [flight EXCEPT ![s] = f]

\* Ending a request leaves its slot idle.
LEMMA EndSets == ASSUME NEW s \in Slots, End(s) PROVE Sets(s, Idle)
BY DEF End, Sets, Flights

OthersKept == scenario' = scenario /\ UNCHANGED consentVars

\* Reading for an acceptance fills an idle slot and changes nothing else.
LEMMA AcceptReadSets ==
  ASSUME TypeOK, NEW s \in Slots, AcceptRead(s)
  PROVE  \E f : /\ Sets(s, f) /\ f.op = "accept" /\ f.token = f.session
                /\ flight[s] = Idle /\ UNCHANGED <<borrower, tokens, otps, consents, devices, lapses>>
<1>1. PICK t \in LiveTokens, v \in Current :
        /\ Matches(t)
        /\ Begin(s, [op |-> "accept", token |-> t, session |-> Max(Verified),
                     version |-> v, text |-> versions[v].text])
  BY DEF AcceptRead
<1> DEFINE f == [op |-> "accept", token |-> t, session |-> Max(Verified),
                 version |-> v, text |-> versions[v].text]
<1>2. t \in Tokens /\ t = Max(Verified)
  BY <1>1 DEF LiveTokens, Matches
<1>3. v \in Versions /\ versions[v].text \in 0..MaxEdits
  BY <1>1 DEF Current, TypeOK, ConsentTypeOK, VersionDocs
<1>4. f \in Flights /\ f.op = "accept" /\ f.token = f.session
  BY <1>2, <1>3 DEF Flights
<1>5. flight[s] = Idle /\ flight' = [flight EXCEPT ![s] = f]
  BY <1>1 DEF Begin
<1> HIDE DEF f
<1> QED  BY <1>4, <1>5 DEF Sets, AcceptRead

\* So does reading for a rotation.
LEMMA RotateReadSets ==
  ASSUME NEW s \in Slots, RotateRead(s)
  PROVE  \E f : Sets(s, f) /\ f.op = "rotate" /\ flight[s] = Idle
<1> DEFINE f == [op |-> "rotate", consented |-> borrower.consent # "none"]
<1>1. f \in Flights /\ f.op = "rotate"
  BY DEF Flights
<1> QED  BY <1>1 DEF RotateRead, Begin, Sets

\* So does reading for an activation or a registration.
LEMMA ActivationSets ==
  ASSUME TypeOK, NEW s \in Slots, NEW p \in Phones, NEW t \in Tokens, NEW op, op \in {"activate", "register"},
         borrower.consent # "none",
         Begin(s, [op |-> op, phone |-> p, token |-> t, consent |-> borrower.consent])
  PROVE  \E f : /\ Sets(s, f) /\ f.op = op /\ flight[s] = Idle
                /\ f.token = t /\ f.consent = borrower.consent /\ f.phone = p
<1> DEFINE f == [op |-> op, phone |-> p, token |-> t, consent |-> borrower.consent]
<1>1. borrower.consent \in Consents
  BY StateTypes DEF Borrowers
<1>2. f \in Flights
  BY <1>1 DEF Flights
<1>3. f.op = op /\ f.token = t /\ f.consent = borrower.consent /\ f.phone = p
  OBVIOUS
<1>4. flight[s] = Idle /\ flight' = [flight EXCEPT ![s] = f]
  BY DEF Begin
<1> HIDE DEF f
<1> QED  BY <1>2, <1>3, <1>4 DEF Sets

-----------------------------------------------------------------------------
(* The invariant *)

\* Until a phone is linked one QR code is open; while the app runs, a code that was used was
\* not cancelled.
TokensInv ==
  /\ Running => \A t \in Tokens : tokens[t].consumed => tokens[t].created /\ ~tokens[t].cancelled
  /\ ~Linked => \E t \in Tokens : Open(t) /\ \A u \in Tokens : Open(u) => u = t

\* An acceptance is of the code whose OTP was verified.
ConsentsInv ==
  \A c \in Consents : consents[c] # NoConsent => consents[c].token = consents[c].session

\* What the requests in progress have read still holds when they write.
Held(f, recorded, linked) ==
  /\ f.op = "accept" => f.token = f.session
  /\ f.op = "activate" => Running /\ recorded[f.consent].token = f.token
  /\ f.op = "register" => ~Running /\ (scenario.parallel = 1 => ~linked)
  /\ f.op = "rotating" /\ f.old = 0 => linked

FlightInv == \A s \in Slots : Held(flight[s], consents, borrower.linked)

Alone ==
  scenario.parallel = 1 => \A r, s \in Slots : flight[r] # Idle /\ flight[s] # Idle => r = s

\* A running device has the consent to the code it used up, and a borrower has one device.
DevicesInv ==
  /\ Running => \A p \in Registered :
       /\ consents[devices[p].consent].token = devices[p].token
       /\ tokens[devices[p].token].consumed
  /\ Running \/ scenario.parallel = 1 =>
       /\ \A p, q \in Registered : p = q
       /\ Linked <=> Registered # {}

EnrollInv == TokensInv /\ ConsentsInv /\ FlightInv /\ Alone /\ DevicesInv

IInv == TypeOK /\ ConsentInv /\ EnrollInv

-----------------------------------------------------------------------------
(* Flights *)

Begins(s) == scenario.parallel = 1 => \A r \in Slots : flight[r] = Idle

\* A request begins only as the scenario's number of parallel requests allows.
LEMMA BeginAlone == ASSUME NEW s \in Slots, NEW f, Begin(s, f) PROVE Begins(s)
<1> DEFINE busy == {r \in Slots : flight[r] # Idle}
<1>1. SUFFICES ASSUME scenario.parallel = 1 PROVE busy = {}
  BY DEF Begins
<1>2. Cardinality(busy) < 1
  BY <1>1 DEF Begin
<1>3. IsFiniteSet(busy)
  BY FS_Subset, BoundsAssumption
<1> HIDE DEF busy
<1>4. Cardinality(busy) = 0
  BY <1>2, <1>3, FS_CardinalityType
<1> QED  BY <1>3, <1>4, FS_EmptySet

\* The acceptances recorded before a step are there after it.
ConsentsKept ==
  /\ consents' \in [Consents -> ConsentDocs]
  /\ \A c \in Consents : consents[c] # NoConsent => consents'[c] = consents[c]

\* A step that leaves the acceptances alone keeps them.
LEMMA KeptConsents == ASSUME TypeOK, UNCHANGED consents PROVE ConsentsKept
BY StateTypes DEF ConsentsKept

\* An acceptance that names its token stays as it is.
LEMMA TokenOfConsent ==
  ASSUME TypeOK, NEW c \in Consents, NEW t \in Tokens, consents[c].token = t, ConsentsKept
  PROVE  consents'[c] = consents[c]
<1>1. t # 0
  BY TokensAssumption DEF Tokens
<1>2. consents[c] # NoConsent
  BY <1>1 DEF NoConsent
<1> QED  BY <1>2 DEF ConsentsKept

\* What a request relies on survives one slot filled or emptied.
LEMMA FlightsNext ==
  ASSUME IInv, NEW s \in Slots, NEW f, Sets(s, f), scenario' = scenario, ConsentsKept,
         f = Idle \/ (Held(f, consents, borrower.linked) /\ (flight[s] # Idle \/ Begins(s))),
         borrower'.linked = borrower.linked \/ (borrower'.linked /\ f = Idle /\ flight[s] # Idle)
  PROVE  FlightInv' /\ Alone' /\ flight' \in [Slots -> Flights]
<1>1. /\ flight \in [Slots -> Flights] /\ f \in Flights
      /\ \A r \in Slots : flight'[r] = IF r = s THEN f ELSE flight[r]
      /\ flight' \in [Slots -> Flights]
  BY StateTypes DEF Sets, IInv
<1>2. Alone'
  BY <1>1 DEF Alone, Begins, IInv, EnrollInv
<1>3. ASSUME NEW r \in Slots PROVE Held(flight'[r], consents', borrower'.linked)
  <2>1. CASE flight'[r] = Idle
    BY <2>1 DEF Held, Idle
  <2>2. CASE flight'[r] # Idle
    <3> DEFINE g == flight'[r]
    <3>1. Held(g, consents, borrower.linked) /\ g \in Flights
      BY <1>1, <2>2 DEF IInv, EnrollInv, FlightInv
    <3>2. borrower'.linked = borrower.linked \/ (borrower'.linked /\ scenario.parallel # 1)
      BY <1>1, <2>2 DEF Alone, IInv, EnrollInv
    <3>3. g.op = "activate" => g.consent \in Consents /\ g.token \in Tokens
      BY <3>1 DEF Flights, Idle
    <3> HIDE DEF g
    <3>4. g.op = "activate" => consents'[g.consent] = consents[g.consent]
      BY <3>1, <3>3, TokenOfConsent DEF Held, IInv
    <3>5. Held(g, consents', borrower'.linked)
      BY <3>1, <3>2, <3>4 DEF Held
    <3> QED  BY <3>5 DEF g
  <2> QED  BY <2>1, <2>2
<1>4. FlightInv'
  <2>1. Running' = Running /\ scenario'.parallel = scenario.parallel
    BY DEF Running
  <2> QED  BY <1>3, <2>1 DEF FlightInv, Held
<1> QED  BY <1>1, <1>2, <1>4

-----------------------------------------------------------------------------
(* Steps *)

Typed ==
  /\ scenario' = scenario
  /\ borrower' \in Borrowers
  /\ tokens' \in [Tokens -> TokenDocs]
  /\ otps' \in [Tokens -> {"none", "sent", "verified"}]
  /\ devices' \in [Phones -> {NoDevice} \cup [token : Tokens, consent : Consents]]
  /\ lapses' \in 0..MaxLapses

\* The parts of the inductive invariant, put together.
LEMMA Assemble ==
  ASSUME IInv, Typed, ConsentsKept, flight' \in [Slots -> Flights], ConsentInv', EnrollInv'
  PROVE  IInv'
<1>1. scenario' \in Scenarios
  BY DEF IInv, TypeOK, Typed
<1>2. TypeOK'
  BY <1>1 DEF Typed, ConsentsKept, ConsentDocs, ConsentInv, TypeOK
<1> QED  BY <1>2 DEF IInv

\* Nothing changes but OTPs and the requests in progress.
LEMMA RestNext ==
  ASSUME IInv, Typed, ConsentInv', UNCHANGED <<borrower, tokens, consents, devices>>,
         FlightInv', Alone', flight' \in [Slots -> Flights]
  PROVE  IInv'
<1>1. ConsentsKept
  BY KeptConsents DEF IInv
<1>2. Running' = Running /\ scenario'.parallel = scenario.parallel
  BY DEF Typed, Running
<1>3. TokensInv'
  BY <1>2 DEF IInv, EnrollInv, TokensInv, Open, Linked
<1>4. ConsentsInv'
  BY DEF IInv, EnrollInv, ConsentsInv
<1>5. DevicesInv'
  BY <1>2 DEF IInv, EnrollInv, DevicesInv, Registered, Linked
<1> QED  BY <1>1, <1>3, <1>4, <1>5, Assemble DEF EnrollInv

\* A step that touches neither requests nor acceptances keeps what requests rely on.
LEMMA SameFlight ==
  ASSUME IInv, scenario' = scenario, UNCHANGED <<flight, consents, borrower>>
  PROVE  FlightInv' /\ Alone' /\ flight' \in [Slots -> Flights]
<1>1. FlightInv'
  BY DEF IInv, EnrollInv, FlightInv, Held, Running
<1>2. Alone'
  BY DEF IInv, EnrollInv, Alone
<1>3. flight' \in [Slots -> Flights]
  BY DEF IInv, TypeOK
<1> QED  BY <1>1, <1>2, <1>3

\* A step that leaves the versions alone keeps the consent invariant.
LEMMA SameConsents == ASSUME IInv, UNCHANGED consentVars PROVE ConsentInv'
BY DEF IInv, ConsentInv, ConsentTypeOK, consentVars, Current

OtpStep(t) == SendOtp(t) \/ VerifyOtp(t) \/ ExpireOtp(t)

\* Requesting or verifying a code keeps the invariant.
LEMMA OtpNext == ASSUME IInv, NEW t \in Tokens, OtpStep(t) PROVE IInv'
<1>1. Typed
  <2>1. otps' \in [Tokens -> {"none", "sent", "verified"}]
    BY StateTypes DEF IInv, OtpStep, SendOtp, VerifyOtp, ExpireOtp
  <2>2. lapses' \in 0..MaxLapses
    BY StateTypes, BoundsAssumption DEF IInv, OtpStep, SendOtp, VerifyOtp, ExpireOtp, Lapse
  <2> QED  BY <2>1, <2>2, StateTypes DEF IInv, Typed, OtpStep, SendOtp, VerifyOtp, ExpireOtp
<1>2. UNCHANGED <<scenario, consentVars, borrower, tokens, consents, devices, flight>>
  BY DEF OtpStep, SendOtp, VerifyOtp, ExpireOtp
<1> QED  BY <1>1, <1>2, SameFlight, SameConsents, RestNext

\* Filling or emptying a slot keeps it.
LEMMA ReadNext ==
  ASSUME IInv, NEW s \in Slots, NEW f, Sets(s, f),
         f = Idle \/ (Held(f, consents, borrower.linked) /\ (flight[s] # Idle \/ Begins(s))),
         UNCHANGED <<scenario, consentVars, borrower, tokens, otps, consents, devices>>,
         lapses' \in 0..MaxLapses
  PROVE  IInv'
<1>1. Typed
  BY StateTypes DEF IInv, Typed
<1>2. FlightInv' /\ Alone' /\ flight' \in [Slots -> Flights]
  BY FlightsNext, KeptConsents DEF IInv
<1> QED  BY <1>1, <1>2, SameConsents, RestNext

\* Reading for an acceptance keeps it.
LEMMA AcceptReadNext == ASSUME IInv, NEW s \in Slots, AcceptRead(s) PROVE IInv'
<1>1. PICK f : Sets(s, f) /\ f.op = "accept" /\ f.token = f.session /\ flight[s] = Idle
  BY AcceptReadSets DEF IInv
<1>2. Begins(s)
  BY BeginAlone DEF AcceptRead
<1>3. Held(f, consents, borrower.linked)
  BY <1>1 DEF Held
<1> QED  BY <1>1, <1>2, <1>3, ReadNext, StateTypes DEF AcceptRead, IInv

\* Reading for a rotation keeps it.
LEMMA RotateReadNext == ASSUME IInv, NEW s \in Slots, RotateRead(s) PROVE IInv'
<1>1. PICK f : Sets(s, f) /\ f.op = "rotate" /\ flight[s] = Idle
  BY RotateReadSets
<1>2. Begins(s)
  BY BeginAlone DEF RotateRead
<1>3. Held(f, consents, borrower.linked)
  BY <1>1 DEF Held
<1> QED  BY <1>1, <1>2, <1>3, ReadNext, StateTypes DEF RotateRead, IInv

\* Reading for an activation keeps it.
LEMMA ActivateReadNext ==
  ASSUME IInv, NEW s \in Slots, NEW p \in Phones, NEW t \in Tokens, ActivateRead(s, p, t) PROVE IInv'
<1>a. TypeOK
  BY DEF IInv
<1>b. borrower.consent # "none"
  BY DEF ActivateRead, Bound
<1>c. Begin(s, [op |-> "activate", phone |-> p, token |-> t, consent |-> borrower.consent])
  BY DEF ActivateRead
<1>d. "activate" \in {"activate", "register"}
  OBVIOUS
<1>1. PICK f : /\ Sets(s, f) /\ f.op = "activate" /\ flight[s] = Idle
               /\ f.token = t /\ f.consent = borrower.consent
  BY <1>a, <1>b, <1>c, <1>d, ActivationSets
<1>2. Begins(s)
  BY BeginAlone DEF ActivateRead
<1>3. Held(f, consents, borrower.linked)
  <2>1. Running /\ consents[borrower.consent].token = t
    BY DEF ActivateRead, Bound
  <2> QED  BY <1>1, <2>1 DEF Held
<1> QED  BY <1>1, <1>2, <1>3, ReadNext, StateTypes DEF ActivateRead, IInv

\* Reading for a registration keeps it.
LEMMA RegisterReadNext ==
  ASSUME IInv, NEW s \in Slots, NEW p \in Phones, NEW t \in Tokens, RegisterRead(s, p, t) PROVE IInv'
<1>1. PICK f : Sets(s, f) /\ f.op = "register" /\ flight[s] = Idle
  BY ActivationSets DEF RegisterRead, IInv
<1>2. Begins(s)
  BY BeginAlone DEF RegisterRead
<1>3. Held(f, consents, borrower.linked)
  BY <1>1 DEF Held, RegisterRead, Linked
<1> QED  BY <1>1, <1>2, <1>3, ReadNext, StateTypes DEF RegisterRead, IInv

\* A refused or failed request keeps it.
LEMMA EndNext ==
  ASSUME IInv, NEW s \in Slots, RotateAborts(s) \/ ActivateRefused(s) \/ Fail(s) PROVE IInv'
<1>1. lapses' \in 0..MaxLapses
  BY StateTypes, BoundsAssumption DEF IInv, RotateAborts, ActivateRefused, Fail, Lapse
<1> QED  BY <1>1, EndSets, ReadNext DEF RotateAborts, ActivateRefused, Fail

\* An expiring token keeps it.
LEMMA ExpireTokenNext == ASSUME IInv, NEW t \in Tokens, ExpireToken(t) PROVE IInv'
<1>1. /\ tokens \in [Tokens -> TokenDocs]
      /\ tokens' = [tokens EXCEPT ![t].expired = TRUE]
      /\ UNCHANGED <<scenario, consentVars, borrower, otps, consents, devices, flight, lapses>>
  BY StateTypes DEF IInv, ExpireToken
<1>2. tokens' = [tokens EXCEPT ![t] = [tokens[t] EXCEPT !.expired = TRUE]]
  BY <1>1
<1>3. /\ tokens' \in [Tokens -> TokenDocs]
      /\ \A u \in Tokens : /\ tokens'[u].created = tokens[u].created
                           /\ tokens'[u].consumed = tokens[u].consumed
                           /\ tokens'[u].cancelled = tokens[u].cancelled
  <2> DEFINE doc == [tokens[t] EXCEPT !.expired = TRUE]
  <2>1. /\ doc \in TokenDocs /\ doc.created = tokens[t].created
        /\ doc.consumed = tokens[t].consumed /\ doc.cancelled = tokens[t].cancelled
    <3>1. tokens[t] \in TokenDocs
      BY <1>1
    <3> QED  BY <3>1, Marked
  <2>2. tokens' = [tokens EXCEPT ![t] = doc]
    BY <1>2
  <2> HIDE DEF doc
  <2> QED  BY <1>1, <2>1, <2>2
<1>4. Typed
  BY <1>1, <1>3, StateTypes DEF IInv, Typed
<1>5. TokensInv'
  BY <1>1, <1>3 DEF IInv, EnrollInv, TokensInv, Open, Running, Linked
<1>6. ConsentsInv'
  BY <1>1 DEF IInv, EnrollInv, ConsentsInv
<1>7. DevicesInv'
  <2>1. \A p \in Registered : devices[p].token \in Tokens
    BY StateTypes DEF IInv, Registered
  <2> QED  BY <1>1, <1>3, <2>1 DEF IInv, EnrollInv, DevicesInv, Registered, Linked, Running
<1>8. FlightInv' /\ Alone' /\ flight' \in [Slots -> Flights]
  BY <1>1, SameFlight
<1> QED
  BY <1>1, <1>4, <1>5, <1>6, <1>7, <1>8, Assemble, SameConsents, KeptConsents DEF EnrollInv, IInv


-----------------------------------------------------------------------------
(* The writing steps *)

\* One QR code is marked used or replaced: the others are as they were.
TokenSet(t, doc) ==
  /\ doc \in TokenDocs
  /\ tokens' \in [Tokens -> TokenDocs]
  /\ \A u \in Tokens : tokens'[u] = IF u = t THEN doc ELSE tokens[u]

\* Consuming a token changes only that mark.
LEMMA Consumes ==
  ASSUME IInv, NEW t \in Tokens, tokens' = [tokens EXCEPT ![t].consumed = TRUE]
  PROVE  \E doc : /\ TokenSet(t, doc) /\ doc.consumed
                  /\ doc.created = tokens[t].created /\ doc.cancelled = tokens[t].cancelled
<1> DEFINE doc == [tokens[t] EXCEPT !.consumed = TRUE]
<1>1. tokens \in [Tokens -> TokenDocs] /\ tokens[t] \in TokenDocs
  BY StateTypes DEF IInv
<1>2. doc \in TokenDocs /\ doc.consumed /\ doc.created = tokens[t].created /\ doc.cancelled = tokens[t].cancelled
  BY <1>1, Marked
<1>3. tokens' = [tokens EXCEPT ![t] = doc]
  BY <1>1
<1> HIDE DEF doc
<1> QED  BY <1>1, <1>2, <1>3 DEF TokenSet

\* A registered device names a token and an acceptance.
LEMMA DeviceTypes ==
  ASSUME IInv, NEW p \in Registered
  PROVE  p \in Phones /\ devices[p].token \in Tokens /\ devices[p].consent \in Consents
BY StateTypes DEF IInv, Registered

\* The flight of a phone that enrolls, when it writes.
LEMMA Enrolls ==
  ASSUME IInv, NEW s \in Slots, ActivateCommit(s) \/ RegisterCommit(s)
  PROVE  \E p \in Phones, t \in Tokens, c \in Consents :
           /\ flight[s] # Idle /\ devices[p] = NoDevice
           /\ tokens' = [tokens EXCEPT ![t].consumed = TRUE]
           /\ borrower' = [borrower EXCEPT !.linked = TRUE]
           /\ devices' = [devices EXCEPT ![p] = [token |-> t, consent |-> c]]
           /\ Running => /\ consents[c].token = t /\ consents[c] # NoConsent
                         /\ tokens[t].created /\ ~tokens[t].cancelled
           /\ Running \/ scenario.parallel = 1 => ~Linked
<1> DEFINE f == flight[s]
<1>1. flight[s].op \in {"activate", "register"}
  BY DEF ActivateCommit, RegisterCommit, At
<1>2. f.phone \in Phones /\ f.token \in Tokens /\ f.consent \in Consents /\ f # Idle
  BY <1>1, FlightTypes DEF IInv, Idle
<1>3. Held(f, consents, borrower.linked)
  BY DEF IInv, EnrollInv, FlightInv
<1>4. /\ devices[f.phone] = NoDevice
      /\ tokens' = [tokens EXCEPT ![f.token].consumed = TRUE]
      /\ borrower' = [borrower EXCEPT !.linked = TRUE]
      /\ devices' = [devices EXCEPT ![f.phone] = [token |-> f.token, consent |-> f.consent]]
  BY DEF ActivateCommit, RegisterCommit
<1>5. Running => consents[f.consent].token = f.token /\ tokens[f.token].created /\ ~tokens[f.token].cancelled
  <2>1. CASE ActivateCommit(s)
    BY <1>3, <2>1 DEF ActivateCommit, At, Claimable, Live, Open, Held
  <2>2. CASE RegisterCommit(s)
    BY <1>3, <2>2 DEF RegisterCommit, At, Held
  <2> QED  BY <2>1, <2>2
<1>6. Running \/ scenario.parallel = 1 => ~Linked
  <2>1. CASE ActivateCommit(s)
    BY <2>1 DEF ActivateCommit, Claimable
  <2>2. CASE RegisterCommit(s)
    BY <1>3, <2>2 DEF RegisterCommit, At, Held, Linked
  <2> QED  BY <2>1, <2>2
<1>7. Running => consents[f.consent] # NoConsent
  <2>1. f.token # 0
    BY <1>2, TokensAssumption DEF Tokens
  <2> QED  BY <1>5, <2>1 DEF NoConsent
<1>8. f = flight[s]
  OBVIOUS
<1> HIDE DEF f
<1> QED  BY <1>2, <1>4, <1>5, <1>6, <1>7, <1>8

\* Committing an activation or a registration keeps the invariant.
LEMMA EnrollsNext ==
  ASSUME IInv, NEW s \in Slots, ActivateCommit(s) \/ RegisterCommit(s) PROVE IInv'
<1>1. PICK p \in Phones, t \in Tokens, c \in Consents :
           /\ flight[s] # Idle /\ devices[p] = NoDevice
           /\ tokens' = [tokens EXCEPT ![t].consumed = TRUE]
           /\ borrower' = [borrower EXCEPT !.linked = TRUE]
           /\ devices' = [devices EXCEPT ![p] = [token |-> t, consent |-> c]]
           /\ Running => /\ consents[c].token = t /\ consents[c] # NoConsent
                         /\ tokens[t].created /\ ~tokens[t].cancelled
           /\ Running \/ scenario.parallel = 1 => ~Linked
  BY Enrolls
<1>2. PICK doc : /\ TokenSet(t, doc) /\ doc.consumed
                 /\ doc.created = tokens[t].created /\ doc.cancelled = tokens[t].cancelled
  BY <1>1, Consumes
<1>3. /\ UNCHANGED <<scenario, consentVars, otps, consents, lapses>> /\ End(s)
  BY DEF ActivateCommit, RegisterCommit
<1>4. ConsentsKept
  BY <1>3, KeptConsents DEF IInv
<1>5. borrower' \in Borrowers /\ borrower'.linked
  BY <1>1, StateTypes DEF IInv, Borrowers
<1> DEFINE new == [token |-> t, consent |-> c]
<1>6. /\ new \in [token : Tokens, consent : Consents] /\ new.token = t /\ new.consent = c
      /\ new # NoDevice
  <2>1. t # 0
    BY TokensAssumption DEF Tokens
  <2>2. new \in [token : Tokens, consent : Consents] /\ new.token = t /\ new.consent = c
    OBVIOUS
  <2>3. new # NoDevice
    BY <2>1, <2>2 DEF NoDevice
  <2> QED  BY <2>2, <2>3
<1>7. devices' = [devices EXCEPT ![p] = new]
  BY <1>1
<1> HIDE DEF new
<1>8. /\ devices' \in [Phones -> {NoDevice} \cup [token : Tokens, consent : Consents]]
      /\ \A q \in Phones : devices'[q] = IF q = p THEN new ELSE devices[q]
      /\ Registered' = Registered \cup {p}
  BY <1>6, <1>7, StateTypes DEF IInv, Registered
<1>9. Typed
  BY <1>2, <1>3, <1>5, <1>8, StateTypes DEF IInv, Typed, TokenSet
<1>10. FlightInv' /\ Alone' /\ flight' \in [Slots -> Flights]
  BY <1>1, <1>3, <1>4, <1>5, EndSets, FlightsNext
<1>11. TokensInv'
  BY <1>1, <1>2, <1>3, <1>5 DEF IInv, EnrollInv, TokensInv, TokenSet, Open, Running, Linked
<1>12. ConsentsInv'
  BY <1>3 DEF IInv, EnrollInv, ConsentsInv
<1>13. DevicesInv'
  <2>1. scenario' = scenario /\ consents' = consents
    BY <1>3
  <2>2. ASSUME Running, NEW q \in Registered'
        PROVE  /\ consents'[devices'[q].consent].token = devices'[q].token
               /\ tokens'[devices'[q].token].consumed
    <3>1. CASE q = p
      BY <1>1, <1>2, <1>6, <1>8, <2>1, <2>2, <3>1 DEF TokenSet
    <3>2. CASE q # p
      <4>1. q \in Registered /\ devices'[q] = devices[q] /\ devices[q].token \in Tokens
        BY <1>8, <2>2, <3>2, DeviceTypes
      <4> QED  BY <1>2, <2>1, <2>2, <4>1 DEF IInv, EnrollInv, DevicesInv, TokenSet
    <3> QED  BY <3>1, <3>2
  <2>3. ASSUME Running \/ scenario.parallel = 1
        PROVE  (\A q, r \in Registered' : q = r) /\ (Linked' <=> Registered' # {})
    <3>1. Registered = {}
      BY <1>1, <2>3 DEF IInv, EnrollInv, DevicesInv
    <3> QED  BY <1>5, <1>8, <3>1 DEF Linked
  <2> QED  BY <2>1, <2>2, <2>3 DEF DevicesInv, Running
<1> QED
  BY <1>3, <1>4, <1>9, <1>10, <1>11, <1>12, <1>13, Assemble, SameConsents DEF EnrollInv

\* Recording an acceptance keeps it.
LEMMA AcceptCommitNext ==
  ASSUME IInv, NEW s \in Slots, NEW c \in Consents, AcceptCommit(s, c) PROVE IInv'
<1> DEFINE f == flight[s]
           doc == [token |-> f.token, session |-> f.session, version |-> f.version, text |-> f.text]
<1>1. /\ f.op = "accept" /\ f # Idle /\ consents[c] = NoConsent
      /\ consents' = [consents EXCEPT ![c] = doc]
      /\ borrower' = [borrower EXCEPT !.consent = c]
      /\ End(s) /\ UNCHANGED <<scenario, consentVars, tokens, otps, devices, lapses>>
  BY DEF AcceptCommit, At, Idle
<1>2. /\ f.token \in Tokens /\ f.session \in Tokens /\ f.version \in Versions /\ f.text \in 0..MaxEdits
  BY <1>1, FlightTypes DEF IInv
<1>3. f.token = f.session
  BY <1>1 DEF IInv, EnrollInv, FlightInv, Held
<1>4. doc \in ConsentDocs /\ doc.token = doc.session
  BY <1>2, <1>3 DEF ConsentDocs
<1>5. f = flight[s]
  OBVIOUS
<1> HIDE DEF f, doc
<1>6. /\ consents' \in [Consents -> ConsentDocs]
      /\ \A d \in Consents : consents'[d] = IF d = c THEN doc ELSE consents[d]
  BY <1>1, <1>4, StateTypes DEF IInv
<1>7. ConsentsKept
  BY <1>1, <1>6 DEF ConsentsKept
<1>8. /\ borrower' \in Borrowers
      /\ borrower'.linked = borrower.linked
  BY <1>1, StateTypes DEF IInv, Borrowers
<1>9. Typed
  BY <1>1, <1>8, StateTypes DEF IInv, Typed
<1>10. FlightInv' /\ Alone' /\ flight' \in [Slots -> Flights]
  BY <1>1, <1>7, <1>8, EndSets, FlightsNext
<1>11. TokensInv'
  BY <1>1, <1>8 DEF IInv, EnrollInv, TokensInv, Open, Running, Linked
<1>12. ConsentsInv'
  BY <1>4, <1>6 DEF IInv, EnrollInv, ConsentsInv
<1>13. DevicesInv'
  <2>1. ASSUME Running, NEW p \in Registered
        PROVE  consents'[devices[p].consent].token = devices[p].token
    BY <1>7, <2>1, TokenOfConsent, DeviceTypes DEF IInv, EnrollInv, DevicesInv
  <2> QED  BY <1>1, <1>8, <2>1 DEF IInv, EnrollInv, DevicesInv, Registered, Linked, Running
<1> QED
  BY <1>1, <1>7, <1>9, <1>10, <1>11, <1>12, <1>13, Assemble, SameConsents DEF EnrollInv

\* A set of numbers has a least one.
LEMMA LeastExists ==
  ASSUME NEW S, S \subseteq Nat, S # {} PROVE \E x \in S : \A y \in S : x <= y
<1>1. \E x \in S : \A y \in S : ~ (<<y, x>> \in OpToRel(<, Nat))
  BY NatLessThanWellFounded, WFMin, Zenon
<1>2. PICK x \in S : \A y \in S : ~ (<<y, x>> \in OpToRel(<, Nat))
  BY <1>1
<1>3. \A y \in S : x <= y
  <2>1. ASSUME NEW y \in S, y < x PROVE FALSE
    <3>1. <<y, x>> \in OpToRel(<, Nat)
      BY <2>1 DEF OpToRel
    <3> QED  BY <1>2, <3>1
  <2> QED  BY <2>1
<1> QED  BY <1>3

\* It is the one Min names.
LEMMA MinIsLeast ==
  ASSUME NEW S, S \subseteq Nat, S # {} PROVE Min(S) \in S
BY LeastExists DEF Min

\* The greatest of a set of numbers up to a bound is one of them.
LEMMA MaxIsGreatest ==
  ASSUME NEW b \in Nat, NEW S, S \subseteq 1..b, S # {} PROVE Max(S) \in S
<1> DEFINE T == {n \in Nat : b - n \in S}
<1>1. T # {}
  <2>1. PICK x \in S : TRUE
    OBVIOUS
  <2>2. x \in 1..b /\ b - x \in Nat /\ b - (b - x) = x
    BY <2>1
  <2> QED  BY <2>1, <2>2
<1>2. T \subseteq Nat
  OBVIOUS
<1>3. \E n \in T : \A m \in T : n <= m
  <2> HIDE DEF T
  <2> QED  BY <1>1, <1>2, LeastExists
<1>4. PICK n \in T : \A m \in T : n <= m
  BY <1>3
<1>5. b - n \in S /\ n \in Nat
  BY <1>4
<1>6. \A y \in S : b - n >= y
  <2> SUFFICES ASSUME NEW y \in S PROVE b - n >= y
    OBVIOUS
  <2>1. y \in 1..b /\ b - y \in Nat /\ b - (b - y) = y
    OBVIOUS
  <2>2. n <= b - y
    BY <1>4, <2>1
  <2> QED  BY <1>5, <2>1, <2>2
<1> HIDE DEF T
<1> QED  BY <1>5, <1>6 DEF Max

\* The latest open code is an open one, and there is none only if it is 0.
LEMMA LatestIsOpen ==
  ASSUME IInv
  PROVE  /\ LatestOpen \in 0..MaxTokens
         /\ LatestOpen # 0 => LatestOpen \in Tokens /\ Open(LatestOpen)
         /\ LatestOpen = 0 => \A t \in Tokens : ~Open(t)
<1> DEFINE S == {t \in Tokens : Open(t)}
<1>1. CASE S = {}
  <2>1. LatestOpen = 0
    BY <1>1 DEF LatestOpen
  <2> QED  BY <1>1, <2>1, TokensAssumption
<1>2. CASE S # {}
  <2>1. LatestOpen = Max(S)
    BY <1>2 DEF LatestOpen
  <2>2. S \subseteq 1..MaxTokens /\ MaxTokens \in Nat
    BY TokensAssumption DEF Tokens
  <2>3. Max(S) \in S
    <3> HIDE DEF S
    <3> QED  BY <1>2, <2>2, MaxIsGreatest
  <2>4. LatestOpen \in Tokens /\ Open(LatestOpen)
    BY <2>1, <2>3
  <2>5. LatestOpen # 0 /\ LatestOpen \in 0..MaxTokens
    BY <2>4, TokensAssumption DEF Tokens
  <2> QED  BY <2>4, <2>5
<1> QED  BY <1>1, <1>2

\* Beginning the transaction of a rotation keeps the invariant: it finds no open code only
\* if a phone is linked.
LEMMA RotateStartNext == ASSUME IInv, NEW s \in Slots, RotateStart(s) PROVE IInv'
<1> DEFINE f == [op |-> "rotating", old |-> LatestOpen, withdraws |-> Withdraws(flight[s]),
                 user |-> borrower]
<1>1. f \in Flights
  <2>1. LatestOpen \in 0..MaxTokens /\ borrower \in Borrowers
    BY LatestIsOpen, StateTypes DEF IInv
  <2>2. Withdraws(flight[s]) \in BOOLEAN
    BY DEF Withdraws
  <2> QED  BY <2>1, <2>2 DEF Flights
<1>2. flight' = [flight EXCEPT ![s] = f] /\ flight[s] # Idle
  BY DEF RotateStart, At, Idle
<1>3. LatestOpen = 0 => borrower.linked
  BY LatestIsOpen DEF IInv, EnrollInv, TokensInv, Linked
<1>4. Held(f, consents, borrower.linked)
  BY <1>3 DEF Held
<1>5. /\ UNCHANGED <<scenario, consentVars, borrower, tokens, otps, consents, devices>>
      /\ lapses' \in 0..MaxLapses
  BY StateTypes DEF RotateStart, IInv
<1> HIDE DEF f
<1>6. Sets(s, f)
  BY <1>1, <1>2 DEF Sets
<1> QED  BY <1>2, <1>4, <1>5, <1>6, ReadNext

\* The code the dealer gives out is a new one; the open one is cancelled, and until a phone
\* is linked no other is open.
LEMMA RotateTokens ==
  ASSUME IInv, NEW s \in Slots, RotateCommit(s)
  PROVE  /\ NextToken \in Tokens /\ ~tokens[NextToken].created
         /\ tokens'[NextToken] = NewToken
         /\ \A t \in Tokens : t # NextToken =>
              /\ tokens'[t] \in TokenDocs
              /\ tokens'[t].created = tokens[t].created /\ tokens'[t].consumed = tokens[t].consumed
              /\ tokens'[t].cancelled => tokens[t].cancelled \/ Open(t)
              /\ ~Linked => ~Open(t)'
         /\ tokens' \in [Tokens -> TokenDocs]
<1> DEFINE f == flight[s]
<1>1. NextToken \in Tokens /\ ~tokens[NextToken].created
  <2> DEFINE S == {t \in Tokens : ~tokens[t].created}
  <2>1. scenario.tokens \in Tokens
    BY ScenariosAssumption, StateTypes DEF IInv, Tokens
  <2>2. scenario.tokens \in S
    BY <2>1 DEF RotateCommit, CanRotate
  <2>3. S \subseteq Nat
    BY TokensAssumption DEF Tokens
  <2>4. Min(S) \in S
    <3> HIDE DEF S
    <3> QED  BY <2>2, <2>3, MinIsLeast
  <2> QED  BY <2>4 DEF NextToken
<1>2. f.old \in 0..MaxTokens /\ (f.old # 0 => f.old \in Tokens /\ Open(f.old))
  BY FlightTypes, TokensAssumption DEF RotateCommit, At, Intact, IInv, Tokens
<1>3. ~Linked => f.old # 0
  BY DEF RotateCommit, At, IInv, EnrollInv, FlightInv, Held, Linked
<1>4. tokens' = [t \in Tokens |->
       IF t = NextToken THEN NewToken
       ELSE IF t = f.old THEN [tokens[t] EXCEPT !.cancelled = TRUE] ELSE tokens[t]]
  BY DEF RotateCommit
<1> HIDE DEF f
<1>5. tokens'[NextToken] = NewToken
  BY <1>1, <1>4
<1>6. ASSUME NEW t \in Tokens, t # NextToken
      PROVE  /\ tokens'[t] \in TokenDocs
             /\ tokens'[t].created = tokens[t].created /\ tokens'[t].consumed = tokens[t].consumed
             /\ tokens'[t].cancelled => tokens[t].cancelled \/ Open(t)
             /\ ~Linked => ~Open(t)'
  <2>1. tokens[t] \in TokenDocs /\ t # 0
    BY StateTypes, TokensAssumption DEF IInv, Tokens
  <2>2. CASE t = f.old
    <3> DEFINE doc == [tokens[t] EXCEPT !.cancelled = TRUE]
    <3>1. tokens'[t] = doc
      BY <1>4, <1>6, <2>2
    <3>2. /\ doc \in TokenDocs /\ doc.cancelled
          /\ doc.created = tokens[t].created /\ doc.consumed = tokens[t].consumed
      BY <2>1, Marked
    <3> HIDE DEF doc
    <3> QED  BY <1>2, <2>1, <2>2, <3>1, <3>2 DEF Open
  <2>3. CASE t # f.old
    <3>1. tokens'[t] = tokens[t]
      BY <1>4, <1>6, <2>3
    <3>2. ~Linked => ~Open(t)
      BY <1>2, <1>3, <2>3 DEF IInv, EnrollInv, TokensInv
    <3> QED  BY <2>1, <3>1, <3>2 DEF Open
  <2> QED  BY <2>2, <2>3
<1>7. tokens' \in [Tokens -> TokenDocs]
  <2>1. \A t \in Tokens : tokens'[t] \in TokenDocs
    BY <1>5, <1>6, TokenFacts
  <2> QED  BY <1>4, <2>1
<1> QED  BY <1>1, <1>5, <1>6, <1>7

\* Committing a rotation keeps the invariant.
LEMMA RotateCommitNext == ASSUME IInv, NEW s \in Slots, RotateCommit(s) PROVE IInv'
<1>1. /\ flight[s] # Idle /\ End(s) /\ UNCHANGED <<scenario, consentVars, otps, consents, devices, lapses>>
      /\ borrower' = IF flight[s].withdraws THEN [borrower EXCEPT !.consent = "none"] ELSE borrower
  BY DEF RotateCommit, At, Idle
<1>2. /\ borrower' \in Borrowers
      /\ borrower'.linked = borrower.linked
  BY <1>1, StateTypes DEF IInv, Borrowers
<1>3. Typed
  BY <1>1, <1>2, RotateTokens, StateTypes DEF IInv, Typed
<1>4. ConsentsKept
  BY <1>1, KeptConsents DEF IInv
<1>5. FlightInv' /\ Alone' /\ flight' \in [Slots -> Flights]
  BY <1>1, <1>2, <1>4, EndSets, FlightsNext
<1>6. TokensInv'
  <2>1. Running' = Running
    BY <1>1 DEF Running
  <2>2. ASSUME Running, NEW t \in Tokens, tokens'[t].consumed
        PROVE  tokens'[t].created /\ ~tokens'[t].cancelled
    <3>1. CASE t = NextToken
      BY <2>2, <3>1, RotateTokens, TokenFacts
    <3>2. CASE t # NextToken
      BY <2>2, <3>2, RotateTokens DEF IInv, EnrollInv, TokensInv, Open
    <3> QED  BY <3>1, <3>2
  <2>3. PICK n \in Tokens : n = NextToken
    BY RotateTokens
  <2>4. ~Linked => \A t \in Tokens : Open(t)' => t = n
    BY <2>3, RotateTokens
  <2>5. Open(n)'
    BY <2>3, RotateTokens, TokenFacts DEF Open
  <2>6. Linked' = Linked
    BY <1>2 DEF Linked
  <2> QED  BY <2>1, <2>2, <2>4, <2>5, <2>6 DEF TokensInv
<1>7. ConsentsInv'
  BY <1>1 DEF IInv, EnrollInv, ConsentsInv
<1>8. DevicesInv'
  <2>1. ASSUME Running, NEW p \in Registered
        PROVE  tokens'[devices[p].token].consumed
    <3>1. devices[p].token \in Tokens /\ tokens[devices[p].token].consumed
      BY <2>1, DeviceTypes DEF IInv, EnrollInv, DevicesInv
    <3>2. tokens[devices[p].token].created
      BY <2>1, <3>1 DEF IInv, EnrollInv, TokensInv
    <3> QED  BY <3>1, <3>2, RotateTokens
  <2> QED  BY <1>1, <1>2, <2>1 DEF IInv, EnrollInv, DevicesInv, Registered, Linked, Running
<1> QED
  BY <1>1, <1>3, <1>4, <1>5, <1>6, <1>7, <1>8, Assemble, SameConsents DEF EnrollInv

-----------------------------------------------------------------------------
(* The invariant holds *)

\* A step of the officers keeps it.
LEMMA PublishingNext ==
  ASSUME IInv, ConsentStep, UNCHANGED <<scenario, enrollVars>> PROVE IInv'
<1>1. UNCHANGED <<scenario, borrower, tokens, otps, consents, devices, flight, lapses>>
  BY DEF enrollVars
<1>2. ConsentInv'
  BY ConsentStepKeeps DEF IInv
<1>3. Typed
  BY <1>1, StateTypes DEF IInv, Typed
<1> QED  BY <1>1, <1>2, <1>3, SameFlight, RestNext

\* It holds at the start.
LEMMA InitIInv == ASSUME Init PROVE IInv
<1>1. ConsentInv
  <2>1. PICK w \in Versions : versions = [v \in Versions |-> IF v = w THEN Published ELSE NoVersion]
    BY DEF Init, InitConsents
  <2>2. Published \in VersionDocs /\ Published.exists /\ Published.published
    <3> HIDE DEF Draft
    <3> QED  BY VersionDocType DEF Published, VersionDocs
  <2>3. ConsentTypeOK
    BY <2>1, <2>2, VersionDocType DEF Init, InitConsents, ConsentTypeOK
  <2> QED  BY <2>1, <2>2, <2>3, VersionDocType DEF ConsentInv, Current
<1>2. TypeOK
  <2>1. borrower \in Borrowers
    BY DEF Init, Borrowers
  <2>2. tokens \in [Tokens -> TokenDocs]
    BY TokenFacts DEF Init
  <2>3. flight \in [Slots -> Flights]
    BY DEF Init, Flights
  <2>4. lapses \in 0..MaxLapses
    BY BoundsAssumption DEF Init
  <2>5. /\ otps \in [Tokens -> {"none", "sent", "verified"}]
        /\ consents \in [Consents -> ConsentDocs]
        /\ devices \in [Phones -> {NoDevice} \cup [token : Tokens, consent : Consents]]
    BY DEF Init, ConsentDocs
  <2> QED  BY <1>1, <2>1, <2>2, <2>3, <2>4, <2>5 DEF Init, TypeOK, ConsentInv, ConsentDocs
<1>3. EnrollInv
  <2>1. \A t \in Tokens : (tokens[t].created => t = 1) /\ ~tokens[t].consumed
    BY TokenFacts DEF Init
  <2>a. 1 \in Tokens
    BY TokensAssumption DEF Tokens
  <2>b. tokens[1] = NewToken
    BY <2>a DEF Init
  <2>2. TokensInv
    BY <2>1, <2>a, <2>b, TokenFacts DEF TokensInv, Open
  <2>3. ConsentsInv
    BY DEF Init, ConsentsInv
  <2>4. FlightInv /\ Alone
    BY DEF Init, FlightInv, Alone, Held, Idle
  <2>5. Registered = {} /\ ~Linked
    BY DEF Init, Registered, Linked
  <2>6. DevicesInv
    BY <2>5 DEF DevicesInv
  <2> QED  BY <2>2, <2>3, <2>4, <2>6 DEF EnrollInv
<1> QED  BY <1>1, <1>2, <1>3 DEF IInv

\* Every step keeps it.
LEMMA NextIInv == ASSUME IInv, [Next]_vars PROVE IInv'
<1>1. CASE Enroll
  <2>1. ASSUME NEW t \in Tokens, SendOtp(t) \/ VerifyOtp(t) \/ ExpireOtp(t) PROVE IInv'
    BY <2>1, OtpNext DEF OtpStep
  <2>2. ASSUME NEW s \in Slots, ActivateCommit(s) \/ RegisterCommit(s) PROVE IInv'
    BY <2>2, EnrollsNext
  <2>3. ASSUME NEW s \in Slots, RotateAborts(s) \/ ActivateRefused(s) \/ Fail(s) PROVE IInv'
    BY <2>3, EndNext
  <2>4. ASSUME NEW s \in Slots, AcceptRead(s) \/ RotateRead(s) \/ RotateStart(s) \/ RotateCommit(s)
        PROVE  IInv'
    BY <2>4, AcceptReadNext, RotateReadNext, RotateStartNext, RotateCommitNext
  <2>5. ASSUME NEW s \in Slots, NEW p \in Phones, NEW t \in Tokens,
               ActivateRead(s, p, t) \/ RegisterRead(s, p, t)
        PROVE  IInv'
    BY <2>5, ActivateReadNext, RegisterReadNext
  <2> QED  BY <1>1, <2>1, <2>2, <2>3, <2>4, <2>5, ExpireTokenNext, AcceptCommitNext DEF Enroll
<1>2. CASE UNCHANGED vars
  <2>1. /\ UNCHANGED <<borrower, tokens, otps, consents, devices, flight, lapses>>
        /\ scenario' = scenario /\ UNCHANGED consentVars
    BY <1>2 DEF vars, consentVars
  <2>2. Typed
    BY <2>1, StateTypes DEF IInv, Typed
  <2> QED  BY <2>1, <2>2, SameFlight, SameConsents, RestNext
<1> QED  BY <1>1, <1>2, PublishingNext DEF Next

\* Every step keeps the invariant.
THEOREM Invariance == Spec => []IInv
<1>1. Init => IInv
  BY InitIInv
<1>2. IInv /\ [Next]_vars => IInv'
  BY NextIInv
<1> QED  BY <1>1, <1>2, PTL DEF Spec

-----------------------------------------------------------------------------
(* What follows *)

\* A set with at most one element is finite, with cardinality 0 or 1.
LEMMA AtMostOne == ASSUME NEW S, \A x, y \in S : x = y
  PROVE IsFiniteSet(S) /\ Cardinality(S) \in {0, 1} /\ (Cardinality(S) = 0 <=> S = {})
<1>1. CASE S = {}
  BY <1>1, FS_EmptySet
<1>2. CASE S # {}
  <2>1. PICK x \in S : TRUE
    BY <1>2
  <2>2. S = {x}
    BY <2>1
  <2>3. IsFiniteSet(S) /\ Cardinality(S) = 1
    BY <2>2, FS_Singleton
  <2> QED  BY <1>2, <2>3
<1> QED  BY <1>1, <1>2

\* The documents of a borrower, of the QR codes and of the consent versions keep the shapes
\* of their schemas, whatever requests overlap.
THEOREM Shapes == Spec => []TypeOK
<1>1. IInv => TypeOK
  BY DEF IInv
<1> QED  BY <1>1, Invariance, PTL

\* Publications may overlap (publishConsentVersion reads before its transaction): borrowers
\* are never shown two texts, nor one that was not published.
THEOREM CurrentVersion == Spec => []OneCurrent
<1>1. IInv => OneCurrent
  <2> SUFFICES ASSUME IInv PROVE OneCurrent
    OBVIOUS
  <2>1. Cardinality(Current) \in {0, 1}
    <3> DEFINE S == Current
    <3>1. \A v, w \in S : v = w
      BY DEF IInv, ConsentInv
    <3> HIDE DEF S
    <3>2. Cardinality(S) \in {0, 1}
      BY <3>1, AtMostOne
    <3> QED  BY <3>2 DEF S
  <2>2. Cardinality(Current) <= 1
    <3> DEFINE n == Cardinality(Current)
    <3>1. n \in {0, 1}
      BY <2>1
    <3> HIDE DEF n
    <3>2. n <= 1
      BY <3>1
    <3> QED  BY <3>2 DEF n
  <2> QED  BY <2>2 DEF IInv, ConsentInv, OneCurrent
<1> QED  BY <1>1, Invariance, PTL

\* registerRunningDevice: a running device was activated under a consent for the QR code it
\* used up, whatever rotations, acceptances and activations overlap.
THEOREM Activation == Spec => []ActivatedAsAccepted
<1>1. IInv => ActivatedAsAccepted
  <2> SUFFICES ASSUME IInv, Running, NEW p \in Registered
               PROVE  LET d == devices[p] IN
                        /\ consents[d.consent].token = d.token /\ consents[d.consent].session = d.token
                        /\ tokens[d.token].consumed /\ ~tokens[d.token].cancelled
    BY DEF ActivatedAsAccepted
  <2>1. devices[p].token \in Tokens /\ devices[p].consent \in Consents
    BY DeviceTypes
  <2>2. consents[devices[p].consent].token = devices[p].token /\ tokens[devices[p].token].consumed
    BY DEF IInv, EnrollInv, DevicesInv
  <2>3. consents[devices[p].consent] # NoConsent
    <3>1. devices[p].token # 0
      BY <2>1, TokensAssumption DEF Tokens
    <3> QED  BY <2>2, <3>1 DEF NoConsent
  <2> QED  BY <2>1, <2>2, <2>3 DEF IInv, EnrollInv, TokensInv, ConsentsInv
<1> QED  BY <1>1, Invariance, PTL

\* createBorrowerEnrollment gives one QR code, getBorrowerEnrollmentQr replaces it: until a
\* phone is linked exactly one is good, although two rotations that find none would both
\* commit, and a borrower gets one device.
THEOREM OneDeviceEach == Spec => []OneEnrollment
<1>1. IInv => OneEnrollment
  <2> SUFFICES ASSUME IInv PROVE OneDevice /\ OneOpenToken
    BY DEF OneEnrollment
  <2>1. OneDevice
    <3> SUFFICES ASSUME Running \/ scenario.parallel = 1
                 PROVE  Cardinality(Registered) = IF Linked THEN 1 ELSE 0
      BY DEF OneDevice
    <3>1. (\A p, q \in Registered : p = q) /\ (Linked <=> Registered # {})
      BY DEF IInv, EnrollInv, DevicesInv
    <3> QED  BY <3>1, AtMostOne
  <2>2. OneOpenToken
    <3> SUFFICES ASSUME ~Linked PROVE Cardinality({t \in Tokens : Open(t)}) = 1
      BY DEF OneOpenToken
    <3>1. PICK t \in Tokens : Open(t) /\ \A u \in Tokens : Open(u) => u = t
      BY DEF IInv, EnrollInv, TokensInv
    <3>2. {u \in Tokens : Open(u)} = {t}
      BY <3>1
    <3> QED  BY <3>2, FS_Singleton
  <2> QED  BY <2>1, <2>2
<1> QED  BY <1>1, Invariance, PTL

-----------------------------------------------------------------------------
(* The consent in force: requests one at a time *)

Given(t) == tokens[t].created /\ ~tokens[t].cancelled

\* What a request has read is still so when it writes.
UpToDate(f) ==
  /\ f.op = "accept" => borrower.consent = "none" /\ Given(f.token)
  /\ f.op = "rotate" => ~borrower.linked /\ (f.consented <=> borrower.consent # "none")
  /\ f.op = "rotating" => ~borrower.linked /\ (f.withdraws <=> borrower.consent # "none")

\* One QR code is given out and not cancelled, and the consent is for it.
ForceParts ==
  /\ ~borrower.linked => \A t \in Tokens : ~tokens[t].consumed
  /\ \A t, u \in Tokens : Given(t) /\ Given(u) => t = u
  /\ \A s \in Slots : UpToDate(flight[s])
  /\ borrower.consent # "none" => \A t \in Tokens : Given(t) => consents[borrower.consent].token = t

ForceInv == scenario.parallel = 1 /\ Running => ForceParts

\* The consent in force survives steps that leave the borrower and the acceptances alone.
LEMMA ForceSame ==
  ASSUME IInv, ForceParts, UNCHANGED <<borrower, consents>>,
         \A t \in Tokens : /\ tokens'[t].created = tokens[t].created
                           /\ tokens'[t].consumed = tokens[t].consumed
                           /\ tokens'[t].cancelled = tokens[t].cancelled,
         \A r \in Slots : flight'[r] = flight[r] \/ flight'[r] = Idle \/
           (UpToDate(flight'[r]) /\ (flight'[r].op = "accept" => flight'[r].token \in Tokens))
  PROVE  ForceParts'
<1>1. \A t \in Tokens : Given(t)' <=> Given(t)
  BY DEF Given
<1>2. ASSUME NEW r \in Slots PROVE UpToDate(flight[r])'
  <2>1. UpToDate(flight'[r]) /\ (flight'[r].op = "accept" => flight'[r].token \in Tokens)
    <3>1. CASE flight'[r] = flight[r]
      BY <3>1, FlightTypes DEF ForceParts, IInv
    <3>2. CASE flight'[r] = Idle
      BY <3>2 DEF UpToDate, Idle
    <3> QED  BY <3>1, <3>2
  <2> QED  BY <1>1, <2>1 DEF UpToDate
<1> QED  BY <1>1, <1>2 DEF ForceParts

\* The only request in progress ends.
LEMMA LastEnds ==
  ASSUME IInv, scenario.parallel = 1, NEW s \in Slots, flight[s] # Idle, End(s)
  PROVE  \A r \in Slots : flight'[r] = Idle
BY StateTypes DEF IInv, EnrollInv, Alone, End

\* Idle slots rely on nothing.
LEMMA AllIdle == ASSUME \A r \in Slots : flight'[r] = Idle PROVE \A r \in Slots : UpToDate(flight[r])'
BY DEF UpToDate, Idle

\* With one request at a time, an acceptance keeps the consent in force.
LEMMA ForceAccept ==
  ASSUME IInv, scenario.parallel = 1, ForceParts, NEW s \in Slots, NEW c \in Consents, AcceptCommit(s, c)
  PROVE  ForceParts'
<1>1. PICK t \in Tokens : t = flight[s].token /\ Given(t)
  BY FlightTypes DEF IInv, ForceParts, UpToDate, AcceptCommit, At
<1>2. /\ consents' = [consents EXCEPT ![c] = [token |-> t, session |-> flight[s].session,
                                            version |-> flight[s].version, text |-> flight[s].text]]
      /\ borrower' = [borrower EXCEPT !.consent = c] /\ UNCHANGED tokens
      /\ flight[s] # Idle /\ End(s)
  BY <1>1 DEF AcceptCommit, At, Idle
<1>3. consents'[c].token = t /\ borrower'.consent = c /\ borrower'.linked = borrower.linked
  BY <1>2, StateTypes DEF IInv
<1>4. \A r \in Slots : UpToDate(flight[r])'
  BY <1>2, LastEnds, AllIdle
<1> QED  BY <1>1, <1>2, <1>3, <1>4 DEF ForceParts, Given

\* So does a rotation.
LEMMA ForceRotate ==
  ASSUME IInv, scenario.parallel = 1, Running, ForceParts, NEW s \in Slots, RotateCommit(s)
  PROVE  ForceParts'
<1>1. /\ flight[s] # Idle /\ End(s) /\ UNCHANGED consents
      /\ borrower' = IF flight[s].withdraws THEN [borrower EXCEPT !.consent = "none"] ELSE borrower
      /\ ~borrower.linked /\ (flight[s].withdraws <=> borrower.consent # "none")
  BY DEF RotateCommit, At, Idle, ForceParts, UpToDate
<1>2. borrower'.consent = "none" /\ ~borrower'.linked
  BY <1>1, StateTypes DEF IInv
<1>3. \A t \in Tokens : Given(t) => Open(t)
  BY <1>1 DEF ForceParts, Given, Open
<1>4. \A t \in Tokens : ~tokens'[t].consumed
  BY <1>1, RotateTokens, TokenFacts DEF ForceParts
<1>5. \A t \in Tokens : Given(t)' => t = NextToken
  BY <1>1, <1>4, RotateTokens DEF Given, Open, Linked
<1>6. \A r \in Slots : UpToDate(flight[r])'
  BY <1>1, LastEnds, AllIdle
<1> QED  BY <1>2, <1>4, <1>5, <1>6 DEF ForceParts

\* So does an activation.
LEMMA ForceActivate ==
  ASSUME IInv, scenario.parallel = 1, ForceParts, NEW s \in Slots, ActivateCommit(s)
  PROVE  ForceParts'
<1>1. PICK t \in Tokens : t = flight[s].token
  BY FlightTypes DEF IInv, ActivateCommit, At
<1>2. /\ tokens' = [tokens EXCEPT ![t].consumed = TRUE] /\ UNCHANGED consents
      /\ borrower' = [borrower EXCEPT !.linked = TRUE] /\ flight[s] # Idle /\ End(s)
  BY <1>1 DEF ActivateCommit, At, Idle
<1>3. PICK doc : TokenSet(t, doc) /\ doc.created = tokens[t].created /\ doc.cancelled = tokens[t].cancelled
  BY <1>2, Consumes
<1>4. borrower'.linked /\ borrower'.consent = borrower.consent
  BY <1>2, StateTypes DEF IInv
<1>5. \A u \in Tokens : Given(u)' <=> Given(u)
  BY <1>3 DEF TokenSet, Given
<1>6. \A r \in Slots : UpToDate(flight[r])'
  BY <1>2, LastEnds, AllIdle
<1> QED  BY <1>2, <1>4, <1>5, <1>6 DEF ForceParts

\* So does reading, and ending a request.
LEMMA ForceRead ==
  ASSUME IInv, Running, ForceParts, NEW s \in Slots,
         \/ AcceptRead(s) \/ RotateRead(s) \/ RotateStart(s)
         \/ RotateAborts(s) \/ ActivateRefused(s) \/ Fail(s)
         \/ \E p \in Phones, t \in Tokens : ActivateRead(s, p, t)
  PROVE  ForceParts'
<1>1. UNCHANGED <<borrower, tokens, consents>>
  BY DEF AcceptRead, RotateRead, RotateStart, RotateAborts, ActivateRefused, Fail, ActivateRead
<1>2. \E f : /\ flight' = [flight EXCEPT ![s] = f]
             /\ f = Idle \/ (UpToDate(f) /\ (f.op = "accept" => f.token \in Tokens))
  <2>1. CASE AcceptRead(s)
    <3>1. PICK t \in LiveTokens, v \in Current :
            Begin(s, [op |-> "accept", token |-> t, session |-> Max(Verified),
                      version |-> v, text |-> versions[v].text])
      BY <2>1 DEF AcceptRead
    <3>2. PICK f : f = [op |-> "accept", token |-> t, session |-> Max(Verified),
                        version |-> v, text |-> versions[v].text]
      OBVIOUS
    <3>3. t \in Tokens /\ Given(t) /\ borrower.consent = "none"
      BY <2>1 DEF LiveTokens, Live, Open, Given, AcceptRead
    <3>4. UpToDate(f) /\ f.token \in Tokens
      BY <3>2, <3>3 DEF UpToDate
    <3> QED  BY <3>1, <3>2, <3>4 DEF Begin
  <2>2. CASE RotateRead(s)
    <3>1. PICK f : f = [op |-> "rotate", consented |-> borrower.consent # "none"]
      OBVIOUS
    <3>2. UpToDate(f) /\ f.op # "accept"
      BY <2>2, <3>1 DEF RotateRead, UpToDate, Linked
    <3> QED  BY <2>2, <3>1, <3>2 DEF RotateRead, Begin
  <2>6. CASE RotateStart(s)
    <3>1. PICK f : f = [op |-> "rotating", old |-> LatestOpen, withdraws |-> Withdraws(flight[s]),
                        user |-> borrower]
      OBVIOUS
    <3>2. ~borrower.linked /\ (flight[s].consented <=> borrower.consent # "none")
      BY <2>6 DEF RotateStart, At, ForceParts, UpToDate
    <3>3. UpToDate(f) /\ f.op # "accept"
      BY <3>1, <3>2 DEF UpToDate, Withdraws, Linked
    <3> QED  BY <2>6, <3>1, <3>3 DEF RotateStart
  <2>3. CASE RotateAborts(s) \/ ActivateRefused(s) \/ Fail(s)
    BY <2>3 DEF RotateAborts, ActivateRefused, Fail, End
  <2>4. ASSUME NEW p \in Phones, NEW t \in Tokens, ActivateRead(s, p, t)
        PROVE  \E f : /\ flight' = [flight EXCEPT ![s] = f]
                      /\ f = Idle \/ (UpToDate(f) /\ (f.op = "accept" => f.token \in Tokens))
    <3>1. PICK f : f = [op |-> "activate", phone |-> p, token |-> t, consent |-> borrower.consent]
      OBVIOUS
    <3>2. UpToDate(f) /\ f.op # "accept"
      BY <3>1 DEF UpToDate
    <3> QED  BY <2>4, <3>1, <3>2 DEF ActivateRead, Begin
  <2>5. CASE \E p \in Phones, t \in Tokens : ActivateRead(s, p, t)
    <3>1. PICK p \in Phones, t \in Tokens : ActivateRead(s, p, t)
      BY <2>5
    <3> QED  BY <2>4, <3>1
  <2> QED  BY <2>1, <2>2, <2>3, <2>5, <2>6
<1>3. \A r \in Slots : flight'[r] = flight[r] \/ flight'[r] = Idle \/
           (UpToDate(flight'[r]) /\ (flight'[r].op = "accept" => flight'[r].token \in Tokens))
  BY <1>2, StateTypes DEF IInv
<1> QED  BY <1>1, <1>3, ForceSame

\* Every step keeps it.
LEMMA ForceStep == ASSUME IInv, ForceInv, [Next]_vars PROVE ForceInv'
<1>1. scenario' = scenario
  <2>1. CASE Enroll
    BY <2>1 DEF Enroll, SendOtp, VerifyOtp, ExpireOtp, ExpireToken, ActivateRead, RegisterRead, AcceptRead,
                RotateRead, RotateStart, RotateCommit, RotateAborts, ActivateCommit, ActivateRefused,
                RegisterCommit, Fail, AcceptCommit
  <2> QED  BY <2>1 DEF Next, vars
<1> SUFFICES ASSUME scenario.parallel = 1, Running PROVE ForceParts'
  BY <1>1 DEF ForceInv, Running
<1>2. ForceParts
  BY DEF ForceInv
<1>3. ASSUME UNCHANGED <<borrower, tokens, consents, flight>> PROVE ForceParts'
  BY <1>2, <1>3, ForceSame
<1>4. ASSUME NEW t \in Tokens, SendOtp(t) \/ VerifyOtp(t) \/ ExpireOtp(t) PROVE ForceParts'
  BY <1>3, <1>4 DEF SendOtp, VerifyOtp, ExpireOtp
<1>5. ASSUME NEW t \in Tokens, ExpireToken(t) PROVE ForceParts'
  <2>1. /\ tokens' = [tokens EXCEPT ![t].expired = TRUE] /\ UNCHANGED <<borrower, consents, flight>>
        /\ tokens \in [Tokens -> TokenDocs] /\ tokens[t] \in TokenDocs
    BY <1>5, StateTypes DEF ExpireToken, IInv
  <2>2. PICK doc : /\ doc = [tokens[t] EXCEPT !.expired = TRUE] /\ tokens' = [tokens EXCEPT ![t] = doc]
                   /\ doc.created = tokens[t].created /\ doc.consumed = tokens[t].consumed
                   /\ doc.cancelled = tokens[t].cancelled
    BY <2>1, Marked
  <2>3. \A u \in Tokens : /\ tokens'[u].created = tokens[u].created
                          /\ tokens'[u].consumed = tokens[u].consumed
                          /\ tokens'[u].cancelled = tokens[u].cancelled
    BY <2>1, <2>2
  <2> QED  BY <1>2, <2>1, <2>3, ForceSame
<1>6. ASSUME NEW s \in Slots, NEW p \in Phones, NEW t \in Tokens,
             ActivateRead(s, p, t) \/ RegisterRead(s, p, t)
      PROVE  ForceParts'
  BY <1>2, <1>6, ForceRead DEF RegisterRead
<1>7. ASSUME NEW s \in Slots, \/ AcceptRead(s) \/ RotateRead(s) \/ RotateStart(s)
                             \/ RotateAborts(s) \/ ActivateRefused(s) \/ Fail(s)
      PROVE  ForceParts'
  BY <1>2, <1>7, ForceRead
<1>8. ASSUME NEW s \in Slots, RotateCommit(s) \/ ActivateCommit(s) PROVE ForceParts'
  BY <1>2, <1>8, ForceRotate, ForceActivate
<1>9. ASSUME NEW s \in Slots, RegisterCommit(s) PROVE FALSE
  <2>1. flight[s].op = "register"
    BY <1>9 DEF RegisterCommit, At
  <2>2. Held(flight[s], consents, borrower.linked)
    BY DEF IInv, EnrollInv, FlightInv
  <2> QED  BY <2>1, <2>2 DEF Held
<1>10. ASSUME NEW s \in Slots, NEW c \in Consents, AcceptCommit(s, c) PROVE ForceParts'
  BY <1>2, <1>10, ForceAccept
<1>11. CASE Enroll
  BY <1>4, <1>5, <1>6, <1>7, <1>8, <1>9, <1>10, <1>11 DEF Enroll
<1>12. CASE ConsentStep /\ UNCHANGED <<scenario, enrollVars>>
  BY <1>3, <1>12 DEF enrollVars
<1>13. CASE UNCHANGED vars
  BY <1>3, <1>13 DEF vars
<1> QED  BY <1>11, <1>12, <1>13 DEF Next

-----------------------------------------------------------------------------
(* The text accepted: one officer at a time *)

Says(v, text) == versions[v].published /\ versions[v].text = text

\* What a borrower accepted, or is about to, is what is published, and nobody edits it.
TextParts ==
  /\ \A c \in Consents : consents[c] # NoConsent => Says(consents[c].version, consents[c].text)
  /\ \A s \in Slots : flight[s].op = "accept" => Says(flight[s].version, flight[s].text)
  /\ \A o \in Officers : editing[o].op = "edit" => ~versions[editing[o].id].published
  /\ \A o, p \in Officers : editing[o] # NoEdit /\ editing[p] # NoEdit => o = p

TextInv == scenario.officers <= 1 => TextParts

\* No published text changes.
LEMMA TextKept ==
  ASSUME IInv, TextParts, UNCHANGED <<consents, flight>>,
         \A v \in Versions : versions[v].published => versions'[v].published /\ versions'[v].text = versions[v].text,
         \A o \in Officers : editing'[o].op = "edit" => ~versions'[editing'[o].id].published,
         \A o, p \in Officers : editing'[o] # NoEdit /\ editing'[p] # NoEdit => o = p
  PROVE  TextParts'
<1>1. \A c \in Consents : consents[c] # NoConsent => consents[c].version \in Versions
  BY StateTypes DEF IInv, ConsentDocs
<1>2. \A s \in Slots : flight[s].op = "accept" => flight[s].version \in Versions
  BY FlightTypes DEF IInv
<1> QED  BY <1>1, <1>2 DEF TextParts, Says

\* Acceptances say what is published.
LEMMA TextAccepted ==
  ASSUME TextParts, UNCHANGED consentVars,
         \A c \in Consents : consents'[c] = consents[c] \/ Says(consents'[c].version, consents'[c].text),
         \A r \in Slots : flight'[r] = flight[r] \/ flight'[r] = Idle \/
           (flight'[r].op = "accept" => Says(flight'[r].version, flight'[r].text))
  PROVE  TextParts'
<1>1. \A v, x : Says(v, x)' <=> versions[v].published /\ versions[v].text = x
  BY DEF Says, consentVars
<1>2. \A s \in Slots : flight'[s].op = "accept" => Says(flight'[s].version, flight'[s].text)
  BY DEF TextParts, Idle
<1> QED  BY <1>2 DEF TextParts, Says, consentVars

\* With one officer, an edit starts when no other is open.
LEMMA StartAlone ==
  ASSUME scenario.officers <= 1, scenario.officers \in Nat, NEW o \in Officers, NEW f, Start(o, f)
  PROVE  \A p \in Officers : editing[p] = NoEdit
<1> DEFINE busy == {p \in Officers : editing[p] # NoEdit}
           n == Cardinality(busy)
<1>1. n < scenario.officers
  BY DEF Start
<1>2. IsFiniteSet(busy)
  BY FS_Subset, BoundsAssumption
<1>3. n \in Nat
  BY <1>2, FS_CardinalityType
<1> HIDE DEF n
<1>4. n = 0
  BY <1>1, <1>3
<1> HIDE DEF busy
<1>5. busy = {}
  BY <1>2, <1>4, FS_EmptySet DEF n
<1> QED  BY <1>5 DEF busy

\* An edit of a version that is not published begins, or a publication.
LEMMA TextStarts ==
  ASSUME IInv, TextParts, scenario.officers <= 1, scenario.officers \in Nat,
         NEW o \in Officers, NEW f, Start(o, f), f.op = "edit" => ~versions[f.id].published,
         UNCHANGED <<consents, flight, versions>>
  PROVE  TextParts'
<1>1. /\ editing' = [editing EXCEPT ![o] = f] /\ \A p \in Officers : editing[p] = NoEdit
      /\ editing \in [Officers -> Edits]
  BY StartAlone DEF Start, IInv, ConsentInv, ConsentTypeOK, Edits
<1>2. \A p \in Officers : editing'[p] = IF p = o THEN f ELSE NoEdit
  BY <1>1
<1>3. \A p \in Officers : editing'[p].op = "edit" => ~versions'[editing'[p].id].published
  BY <1>2 DEF NoEdit
<1>4. \A p, q \in Officers : editing'[p] # NoEdit /\ editing'[q] # NoEdit => p = q
  BY <1>2
<1> QED  BY <1>3, <1>4, TextKept

\* A request of an officer ends, having written its version or nothing.
LEMMA TextFinishes ==
  ASSUME IInv, TextParts, NEW o \in Officers, editing[o] # NoEdit, Finish(o),
         \A v \in Versions : versions[v].published => versions'[v].published /\ versions'[v].text = versions[v].text,
         UNCHANGED <<consents, flight>>
  PROVE  TextParts'
<1>1. \A p \in Officers : editing'[p] = NoEdit
  BY DEF Finish, TextParts, IInv, ConsentInv, ConsentTypeOK
<1> QED  BY <1>1, TextKept DEF NoEdit

\* Saving an edit never changes the text of an accepted version.
LEMMA TextEdited ==
  ASSUME IInv, TextParts, NEW o \in Officers, EditSave(o), UNCHANGED <<consents, flight>>
  PROVE  TextParts'
<1>1. PICK f : f = editing[o] /\ f \in Edits /\ f.op = "edit" /\ ~versions[f.id].published
  BY DEF EditSave, TextParts, IInv, ConsentInv, ConsentTypeOK, Edits
<1>2. versions' = [versions EXCEPT ![f.id].text = f.text] /\ Finish(o) /\ editing[o] # NoEdit
  BY <1>1 DEF EditSave, NoEdit
<1>3. \A v \in Versions : versions[v].published => versions'[v] = versions[v]
  BY <1>1, <1>2 DEF IInv, ConsentInv, ConsentTypeOK
<1> QED  BY <1>2, <1>3, TextFinishes

\* Neither does publishing.
LEMMA TextPublished ==
  ASSUME IInv, TextParts, NEW o \in Officers, PublishCommit(o), UNCHANGED <<consents, flight>>
  PROVE  TextParts'
<1>1. PICK f : f = editing[o] /\ f.op = "publish" /\ f.id \in Versions
  BY DEF PublishCommit, IInv, ConsentInv, ConsentTypeOK, NoEdit
<1>2. /\ versions' = [Unpublished EXCEPT ![f.id].current = IF f.current THEN @ ELSE TRUE,
                                         ![f.id].published = TRUE]
      /\ Finish(o) /\ editing[o] # NoEdit
  BY <1>1 DEF PublishCommit, NoEdit
<1>3. ASSUME NEW v \in Versions
      PROVE  /\ Unpublished[v] \in VersionDocs /\ Unpublished[v].published = versions[v].published
             /\ Unpublished[v].text = versions[v].text
  <2>1. versions[v] \in VersionDocs
    BY DEF IInv, ConsentInv, ConsentTypeOK
  <2>2. Unpublished[v] = versions[v] \/ Unpublished[v] = [versions[v] EXCEPT !.current = FALSE]
    BY DEF Unpublished
  <2> QED  BY <2>1, <2>2 DEF VersionDocs
<1>4. ASSUME NEW v \in Versions, versions[v].published
      PROVE  versions'[v].published /\ versions'[v].text = versions[v].text
  <2>1. CASE v # f.id
    <3>1. versions'[v] = Unpublished[v]
      BY <1>1, <1>2, <2>1 DEF Unpublished
    <3> QED  BY <1>3, <1>4, <3>1
  <2>2. CASE v = f.id
    <3>1. PICK old : old = Unpublished[v] /\ old \in VersionDocs /\ old.text = versions[v].text
      BY <1>3
    <3>2. PICK b : b = IF f.current THEN old.current ELSE TRUE
      OBVIOUS
    <3>3. versions'[v] = [old EXCEPT !.current = b, !.published = TRUE]
      BY <1>1, <1>2, <2>2, <3>1, <3>2 DEF Unpublished
    <3>4. PICK doc : doc = [old EXCEPT !.current = b]
      OBVIOUS
    <3>5. versions'[v] = [doc EXCEPT !.published = TRUE]
      BY <3>3, <3>4
    <3>6. doc.text = old.text /\ versions'[v].published /\ versions'[v].text = doc.text
      BY <3>1, <3>4, <3>5 DEF VersionDocs
    <3> QED  BY <3>1, <3>6
  <2> QED  BY <2>1, <2>2
<1> QED  BY <1>2, <1>4, TextFinishes

\* Nor any step of a single officer.
LEMMA TextConsentStep ==
  ASSUME IInv, TextParts, scenario.officers <= 1, scenario.officers \in Nat,
         ConsentStep, UNCHANGED <<consents, flight>>
  PROVE  TextParts'
<1>1. ASSUME NEW v \in Versions, NEW doc, versions' = [versions EXCEPT ![v] = doc], ~doc.published,
             ~versions[v].published, UNCHANGED editing
      PROVE  TextParts'
  <2>1. \A w \in Versions : versions'[w] = IF w = v THEN doc ELSE versions[w]
    BY <1>1 DEF IInv, ConsentInv, ConsentTypeOK
  <2>2. \A o \in Officers : editing[o].op = "edit" => editing[o].id \in Versions
    BY DEF IInv, ConsentInv, ConsentTypeOK, NoEdit
  <2>3. \A o \in Officers : editing'[o].op = "edit" => ~versions'[editing'[o].id].published
    BY <1>1, <2>1, <2>2 DEF TextParts
  <2> QED  BY <1>1, <2>1, <2>3, TextKept DEF TextParts
<1>2. ASSUME NEW v \in Versions, CreateConsent(v) PROVE TextParts'
  <2>1. ~NoVersion.published /\ ~Draft.published
    BY DEF NoVersion, Draft
  <2>2. ~versions[v].published
    BY <1>2, <2>1 DEF CreateConsent, IInv, ConsentInv, ConsentTypeOK
  <2> QED  BY <1>1, <1>2, <2>1, <2>2 DEF CreateConsent
<1>3. ASSUME NEW v \in Versions, DeleteConsent(v) PROVE TextParts'
  <2>1. ~NoVersion.published
    BY DEF NoVersion
  <2> QED  BY <1>1, <1>3, <2>1 DEF DeleteConsent, Editable
<1>4. ASSUME NEW v \in Versions, NEW o \in Officers, EditRead(o, v) PROVE TextParts'
  <2>1. PICK f : f = [op |-> "edit", id |-> v, text |-> versions[v].text + 1]
    OBVIOUS
  <2>2. Start(o, f) /\ UNCHANGED versions /\ (f.op = "edit" => ~versions[f.id].published)
    BY <1>4, <2>1 DEF EditRead, Editable
  <2> QED  BY <2>2, TextStarts
<1>5. ASSUME NEW v \in Versions, NEW o \in Officers, PublishRead(o, v) PROVE TextParts'
  <2>1. PICK f : f = [op |-> "publish", id |-> v, current |-> versions[v].current]
    OBVIOUS
  <2>2. Start(o, f) /\ UNCHANGED versions /\ f.op # "edit"
    BY <1>5, <2>1 DEF PublishRead
  <2> QED  BY <2>2, TextStarts
<1>6. ASSUME NEW o \in Officers, EditFails(o) PROVE TextParts'
  BY <1>6, TextFinishes DEF EditFails
<1> QED  BY <1>2, <1>3, <1>4, <1>5, <1>6, TextEdited, TextPublished DEF ConsentStep

\* Nor any step of the borrower.
LEMMA TextEnroll == ASSUME IInv, TextParts, Enroll PROVE TextParts'
<1> USE DEF consentVars
<1>1. ASSUME UNCHANGED <<consentVars, consents>>,
             \A r \in Slots : flight'[r] = flight[r] \/ flight'[r] = Idle \/ flight'[r].op # "accept"
      PROVE  TextParts'
  BY <1>1, TextAccepted
<1>2. ASSUME NEW t \in Tokens, SendOtp(t) \/ VerifyOtp(t) \/ ExpireOtp(t) \/ ExpireToken(t) PROVE TextParts'
  BY <1>1, <1>2 DEF SendOtp, VerifyOtp, ExpireOtp, ExpireToken
<1>3. ASSUME NEW s \in Slots, NEW p \in Phones, NEW t \in Tokens, ActivateRead(s, p, t) \/ RegisterRead(s, p, t)
      PROVE  TextParts'
  <2>1. PICK op \in {"activate", "register"} :
          Begin(s, [op |-> op, phone |-> p, token |-> t, consent |-> borrower.consent])
    BY <1>3 DEF ActivateRead, RegisterRead
  <2>2. PICK f : f = [op |-> op, phone |-> p, token |-> t, consent |-> borrower.consent]
    OBVIOUS
  <2>3. flight' = [flight EXCEPT ![s] = f] /\ f.op # "accept"
    BY <2>1, <2>2 DEF Begin
  <2>4. \A r \in Slots : flight'[r] = flight[r] \/ flight'[r].op # "accept"
    BY <2>3, StateTypes DEF IInv
  <2> QED  BY <1>1, <1>3, <2>4 DEF ActivateRead, RegisterRead
<1>4. ASSUME NEW s \in Slots, AcceptRead(s) PROVE TextParts'
  <2>1. PICK t \in LiveTokens, v \in Current :
          Begin(s, [op |-> "accept", token |-> t, session |-> Max(Verified),
                    version |-> v, text |-> versions[v].text])
    BY <1>4 DEF AcceptRead
  <2>2. PICK f : f = [op |-> "accept", token |-> t, session |-> Max(Verified),
                      version |-> v, text |-> versions[v].text]
    OBVIOUS
  <2>3. flight' = [flight EXCEPT ![s] = f] /\ Says(f.version, f.text)
    BY <2>1, <2>2 DEF Begin, Says, IInv, ConsentInv
  <2>4. \A r \in Slots : flight'[r] = flight[r] \/ Says(flight'[r].version, flight'[r].text)
    BY <2>3, StateTypes DEF IInv
  <2> QED  BY <1>4, <2>4, TextAccepted DEF AcceptRead
<1>5. ASSUME NEW s \in Slots, RotateRead(s) PROVE TextParts'
  <2>1. PICK f : f = [op |-> "rotate", consented |-> borrower.consent # "none"]
    OBVIOUS
  <2>2. flight' = [flight EXCEPT ![s] = f] /\ f.op # "accept"
    BY <1>5, <2>1 DEF RotateRead, Begin
  <2>3. \A r \in Slots : flight'[r] = flight[r] \/ flight'[r].op # "accept"
    BY <2>2, StateTypes DEF IInv
  <2> QED  BY <1>1, <1>5, <2>3 DEF RotateRead
<1>9. ASSUME NEW s \in Slots, RotateStart(s) PROVE TextParts'
  <2>1. PICK f : f = [op |-> "rotating", old |-> LatestOpen, withdraws |-> Withdraws(flight[s]),
                      user |-> borrower]
    OBVIOUS
  <2>2. flight' = [flight EXCEPT ![s] = f] /\ f.op # "accept"
    BY <1>9, <2>1 DEF RotateStart
  <2>3. \A r \in Slots : flight'[r] = flight[r] \/ flight'[r].op # "accept"
    BY <2>2, StateTypes DEF IInv
  <2> QED  BY <1>1, <1>9, <2>3 DEF RotateStart
<1>6. ASSUME NEW s \in Slots, End(s), UNCHANGED <<consentVars, consents>> PROVE TextParts'
  <2>1. \A r \in Slots : flight'[r] = flight[r] \/ flight'[r] = Idle
    BY <1>6, StateTypes DEF IInv, End
  <2> QED  BY <1>6, <2>1, TextAccepted
<1>7. ASSUME NEW s \in Slots,
             \/ RotateCommit(s) \/ RotateAborts(s)
             \/ ActivateCommit(s) \/ ActivateRefused(s) \/ RegisterCommit(s) \/ Fail(s)
      PROVE  TextParts'
  BY <1>6, <1>7 DEF RotateCommit, RotateAborts, ActivateCommit, ActivateRefused, RegisterCommit, Fail
<1>8. ASSUME NEW s \in Slots, NEW c \in Consents, AcceptCommit(s, c) PROVE TextParts'
  <2>1. PICK doc : doc = [token |-> flight[s].token, session |-> flight[s].session,
                          version |-> flight[s].version, text |-> flight[s].text]
    OBVIOUS
  <2>2. consents' = [consents EXCEPT ![c] = doc] /\ Says(doc.version, doc.text)
    BY <1>8, <2>1 DEF AcceptCommit, At, TextParts
  <2>3. \A d \in Consents : consents'[d] = consents[d] \/ Says(consents'[d].version, consents'[d].text)
    BY <2>2, StateTypes DEF IInv
  <2>4. \A r \in Slots : flight'[r] = flight[r] \/ flight'[r] = Idle
    BY <1>8, StateTypes DEF IInv, AcceptCommit, End
  <2> QED  BY <1>8, <2>3, <2>4, TextAccepted DEF AcceptCommit
<1> QED  BY <1>2, <1>3, <1>4, <1>5, <1>7, <1>8, <1>9 DEF Enroll

\* Nor any step.
LEMMA TextStep == ASSUME IInv, TextInv, [Next]_vars PROVE TextInv'
<1>1. scenario' = scenario
  <2>1. CASE Enroll
    BY <2>1 DEF Enroll, SendOtp, VerifyOtp, ExpireOtp, ExpireToken, ActivateRead, RegisterRead, AcceptRead,
                RotateRead, RotateStart, RotateCommit, RotateAborts, ActivateCommit, ActivateRefused,
                RegisterCommit, Fail, AcceptCommit
  <2> QED  BY <2>1 DEF Next, vars
<1> SUFFICES ASSUME scenario.officers <= 1 PROVE TextParts'
  BY <1>1 DEF TextInv
<1>2. TextParts /\ scenario.officers \in Nat
  BY ScenariosAssumption DEF TextInv, IInv, TypeOK
<1>3. CASE Enroll
  BY <1>2, <1>3, TextEnroll
<1>4. CASE ConsentStep /\ UNCHANGED <<scenario, enrollVars>>
  BY <1>2, <1>4, TextConsentStep DEF enrollVars
<1>5. CASE UNCHANGED vars
  BY <1>2, <1>5, TextAccepted DEF vars, consentVars
<1> QED  BY <1>3, <1>4, <1>5 DEF Next

-----------------------------------------------------------------------------
(* Both *)

\* Both hold at the start.
LEMMA ForceTextInit == Init => ForceInv /\ TextInv
<1> SUFFICES ASSUME Init PROVE ForceParts /\ TextParts
  BY DEF ForceInv, TextInv
<1>1. borrower = [consent |-> "none", linked |-> FALSE]
  BY DEF Init
<1>2. \A t \in Tokens : tokens[t] = IF t = 1 THEN NewToken ELSE NoToken
  BY DEF Init
<1>3. /\ \A t \in Tokens : ~tokens[t].consumed /\ (Given(t) => t = 1)
  BY <1>2, TokenFacts DEF Given
<1>4. \A s \in Slots : flight[s].op = "idle"
  BY DEF Init, Idle
<1>5. ForceParts
  BY <1>1, <1>3, <1>4 DEF ForceParts, UpToDate
<1>6. \A c \in Consents : consents[c] = NoConsent
  BY DEF Init
<1>7. \A o \in Officers : editing[o] = NoEdit
  BY DEF Init, InitConsents
<1>8. TextParts
  BY <1>4, <1>6, <1>7 DEF TextParts, NoEdit
<1> QED  BY <1>5, <1>8

\* acceptConsent and getBorrowerEnrollmentQr: as long as requests do not overlap, the consent
\* of a running borrower is for the QR code in force; and as long as one super admin edits at
\* a time (updateConsentVersion, publishConsentVersion), the text accepted is the one published.
THEOREM ConsentForce == Spec => []ConsentInForce
<1>1. Init => ForceInv /\ TextInv
  BY ForceTextInit
<1>2. IInv /\ ForceInv /\ TextInv /\ [Next]_vars => (ForceInv /\ TextInv)'
  BY ForceStep, TextStep
<1>3. IInv /\ ForceInv /\ TextInv => ConsentInForce
  <2> SUFFICES ASSUME IInv, ForceInv, TextInv PROVE ConsentInForce
    OBVIOUS
  <2>1. ASSUME scenario.parallel = 1, Running, borrower.consent # "none", NEW t \in Tokens, Given(t)
        PROVE  Bound(t)
    BY <2>1 DEF ForceInv, ForceParts, Bound
  <2>2. ASSUME scenario.officers <= 1, NEW c \in Consents, consents[c] # NoConsent
        PROVE  consents[c].text = versions[consents[c].version].text
    BY <2>2 DEF TextInv, TextParts, Says
  <2> QED  BY <2>1, <2>2 DEF ConsentInForce, Given
<1> QED  BY <1>1, <1>2, <1>3, Invariance, PTL DEF Spec

=============================================================================
