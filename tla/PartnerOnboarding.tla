------------------------- MODULE PartnerOnboarding -------------------------
(***************************************************************************)
(* One channel partner and the tenants created under it, by the partner's  *)
(* app against a verified code and by the administrator.  A creation is    *)
(* one transaction, which first writes the partner and so makes other      *)
(* creations fail or wait: it must not exceed the number of active tenants *)
(* that the partner may have in its area.  Sign-ups of partners and new    *)
(* accounts look for the mobile number and create the login later.         *)
(***************************************************************************)
EXTENDS Integers, Sequences, FiniteSets

CONSTANTS Offices,      \* calls that may be in progress at once
          OfficeScenes, \* scenarios: the operations of each of them
          Mobiles,      \* mobile numbers
          Areas,        \* pincode prefixes
          Limits,       \* values of tenantOnboardingLimit
          TenantLimit,  \* bound: tenants
          LoginLimit,   \* bound: accounts
          AdminLimit    \* bound: changes by the administrator

ASSUME OnboardingAssumption == Limits \subseteq Nat \ {0} /\ Limits # {} /\ Areas # {}

VARIABLES partner,  \* the ChannelPartner document
          tenants,  \* the Tenant documents
          logins,   \* mobile and role of the accounts, with the partners that sign up
          otps,     \* the OtpRecord documents of sign-ups and tenant creations
          office,   \* what each call in progress has read
          reforms,  \* changes by the administrator so far
          officeScene

onboardingVars == <<partner, tenants, logins, otps, office, reforms, officeScene>>

NewOtp(purpose, mobile) ==
  [purpose |-> purpose, mobile |-> mobile, verified |-> FALSE, consumed |-> FALSE, expired |-> FALSE]
Closed == [step |-> "closed"]

OnboardingInit ==
  /\ officeScene \in OfficeScenes
  /\ \E area \in Areas, limit \in Limits :
       partner = [active |-> TRUE, restricted |-> TRUE, limit |-> limit, area |-> area]
  /\ tenants = <<>> /\ logins = <<>> /\ otps = <<>>
  /\ office = [o \in Offices |-> Closed]
  /\ reforms = 0

Taken(mobile, role) == \E k \in DOMAIN logins : logins[k] = [mobile |-> mobile, role |-> role]
Opens(o, op, r) == op \in officeScene[o] /\ office[o] = Closed /\ office' = [office EXCEPT ![o] = r]
Turns(o, r) == office' = [office EXCEPT ![o] = r]
Closes(o) == Turns(o, Closed)

(* The creations that hold the partner document until they end.            *)
Locked == \E o \in Offices : office[o].step = "insert" /\ office[o].locked
ActiveIn(area) == {k \in DOMAIN tenants : tenants[k].active /\ tenants[k].area = area}

(* initiatePartnerSignupOtp and initiateTenantCreationVerification.        *)
SendOtp(purpose, mobile) ==
  /\ \A k \in DOMAIN otps : otps[k].purpose = purpose => otps[k].mobile # mobile \* bound: one code of each kind
  /\ otps' = Append(otps, NewOtp(purpose, mobile))
  /\ UNCHANGED <<partner, tenants, logins, office, reforms, officeScene>>
SendSignupOtp(mobile) == ~Taken(mobile, "partner") /\ SendOtp("signup", mobile)
SendTenantOtp(mobile) == partner.active /\ ~Taken(mobile, "tenant") /\ SendOtp("tenant", mobile)

(* verifyPartnerSignupOtp and verifyTenantCreationVerification, with the   *)
(* right code; a wrong one only counts the attempt, which limits nothing.  *)
VerifyOtp(k) ==
  /\ ~otps[k].expired
  /\ otps' = [otps EXCEPT ![k].verified = TRUE]
  /\ UNCHANGED <<partner, tenants, logins, office, reforms, officeScene>>
VerifySignupOtp(k) == otps[k].purpose = "signup" /\ ~otps[k].verified /\ VerifyOtp(k)
VerifyTenantOtp(k) == otps[k].purpose = "tenant" /\ ~otps[k].consumed /\ partner.active /\ VerifyOtp(k)
ExpireOtp(k) ==
  /\ k \in DOMAIN otps /\ ~otps[k].expired
  /\ otps' = [otps EXCEPT ![k].expired = TRUE]
  /\ UNCHANGED <<partner, tenants, logins, office, reforms, officeScene>>

(* completePartnerSignup and createChannelPartner make a partner and its   *)
(* account, createAdminAccount and createTenantAdminAccount an account, of *)
(* a mobile number that nobody had when they looked.                       *)
StartCreation(o, op, step, mobile, role) ==
  /\ ~Taken(mobile, role)
  /\ Opens(o, op, [step |-> step, mobile |-> mobile, role |-> role])
  /\ UNCHANGED <<partner, tenants, logins, otps, reforms, officeScene>>
StartSignup(o, k) ==
  /\ otps[k].purpose = "signup" /\ otps[k].verified /\ ~otps[k].expired
  /\ StartCreation(o, "signup", "signup", otps[k].mobile, "partner")
StartChannelPartner(o, mobile) == StartCreation(o, "account", "channelPartner", mobile, "partner")
StartAdminAccount(o, mobile, role) ==
  /\ IF role = "partner" THEN partner.active ELSE \E k \in DOMAIN tenants : tenants[k].active
  /\ StartCreation(o, "account", "account", mobile, role)
StartTenantAccount(o, mobile) ==
  /\ partner.active /\ \E k \in DOMAIN tenants : tenants[k].active
  /\ StartCreation(o, "account", "tenantAccount", mobile, "tenant")

CreateLogin(o, step) ==
  /\ office[o].step = step /\ Len(logins) < LoginLimit
  /\ logins' = Append(logins, [mobile |-> office[o].mobile, role |-> office[o].role])
  /\ Closes(o)
  /\ UNCHANGED <<partner, tenants, otps, reforms, officeScene>>
CompleteSignup(o) == CreateLogin(o, "signup")
CreateChannelPartner(o) == CreateLogin(o, "channelPartner")
CreateAdminAccount(o) == CreateLogin(o, "account")
CreateTenantAccount(o) == CreateLogin(o, "tenantAccount")

(* createPartnerTenant with a code, or without one and then without an     *)
(* account, and createTenant: the checks before the transaction, on the    *)
(* partner as it is read here.                                             *)
Unspent(otp) == otp.verified /\ ~otp.consumed /\ ~otp.expired
Creation(mobile, area, k) ==
  [step |-> "enforce", mobile |-> mobile, area |-> area, otp |-> k, restricted |-> partner.restricted]
StartPartnerTenant(o, k, area) ==
  /\ partner.active /\ k \in DOMAIN otps /\ otps[k].purpose = "tenant" /\ Unspent(otps[k])
  /\ ~Taken(otps[k].mobile, "tenant")
  /\ Opens(o, "partner", Creation(otps[k].mobile, area, k))
  /\ UNCHANGED <<partner, tenants, logins, otps, reforms, officeScene>>
StartBareTenant(o, area) ==
  /\ partner.active
  /\ Opens(o, "partner", Creation("none", area, 0))
  /\ UNCHANGED <<partner, tenants, logins, otps, reforms, officeScene>>
StartAdminTenant(o, mobile, area) ==
  /\ partner.active /\ ~Taken(mobile, "tenant")
  /\ Opens(o, "admin", Creation(mobile, area, 0))
  /\ UNCHANGED <<partner, tenants, logins, otps, reforms, officeScene>>

\* Mutant: the partner is read instead of written.
ReadsPartner == TRUE

(* enforcePartnerTenantOnboarding: the write of the partner document fails *)
(* while another creation holds it; otherwise it sees what those before it *)
(* have committed, and counts the active tenants of the partner's area.    *)
MayHold == ~Locked

HasRoom == Cardinality(ActiveIn(partner.area)) < partner.limit

Enforce(o) ==
  /\ office[o].step = "enforce"
  /\ LET checked == office[o].restricted /\ partner.active /\ partner.restricted
         granted == [step |-> "insert", mobile |-> office[o].mobile, area |-> office[o].area,
                     otp |-> office[o].otp, locked |-> checked, grown |-> FALSE]
     IN IF ~checked THEN Turns(o, granted)
        ELSE IF MayHold /\ office[o].area = partner.area /\ HasRoom THEN Turns(o, granted)
        ELSE Closes(o)
  /\ UNCHANGED <<partner, tenants, logins, otps, reforms, officeScene>>

Spends(k) == Unspent(otps[k])

(* The calls in progress, which note that tenants were added or changed    *)
(* by a call that does not hold the partner.                               *)
Grown(unheld) ==
  [o \in Offices |-> IF unheld /\ office[o].step = "insert" THEN [office[o] EXCEPT !.grown = TRUE]
                     ELSE office[o]]

(* The rest of the transaction: tenant, policies and account; and, in      *)
(* createPartnerTenant with an account, the code spent, or else nothing.   *)
Commit(o) ==
  /\ office[o].step = "insert" /\ Len(tenants) < TenantLimit /\ Len(logins) < LoginLimit
  /\ tenants' = Append(tenants, [area |-> office[o].area, active |-> TRUE, otp |-> office[o].otp])
  /\ logins' = IF office[o].mobile = "none" THEN logins
               ELSE Append(logins, [mobile |-> office[o].mobile, role |-> "tenant"])
  /\ office' = [Grown(~office[o].locked) EXCEPT ![o] = Closed]
  /\ UNCHANGED <<partner, reforms, officeScene>>
CommitWithoutCode(o) == office[o].step = "insert" /\ office[o].otp = 0 /\ Commit(o) /\ UNCHANGED otps
CommitWithCode(o) ==
  /\ office[o].step = "insert" /\ office[o].otp # 0 /\ Spends(office[o].otp)
  /\ otps' = [otps EXCEPT ![office[o].otp].consumed = TRUE]
  /\ Commit(o)
AbortTenant(o) ==
  /\ office[o].step = "insert"
  /\ Closes(o)
  /\ UNCHANGED <<partner, tenants, logins, otps, reforms, officeScene>>

(* updateChannelPartner and updateChannelPartnerStatus, which wait for the *)
(* creation that holds the document; updateTenant and updateTenantStatus.  *)
Administers == reforms < AdminLimit /\ reforms' = reforms + 1
UpdateChannelPartner ==
  /\ Administers /\ ~Locked
  /\ \E restricted \in BOOLEAN, limit \in Limits, area \in Areas :
       partner' = [partner EXCEPT !.restricted = restricted, !.limit = limit, !.area = area]
  /\ UNCHANGED <<tenants, logins, otps, office, officeScene>>
UpdateChannelPartnerStatus ==
  /\ Administers /\ ~Locked
  /\ partner' = [partner EXCEPT !.active = ~@]
  /\ UNCHANGED <<tenants, logins, otps, office, officeScene>>
TenantSet(k, doc) ==
  /\ Administers
  /\ tenants' = [tenants EXCEPT ![k] = doc]
  /\ office' = Grown(TRUE)
  /\ UNCHANGED <<partner, logins, otps, officeScene>>
UpdateTenant(k, area) == TenantSet(k, [tenants[k] EXCEPT !.area = area])
UpdateTenantStatus(k) == TenantSet(k, [tenants[k] EXCEPT !.active = ~@])

OnboardingNext ==
  \/ \E mobile \in Mobiles : SendSignupOtp(mobile) \/ SendTenantOtp(mobile)
  \/ \E k \in DOMAIN otps : VerifySignupOtp(k) \/ VerifyTenantOtp(k) \/ ExpireOtp(k)
  \/ \E o \in Offices :
       \/ \E k \in DOMAIN otps : StartSignup(o, k) \/ \E area \in Areas : StartPartnerTenant(o, k, area)
       \/ \E mobile \in Mobiles :
            \/ StartChannelPartner(o, mobile) \/ StartTenantAccount(o, mobile)
            \/ \E role \in {"partner", "tenant"} : StartAdminAccount(o, mobile, role)
            \/ \E area \in Areas : StartAdminTenant(o, mobile, area)
       \/ \E area \in Areas : StartBareTenant(o, area)
       \/ CompleteSignup(o) \/ CreateChannelPartner(o) \/ CreateAdminAccount(o) \/ CreateTenantAccount(o)
       \/ Enforce(o) \/ CommitWithoutCode(o) \/ CommitWithCode(o) \/ AbortTenant(o)
  \/ UpdateChannelPartner \/ UpdateChannelPartnerStatus
  \/ \E k \in DOMAIN tenants : UpdateTenantStatus(k) \/ \E area \in Areas : UpdateTenant(k, area)

-----------------------------------------------------------------------------
(* However creations by the partner and the administrator overlap, one that*)
(* is checked never takes the partner beyond its limit of active tenants in*)
(* its area, unless meanwhile a tenant was reactivated or moved, or created*)
(* when the partner was unrestricted (enforcePartnerTenantOnboarding).     *)
LimitHeld ==
  [][\A o \in Offices :
       office[o].step = "insert" /\ office[o].locked /\ ~office[o].grown /\ Len(tenants') > Len(tenants)
         /\ office'[o] = Closed
       => Cardinality(ActiveIn(partner.area)') <= partner.limit]_onboardingVars

(* A verified code stands behind at most one tenant, however often and     *)
(* wherever it is presented (createPartnerTenant).                         *)
OneTenantPerCode ==
  \A k, n \in DOMAIN tenants : tenants[k].otp # 0 /\ tenants[k].otp = tenants[n].otp => k = n

(* What a creation of a tenant uses up is used once: the partner's place   *)
(* and the verified code.                                                  *)
OnboardingHeld == LimitHeld /\ []OneTenantPerCode
=============================================================================
