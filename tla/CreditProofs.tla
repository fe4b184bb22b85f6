--------------------------- MODULE CreditProofs ------------------------------
(***************************************************************************)
(* The overlapping transactions do what the same requests do one at a      *)
(* time, and so keep the books, for any number of tenants and sessions.    *)
(* First what one request does to the database its conditions were checked *)
(* on, with a lemma for each handler, which AppliedGood puts together.     *)
(* Then the invariant, which says of an open transaction that its          *)
(* conditions held on its snapshot and that the documents it will save are *)
(* still those of the snapshot; the conflicts at a commit preserve it.     *)
(* Last the sums: what the decided requests add up to.                     *)
(***************************************************************************)
EXTENDS CreditTransactions, TLAPS, SequenceTheorems, FiniteSums

-----------------------------------------------------------------------------
(* One request on the database its conditions were checked on *)

Chained(ledger, balance) == Atomic!Chained(ledger, balance)

Balanced(d) == d.partner.earned = d.partner.available + d.partner.hold + d.partner.paid

PartnerExplained(d) == Chained(d.partnerLedger.AVAILABLE, d.partner.available)

TenantsExplained(d) == \A t \in Tenants : Chained(d.tenantLedger[t], d.tenants[t].credits)

Decided(d, r) ==
  Atomic!Decided(d.payouts, r.payouts) /\ Atomic!Decided(d.purchases, r.purchases)

\* What a request leaves of the database `d' when it turns it into `r'.
Kept(o, d, r) ==
  /\ << "partner", 0 >> \notin Writes(o, d) => r.partner = d.partner
  /\ \A t \in Tenants : << "tenant", t >> \notin Writes(o, d) => r.tenants[t] = d.tenants[t]
  /\ \A i \in DOMAIN d.payouts :
       /\ i \in DOMAIN r.payouts
       /\ << "payout", i >> \notin Writes(o, d) => r.payouts[i] = d.payouts[i]
  /\ \A i \in DOMAIN d.purchases :
       /\ i \in DOMAIN r.purchases
       /\ << "purchase", i >> \notin Writes(o, d) => r.purchases[i] = d.purchases[i]

PartnerLedgers == [AVAILABLE : Seq(LedgerEntry), HOLD : Seq(LedgerEntry)]

\* The partner's part of an operation, the tenants' part and the requests' part.
PartnerPart(d, r) ==
  /\ r.partner \in Partner /\ r.partnerLedger \in PartnerLedgers
  /\ Balanced(d) => Balanced(r)
  /\ PartnerExplained(d) => PartnerExplained(r)
TenantsPart(d, r) ==
  /\ r.tenants \in [Tenants -> Tenant] /\ r.tenantLedger \in [Tenants -> Seq(LedgerEntry)]
  /\ TenantsExplained(d) => TenantsExplained(r)
RequestsPart(d, r) ==
  r.payouts \in Seq(Payout) /\ r.purchases \in Seq(Purchase) /\ Decided(d, r)

IsDatabase(r) ==
  r = [partner |-> r.partner, tenants |-> r.tenants, payouts |-> r.payouts,
       purchases |-> r.purchases, partnerLedger |-> r.partnerLedger,
       tenantLedger |-> r.tenantLedger]

Good(o, d, r) ==
  IsDatabase(r) /\ PartnerPart(d, r) /\ TenantsPart(d, r) /\ RequestsPart(d, r) /\ Kept(o, d, r)

-----------------------------------------------------------------------------
(* Parts *)

\* A ledger entry, when the balance it leaves is natural.
LEMMA EntryType ==
  ASSUME NEW before \in Nat, NEW delta \in Int, before + delta \in Nat
  PROVE  /\ Entry(before, delta) \in LedgerEntry
         /\ Entry(before, delta).before = before /\ Entry(before, delta).after = before + delta
BY DEF Entry, LedgerEntry

\* An entry from the present balance extends the chain.
LEMMA ChainGrows ==
  ASSUME NEW ledger \in Seq(LedgerEntry), NEW before \in Nat, NEW delta \in Int,
         before + delta \in Nat
  PROVE  /\ Append(ledger, Entry(before, delta)) \in Seq(LedgerEntry)
         /\ Chained(ledger, before)
              => Chained(Append(ledger, Entry(before, delta)), before + delta)
<1> DEFINE e == Entry(before, delta)
           grown == Append(ledger, e)
<1>1. e \in LedgerEntry /\ e.before = before /\ e.after = before + delta
  BY EntryType
<1>2. /\ grown \in Seq(LedgerEntry) /\ Len(grown) = Len(ledger) + 1 /\ Len(ledger) \in Nat
      /\ \A i \in 1 .. Len(ledger) : grown[i] = ledger[i]
      /\ grown[Len(ledger) + 1] = e /\ grown # << >>
  BY <1>1, AppendProperties, LenProperties
<1> HIDE DEF e, grown
<1>3. ASSUME Chained(ledger, before) PROVE Chained(grown, before + delta)
  <2>1. ASSUME NEW i \in 1 .. Len(grown) - 1 PROVE grown[i + 1].before = grown[i].after
    <3>1. CASE i = Len(ledger)
      <4>1. ledger # << >>
        BY <1>2, <3>1
      <4> QED  BY <1>1, <1>2, <1>3, <3>1, <4>1 DEF Chained, Atomic!Chained
    <3>2. CASE i < Len(ledger)
      BY <1>2, <1>3, <3>2 DEF Chained, Atomic!Chained
    <3> QED  BY <1>2, <3>1, <3>2
  <2> QED  BY <1>1, <1>2, <2>1 DEF Chained, Atomic!Chained
<1> QED  BY <1>2, <1>3 DEF e, grown

\* A request whose status changes while it is pending, and a new request.
LEMMA DecideType ==
  ASSUME NEW T, NEW requests \in Seq(T), NEW i \in DOMAIN requests, NEW x \in T
  PROVE  /\ [requests EXCEPT ![i] = x] \in Seq(T)
         /\ requests[i].status = "PENDING" => Atomic!Decided(requests, [requests EXCEPT ![i] = x])
BY ExceptSeq DEF Atomic!Decided

\* A request that is submitted follows the others and changes none of them.
LEMMA SubmitType ==
  ASSUME NEW T, NEW requests \in Seq(T), NEW x \in T
  PROVE  /\ Append(requests, x) \in Seq(T)
         /\ Atomic!Decided(requests, Append(requests, x))
         /\ \A i \in DOMAIN requests :
              i \in DOMAIN Append(requests, x) /\ Append(requests, x)[i] = requests[i]
BY AppendProperties, LenProperties DEF Atomic!Decided

\* The documents of a database.
LEMMA DatabaseParts ==
  ASSUME NEW d \in Database
  PROVE  /\ d.partner \in Partner /\ d.tenants \in [Tenants -> Tenant]
         /\ d.payouts \in Seq(Payout) /\ d.purchases \in Seq(Purchase)
         /\ d.partnerLedger \in PartnerLedgers /\ d.tenantLedger \in [Tenants -> Seq(LedgerEntry)]
BY DEF Database, PartnerLedgers

\* What leaves the partner and its ledger alone keeps its books.
LEMMA QuietPartner ==
  ASSUME NEW d \in Database, NEW r, r.partner = d.partner, r.partnerLedger = d.partnerLedger
  PROVE  PartnerPart(d, r)
BY DatabaseParts DEF PartnerPart, Balanced, PartnerExplained

\* What leaves the tenants and their ledgers alone keeps theirs.
LEMMA QuietTenants ==
  ASSUME NEW d \in Database, NEW r, r.tenants = d.tenants, r.tenantLedger = d.tenantLedger
  PROVE  TenantsPart(d, r)
BY DatabaseParts DEF TenantsPart, TenantsExplained

\* The partner's balances change, and the ledger records by how much the first does.
LEMMA PartnerMoves ==
  ASSUME NEW d \in Database, NEW r, r.partner \in Partner,
         NEW delta, delta = r.partner.available - d.partner.available,
         r.partnerLedger = [d.partnerLedger EXCEPT !.AVAILABLE =
                              Append(d.partnerLedger.AVAILABLE,
                                     Entry(d.partner.available, delta))],
         Balanced(d) => Balanced(r)
  PROVE  PartnerPart(d, r)
<1>1. /\ d.partnerLedger \in PartnerLedgers
      /\ d.partnerLedger.AVAILABLE \in Seq(LedgerEntry) /\ d.partner.available \in Nat
  BY DatabaseParts DEF PartnerLedgers, Partner
<1>2. /\ r.partner.available \in Nat /\ delta \in Int
      /\ d.partner.available + delta = r.partner.available
  BY <1>1 DEF Partner
<1>3. LET grown == Append(d.partnerLedger.AVAILABLE, Entry(d.partner.available, delta)) IN
      /\ grown \in Seq(LedgerEntry)
      /\ Chained(d.partnerLedger.AVAILABLE, d.partner.available)
           => Chained(grown, r.partner.available)
  BY <1>1, <1>2, ChainGrows
<1>4. r.partnerLedger \in PartnerLedgers
  BY <1>1, <1>3 DEF PartnerLedgers
<1>5. PartnerExplained(d) => PartnerExplained(r)
  BY <1>1, <1>3 DEF PartnerExplained, PartnerLedgers
<1> QED  BY <1>4, <1>5 DEF PartnerPart

\* The credits of one tenant change, and its ledger records by how much.
Moved(d, r, t, delta) ==
  /\ r.tenants \in [Tenants -> Tenant] /\ r.tenantLedger \in [Tenants -> Seq(LedgerEntry)]
  /\ delta = r.tenants[t].credits - d.tenants[t].credits
  /\ r.tenantLedger[t] = Append(d.tenantLedger[t], Entry(d.tenants[t].credits, delta))
  /\ \A u \in Tenants \ {t} :
       r.tenants[u] = d.tenants[u] /\ r.tenantLedger[u] = d.tenantLedger[u]

\* A movement of one tenant's credits, with its entry, keeps the books of the tenants.
LEMMA CreditsMove ==
  ASSUME NEW d \in Database, NEW r, NEW t \in Tenants, NEW delta, Moved(d, r, t, delta)
  PROVE  TenantsPart(d, r)
<1>0. /\ r.tenants \in [Tenants -> Tenant] /\ r.tenantLedger \in [Tenants -> Seq(LedgerEntry)]
      /\ delta = r.tenants[t].credits - d.tenants[t].credits
      /\ r.tenantLedger[t] = Append(d.tenantLedger[t], Entry(d.tenants[t].credits, delta))
      /\ \A u \in Tenants \ {t} :
           r.tenants[u] = d.tenants[u] /\ r.tenantLedger[u] = d.tenantLedger[u]
  BY DEF Moved
<1>1. /\ d.tenants[t].credits \in Nat /\ r.tenants[t].credits \in Nat
      /\ d.tenantLedger \in [Tenants -> Seq(LedgerEntry)] /\ d.tenantLedger[t] \in Seq(LedgerEntry)
  BY <1>0, DatabaseParts DEF Tenant
<1>2. delta \in Int /\ d.tenants[t].credits + delta = r.tenants[t].credits
  BY <1>0, <1>1
<1>3. /\ r.tenantLedger[t] \in Seq(LedgerEntry)
      /\ Chained(d.tenantLedger[t], d.tenants[t].credits)
           => Chained(r.tenantLedger[t], d.tenants[t].credits + delta)
  <2> DEFINE ledger == d.tenantLedger[t]
             before == d.tenants[t].credits
  <2>1. /\ ledger \in Seq(LedgerEntry) /\ before \in Nat /\ before + delta \in Nat
        /\ r.tenantLedger[t] = Append(ledger, Entry(before, delta))
    BY <1>0, <1>1, <1>2
  <2> HIDE DEF ledger, before
  <2>2. /\ Append(ledger, Entry(before, delta)) \in Seq(LedgerEntry)
        /\ Chained(ledger, before)
             => Chained(Append(ledger, Entry(before, delta)), before + delta)
    <3>1. delta \in Int
      BY <1>2
    <3>2. ledger \in Seq(LedgerEntry) /\ before \in Nat /\ before + delta \in Nat
      BY <2>1
    <3> QED  BY <3>1, <3>2, ChainGrows
  <2> QED  BY <2>1, <2>2 DEF ledger, before
<1>5. ASSUME TenantsExplained(d), NEW u \in Tenants
      PROVE  Chained(r.tenantLedger[u], r.tenants[u].credits)
  <2>1. Chained(d.tenantLedger[u], d.tenants[u].credits)
    BY <1>5 DEF TenantsExplained
  <2>2. CASE u = t
    BY <1>2, <1>3, <2>1, <2>2
  <2>3. CASE u # t
    BY <1>0, <2>1, <2>3
  <2> QED  BY <2>2, <2>3
<1> QED  BY <1>0, <1>5 DEF TenantsPart, TenantsExplained

-----------------------------------------------------------------------------
(* Operations *)

\* A payout request moves what is available to hold.
LEMMA RequestPayoutGood ==
  ASSUME NEW d \in Database, NEW o, o.kind = "requestPayout", o.amount \in Nat,
         d.partner.available >= o.amount, NEW r, r = RequestPayout(o, d, d)
  PROVE  Good(o, d, r)
<1>1. /\ r.partner = [d.partner EXCEPT !.available = d.partner.available - o.amount,
                                       !.hold = d.partner.hold + o.amount]
      /\ r.partnerLedger = [d.partnerLedger EXCEPT !.AVAILABLE =
                              Append(d.partnerLedger.AVAILABLE,
                                     Entry(d.partner.available, -o.amount))]
      /\ r.payouts = Append(d.payouts, [amount |-> o.amount, status |-> "PENDING"])
      /\ r.purchases = d.purchases /\ r.tenants = d.tenants /\ r.tenantLedger = d.tenantLedger
      /\ IsDatabase(r)
  BY DEF RequestPayout, Database, IsDatabase
<1>2. d.partner \in Partner /\ d.partnerLedger \in PartnerLedgers
  BY DatabaseParts
<1>3. r.partner \in Partner /\ -o.amount = r.partner.available - d.partner.available
  <2>1. /\ r.partner.available = d.partner.available - o.amount
        /\ r.partner.hold = d.partner.hold + o.amount
        /\ r.partner.earned = d.partner.earned /\ r.partner.paid = d.partner.paid
    BY <1>1, <1>2 DEF Partner
  <2>2. d.partner.available \in Nat /\ d.partner.hold \in Nat
    BY <1>2 DEF Partner
  <2>3. d.partner.available - o.amount \in Nat /\ d.partner.hold + o.amount \in Nat
    BY <2>2
  <2>4. r.partner \in Partner
    BY <1>1, <1>2, <2>3 DEF Partner
  <2>5. -o.amount = r.partner.available - d.partner.available
    BY <2>1, <2>2
  <2> QED  BY <2>4, <2>5
<1>4. Balanced(d) => Balanced(r)
  BY <1>1, <1>2 DEF Balanced, Partner
<1>5. PartnerPart(d, r)
  BY <1>1, <1>3, <1>4, PartnerMoves
<1>7. TenantsPart(d, r)
  BY <1>1, QuietTenants
<1>8. [amount |-> o.amount, status |-> "PENDING"] \in Payout
  BY DEF Payout, Statuses
<1>9. RequestsPart(d, r)
  BY <1>1, <1>8, SubmitType, DatabaseParts DEF RequestsPart, Decided, Atomic!Decided
<1>10. Kept(o, d, r)
  BY <1>1, <1>8, SubmitType, DatabaseParts DEF Kept, Writes, SavedPartner
<1> QED  BY <1>1, <1>5, <1>7, <1>9, <1>10 DEF Good

\* An approved payout moves what is on hold to paid.
LEMMA ApprovePayoutGood ==
  ASSUME NEW d \in Database, NEW o, o.kind = "approvePayout", o.id \in DOMAIN d.payouts,
         PayoutDecidable(o, d), NEW r, r = ApprovePayout(o, d, d)
  PROVE  Good(o, d, r)
<1> DEFINE amount == d.payouts[o.id].amount
           decided == [d.payouts[o.id] EXCEPT !.status = "APPROVED"]
<1>1. /\ r.partner = [d.partner EXCEPT !.hold = d.partner.hold - amount,
                                       !.paid = d.partner.paid + amount]
      /\ r.partnerLedger = [d.partnerLedger EXCEPT !.HOLD =
                              Append(d.partnerLedger.HOLD, Entry(d.partner.hold, -amount))]
      /\ r.payouts = [d.payouts EXCEPT ![o.id] = decided]
      /\ r.purchases = d.purchases /\ r.tenants = d.tenants /\ r.tenantLedger = d.tenantLedger
      /\ IsDatabase(r)
  BY DEF ApprovePayout, Database, IsDatabase
<1>2. /\ d.partner \in Partner /\ d.partnerLedger \in PartnerLedgers
      /\ d.payouts \in Seq(Payout) /\ d.payouts[o.id] \in Payout
  BY DatabaseParts
<1>3. /\ amount \in Nat /\ decided \in Payout /\ d.payouts[o.id].status = "PENDING"
      /\ d.partner.hold \in Nat /\ d.partner.paid \in Nat /\ d.partner.hold >= amount
  BY <1>2 DEF Payout, Statuses, PayoutDecidable, Partner
<1> HIDE DEF amount, decided
<1>4. /\ d.partner.hold - amount \in Nat /\ d.partner.paid + amount \in Nat
      /\ -amount \in Int /\ d.partner.hold + (-amount) \in Nat
  BY <1>3
<1>5. PartnerPart(d, r)
  <2>1. r.partner \in Partner /\ r.partner.available = d.partner.available
    BY <1>1, <1>2, <1>4 DEF Partner
  <2>2. /\ r.partnerLedger \in PartnerLedgers
        /\ r.partnerLedger.AVAILABLE = d.partnerLedger.AVAILABLE
    <3>1. d.partnerLedger.HOLD \in Seq(LedgerEntry)
      BY <1>2 DEF PartnerLedgers
    <3>2. Append(d.partnerLedger.HOLD, Entry(d.partner.hold, -amount)) \in Seq(LedgerEntry)
      BY <1>3, <1>4, <3>1, ChainGrows
    <3> QED  BY <1>1, <1>2, <3>2 DEF PartnerLedgers
  <2>3. Balanced(d) => Balanced(r)
    BY <1>1, <1>2, <1>3 DEF Balanced, Partner
  <2> QED  BY <2>1, <2>2, <2>3 DEF PartnerPart, PartnerExplained
<1>6. TenantsPart(d, r)
  BY <1>1, QuietTenants
<1>7. RequestsPart(d, r)
  BY <1>1, <1>2, <1>3, DecideType, DatabaseParts DEF RequestsPart, Decided, Atomic!Decided
<1>8. Kept(o, d, r)
  BY <1>1, <1>2 DEF Kept, Writes, SavedPartner, SavedRequest
<1> QED  BY <1>1, <1>5, <1>6, <1>7, <1>8 DEF Good

\* A rejected payout moves what is on hold back.
LEMMA RejectPayoutGood ==
  ASSUME NEW d \in Database, NEW o, o.kind = "rejectPayout", o.id \in DOMAIN d.payouts,
         PayoutDecidable(o, d), NEW r, r = RejectPayout(o, d, d)
  PROVE  Good(o, d, r)
<1> DEFINE amount == d.payouts[o.id].amount
           decided == [d.payouts[o.id] EXCEPT !.status = "REJECTED"]
<1>1. /\ r.partner = [d.partner EXCEPT !.available = d.partner.available + amount,
                                       !.hold = d.partner.hold - amount]
      /\ r.partnerLedger = [d.partnerLedger EXCEPT !.AVAILABLE =
                              Append(d.partnerLedger.AVAILABLE,
                                     Entry(d.partner.available, amount))]
      /\ r.payouts = [d.payouts EXCEPT ![o.id] = decided]
      /\ r.purchases = d.purchases /\ r.tenants = d.tenants /\ r.tenantLedger = d.tenantLedger
      /\ IsDatabase(r)
  BY DEF RejectPayout, Database, IsDatabase
<1>2. /\ d.partner \in Partner /\ d.payouts \in Seq(Payout) /\ d.payouts[o.id] \in Payout
  BY DatabaseParts
<1>3. /\ amount \in Nat /\ decided \in Payout /\ d.payouts[o.id].status = "PENDING"
      /\ d.partner.hold \in Nat /\ d.partner.available \in Nat /\ d.partner.hold >= amount
  BY <1>2 DEF Payout, Statuses, PayoutDecidable, Partner
<1> HIDE DEF amount, decided
<1>4. d.partner.hold - amount \in Nat /\ d.partner.available + amount \in Nat
  BY <1>3
<1>5. PartnerPart(d, r)
  <2>1. r.partner \in Partner /\ r.partner.available = d.partner.available + amount
    BY <1>1, <1>2, <1>4 DEF Partner
  <2>2. amount = r.partner.available - d.partner.available
    BY <1>3, <2>1
  <2>3. Balanced(d) => Balanced(r)
    BY <1>1, <1>2, <1>3 DEF Balanced, Partner
  <2> QED  BY <1>1, <2>1, <2>2, <2>3, PartnerMoves
<1>6. TenantsPart(d, r)
  BY <1>1, QuietTenants
<1>7. RequestsPart(d, r)
  BY <1>1, <1>2, <1>3, DecideType, DatabaseParts DEF RequestsPart, Decided, Atomic!Decided
<1>8. Kept(o, d, r)
  BY <1>1, <1>2 DEF Kept, Writes, SavedPartner, SavedRequest
<1> QED  BY <1>1, <1>5, <1>6, <1>7, <1>8 DEF Good

\* A submitted purchase moves nothing.
LEMMA SubmitPurchaseGood ==
  ASSUME NEW d \in Database, NEW o, o.kind = "submitPurchase", o.tenant \in Tenants,
         o.credits \in Nat, NEW r, r = SubmitPurchase(o, d)
  PROVE  Good(o, d, r)
<1> DEFINE purchase == [tenant |-> o.tenant, credits |-> o.credits, status |-> "PENDING"]
<1>1. /\ r.purchases = Append(d.purchases, purchase)
      /\ r.partner = d.partner /\ r.partnerLedger = d.partnerLedger /\ r.payouts = d.payouts
      /\ r.tenants = d.tenants /\ r.tenantLedger = d.tenantLedger
      /\ IsDatabase(r)
  BY DEF SubmitPurchase, Database, IsDatabase
<1>2. purchase \in Purchase
  BY DEF Purchase, Statuses
<1> HIDE DEF purchase
<1>3. RequestsPart(d, r)
  BY <1>1, <1>2, SubmitType, DatabaseParts DEF RequestsPart, Decided, Atomic!Decided
<1>4. Kept(o, d, r)
  BY <1>1, <1>2, SubmitType, DatabaseParts DEF Kept
<1> QED  BY <1>1, <1>3, <1>4, QuietPartner, QuietTenants DEF Good

\* A rejected purchase moves nothing.
LEMMA RejectPurchaseGood ==
  ASSUME NEW d \in Database, NEW o, o.kind = "rejectPurchase", o.id \in DOMAIN d.purchases,
         d.purchases[o.id].status = "PENDING", NEW r, r = RejectPurchase(o, d)
  PROVE  Good(o, d, r)
<1> DEFINE decided == [d.purchases[o.id] EXCEPT !.status = "REJECTED"]
<1>1. /\ r.purchases = [d.purchases EXCEPT ![o.id] = decided]
      /\ r.partner = d.partner /\ r.partnerLedger = d.partnerLedger /\ r.payouts = d.payouts
      /\ r.tenants = d.tenants /\ r.tenantLedger = d.tenantLedger
      /\ IsDatabase(r)
  BY DEF RejectPurchase, Database, IsDatabase
<1>2. d.purchases \in Seq(Purchase) /\ d.purchases[o.id] \in Purchase
  BY DatabaseParts
<1>3. decided \in Purchase
  BY <1>2 DEF Purchase, Statuses
<1> HIDE DEF decided
<1>4. RequestsPart(d, r)
  BY <1>1, <1>2, <1>3, DecideType, DatabaseParts DEF RequestsPart, Decided, Atomic!Decided
<1>5. Kept(o, d, r)
  BY <1>1, <1>2 DEF Kept, Writes, SavedRequest
<1> QED  BY <1>1, <1>4, <1>5, QuietPartner, QuietTenants DEF Good

\* A commission, on a database whose partner is still that of `d'.
LEMMA AwardPart ==
  ASSUME NEW d \in Database, NEW e, IsDatabase(e), NEW c \in Nat,
         e.partner = d.partner, e.partnerLedger = d.partnerLedger, NEW r, r = Award(c, d, e)
  PROVE  /\ PartnerPart(d, r) /\ IsDatabase(r)
         /\ r.tenants = e.tenants /\ r.tenantLedger = e.tenantLedger
         /\ r.payouts = e.payouts /\ r.purchases = e.purchases
         /\ c = 0 => r.partner = d.partner
<1>1. CASE c = 0
  BY <1>1, QuietPartner DEF Award
<1>2. CASE c # 0
  <2>1. /\ r.partner = [d.partner EXCEPT !.available = d.partner.available + c,
                                         !.earned = d.partner.earned + c]
        /\ r.partnerLedger = [d.partnerLedger EXCEPT !.AVAILABLE =
                                Append(d.partnerLedger.AVAILABLE,
                                       Entry(d.partner.available, c))]
        /\ r.tenants = e.tenants /\ r.tenantLedger = e.tenantLedger
        /\ r.payouts = e.payouts /\ r.purchases = e.purchases
        /\ IsDatabase(r)
    BY <1>2 DEF Award, Database, IsDatabase
  <2>2. d.partner \in Partner
    BY DatabaseParts
  <2>3. d.partner.available + c \in Nat /\ d.partner.earned + c \in Nat /\ d.partner.available \in Nat
    BY <2>2 DEF Partner
  <2>4. r.partner \in Partner /\ r.partner.available = d.partner.available + c
    BY <2>1, <2>2, <2>3 DEF Partner
  <2>5. c = r.partner.available - d.partner.available
    BY <2>3, <2>4
  <2>6. Balanced(d) => Balanced(r)
    BY <2>1, <2>2 DEF Balanced, Partner
  <2>7. PartnerPart(d, r)
    BY <2>1, <2>4, <2>5, <2>6, PartnerMoves
  <2> QED  BY <1>2, <2>1, <2>7
<1> QED  BY <1>1, <1>2

\* An approved purchase moves credits to the tenant and a commission to the partner.
LEMMA ApprovePurchaseGood ==
  ASSUME NEW d \in Database, NEW o, o.kind = "approvePurchase", o.id \in DOMAIN d.purchases,
         o.commission \in Nat, d.purchases[o.id].status = "PENDING",
         NEW r, r = ApprovePurchase(o, d, d)
  PROVE  Good(o, d, r)
<1> DEFINE p == d.purchases[o.id]
           decided == [p EXCEPT !.status = "APPROVED"]
           tenant == d.tenants[p.tenant]
           bought == [credits |-> tenant.credits + p.credits,
                      purchased |-> tenant.purchased + p.credits]
           e == [d EXCEPT !.tenants[p.tenant] = bought,
                          !.tenantLedger[p.tenant] = Append(@, Entry(tenant.credits, p.credits)),
                          !.purchases[o.id].status = "APPROVED"]
<1>1. r = Award(o.commission, d, e)
  BY DEF ApprovePurchase
<1>2. /\ e.partner = d.partner /\ e.partnerLedger = d.partnerLedger /\ e.payouts = d.payouts
      /\ IsDatabase(e)
  <2>1. e.partner = d.partner
    BY DEF Database
  <2>2. e.partnerLedger = d.partnerLedger /\ e.payouts = d.payouts
    BY DEF Database
  <2>3. e = [d EXCEPT !.tenants = e.tenants, !.tenantLedger = e.tenantLedger,
                      !.purchases = e.purchases]
    BY DEF Database
  <2> HIDE DEF e
  <2>4. IsDatabase(e)
    BY <2>3 DEF Database, IsDatabase
  <2> QED  BY <2>1, <2>2, <2>4
<1>3. /\ e.tenants = [d.tenants EXCEPT ![p.tenant] = bought]
      /\ e.tenantLedger = [d.tenantLedger EXCEPT ![p.tenant] =
                             Append(d.tenantLedger[p.tenant], Entry(tenant.credits, p.credits))]
  BY DEF Database
<1>4. e.purchases = [d.purchases EXCEPT ![o.id] = decided]
  BY DEF Database
<1> HIDE DEF e
<1>5. /\ PartnerPart(d, r) /\ IsDatabase(r)
      /\ r.tenants = e.tenants /\ r.tenantLedger = e.tenantLedger
      /\ r.payouts = e.payouts /\ r.purchases = e.purchases
      /\ o.commission = 0 => r.partner = d.partner
  BY <1>1, <1>2, AwardPart
<1>6. d.purchases \in Seq(Purchase) /\ p \in Purchase
  BY DatabaseParts
<1>7. decided \in Purchase /\ p.tenant \in Tenants /\ p.credits \in Nat /\ p.status = "PENDING"
  BY <1>6 DEF Purchase, Statuses
<1> HIDE DEF p, decided
<1>8. /\ tenant.credits \in Nat /\ tenant.purchased \in Nat
      /\ tenant.purchased + p.credits \in Nat /\ tenant.credits + p.credits \in Nat
  <2>1. tenant \in Tenant
    BY <1>7, DatabaseParts
  <2>2. tenant.credits \in Nat /\ tenant.purchased \in Nat
    BY <2>1 DEF Tenant
  <2> QED  BY <1>7, <2>2
<1>9. /\ r.tenants \in [Tenants -> Tenant]
      /\ r.tenants[p.tenant].credits = tenant.credits + p.credits
      /\ \A t \in Tenants \ {p.tenant} : r.tenants[t] = d.tenants[t]
  BY <1>3, <1>5, <1>7, <1>8, DatabaseParts DEF Tenant
<1>10. TenantsPart(d, r)
  <2>1. p.credits = r.tenants[p.tenant].credits - d.tenants[p.tenant].credits
    BY <1>7, <1>8, <1>9
  <2>2. r.tenantLedger = [d.tenantLedger EXCEPT ![p.tenant] =
                            Append(d.tenantLedger[p.tenant],
                                   Entry(d.tenants[p.tenant].credits, p.credits))]
    BY <1>3, <1>5
  <2>4. Append(d.tenantLedger[p.tenant], Entry(d.tenants[p.tenant].credits, p.credits))
          \in Seq(LedgerEntry)
    <3>1. d.tenantLedger[p.tenant] \in Seq(LedgerEntry) /\ p.credits \in Int
      BY <1>7, DatabaseParts
    <3> QED  BY <1>7, <1>8, <3>1, ChainGrows
  <2>3. /\ r.tenantLedger \in [Tenants -> Seq(LedgerEntry)]
        /\ r.tenantLedger[p.tenant] = Append(d.tenantLedger[p.tenant],
                                             Entry(d.tenants[p.tenant].credits, p.credits))
        /\ \A u \in Tenants \ {p.tenant} : r.tenantLedger[u] = d.tenantLedger[u]
    BY <1>7, <2>2, <2>4, DatabaseParts
  <2>5. Moved(d, r, p.tenant, p.credits)
    BY <1>9, <2>1, <2>3 DEF Moved
  <2> QED  BY <1>7, <2>5, CreditsMove
<1>11. /\ r.purchases \in Seq(Purchase) /\ Atomic!Decided(d.purchases, r.purchases)
       /\ \A i \in DOMAIN d.purchases : /\ i \in DOMAIN r.purchases
                                        /\ i # o.id => r.purchases[i] = d.purchases[i]
  <2>1. d.purchases[o.id].status = "PENDING"
    OBVIOUS
  <2> QED  BY <1>4, <1>5, <1>6, <1>7, <2>1, DecideType
<1>12. RequestsPart(d, r)
  BY <1>2, <1>5, <1>11, DatabaseParts DEF RequestsPart, Decided, Atomic!Decided
<1>13. Kept(o, d, r)
  BY <1>2, <1>5, <1>9, <1>11 DEF Kept, Writes, SavedPartner, SavedTenant, SavedRequest, p
<1> QED  BY <1>5, <1>10, <1>12, <1>13 DEF Good

\* adjustTenantCredits and an enrollment change the credits of one tenant.
LEMMA ChangeCreditsPart ==
  ASSUME NEW d \in Database, NEW t \in Tenants, NEW delta \in Int,
         d.tenants[t].credits + delta \in Nat, NEW e, e = ChangeCredits(t, delta, d, d)
  PROVE  /\ TenantsPart(d, e) /\ IsDatabase(e)
         /\ \A u \in Tenants \ {t} : e.tenants[u] = d.tenants[u]
         /\ e.partner = d.partner /\ e.partnerLedger = d.partnerLedger
         /\ e.payouts = d.payouts /\ e.purchases = d.purchases
<1>1. /\ e.tenants = [d.tenants EXCEPT ![t] =
                        [d.tenants[t] EXCEPT !.credits = d.tenants[t].credits + delta]]
      /\ e.tenantLedger = [d.tenantLedger EXCEPT ![t] =
                             Append(d.tenantLedger[t], Entry(d.tenants[t].credits, delta))]
      /\ e.partner = d.partner /\ e.partnerLedger = d.partnerLedger
      /\ e.payouts = d.payouts /\ e.purchases = d.purchases
      /\ IsDatabase(e)
  BY DEF ChangeCredits, Database, IsDatabase
<1>2. d.tenants[t] \in Tenant
  BY DatabaseParts
<1>3. /\ [d.tenants[t] EXCEPT !.credits = d.tenants[t].credits + delta]
           = [credits |-> d.tenants[t].credits + delta, purchased |-> d.tenants[t].purchased]
      /\ d.tenants[t].purchased \in Nat
  BY <1>2 DEF Tenant
<1>4. /\ e.tenants \in [Tenants -> Tenant]
      /\ e.tenants[t].credits = d.tenants[t].credits + delta
      /\ \A u \in Tenants \ {t} : e.tenants[u] = d.tenants[u]
  BY <1>1, <1>3, DatabaseParts DEF Tenant
<1>5. delta = e.tenants[t].credits - d.tenants[t].credits
  BY <1>2, <1>4 DEF Tenant
<1>6. TenantsPart(d, e)
  <2>2. Append(d.tenantLedger[t], Entry(d.tenants[t].credits, delta)) \in Seq(LedgerEntry)
    <3>1. d.tenantLedger[t] \in Seq(LedgerEntry) /\ d.tenants[t].credits \in Nat
      BY <1>2, DatabaseParts DEF Tenant
    <3> QED  BY <3>1, ChainGrows
  <2>1. /\ e.tenantLedger \in [Tenants -> Seq(LedgerEntry)]
        /\ e.tenantLedger[t] = Append(d.tenantLedger[t], Entry(d.tenants[t].credits, delta))
        /\ \A u \in Tenants \ {t} : e.tenantLedger[u] = d.tenantLedger[u]
    BY <1>1, <2>2, DatabaseParts
  <2>3. Moved(d, e, t, delta)
    BY <1>4, <1>5, <2>1 DEF Moved
  <2> QED  BY <2>3, CreditsMove
<1> QED  BY <1>1, <1>6, DatabaseParts

\* Nothing happens to the requests.
LEMMA QuietRequests ==
  ASSUME NEW d \in Database, NEW r, r.payouts = d.payouts, r.purchases = d.purchases
  PROVE  RequestsPart(d, r)
BY DatabaseParts DEF RequestsPart, Decided, Atomic!Decided

\* A charge takes what the tenant has.
LEMMA SpendCreditsGood ==
  ASSUME NEW d \in Database, NEW o, o.kind \in {"deduct", "enroll"}, o.tenant \in Tenants,
         Charge(o) \in Nat, d.tenants[o.tenant].credits >= Charge(o),
         NEW r, r = SpendCredits(o, d, d)
  PROVE  Good(o, d, r)
<1>1. d.tenants[o.tenant].credits \in Nat
  BY DatabaseParts DEF Tenant
<1>2. -Charge(o) \in Int /\ d.tenants[o.tenant].credits + (-Charge(o)) \in Nat
  BY <1>1
<1>3. /\ TenantsPart(d, r) /\ IsDatabase(r)
      /\ \A u \in Tenants \ {o.tenant} : r.tenants[u] = d.tenants[u]
      /\ r.partner = d.partner /\ r.partnerLedger = d.partnerLedger
      /\ r.payouts = d.payouts /\ r.purchases = d.purchases
  BY <1>2, ChangeCreditsPart DEF SpendCredits
<1>4. Kept(o, d, r)
  BY <1>3 DEF Kept, Writes, SavedTenant
<1> QED  BY <1>3, <1>4, QuietPartner, QuietRequests DEF Good

\* A grant moves credits and a commission, as a purchase does.
LEMMA GrantCreditsGood ==
  ASSUME NEW d \in Database, NEW o, o.kind = "grant", o.tenant \in Tenants, o.credits \in Nat,
         o.commission \in Nat, NEW r, r = GrantCredits(o, d, d)
  PROVE  Good(o, d, r)
<1> DEFINE e == ChangeCredits(o.tenant, o.credits, d, d)
<1>1. d.tenants[o.tenant].credits \in Nat
  BY DatabaseParts DEF Tenant
<1>2. /\ TenantsPart(d, e) /\ IsDatabase(e)
      /\ \A u \in Tenants \ {o.tenant} : e.tenants[u] = d.tenants[u]
      /\ e.partner = d.partner /\ e.partnerLedger = d.partnerLedger
      /\ e.payouts = d.payouts /\ e.purchases = d.purchases
  BY <1>1, ChangeCreditsPart
<1>3. r = Award(o.commission, d, e)
  BY DEF GrantCredits
<1> HIDE DEF e
<1>4. /\ PartnerPart(d, r) /\ IsDatabase(r)
      /\ r.tenants = e.tenants /\ r.tenantLedger = e.tenantLedger
      /\ r.payouts = d.payouts /\ r.purchases = d.purchases
      /\ o.commission = 0 => r.partner = d.partner
  BY <1>2, <1>3, AwardPart
<1>5. TenantsPart(d, r)
  BY <1>2, <1>4 DEF TenantsPart, TenantsExplained
<1>6. Kept(o, d, r)
  BY <1>2, <1>4 DEF Kept, Writes, SavedPartner, SavedTenant
<1> QED  BY <1>4, <1>5, <1>6, QuietRequests DEF Good

\* Which requests there are.
LEMMA RequestKinds ==
  ASSUME NEW d, NEW o \in Requests(d)
  PROVE  \/ o.kind = "requestPayout" /\ o.amount \in Amounts
         \/ o.kind \in {"approvePayout", "rejectPayout"} /\ o.id \in DOMAIN d.payouts
         \/ o.kind = "submitPurchase" /\ o.tenant \in Tenants /\ o.credits \in Credits
         \/ /\ o.kind = "approvePurchase" /\ o.id \in DOMAIN d.purchases
            /\ o.commission \in Commissions
         \/ o.kind = "rejectPurchase" /\ o.id \in DOMAIN d.purchases
         \/ /\ o.kind = "grant" /\ o.tenant \in Tenants /\ o.credits \in Credits
            /\ o.commission \in Commissions
         \/ o.kind = "deduct" /\ o.tenant \in Tenants /\ o.credits \in Credits
         \/ o.kind = "enroll" /\ o.tenant \in Tenants
BY DEF Requests

\* Whatever the request, on the database its conditions were checked on.
LEMMA AppliedGood ==
  ASSUME NEW d \in Database, NEW o \in Requests(d), Allowed(o, d)
  PROVE  Good(o, d, Applied(o, d, d))
<1> USE AmountsAssumption, CreditsAssumption, CommissionsAssumption
<1>1. CASE o.kind = "requestPayout"
  <2>1. o.amount \in Nat /\ d.partner.available >= o.amount
    BY <1>1, RequestKinds DEF Allowed
  <2>2. Applied(o, d, d) = RequestPayout(o, d, d)
    BY <1>1 DEF Applied
  <2> QED  BY <1>1, <2>1, <2>2, RequestPayoutGood
<1>2. CASE o.kind = "approvePayout"
  <2>1. o.id \in DOMAIN d.payouts /\ PayoutDecidable(o, d)
    BY <1>2, RequestKinds DEF Allowed
  <2>2. Applied(o, d, d) = ApprovePayout(o, d, d)
    BY <1>2 DEF Applied
  <2> QED  BY <1>2, <2>1, <2>2, ApprovePayoutGood
<1>3. CASE o.kind = "rejectPayout"
  <2>1. o.id \in DOMAIN d.payouts /\ PayoutDecidable(o, d)
    BY <1>3, RequestKinds DEF Allowed
  <2>2. Applied(o, d, d) = RejectPayout(o, d, d)
    BY <1>3 DEF Applied
  <2> QED  BY <1>3, <2>1, <2>2, RejectPayoutGood
<1>4. CASE o.kind = "submitPurchase"
  <2>1. o.tenant \in Tenants /\ o.credits \in Nat
    BY <1>4, RequestKinds
  <2>2. Applied(o, d, d) = SubmitPurchase(o, d)
    BY <1>4 DEF Applied
  <2> QED  BY <1>4, <2>1, <2>2, SubmitPurchaseGood
<1>5. CASE o.kind = "approvePurchase"
  <2>1. /\ o.id \in DOMAIN d.purchases /\ o.commission \in Nat
        /\ d.purchases[o.id].status = "PENDING"
    BY <1>5, RequestKinds DEF Allowed
  <2>2. Applied(o, d, d) = ApprovePurchase(o, d, d)
    BY <1>5 DEF Applied
  <2> QED  BY <1>5, <2>1, <2>2, ApprovePurchaseGood
<1>6. CASE o.kind = "rejectPurchase"
  <2>1. o.id \in DOMAIN d.purchases /\ d.purchases[o.id].status = "PENDING"
    BY <1>6, RequestKinds DEF Allowed
  <2>2. Applied(o, d, d) = RejectPurchase(o, d)
    BY <1>6 DEF Applied
  <2> QED  BY <1>6, <2>1, <2>2, RejectPurchaseGood
<1>7. CASE o.kind = "grant"
  <2>1. o.tenant \in Tenants /\ o.credits \in Nat /\ o.commission \in Nat
    BY <1>7, RequestKinds
  <2>2. Applied(o, d, d) = GrantCredits(o, d, d)
    BY <1>7 DEF Applied
  <2> QED  BY <1>7, <2>1, <2>2, GrantCreditsGood
<1>8. CASE o.kind \in {"deduct", "enroll"}
  <2>1. o.tenant \in Tenants /\ Charge(o) \in Nat
    BY <1>8, RequestKinds DEF Charge
  <2>2. d.tenants[o.tenant].credits >= Charge(o)
    BY <1>8 DEF Allowed
  <2>3. Applied(o, d, d) = SpendCredits(o, d, d)
    BY <1>8 DEF Applied
  <2> QED  BY <1>8, <2>1, <2>2, <2>3, SpendCreditsGood
<1> QED  BY <1>1, <1>2, <1>3, <1>4, <1>5, <1>6, <1>7, <1>8, RequestKinds

\* A good result is a database.
LEMMA GoodType ==
  ASSUME NEW o, NEW d, NEW r, Good(o, d, r)
  PROVE  r \in Database
BY DEF Good, IsDatabase, PartnerPart, TenantsPart, RequestsPart, PartnerLedgers, Database

-----------------------------------------------------------------------------
(* Overlapping transactions *)

\* The documents that `o' saves are the same in `s' and in `d'.
Current(o, s, d) ==
  /\ << "partner", 0 >> \in Writes(o, s) => s.partner = d.partner
  /\ \A t \in Tenants : << "tenant", t >> \in Writes(o, s) => s.tenants[t] = d.tenants[t]
  /\ \A i \in DOMAIN s.payouts :
       /\ i \in DOMAIN d.payouts
       /\ << "payout", i >> \in Writes(o, s) => s.payouts[i] = d.payouts[i]
  /\ \A i \in DOMAIN s.purchases :
       /\ i \in DOMAIN d.purchases
       /\ << "purchase", i >> \in Writes(o, s) => s.purchases[i] = d.purchases[i]

Sound(o, s, d) ==
  s \in Database /\ o \in Requests(s) /\ Allowed(o, s) /\ Current(o, s, d)

SoundTransactions ==
  /\ tx = [s \in Sessions |-> tx[s]]
  /\ \A s \in Sessions : IsOpen(s) => Sound(tx[s].op, tx[s].snapshot, db)

IInv == TypeOK /\ SoundTransactions

Books == MoneyConserved /\ LedgersExplain

-----------------------------------------------------------------------------
(* Snapshots *)

\* A transaction whose documents nobody saved does what it would do now.
LEMMA StillApplies ==
  ASSUME NEW d \in Database, NEW s, NEW o, Sound(o, s, d)
  PROVE  /\ o \in Requests(d) /\ Allowed(o, d)
         /\ Applied(o, s, d) = Applied(o, d, d) /\ Writes(o, s) = Writes(o, d)
<1>0. o \in Requests(s) /\ Allowed(o, s) /\ Current(o, s, d) /\ s \in Database
  BY DEF Sound
<1>1. CASE o.kind = "requestPayout"
  <2>1. s.partner = d.partner
    BY <1>0, <1>1 DEF Current, Writes, SavedPartner
  <2>2. o \in Requests(d)
    BY <1>0, <1>1 DEF Requests
  <2>3. Allowed(o, d)
    BY <1>0, <1>1, <2>1 DEF Allowed
  <2>4. Applied(o, s, d) = Applied(o, d, d)
    BY <1>1, <2>1 DEF Applied, RequestPayout
  <2>5. Writes(o, s) = Writes(o, d)
    BY <1>1 DEF Writes, SavedTenant
  <2> QED  BY <2>2, <2>3, <2>4, <2>5
<1>2. CASE o.kind \in {"approvePayout", "rejectPayout"}
  <2>0. o.id \in DOMAIN s.payouts
    BY <1>0, <1>2, RequestKinds
  <2>1. s.partner = d.partner /\ o.id \in DOMAIN d.payouts /\ s.payouts[o.id] = d.payouts[o.id]
    BY <1>0, <1>2, <2>0 DEF Current, Writes, SavedPartner, SavedRequest
  <2>2. o \in Requests(d)
    BY <1>0, <1>2, <2>1 DEF Requests
  <2>3. Allowed(o, d)
    BY <1>0, <1>2, <2>1 DEF Allowed, PayoutDecidable
  <2>4. Applied(o, s, d) = Applied(o, d, d)
    BY <1>2, <2>1 DEF Applied, ApprovePayout, RejectPayout
  <2>5. Writes(o, s) = Writes(o, d)
    BY <1>2 DEF Writes, SavedTenant
  <2> QED  BY <2>2, <2>3, <2>4, <2>5
<1>3. CASE o.kind = "submitPurchase"
  <2>2. o \in Requests(d)
    BY <1>0, <1>3 DEF Requests
  <2> QED  BY <1>3, <2>2 DEF Allowed, Applied, Writes, SavedTenant
<1>4. CASE o.kind = "approvePurchase"
  <2>0. o.id \in DOMAIN s.purchases
    BY <1>0, <1>4, RequestKinds
  <2>1. o.id \in DOMAIN d.purchases /\ s.purchases[o.id] = d.purchases[o.id]
    BY <1>0, <1>4, <2>0 DEF Current, Writes, SavedRequest
  <2>2. o \in Requests(d)
    BY <1>0, <1>4, <2>1 DEF Requests
  <2>3. Allowed(o, d)
    BY <1>0, <1>4, <2>1 DEF Allowed
  <2>4. s.purchases[o.id].tenant \in Tenants
    <3>1. s.purchases[o.id] \in Purchase
      <4>1. s.purchases \in Seq(Purchase)
        BY <1>0, DatabaseParts
      <4> QED  BY <2>0, <4>1
    <3> QED  BY <3>1 DEF Purchase
  <2>5. s.tenants[s.purchases[o.id].tenant] = d.tenants[s.purchases[o.id].tenant]
    BY <1>0, <1>4, <2>4 DEF Current, Writes, SavedTenant
  <2>6. o.commission # 0 => s.partner = d.partner
    BY <1>0, <1>4 DEF Current, Writes, SavedPartner
  <2>7. ApprovePurchase(o, s, d) = ApprovePurchase(o, d, d)
    <3> DEFINE p == d.purchases[o.id]
               t == d.tenants[p.tenant]
               sold == [d EXCEPT !.tenants[p.tenant] = [credits |-> t.credits + p.credits,
                                                        purchased |-> t.purchased + p.credits],
                                 !.tenantLedger[p.tenant] = Append(@, Entry(t.credits, p.credits)),
                                 !.purchases[o.id].status = "APPROVED"]
    <3>1. /\ ApprovePurchase(o, s, d) = Award(o.commission, s, sold)
          /\ ApprovePurchase(o, d, d) = Award(o.commission, d, sold)
      BY <2>1, <2>5, Zenon DEF ApprovePurchase
    <3> HIDE DEF sold
    <3>2. Award(o.commission, s, sold) = Award(o.commission, d, sold)
      BY <2>6 DEF Award
    <3> QED  BY <3>1, <3>2
  <2>8. Applied(o, s, d) = Applied(o, d, d)
    BY <1>4, <2>7 DEF Applied
  <2>9. Writes(o, s) = Writes(o, d)
    BY <1>4, <2>1 DEF Writes, SavedTenant
  <2> QED  BY <2>2, <2>3, <2>8, <2>9
<1>5. CASE o.kind = "rejectPurchase"
  <2>0. o.id \in DOMAIN s.purchases
    BY <1>0, <1>5, RequestKinds
  <2>1. o.id \in DOMAIN d.purchases /\ s.purchases[o.id] = d.purchases[o.id]
    BY <1>0, <1>5, <2>0 DEF Current, Writes, SavedRequest
  <2>2. o \in Requests(d)
    BY <1>0, <1>5, <2>1 DEF Requests
  <2>3. Allowed(o, d)
    BY <1>0, <1>5, <2>1 DEF Allowed
  <2> QED  BY <1>5, <2>2, <2>3 DEF Applied, Writes, SavedTenant
<1>6. CASE o.kind = "grant"
  <2>0. o.tenant \in Tenants
    BY <1>0, <1>6, RequestKinds
  <2>1. s.tenants[o.tenant] = d.tenants[o.tenant] /\ (o.commission # 0 => s.partner = d.partner)
    BY <1>0, <1>6, <2>0 DEF Current, Writes, SavedTenant, SavedPartner
  <2>2. o \in Requests(d)
    BY <1>0, <1>6 DEF Requests
  <2>3. GrantCredits(o, s, d) = GrantCredits(o, d, d)
    BY <2>1 DEF GrantCredits, ChangeCredits, Award
  <2> QED  BY <1>6, <2>2, <2>3 DEF Applied, Allowed, Writes, SavedTenant
<1>7. CASE o.kind \in {"deduct", "enroll"}
  <2>0. o.tenant \in Tenants
    BY <1>0, <1>7, RequestKinds
  <2>1. s.tenants[o.tenant] = d.tenants[o.tenant]
    BY <1>0, <1>7, <2>0 DEF Current, Writes, SavedTenant
  <2>2. o \in Requests(d)
    BY <1>0, <1>7 DEF Requests
  <2>3. SpendCredits(o, s, d) = SpendCredits(o, d, d)
    BY <2>1 DEF SpendCredits, ChangeCredits
  <2>4. Allowed(o, d)
    BY <1>0, <1>7, <2>1 DEF Allowed
  <2> QED  BY <1>7, <2>2, <2>3, <2>4 DEF Applied, Writes, SavedTenant
<1> QED  BY <1>0, <1>1, <1>2, <1>3, <1>4, <1>5, <1>6, <1>7, RequestKinds

\* A commit disturbs no transaction that it does not conflict with.
LEMMA StaysSound ==
  ASSUME NEW d \in Database, NEW r, NEW o, Kept(o, d, r),
         NEW q, NEW s, Sound(q, s, d), Writes(q, s) \cap Writes(o, d) = {}
  PROVE  Sound(q, s, r)
BY DEF Sound, Current, Kept

\* A transaction that has just read the database.
LEMMA BeginsSound ==
  ASSUME NEW d \in Database, NEW o \in Requests(d), Allowed(o, d)
  PROVE  Sound(o, d, d)
BY DEF Sound, Current

-----------------------------------------------------------------------------
(* The invariant *)

\* The abstract specification has the same conditions.
LEMMA SameAllowed ==
  ASSUME NEW o, NEW d
  PROVE  Atomic!Allowed(o, d) <=> Allowed(o, d)
BY DEF Allowed, Atomic!Allowed, PayoutDecidable, Atomic!PayoutDecidable, Charge, Atomic!Charge

\* It has the same databases.
LEMMA SameDatabase == Atomic!Database = Database
BY DEF Database, Atomic!Database, Partner, Atomic!Partner, Tenant, Atomic!Tenant,
       Payout, Atomic!Payout, Purchase, Atomic!Purchase, LedgerEntry, Atomic!LedgerEntry,
       Statuses, Atomic!Statuses

\* It has the same requests.
LEMMA SameRequests ==
  ASSUME NEW d
  PROVE  Atomic!Requests(d) = Requests(d)
BY DEF Requests, Atomic!Requests

\* It applies them in the same way.
LEMMA SameApplied ==
  ASSUME NEW o, NEW s, NEW d
  PROVE  Atomic!Applied(o, s, d) = Applied(o, s, d)
BY DEF Applied, Atomic!Applied, RequestPayout, Atomic!RequestPayout,
       ApprovePayout, Atomic!ApprovePayout, RejectPayout, Atomic!RejectPayout,
       SubmitPurchase, Atomic!SubmitPurchase, ApprovePurchase, Atomic!ApprovePurchase,
       RejectPurchase, Atomic!RejectPurchase, GrantCredits, Atomic!GrantCredits,
       SpendCredits, Atomic!SpendCredits, ChangeCredits, Atomic!ChangeCredits,
       Award, Atomic!Award, Entry, Atomic!Entry, Charge, Atomic!Charge

\* It starts with the same database.
LEMMA SameOpening == Atomic!OpeningDatabase = OpeningDatabase
BY DEF OpeningDatabase, Atomic!OpeningDatabase, OpeningLedger, Atomic!OpeningLedger,
       Entry, Atomic!Entry

\* The opening database is one.
LEMMA OpeningType == OpeningDatabase \in Database
<1> USE OpeningAssumption
<1>1. ASSUME NEW n \in Nat PROVE OpeningLedger(n) \in Seq(LedgerEntry)
  <2>1. Entry(0, n) \in LedgerEntry
    BY <1>1, EntryType
  <2> QED  BY <2>1 DEF OpeningLedger
<1>2. << >> \in Seq(LedgerEntry) /\ << >> \in Seq(Payout) /\ << >> \in Seq(Purchase)
  OBVIOUS
<1>3. OpeningLedger(OpeningEarned) \in Seq(LedgerEntry)
  BY <1>1
<1>4. OpeningLedger(OpeningCredits) \in Seq(LedgerEntry)
  BY <1>1
<1> HIDE DEF OpeningLedger
<1>5. [available |-> OpeningEarned, hold |-> 0, earned |-> OpeningEarned, paid |-> 0] \in Partner
  BY DEF Partner
<1>6. [t \in Tenants |-> [credits |-> OpeningCredits, purchased |-> 0]] \in [Tenants -> Tenant]
  BY DEF Tenant
<1>7. [t \in Tenants |-> OpeningLedger(OpeningCredits)] \in [Tenants -> Seq(LedgerEntry)]
  BY <1>4
<1> QED  BY <1>2, <1>3, <1>5, <1>6, <1>7 DEF OpeningDatabase, Database

\* No transaction is open at first.
LEMMA IInvInit == Init => IInv
<1> SUFFICES ASSUME Init PROVE IInv
  OBVIOUS
<1>1. TypeOK
  BY OpeningType, SameDatabase DEF Init, TypeOK, Atomic!TypeOK
<1>2. SoundTransactions
  BY DEF Init, SoundTransactions, IsOpen, New
<1> QED  BY <1>1, <1>2 DEF IInv

\* The three kinds of step, as the request performs them.
LEMMA BeginStep ==
  ASSUME IInv, NEW s \in Sessions, NEW o \in Requests(db), Begin(s, o)
  PROVE  IInv'
<1>1. db \in Database /\ db' = db /\ TypeOK' /\ Allowed(o, db)
  BY SameDatabase DEF IInv, TypeOK, Atomic!TypeOK, Begin
<1>2. tx' = [tx EXCEPT ![s] = [status |-> "open", op |-> o, snapshot |-> db]]
  BY DEF Begin, Open
<1>3. tx' = [r \in Sessions |-> tx'[r]]
  BY <1>2 DEF IInv, SoundTransactions
<1>4. ASSUME NEW r \in Sessions, IsOpen(r)' PROVE Sound(tx'[r].op, tx'[r].snapshot, db')
  <2>1. CASE r = s
    <3>1. tx'[r].op = o /\ tx'[r].snapshot = db
      BY <1>2, <2>1 DEF IInv, SoundTransactions
    <3>2. Sound(o, db, db)
      BY <1>1, BeginsSound
    <3> QED  BY <1>1, <3>1, <3>2
  <2>2. CASE r # s
    <3>1. tx'[r] = tx[r]
      BY <1>2, <2>2 DEF IInv, SoundTransactions
    <3> QED  BY <1>1, <1>4, <3>1 DEF IInv, SoundTransactions, IsOpen
  <2> QED  BY <2>1, <2>2
<1> QED  BY <1>1, <1>3, <1>4 DEF IInv, SoundTransactions

\* A transaction that aborts leaves nothing behind.
LEMMA AbortStep ==
  ASSUME IInv, NEW s \in Sessions, Abort(s)
  PROVE  IInv'
<1>1. db' = db /\ TypeOK' /\ tx' = [tx EXCEPT ![s] = [status |-> "ended"]]
  BY DEF IInv, TypeOK, Atomic!TypeOK, Abort, Ended
<1>2. tx' = [r \in Sessions |-> tx'[r]]
  BY <1>1 DEF IInv, SoundTransactions
<1>3. ASSUME NEW r \in Sessions, IsOpen(r)' PROVE Sound(tx'[r].op, tx'[r].snapshot, db')
  <2>1. r # s
    BY <1>1, <1>3 DEF IInv, SoundTransactions, IsOpen
  <2>2. tx'[r] = tx[r]
    BY <1>1, <2>1 DEF IInv, SoundTransactions
  <2> QED  BY <1>1, <1>3, <2>2 DEF IInv, SoundTransactions, IsOpen
<1> QED  BY <1>1, <1>2, <1>3 DEF IInv, SoundTransactions

\* A commit writes what the request would write if it ran now and alone.
LEMMA CommitPerforms ==
  ASSUME IInv, NEW s \in Sessions, Commit(s)
  PROVE  /\ tx[s].op \in Requests(db) /\ Allowed(tx[s].op, db)
         /\ db' = Applied(tx[s].op, db, db) /\ SavedBy(s) = Writes(tx[s].op, db)
         /\ Good(tx[s].op, db, db')
<1>1. db \in Database /\ Sound(tx[s].op, tx[s].snapshot, db)
  BY SameDatabase DEF IInv, TypeOK, Atomic!TypeOK, SoundTransactions, Commit
<1>2. db' = Applied(tx[s].op, tx[s].snapshot, db)
  BY DEF Commit
<1>3. /\ tx[s].op \in Requests(db) /\ Allowed(tx[s].op, db)
      /\ Applied(tx[s].op, tx[s].snapshot, db) = Applied(tx[s].op, db, db)
      /\ Writes(tx[s].op, tx[s].snapshot) = Writes(tx[s].op, db)
  BY <1>1, StillApplies
<1>4. Good(tx[s].op, db, Applied(tx[s].op, db, db))
  BY <1>1, <1>3, AppliedGood
<1> QED  BY <1>2, <1>3, <1>4 DEF SavedBy

\* A commit applies a request to the documents it was checked on, and aborts its rivals.
LEMMA CommitStep ==
  ASSUME IInv, NEW s \in Sessions, Commit(s)
  PROVE  IInv'
<1>1. db \in Database
  BY SameDatabase DEF IInv, TypeOK, Atomic!TypeOK
<1>2. Good(tx[s].op, db, db') /\ SavedBy(s) = Writes(tx[s].op, db)
  BY CommitPerforms
<1>3. TypeOK'
  BY <1>2, GoodType, SameDatabase DEF TypeOK, Atomic!TypeOK
<1>4. Kept(tx[s].op, db, db')
  BY <1>2 DEF Good
<1>5. tx' = [r \in Sessions |-> IF r = s \/ Conflict(r, s) THEN [status |-> "ended"] ELSE tx[r]]
  BY DEF Commit, Ended
<1>6. ASSUME NEW r \in Sessions, IsOpen(r)' PROVE Sound(tx'[r].op, tx'[r].snapshot, db')
  <2>1. tx'[r] = tx[r] /\ IsOpen(r) /\ ~ Conflict(r, s)
    BY <1>5, <1>6 DEF IsOpen
  <2>2. Writes(tx[r].op, tx[r].snapshot) \cap Writes(tx[s].op, db) = {}
    BY <1>2, <2>1 DEF Conflict, SavedBy
  <2>3. Sound(tx[r].op, tx[r].snapshot, db)
    BY <2>1 DEF IInv, SoundTransactions
  <2>4. Sound(tx[r].op, tx[r].snapshot, db')
    BY <1>1, <1>4, <2>2, <2>3, StaysSound
  <2> QED  BY <2>1, <2>4
<1>7. tx' = [r \in Sessions |-> tx'[r]]
  BY <1>5
<1> QED  BY <1>3, <1>6, <1>7 DEF IInv, SoundTransactions

\* Every step keeps the invariant.
LEMMA IInvNext == IInv /\ [Next]_vars => IInv'
<1> SUFFICES ASSUME IInv, [Next]_vars PROVE IInv'
  OBVIOUS
<1>1. CASE UNCHANGED vars
  BY <1>1 DEF vars, IInv, TypeOK, Atomic!TypeOK, SoundTransactions, IsOpen
<1>2. ASSUME NEW s \in Sessions, NEW o \in Requests(db), Begin(s, o) PROVE IInv'
  BY <1>2, BeginStep
<1>3. ASSUME NEW s \in Sessions, Commit(s) PROVE IInv'
  BY <1>3, CommitStep
<1>4. ASSUME NEW s \in Sessions, Abort(s) PROVE IInv'
  BY <1>4, AbortStep
<1> QED  BY <1>1, <1>2, <1>3, <1>4 DEF Next

\* The invariant of the transactions holds in every run.
LEMMA Invariance == Spec => []IInv
<1>1. Init => IInv
  BY IInvInit
<1>2. IInv /\ [Next]_vars => IInv'
  BY IInvNext
<1> QED  BY <1>1, <1>2, PTL DEF Spec

\* A begin or an abort leaves the database alone, a commit performs one request.
LEMMA StepPerforms ==
  ASSUME IInv, [Next]_vars
  PROVE  \/ db' = db
         \/ \E o \in Requests(db) :
              Allowed(o, db) /\ db' = Applied(o, db, db) /\ Good(o, db, db')
<1>1. CASE UNCHANGED vars
  BY <1>1 DEF vars
<1>2. ASSUME NEW s \in Sessions, NEW o \in Requests(db), Begin(s, o) PROVE db' = db
  BY <1>2 DEF Begin
<1>3. ASSUME NEW s \in Sessions, Commit(s)
      PROVE  \E o \in Requests(db) :
               Allowed(o, db) /\ db' = Applied(o, db, db) /\ Good(o, db, db')
  BY <1>3, CommitPerforms
<1>4. ASSUME NEW s \in Sessions, Abort(s) PROVE db' = db
  BY <1>4 DEF Abort
<1> QED  BY <1>1, <1>2, <1>3, <1>4 DEF Next

-----------------------------------------------------------------------------
(* Theorems *)

\* The shape of every document; in particular no balance of the partner or of a
\* tenant is ever negative, however the handlers overlap.
THEOREM Shapes == Spec => []TypeOK
BY Invariance, PTL DEF IInv

\* The transactions implement the atomic requests: each commit does what its
\* handler would do if it read, checked and saved in a single step.
THEOREM Refinement == Spec => Serializable
<1>1. Init => Atomic!Init
  BY SameOpening DEF Init, Atomic!Init
<1>2. IInv /\ [Next]_vars => [Atomic!Next]_db
  <2> SUFFICES ASSUME IInv, [Next]_vars PROVE [Atomic!Next]_db
    OBVIOUS
  <2>1. ASSUME NEW o \in Requests(db), Allowed(o, db), db' = Applied(o, db, db)
        PROVE  Atomic!Next
    <3>1. o \in Atomic!Requests(db) /\ Atomic!Allowed(o, db) /\ db' = Atomic!Applied(o, db, db)
      BY <2>1, SameRequests, SameAllowed, SameApplied
    <3> QED  BY <3>1 DEF Atomic!Next, Atomic!Perform
  <2> QED  BY <2>1, StepPerforms
<1> QED  BY <1>1, <1>2, Invariance, PTL DEF Spec, Serializable, Atomic!Spec

\* The books.
LEMMA OpeningBooks == Init => Books
<1> SUFFICES ASSUME Init PROVE Books
  OBVIOUS
<1> USE OpeningAssumption
<1>1. MoneyConserved
  BY DEF Init, MoneyConserved, Atomic!MoneyConserved, OpeningDatabase
<1>2. ASSUME NEW n \in Nat PROVE Chained(OpeningLedger(n), n)
  <2>1. CASE n = 0
    BY <2>1 DEF OpeningLedger, Chained, Atomic!Chained
  <2>2. CASE n # 0
    <3>1. OpeningLedger(n) = << Entry(0, n) >> /\ Entry(0, n).after = n
      <4>1. 0 + n = n /\ n \in Int
        OBVIOUS
      <4>2. Entry(0, n).after = n
        BY <4>1, EntryType
      <4> QED  BY <2>2, <4>2 DEF OpeningLedger
    <3>2. /\ Len(OpeningLedger(n)) = 1 /\ OpeningLedger(n) # << >>
          /\ OpeningLedger(n)[1].after = n
      BY <3>1
    <3> QED  BY <3>2 DEF Chained, Atomic!Chained
  <2> QED  BY <2>1, <2>2
<1>3. Chained(db.partnerLedger.AVAILABLE, db.partner.available)
  <2>1. /\ db.partnerLedger.AVAILABLE = OpeningLedger(OpeningEarned)
        /\ db.partner.available = OpeningEarned
    BY DEF Init, OpeningDatabase
  <2> QED  BY <1>2, <2>1
<1>4. ASSUME NEW t \in Tenants PROVE Chained(db.tenantLedger[t], db.tenants[t].credits)
  <2>1. db.tenantLedger[t] = OpeningLedger(OpeningCredits) /\ db.tenants[t].credits = OpeningCredits
    BY DEF Init, OpeningDatabase
  <2> QED  BY <1>2, <2>1
<1>5. LedgersExplain
  BY <1>3, <1>4 DEF LedgersExplain, Atomic!LedgersExplain, Chained
<1> QED  BY <1>1, <1>5 DEF Books

\* The books are kept by every step.
LEMMA BooksKept == IInv /\ Books /\ [Next]_vars => Books'
<1> SUFFICES ASSUME IInv, Books, [Next]_vars PROVE Books'
  OBVIOUS
<1>1. Balanced(db) /\ PartnerExplained(db) /\ TenantsExplained(db)
  BY DEF Books, MoneyConserved, Atomic!MoneyConserved, LedgersExplain, Atomic!LedgersExplain,
         Balanced, PartnerExplained, TenantsExplained, Chained
<1>2. CASE db' = db
  BY <1>2 DEF Books, MoneyConserved, Atomic!MoneyConserved, LedgersExplain, Atomic!LedgersExplain
<1>3. ASSUME NEW o, Good(o, db, db') PROVE Books'
  <2>1. Balanced(db') /\ PartnerExplained(db') /\ TenantsExplained(db')
    BY <1>1, <1>3 DEF Good, PartnerPart, TenantsPart
  <2> QED  BY <2>1 DEF Books, MoneyConserved, Atomic!MoneyConserved, LedgersExplain,
                       Atomic!LedgersExplain, Balanced, PartnerExplained, TenantsExplained, Chained
<1> QED  BY <1>2, <1>3, StepPerforms

\* The books are right in every run.
LEMMA BooksInvariance == Spec => []Books
<1>1. Init => Books
  BY OpeningBooks
<1>2. IInv /\ Books /\ [Next]_vars => Books'
  BY BooksKept
<1> QED  BY <1>1, <1>2, Invariance, PTL DEF Spec

\* No interleaving of handlers creates or loses money of the partner, and every balance
\* is what its ledger says, entry after entry.
THEOREM Conservation == Spec => []BooksAgree
<1>1. Books => BooksAgree
  BY DEF Books, BooksAgree
<1> QED  BY <1>1, BooksInvariance, PTL

\* No transaction, however old its snapshot, changes a decided request.
THEOREM DecisionsFinal == Spec => DecisionsStand
<1>1. IInv /\ [Next]_vars =>
        [Atomic!Decided(db.payouts, db'.payouts) /\ Atomic!Decided(db.purchases, db'.purchases)]_db
  BY StepPerforms DEF Good, RequestsPart, Decided
<1> QED  BY <1>1, Invariance, PTL DEF Spec, DecisionsStand, Atomic!DecisionsStand

-----------------------------------------------------------------------------
(* What the requests add up to *)

Values(r, field) == [i \in DOMAIN r |-> r[i][field]]

PayoutsIn(r, status) == {i \in DOMAIN r : r[i].status = status}
PaidOut(r, status) == SumFunctionOnSet(Values(r, "amount"), PayoutsIn(r, status))

BoughtBy(r, t) == {i \in DOMAIN r : r[i].tenant = t /\ r[i].status = "APPROVED"}
Bought(r, t) == SumFunctionOnSet(Values(r, "credits"), BoughtBy(r, t))

PayoutsCounted(d) ==
  /\ d.partner.hold = PaidOut(d.payouts, "PENDING")
  /\ d.partner.paid = PaidOut(d.payouts, "APPROVED")

PurchasesCounted(d) == \A t \in Tenants : d.tenants[t].purchased = Bought(d.purchases, t)

\* The abstract specification adds in the same way.
LEMMA SameSum ==
  ASSUME NEW f, NEW S
  PROVE  Atomic!SumFunctionOnSet(f, S) = SumFunctionOnSet(f, S)
BY DEF SumFunctionOnSet, FoldFunctionOnSet, MapThenFoldSet,
       Atomic!SumFunctionOnSet, Atomic!FoldFunctionOnSet, Atomic!MapThenFoldSet

\* RequestsExplained is a statement about payouts and one about purchases.
LEMMA Counted ==
  RequestsExplained <=> PayoutsCounted(db) /\ PurchasesCounted(db)
BY SameSum DEF RequestsExplained, RequestsBalance, Atomic!RequestsBalance, Atomic!Total,
       PurchasesBalance, Atomic!PurchasesBalance, PayoutsCounted, PurchasesCounted, PaidOut, Bought,
       Values, PayoutsIn, BoughtBy

\* The positions of a sequence are finitely many, and hold its elements.
LEMMA SeqFacts ==
  ASSUME NEW T, NEW r \in Seq(T)
  PROVE  /\ IsFiniteSet(DOMAIN r) /\ \A i \in DOMAIN r : r[i] \in T
         /\ DOMAIN r = 1 .. Len(r) /\ Len(r) \in Nat
<1>1. DOMAIN r = 1 .. Len(r) /\ Len(r) \in Nat /\ \A i \in DOMAIN r : r[i] \in T
  BY LenProperties
<1> QED  BY <1>1, FS_Interval

\* The part of a sum that a decision or a new request can touch.
LEMMA SumGains ==
  ASSUME NEW f, NEW D, IsFiniteSet(D), \A x \in D : f[x] \in Int,
         NEW S \in SUBSET D, NEW i \in D, i \notin S
  PROVE  SumFunctionOnSet(f, S \cup {i}) = SumFunctionOnSet(f, S) + f[i]
<1>1. IsFiniteSet(S) /\ \A x \in S : f[x] \in Int
  BY FS_Subset
<1> QED  BY <1>1, SumAdd

\* A sum without one of its elements.
LEMMA SumLoses ==
  ASSUME NEW f, NEW D, IsFiniteSet(D), \A x \in D : f[x] \in Int,
         NEW S \in SUBSET D, NEW i \in S
  PROVE  SumFunctionOnSet(f, S \ {i}) = SumFunctionOnSet(f, S) - f[i]
<1>1. SumFunctionOnSet(f, S) = f[i] + SumFunctionOnSet(f, S \ {i})
  BY SumTake
<1>2. SumFunctionOnSet(f, S \ {i}) \in Int
  BY SumType
<1> QED  BY <1>1, <1>2

\* The values that are summed are the amounts and credits of the requests.
LEMMA ValuesAre ==
  /\ \A r \in Seq(Payout) : \A i \in DOMAIN r :
       Values(r, "amount")[i] = r[i].amount /\ Values(r, "amount")[i] \in Int
  /\ \A r \in Seq(Purchase) : \A i \in DOMAIN r :
       Values(r, "credits")[i] = r[i].credits /\ Values(r, "credits")[i] \in Int
<1>1. ASSUME NEW r \in Seq(Payout), NEW i \in DOMAIN r
      PROVE  Values(r, "amount")[i] = r[i].amount /\ r[i].amount \in Int
  <2>1. r[i] \in Payout
    BY SeqFacts
  <2> QED  BY <2>1 DEF Values, Payout
<1>2. ASSUME NEW r \in Seq(Purchase), NEW i \in DOMAIN r
      PROVE  Values(r, "credits")[i] = r[i].credits /\ r[i].credits \in Int
  <2>1. r[i] \in Purchase
    BY SeqFacts
  <2> QED  BY <2>1 DEF Values, Purchase
<1> QED  BY <1>1, <1>2

\* A pending payout leaves the pending ones, and joins the approved ones if it is approved.
LEMMA PayoutDecided ==
  ASSUME NEW r \in Seq(Payout), NEW i \in DOMAIN r, r[i].status = "PENDING",
         NEW status \in {"APPROVED", "REJECTED"},
         NEW after, after = [r EXCEPT ![i] = [r[i] EXCEPT !.status = status]]
  PROVE  /\ PaidOut(after, "PENDING") = PaidOut(r, "PENDING") - r[i].amount
         /\ PaidOut(after, "APPROVED") =
              PaidOut(r, "APPROVED") + (IF status = "APPROVED" THEN r[i].amount ELSE 0)
<1> DEFINE x == [r[i] EXCEPT !.status = status]
           f == Values(r, "amount")
<1>1. IsFiniteSet(DOMAIN r) /\ r[i] \in Payout /\ \A j \in Payout : j.amount \in Nat
  BY SeqFacts DEF Payout
<1>2. x \in Payout /\ x.amount = r[i].amount /\ x.status = status
  BY <1>1 DEF Payout, Statuses
<1>3. /\ DOMAIN after = DOMAIN r /\ after[i] = x
      /\ \A j \in DOMAIN r : j # i => after[j] = r[j]
  OBVIOUS
<1> HIDE DEF x
<1>4. Values(after, "amount") = f
  BY <1>1, <1>2, <1>3 DEF Values
<1>5. f[i] = r[i].amount /\ \A j \in DOMAIN r : f[j] \in Int
  BY <1>1, ValuesAre
<1> HIDE DEF f
<1>6. /\ PayoutsIn(r, "PENDING") \in SUBSET DOMAIN r /\ i \in PayoutsIn(r, "PENDING")
      /\ PayoutsIn(r, "APPROVED") \in SUBSET DOMAIN r /\ i \notin PayoutsIn(r, "APPROVED")
  BY DEF PayoutsIn
<1>7. PayoutsIn(after, "PENDING") = PayoutsIn(r, "PENDING") \ {i}
  BY <1>2, <1>3 DEF PayoutsIn
<1>8. PayoutsIn(after, "APPROVED") =
        IF status = "APPROVED" THEN PayoutsIn(r, "APPROVED") \cup {i} ELSE PayoutsIn(r, "APPROVED")
  BY <1>2, <1>3 DEF PayoutsIn
<1>9. PaidOut(after, "PENDING") = PaidOut(r, "PENDING") - r[i].amount
  <2>1. SumFunctionOnSet(f, PayoutsIn(r, "PENDING") \ {i})
          = SumFunctionOnSet(f, PayoutsIn(r, "PENDING")) - f[i]
    BY <1>1, <1>5, <1>6, SumLoses
  <2> QED  BY <1>4, <1>5, <1>7, <2>1 DEF PaidOut, f
<1>10. PaidOut(r, "APPROVED") \in Int
  BY <1>1, <1>5, <1>6, SumType DEF PaidOut, f
<1>11. PaidOut(after, "APPROVED") =
         PaidOut(r, "APPROVED") + (IF status = "APPROVED" THEN r[i].amount ELSE 0)
  <2>1. CASE status = "APPROVED"
    <3>1. SumFunctionOnSet(f, PayoutsIn(r, "APPROVED") \cup {i})
            = SumFunctionOnSet(f, PayoutsIn(r, "APPROVED")) + f[i]
      BY <1>1, <1>5, <1>6, SumGains
    <3> QED  BY <1>4, <1>5, <1>8, <2>1, <3>1 DEF PaidOut, f
  <2>2. CASE status # "APPROVED"
    BY <1>4, <1>8, <1>10, <2>2 DEF PaidOut, f
  <2> QED  BY <2>1, <2>2
<1> QED  BY <1>9, <1>11

\* A payout request adds to what is pending only.
LEMMA PayoutRequested ==
  ASSUME NEW r \in Seq(Payout), NEW x \in Payout, x.status = "PENDING",
         NEW after, after = Append(r, x)
  PROVE  /\ PaidOut(after, "PENDING") = PaidOut(r, "PENDING") + x.amount
         /\ PaidOut(after, "APPROVED") = PaidOut(r, "APPROVED")
<1> DEFINE n == Len(r) + 1
           f == Values(r, "amount")
           g == Values(after, "amount")
<1>1. /\ after \in Seq(Payout) /\ DOMAIN after = DOMAIN r \cup {n} /\ n \notin DOMAIN r
      /\ after[n] = x /\ \A j \in DOMAIN r : after[j] = r[j]
  BY AppendProperties, SeqFacts
<1>2. /\ IsFiniteSet(DOMAIN r) /\ IsFiniteSet(DOMAIN after)
      /\ \A j \in Payout : j.amount \in Nat
  BY <1>1, SeqFacts DEF Payout
<1>3. /\ \A j \in DOMAIN r : f[j] = r[j].amount /\ f[j] \in Int
      /\ \A j \in DOMAIN after : g[j] = after[j].amount /\ g[j] \in Int
  BY <1>1, <1>2, ValuesAre
<1> HIDE DEF f, g, n
<1>4. /\ PayoutsIn(r, "PENDING") \in SUBSET DOMAIN r /\ PayoutsIn(r, "APPROVED") \in SUBSET DOMAIN r
      /\ PayoutsIn(after, "PENDING") = PayoutsIn(r, "PENDING") \cup {n}
      /\ PayoutsIn(after, "APPROVED") = PayoutsIn(r, "APPROVED")
  BY <1>1 DEF PayoutsIn
<1>5. ASSUME NEW S \in SUBSET DOMAIN r
      PROVE  SumFunctionOnSet(g, S) = SumFunctionOnSet(f, S)
  <2>1. IsFiniteSet(S) /\ \A j \in S : g[j] = f[j]
    BY <1>1, <1>2, <1>3, FS_Subset
  <2> QED  BY <2>1, SumSame
<1>6. SumFunctionOnSet(g, PayoutsIn(r, "PENDING") \cup {n})
        = SumFunctionOnSet(g, PayoutsIn(r, "PENDING")) + g[n]
  <2>1. /\ n \in DOMAIN after /\ n \notin PayoutsIn(r, "PENDING")
        /\ PayoutsIn(r, "PENDING") \in SUBSET DOMAIN after
    BY <1>1, <1>4
  <2>2. IsFiniteSet(DOMAIN after) /\ \A j \in DOMAIN after : g[j] \in Int
    BY <1>2, <1>3
  <2> QED  BY <2>1, <2>2, SumGains
<1>7. g[n] = x.amount
  BY <1>1, <1>3
<1> QED  BY <1>4, <1>5, <1>6, <1>7 DEF PaidOut, f, g

Becomes(r, i, status, after) == after = [r EXCEPT ![i] = [r[i] EXCEPT !.status = status]]

\* Likewise for the purchases of each tenant.
LEMMA PurchaseDecided ==
  ASSUME NEW r \in Seq(Purchase), NEW i \in DOMAIN r, r[i].status = "PENDING",
         NEW status \in {"APPROVED", "REJECTED"},
         NEW after, Becomes(r, i, status, after), NEW t \in Tenants
  PROVE  /\ Bought(r, t) \in Int
         /\ status = "APPROVED" /\ t = r[i].tenant => Bought(after, t) = Bought(r, t) + r[i].credits
         /\ ~(status = "APPROVED" /\ t = r[i].tenant) => Bought(after, t) = Bought(r, t)
<1> DEFINE x == [r[i] EXCEPT !.status = status]
           f == Values(r, "credits")
<1>1. IsFiniteSet(DOMAIN r) /\ r[i] \in Purchase /\ \A j \in Purchase : j.credits \in Nat
  BY SeqFacts DEF Purchase
<1>2. x \in Purchase /\ x.credits = r[i].credits /\ x.status = status /\ x.tenant = r[i].tenant
  BY <1>1 DEF Purchase, Statuses
<1>3. /\ DOMAIN after = DOMAIN r /\ after[i] = x
      /\ \A j \in DOMAIN r : j # i => after[j] = r[j]
  BY DEF Becomes
<1> HIDE DEF x
<1>4. Values(after, "credits") = f
  BY <1>1, <1>2, <1>3 DEF Values
<1>5. f[i] = r[i].credits /\ \A j \in DOMAIN r : f[j] \in Int
  BY <1>1, ValuesAre
<1> HIDE DEF f
<1>6. BoughtBy(r, t) \in SUBSET DOMAIN r /\ i \notin BoughtBy(r, t)
  BY DEF BoughtBy
<1>7. BoughtBy(after, t) = IF status = "APPROVED" /\ t = r[i].tenant THEN BoughtBy(r, t) \cup {i}
                           ELSE BoughtBy(r, t)
  BY <1>2, <1>3 DEF BoughtBy
<1>8. Bought(r, t) \in Int
  BY <1>1, <1>5, <1>6, SumType DEF Bought, f
<1>9. CASE status = "APPROVED" /\ t = r[i].tenant
  <2>1. SumFunctionOnSet(f, BoughtBy(r, t) \cup {i}) = SumFunctionOnSet(f, BoughtBy(r, t)) + f[i]
    BY <1>1, <1>5, <1>6, SumGains
  <2> QED  BY <1>4, <1>5, <1>7, <1>8, <1>9, <2>1 DEF Bought, f
<1>10. CASE ~(status = "APPROVED" /\ t = r[i].tenant)
  BY <1>4, <1>7, <1>8, <1>10 DEF Bought, f
<1> QED  BY <1>8, <1>9, <1>10

\* A submitted purchase is not bought yet.
LEMMA PurchaseSubmitted ==
  ASSUME NEW r \in Seq(Purchase), NEW x \in Purchase, x.status = "PENDING",
         NEW after, after = Append(r, x), NEW t \in Tenants
  PROVE  Bought(after, t) = Bought(r, t)
<1> DEFINE f == Values(r, "credits")
           g == Values(after, "credits")
<1>1. /\ after \in Seq(Purchase) /\ DOMAIN after = DOMAIN r \cup {Len(r) + 1}
      /\ after[Len(r) + 1] = x /\ \A j \in DOMAIN r : after[j] = r[j]
  BY AppendProperties, SeqFacts
<1>2. BoughtBy(after, t) = BoughtBy(r, t)
  BY <1>1 DEF BoughtBy
<1>3. \A j \in BoughtBy(r, t) : g[j] = f[j]
  BY <1>1 DEF Values, BoughtBy
<1>4. IsFiniteSet(BoughtBy(r, t))
  <2>1. IsFiniteSet(DOMAIN r) /\ BoughtBy(r, t) \in SUBSET DOMAIN r
    BY SeqFacts DEF BoughtBy
  <2> QED  BY <2>1, FS_Subset
<1> HIDE DEF f, g
<1> QED  BY <1>2, <1>3, <1>4, SumSame DEF Bought, f, g

-----------------------------------------------------------------------------
(* Steps *)

\* There are no requests at first, and nothing on hold.
LEMMA OpeningCounted == PayoutsCounted(OpeningDatabase) /\ PurchasesCounted(OpeningDatabase)
<1>1. /\ OpeningDatabase.payouts = << >> /\ OpeningDatabase.purchases = << >>
      /\ OpeningDatabase.partner.hold = 0 /\ OpeningDatabase.partner.paid = 0
      /\ \A t \in Tenants : OpeningDatabase.tenants[t].purchased = 0
  BY DEF OpeningDatabase
<1>2. /\ \A status : PayoutsIn(<< >>, status) = {}
      /\ \A t : BoughtBy(<< >>, t) = {}
  BY DEF PayoutsIn, BoughtBy
<1> QED  BY <1>1, <1>2, SumEmpty DEF PayoutsCounted, PurchasesCounted, PaidOut, Bought

\* A commission changes neither what is counted nor the requests.
LEMMA AwardKeeps ==
  ASSUME NEW d \in Database, NEW e, IsDatabase(e), e.partner = d.partner,
         NEW c, NEW r, r = Award(c, d, e)
  PROVE  /\ r.partner.hold = d.partner.hold /\ r.partner.paid = d.partner.paid
         /\ r.payouts = e.payouts /\ r.purchases = e.purchases /\ r.tenants = e.tenants
<1>1. d.partner \in Partner
  BY DatabaseParts
<1>2. CASE c = 0
  BY <1>2 DEF Award
<1>3. CASE c # 0
  <2>1. /\ r.partner = [d.partner EXCEPT !.available = d.partner.available + c,
                                         !.earned = d.partner.earned + c]
        /\ r.payouts = e.payouts /\ r.purchases = e.purchases /\ r.tenants = e.tenants
    BY <1>3 DEF Award, IsDatabase
  <2> QED  BY <1>1, <2>1 DEF Partner
<1> QED  BY <1>2, <1>3

\* A request that is applied changes the sums as it changes the balances.
LEMMA AppliedCounted ==
  ASSUME NEW d \in Database, NEW o \in Requests(d), Allowed(o, d),
         PayoutsCounted(d), PurchasesCounted(d), NEW r, r = Applied(o, d, d)
  PROVE  PayoutsCounted(r) /\ PurchasesCounted(r)
<1> USE AmountsAssumption, CreditsAssumption, CommissionsAssumption
<1>0. /\ d.partner \in Partner /\ d.tenants \in [Tenants -> Tenant]
      /\ d.payouts \in Seq(Payout) /\ d.purchases \in Seq(Purchase)
      /\ d.partner.hold = PaidOut(d.payouts, "PENDING")
      /\ d.partner.paid = PaidOut(d.payouts, "APPROVED")
      /\ \A t \in Tenants : d.tenants[t].purchased = Bought(d.purchases, t)
  BY DatabaseParts DEF PayoutsCounted, PurchasesCounted
<1>q. ASSUME r.purchases = d.purchases,
             \A t \in Tenants : r.tenants[t].purchased = d.tenants[t].purchased
      PROVE  PurchasesCounted(r)
  BY <1>0, <1>q DEF PurchasesCounted
<1>p. ASSUME r.payouts = d.payouts, r.partner.hold = d.partner.hold, r.partner.paid = d.partner.paid
      PROVE  PayoutsCounted(r)
  BY <1>0, <1>p DEF PayoutsCounted
<1>1. CASE o.kind = "requestPayout"
  <2> DEFINE x == [amount |-> o.amount, status |-> "PENDING"]
  <2>1. /\ r.payouts = Append(d.payouts, x) /\ r.purchases = d.purchases /\ r.tenants = d.tenants
        /\ r.partner = [d.partner EXCEPT !.available = d.partner.available - o.amount,
                                         !.hold = d.partner.hold + o.amount]
    BY <1>1 DEF Applied, RequestPayout, Database
  <2>2. x \in Payout /\ x.status = "PENDING" /\ x.amount = o.amount
    BY <1>1, RequestKinds DEF Payout, Statuses
  <2> HIDE DEF x
  <2>3. r.partner.hold = d.partner.hold + o.amount /\ r.partner.paid = d.partner.paid
    BY <1>0, <2>1 DEF Partner
  <2>4. /\ PaidOut(r.payouts, "PENDING") = PaidOut(d.payouts, "PENDING") + x.amount
        /\ PaidOut(r.payouts, "APPROVED") = PaidOut(d.payouts, "APPROVED")
    <3> DEFINE before == d.payouts  after == r.payouts
    <3>1. before \in Seq(Payout) /\ after = Append(before, x)
      BY <1>0, <2>1
    <3> HIDE DEF before, after
    <3>2. /\ PaidOut(after, "PENDING") = PaidOut(before, "PENDING") + x.amount
          /\ PaidOut(after, "APPROVED") = PaidOut(before, "APPROVED")
      BY <2>2, <3>1, PayoutRequested
    <3> QED  BY <3>2 DEF before, after
  <2> QED  BY <1>0, <1>q, <2>1, <2>2, <2>3, <2>4 DEF PayoutsCounted
<1>2. CASE o.kind \in {"approvePayout", "rejectPayout"}
  <2> DEFINE status == IF o.kind = "approvePayout" THEN "APPROVED" ELSE "REJECTED"
             amount == d.payouts[o.id].amount
  <2>1. o.id \in DOMAIN d.payouts /\ d.payouts[o.id].status = "PENDING" /\ d.payouts[o.id] \in Payout
    BY <1>0, <1>2, RequestKinds, SeqFacts DEF Allowed, PayoutDecidable
  <2>2. /\ r.payouts = [d.payouts EXCEPT ![o.id] = [d.payouts[o.id] EXCEPT !.status = status]]
        /\ r.purchases = d.purchases /\ r.tenants = d.tenants
        /\ r.partner.hold = d.partner.hold - amount
        /\ r.partner.paid = d.partner.paid + (IF status = "APPROVED" THEN amount ELSE 0)
    <3>1. CASE o.kind = "approvePayout"
      <4>1. /\ r.payouts = [d.payouts EXCEPT ![o.id].status = "APPROVED"]
            /\ r.purchases = d.purchases /\ r.tenants = d.tenants
            /\ r.partner = [d.partner EXCEPT !.hold = d.partner.hold - amount,
                                             !.paid = d.partner.paid + amount]
        BY <3>1 DEF Applied, ApprovePayout, Database
      <4> QED  BY <1>0, <3>1, <4>1 DEF Partner
    <3>2. CASE o.kind = "rejectPayout"
      <4>1. /\ r.payouts = [d.payouts EXCEPT ![o.id].status = "REJECTED"]
            /\ r.purchases = d.purchases /\ r.tenants = d.tenants
            /\ r.partner = [d.partner EXCEPT !.available = d.partner.available + amount,
                                             !.hold = d.partner.hold - amount]
        BY <3>2 DEF Applied, RejectPayout, Database
      <4> QED  BY <1>0, <3>2, <4>1 DEF Partner
    <3> QED  BY <1>2, <3>1, <3>2
  <2>3. status \in {"APPROVED", "REJECTED"}
    OBVIOUS
  <2> HIDE DEF status
  <2>4. /\ PaidOut(r.payouts, "PENDING") = PaidOut(d.payouts, "PENDING") - amount
        /\ PaidOut(r.payouts, "APPROVED") =
             PaidOut(d.payouts, "APPROVED") + (IF status = "APPROVED" THEN amount ELSE 0)
    <3> DEFINE before == d.payouts  after == r.payouts  i == o.id
    <3>1. /\ before \in Seq(Payout) /\ i \in DOMAIN before /\ before[i].status = "PENDING"
          /\ after = [before EXCEPT ![i] = [before[i] EXCEPT !.status = status]]
      BY <1>0, <2>1, <2>2
    <3> HIDE DEF before, after, i
    <3>2. /\ PaidOut(after, "PENDING") = PaidOut(before, "PENDING") - before[i].amount
          /\ PaidOut(after, "APPROVED") =
               PaidOut(before, "APPROVED") + (IF status = "APPROVED" THEN before[i].amount ELSE 0)
      BY <2>3, <3>1, PayoutDecided
    <3> QED  BY <3>2 DEF before, after, i
  <2> QED  BY <1>0, <1>q, <2>2, <2>4 DEF PayoutsCounted
<1>3. CASE o.kind = "submitPurchase"
  <2> DEFINE x == [tenant |-> o.tenant, credits |-> o.credits, status |-> "PENDING"]
  <2>1. /\ r.purchases = Append(d.purchases, x) /\ r.payouts = d.payouts
        /\ r.partner = d.partner /\ r.tenants = d.tenants
    BY <1>3 DEF Applied, SubmitPurchase, Database
  <2>2. x \in Purchase /\ x.status = "PENDING"
    BY <1>3, RequestKinds DEF Purchase, Statuses
  <2> HIDE DEF x
  <2>3. \A t \in Tenants : Bought(r.purchases, t) = Bought(d.purchases, t)
    BY <1>0, <2>1, <2>2, PurchaseSubmitted
  <2> QED  BY <1>0, <1>p, <2>1, <2>3 DEF PurchasesCounted
<1>4. CASE o.kind = "approvePurchase"
  <2> DEFINE p == d.purchases[o.id]
             was == d.tenants[p.tenant]
             e == [d EXCEPT !.tenants[p.tenant] = [credits |-> was.credits + p.credits,
                                                   purchased |-> was.purchased + p.credits],
                            !.tenantLedger[p.tenant] = Append(@, Entry(was.credits, p.credits)),
                            !.purchases[o.id].status = "APPROVED"]
  <2>1. o.id \in DOMAIN d.purchases /\ p.status = "PENDING" /\ p \in Purchase
    BY <1>0, <1>4, RequestKinds, SeqFacts DEF Allowed
  <2>2. r = Award(o.commission, d, e)
    BY <1>4 DEF Applied, ApprovePurchase
  <2>3. /\ e.tenants = [d.tenants EXCEPT ![p.tenant] = [credits |-> was.credits + p.credits,
                                                        purchased |-> was.purchased + p.credits]]
        /\ e.purchases = [d.purchases EXCEPT ![o.id] = [p EXCEPT !.status = "APPROVED"]]
        /\ e.partner = d.partner /\ e.payouts = d.payouts
    BY DEF Database
  <2>4. IsDatabase(e)
    <3>1. e = [d EXCEPT !.tenants = e.tenants, !.tenantLedger = e.tenantLedger,
                        !.purchases = e.purchases]
      BY DEF Database
    <3> HIDE DEF e
    <3> QED  BY <3>1 DEF Database, IsDatabase
  <2> HIDE DEF e
  <2>5. /\ r.partner.hold = d.partner.hold /\ r.partner.paid = d.partner.paid
        /\ r.payouts = d.payouts /\ r.purchases = e.purchases /\ r.tenants = e.tenants
    BY <2>2, <2>3, <2>4, AwardKeeps
  <2>6. ASSUME NEW t \in Tenants PROVE r.tenants[t].purchased = Bought(r.purchases, t)
    <3>1. /\ Bought(d.purchases, t) \in Int
          /\ t = p.tenant => Bought(e.purchases, t) = Bought(d.purchases, t) + p.credits
          /\ t # p.tenant => Bought(e.purchases, t) = Bought(d.purchases, t)
      <4> DEFINE before == d.purchases  after == e.purchases  i == o.id
      <4>1. /\ before \in Seq(Purchase) /\ i \in DOMAIN before /\ before[i].status = "PENDING"
            /\ after = [before EXCEPT ![i] = [before[i] EXCEPT !.status = "APPROVED"]]
        BY <1>0, <2>1, <2>3
      <4> HIDE DEF before, after, i
      <4>2. Becomes(before, i, "APPROVED", after)
        BY <4>1 DEF Becomes
      <4>3. /\ Bought(before, t) \in Int
            /\ t = before[i].tenant => Bought(after, t) = Bought(before, t) + before[i].credits
            /\ t # before[i].tenant => Bought(after, t) = Bought(before, t)
        BY <4>1, <4>2, PurchaseDecided
      <4> QED  BY <4>3 DEF before, after, i
    <3>2. CASE t = p.tenant
      <4>1. e.tenants[t].purchased = d.tenants[t].purchased + p.credits
        BY <1>0, <2>3, <3>2
      <4> QED  BY <1>0, <2>5, <3>1, <3>2, <4>1
    <3>3. CASE t # p.tenant
      <4>1. e.tenants[t].purchased = d.tenants[t].purchased
        BY <1>0, <2>3, <3>3
      <4> QED  BY <1>0, <2>5, <3>1, <3>3, <4>1
    <3> QED  BY <3>2, <3>3
  <2> QED  BY <1>p, <2>5, <2>6 DEF PurchasesCounted
<1>5. CASE o.kind = "rejectPurchase"
  <2>1. /\ o.id \in DOMAIN d.purchases /\ d.purchases[o.id].status = "PENDING"
    BY <1>5, RequestKinds DEF Allowed
  <2>2. /\ r.purchases = [d.purchases EXCEPT ![o.id] =
                            [d.purchases[o.id] EXCEPT !.status = "REJECTED"]]
        /\ r.payouts = d.payouts /\ r.partner = d.partner /\ r.tenants = d.tenants
    BY <1>5 DEF Applied, RejectPurchase, Database
  <2>3. ASSUME NEW t \in Tenants PROVE Bought(r.purchases, t) = Bought(d.purchases, t)
    <3> DEFINE before == d.purchases  after == r.purchases  i == o.id
    <3>1. before \in Seq(Purchase) /\ i \in DOMAIN before /\ before[i].status = "PENDING"
      BY <1>0, <2>1
    <3>2. Becomes(before, i, "REJECTED", after)
      BY <2>2 DEF Becomes
    <3> HIDE DEF before, after, i
    <3>3. Bought(after, t) = Bought(before, t)
      BY <3>1, <3>2, PurchaseDecided
    <3> QED  BY <3>3 DEF before, after
  <2> QED  BY <1>0, <1>p, <2>2, <2>3 DEF PurchasesCounted
<1>6. CASE o.kind \in {"grant", "deduct", "enroll"}
  <2> DEFINE delta == IF o.kind = "grant" THEN o.credits ELSE -Charge(o)
             e == ChangeCredits(o.tenant, delta, d, d)
  <2>1. o.tenant \in Tenants
    BY <1>6, RequestKinds
  <2> HIDE DEF delta
  <2>2. /\ e.tenants = [d.tenants EXCEPT ![o.tenant] =
                          [d.tenants[o.tenant] EXCEPT !.credits = d.tenants[o.tenant].credits + delta]]
        /\ e.purchases = d.purchases /\ e.payouts = d.payouts /\ e.partner = d.partner
        /\ IsDatabase(e)
    <3> DEFINE t == o.tenant
    <3> HIDE DEF t
    <3>1. /\ e.tenants = [d.tenants EXCEPT ![t] =
                            [d.tenants[t] EXCEPT !.credits = d.tenants[t].credits + delta]]
          /\ e.purchases = d.purchases /\ e.payouts = d.payouts /\ e.partner = d.partner
      BY DEF ChangeCredits, Database, t
    <3>2. e = [d EXCEPT !.tenants = e.tenants, !.tenantLedger = e.tenantLedger]
      BY DEF ChangeCredits, Database
    <3> HIDE DEF e
    <3>3. IsDatabase(e)
      BY <3>2 DEF Database, IsDatabase
    <3> QED  BY <3>1, <3>3 DEF t
  <2>3. r = e \/ r = Award(o.commission, d, e)
    <3>1. CASE o.kind = "grant"
      BY <3>1 DEF Applied, GrantCredits, delta
    <3>2. CASE o.kind \in {"deduct", "enroll"}
      BY <3>2 DEF Applied, SpendCredits, delta
    <3> QED  BY <1>6, <3>1, <3>2
  <2> HIDE DEF e
  <2>4. /\ r.partner.hold = d.partner.hold /\ r.partner.paid = d.partner.paid
        /\ r.payouts = d.payouts /\ r.purchases = d.purchases /\ r.tenants = e.tenants
    BY <2>2, <2>3, AwardKeeps
  <2>5. ASSUME NEW t \in Tenants PROVE e.tenants[t].purchased = d.tenants[t].purchased
    <3>1. d.tenants[o.tenant] \in Tenant
      BY <1>0, <2>1
    <3> QED  BY <1>0, <2>1, <2>2, <3>1 DEF Tenant
  <2> QED  BY <1>p, <1>q, <2>4, <2>5
<1> QED  BY <1>1, <1>2, <1>3, <1>4, <1>5, <1>6, RequestKinds

\* What is on hold and what has been paid are the sums of the pending and of the approved
\* payout requests, and what a tenant bought is the sum of its approved purchases, however
\* the transactions that request and decide overlap.
THEOREM RequestsAccount == Spec => []RequestsExplained
<1>1. Init => RequestsExplained
  BY OpeningCounted, Counted DEF Init
<1>2. IInv /\ RequestsExplained /\ [Next]_vars => RequestsExplained'
  <2> SUFFICES ASSUME IInv, RequestsExplained, [Next]_vars PROVE RequestsExplained'
    OBVIOUS
  <2>1. db \in Database /\ PayoutsCounted(db) /\ PurchasesCounted(db)
    BY Counted, SameDatabase DEF IInv, TypeOK, Atomic!TypeOK
  <2>2. PayoutsCounted(db') /\ PurchasesCounted(db')
    BY <2>1, StepPerforms, AppliedCounted
  <2>3. (PayoutsCounted(db) /\ PurchasesCounted(db))'
    BY <2>2
  <2> QED  BY <2>3, Counted, PTL
<1> QED  BY <1>1, <1>2, Invariance, PTL DEF Spec
=============================================================================
