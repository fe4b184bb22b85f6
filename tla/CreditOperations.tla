-------------------------- MODULE CreditOperations --------------------------
(***************************************************************************)
(* What the credit and payout handlers do to the database, as operators on *)
(* its contents.  A handler reads documents in a transaction, computes the *)
(* new balances in JavaScript and saves them as absolute values, so each   *)
(* operator takes two databases: the snapshot `s' the handler read and the *)
(* database `d' it writes to.                                              *)
(*                                                                         *)
(* One channel partner is modelled (two partners share no document) and a  *)
(* set of its tenants.  Amounts are whole units: the code rounds every     *)
(* balance to two decimals.  Two things are left to the environment: the   *)
(* commission a purchase earns is any member of Commissions (0 stands for  *)
(* a tenant without a partner, a price of 0 or a percentage of 0), and a   *)
(* refusal for a reason not modelled (an inactive partner, a missing proof *)
(* image, a price that does not match) is a request that never begins.  A  *)
(* borrower created as a free test charges nothing and is left out.        *)
(***************************************************************************)
EXTENDS Integers, Sequences

CONSTANTS
  Tenants,         \* the tenants of the partner
  Amounts,         \* amounts a payout is requested for
  Credits,         \* numbers of credits bought, granted or deducted at once
  Commissions,     \* what one sale of credits earns the partner
  OpeningEarned,   \* commission earned before the model starts
  OpeningCredits   \* credits granted to each tenant before the model starts

ASSUME AmountsAssumption == Amounts \subseteq Nat \ {0}
ASSUME CreditsAssumption == Credits \subseteq Nat \ {0}
ASSUME CommissionsAssumption == Commissions \subseteq Nat
ASSUME OpeningAssumption == OpeningEarned \in Nat /\ OpeningCredits \in Nat

----------------------------------------------------------------------------
(* Documents.                                                              *)

Statuses == {"PENDING", "APPROVED", "REJECTED"}

Partner == [available : Nat, hold : Nat, earned : Nat, paid : Nat]

Tenant == [credits : Nat, purchased : Nat]

Payout == [amount : Nat, status : Statuses]

Purchase == [tenant : Tenants, credits : Nat, status : Statuses]

LedgerEntry == [delta : Int, before : Nat, after : Nat]

(* The entries of the partner's ledger are kept apart by balanceType.      *)
Database ==
  [partner : Partner,
   tenants : [Tenants -> Tenant],
   payouts : Seq(Payout),
   purchases : Seq(Purchase),
   partnerLedger : [AVAILABLE : Seq(LedgerEntry), HOLD : Seq(LedgerEntry)],
   tenantLedger : [Tenants -> Seq(LedgerEntry)]]

Entry(before, delta) ==
  [delta |-> delta, before |-> before, after |-> before + delta]

OpeningLedger(n) == IF n = 0 THEN << >> ELSE << Entry(0, n) >>

OpeningDatabase ==
  [partner |-> [available |-> OpeningEarned, hold |-> 0,
                earned |-> OpeningEarned, paid |-> 0],
   tenants |-> [t \in Tenants |-> [credits |-> OpeningCredits, purchased |-> 0]],
   payouts |-> << >>,
   purchases |-> << >>,
   partnerLedger |-> [AVAILABLE |-> OpeningLedger(OpeningEarned), HOLD |-> << >>],
   tenantLedger |-> [t \in Tenants |-> OpeningLedger(OpeningCredits)]]

----------------------------------------------------------------------------
(* Requests and the conditions under which a handler goes ahead.           *)

Requests(d) ==
       [kind : {"requestPayout"}, amount : Amounts]
  \cup [kind : {"approvePayout", "rejectPayout"}, id : DOMAIN d.payouts]
  \cup [kind : {"submitPurchase"}, tenant : Tenants, credits : Credits]
  \cup [kind : {"approvePurchase"}, id : DOMAIN d.purchases, commission : Commissions]
  \cup [kind : {"rejectPurchase"}, id : DOMAIN d.purchases]
  \cup [kind : {"grant"}, tenant : Tenants, credits : Credits, commission : Commissions]
  \cup [kind : {"deduct"}, tenant : Tenants, credits : Credits]
  \cup [kind : {"enroll"}, tenant : Tenants]

(* An enrollment charges one key.                                          *)
Charge(o) == IF o.kind = "enroll" THEN 1 ELSE o.credits

PayoutDecidable(o, d) ==
  /\ d.payouts[o.id].status = "PENDING"
  /\ d.partner.hold >= d.payouts[o.id].amount

(* Mutant of Allowed: balances are not checked.                            *)
AllowedUnfunded(o, d) ==
  CASE o.kind \in {"approvePayout", "rejectPayout"} -> PayoutDecidable(o, d)
    [] o.kind \in {"approvePurchase", "rejectPurchase"} ->
         d.purchases[o.id].status = "PENDING"
    [] OTHER -> TRUE

Allowed(o, d) ==
  CASE o.kind = "requestPayout" -> d.partner.available >= o.amount
    [] o.kind \in {"approvePayout", "rejectPayout"} -> PayoutDecidable(o, d)
    [] o.kind \in {"approvePurchase", "rejectPurchase"} ->
         d.purchases[o.id].status = "PENDING"
    [] o.kind \in {"deduct", "enroll"} -> d.tenants[o.tenant].credits >= Charge(o)
    [] OTHER -> TRUE

----------------------------------------------------------------------------
(* What a handler writes to `d' having read `s'.                           *)

RequestPayout(o, s, d) ==
  [d EXCEPT !.partner.available = s.partner.available - o.amount,
            !.partner.hold = s.partner.hold + o.amount,
            !.payouts = Append(@, [amount |-> o.amount, status |-> "PENDING"]),
            !.partnerLedger.AVAILABLE =
               Append(@, Entry(s.partner.available, -o.amount))]

ApprovePayout(o, s, d) ==
  LET amount == s.payouts[o.id].amount IN
  [d EXCEPT !.partner.hold = s.partner.hold - amount,
            !.partner.paid = s.partner.paid + amount,
            !.payouts[o.id].status = "APPROVED",
            !.partnerLedger.HOLD = Append(@, Entry(s.partner.hold, -amount))]

RejectPayout(o, s, d) ==
  LET amount == s.payouts[o.id].amount IN
  [d EXCEPT !.partner.available = s.partner.available + amount,
            !.partner.hold = s.partner.hold - amount,
            !.payouts[o.id].status = "REJECTED",
            !.partnerLedger.AVAILABLE = Append(@, Entry(s.partner.available, amount))]

(* awardPartnerCreditForTenantCreditPurchase: nothing is saved and no      *)
(* entry is written when the commission is 0.                              *)
Award(commission, s, d) ==
  IF commission = 0 THEN d
  ELSE [d EXCEPT !.partner.available = s.partner.available + commission,
                 !.partner.earned = s.partner.earned + commission,
                 !.partnerLedger.AVAILABLE =
                    Append(@, Entry(s.partner.available, commission))]

SubmitPurchase(o, d) ==
  [d EXCEPT !.purchases = Append(@, [tenant |-> o.tenant, credits |-> o.credits,
                                     status |-> "PENDING"])]

ApprovePurchase(o, s, d) ==
  LET p == s.purchases[o.id]
      t == s.tenants[p.tenant]
  IN Award(o.commission, s,
       [d EXCEPT !.tenants[p.tenant] = [credits |-> t.credits + p.credits,
                                        purchased |-> t.purchased + p.credits],
                 !.tenantLedger[p.tenant] = Append(@, Entry(t.credits, p.credits)),
                 !.purchases[o.id].status = "APPROVED"])

RejectPurchase(o, d) == [d EXCEPT !.purchases[o.id].status = "REJECTED"]

ChangeCredits(t, delta, s, d) ==
  [d EXCEPT !.tenants[t].credits = s.tenants[t].credits + delta,
            !.tenantLedger[t] = Append(@, Entry(s.tenants[t].credits, delta))]

(* adjustTenantCredits with a positive delta, which earns commission but   *)
(* does not count as purchased.                                            *)
GrantCredits(o, s, d) ==
  Award(o.commission, s, ChangeCredits(o.tenant, o.credits, s, d))

(* adjustTenantCredits with a negative delta, or an enrollment.            *)
SpendCredits(o, s, d) == ChangeCredits(o.tenant, -Charge(o), s, d)

Applied(o, s, d) ==
  CASE o.kind = "requestPayout"   -> RequestPayout(o, s, d)
    [] o.kind = "approvePayout"   -> ApprovePayout(o, s, d)
    [] o.kind = "rejectPayout"    -> RejectPayout(o, s, d)
    [] o.kind = "submitPurchase"  -> SubmitPurchase(o, d)
    [] o.kind = "approvePurchase" -> ApprovePurchase(o, s, d)
    [] o.kind = "rejectPurchase"  -> RejectPurchase(o, d)
    [] o.kind = "grant"           -> GrantCredits(o, s, d)
    [] o.kind \in {"deduct", "enroll"} -> SpendCredits(o, s, d)
=============================================================================
