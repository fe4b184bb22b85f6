-------------------------- MODULE DiscountRequests --------------------------
(***************************************************************************)
(* The key-purchase discounts of one tenant: the administrator edits them, *)
(* the partner asks for other ones, which the administrator approves or    *)
(* rejects, and the tenant buys keys at the price of the version it read.  *)
(* A caller may name the version it was shown; the partner's request and   *)
(* the tenant's purchase read the tenant and write a document later.       *)
(***************************************************************************)
EXTENDS Integers, Sequences, FiniteSets

CONSTANTS Clerks,        \* calls that may be in progress at once
          Percentages,   \* discounts a caller may ask for, in percent
          Quantities,    \* numbers of keys bought
          KeyPrice,      \* price of one key, in paise
          VersionLimit,  \* bound: versions of the configuration
          RequestLimit,  \* bound: change requests
          PurchaseLimit  \* bound: purchases

ASSUME DiscountAssumption == Percentages \subseteq 0..50 /\ KeyPrice \in Nat /\ Quantities \subseteq Nat \ {0}

VARIABLES history,   \* the slabs of every version so far; the last is the tenant's
          changes,   \* the TenantCreditDiscountChangeRequest documents
          purchases, \* version, quantity and amount of the purchases submitted
          clerk       \* what each call in progress has read

discountVars == <<history, changes, purchases, clerk>>

(* The ranges are fixed; a configuration gives each a percentage, and the  *)
(* first one no discount (normalizeTenantCreditDiscountSlabs).             *)
SlabStarts == <<0, 26, 76, 151, 251, 451, 751>>
SlabsWith(p) == [k \in DOMAIN SlabStarts |-> IF k = 1 THEN 0 ELSE p]
Configurations == {SlabsWith(p) : p \in Percentages}
MatchedSlab(quantity) ==
  CHOOSE k \in DOMAIN SlabStarts :
    /\ SlabStarts[k] <= quantity
    /\ \A n \in DOMAIN SlabStarts : SlabStarts[n] <= quantity => n <= k

(* calculateTenantCreditPurchasePricing, in paise and rounded to a paisa.  *)
Gross(quantity) == quantity * KeyPrice
Discount(slabs, quantity) == (Gross(quantity) * slabs[MatchedSlab(quantity)] + 50) \div 100
Amount(slabs, quantity) == Gross(quantity) - Discount(slabs, quantity)

Unasked == [call |-> "none"]
Version == Len(history)
Current == history[Version]
PendingRequests == {r \in DOMAIN changes : changes[r].status = "PENDING"}
Asked(c, r) == clerk[c] = Unasked /\ clerk' = [clerk EXCEPT ![c] = r]
Answered(c) == clerk' = [clerk EXCEPT ![c] = Unasked]

DiscountsInit ==
  /\ history = <<SlabsWith(0)>>
  /\ changes = <<>>
  /\ purchases = <<>>
  /\ clerk = [c \in Clerks |-> Unasked]

(* A portal shows the tenant's configuration; its caller names the version *)
(* shown, or none (0), when it saves.                                      *)
Named(c) == clerk[c].named \in {0, Version}

(* updateTenantCreditPurchaseDiscounts, for a portal that showed a version.*)
ShowEditor(c, slabs) ==
  /\ \E named \in {0, Version} :
       Asked(c, [call |-> "edit", named |-> named, slabs |-> slabs, seen |-> Version])
  /\ UNCHANGED <<history, changes, purchases>>

\* Mutant: the filter forgets the version that the caller names.
NamedOrNot(c) == TRUE
EditAllowed(c) == Named(c)

SaveDiscounts(c) ==
  /\ clerk[c].call = "edit" /\ Version < VersionLimit
  /\ history' = IF EditAllowed(c) THEN Append(history, clerk[c].slabs) ELSE history
  /\ Answered(c)
  /\ UNCHANGED <<changes, purchases>>

(* updatePartnerTenantCreditPurchaseDiscounts reads the tenant, looks for  *)
(* a pending request and creates one; a unique index keeps one per tenant. *)
ShowPartner(c, slabs) ==
  /\ \E named \in {0, Version} : Asked(c, [call |-> "partner", named |-> named, slabs |-> slabs])
  /\ UNCHANGED <<history, changes, purchases>>
ReadForRequest(c) ==
  /\ clerk[c].call = "partner"
  /\ clerk' = [clerk EXCEPT ![c] =
                IF Named(c) THEN [call |-> "create", base |-> Version, current |-> Current,
                                  slabs |-> clerk[c].slabs]
                ELSE Unasked]
  /\ UNCHANGED <<history, changes, purchases>>

MayCreate == PendingRequests = {}

CreateRequest(c) ==
  /\ clerk[c].call = "create" /\ Len(changes) < RequestLimit
  /\ changes' = IF ~MayCreate THEN changes
                ELSE Append(changes, [status |-> "PENDING", base |-> clerk[c].base,
                                      current |-> clerk[c].current, slabs |-> clerk[c].slabs,
                                      applied |-> 0])
  /\ Answered(c)
  /\ UNCHANGED <<history, purchases>>

\* Mutant: an approval applies the request to whatever has become current.
BaseIsPast(request) == request.base <= Version
Applicable(request) == request.base = Version

(* approve and rejectTenantCreditDiscountChangeRequest, each in one        *)
(* transaction; an approval of an outdated request leaves it pending.      *)
ApproveChange(r) ==
  /\ r \in PendingRequests /\ Applicable(changes[r]) /\ Version < VersionLimit
  /\ history' = Append(history, changes[r].slabs)
  /\ changes' = [changes EXCEPT ![r].status = "APPROVED", ![r].applied = Version + 1]
  /\ UNCHANGED <<purchases, clerk>>
RejectChange(r) ==
  /\ r \in PendingRequests
  /\ changes' = [changes EXCEPT ![r].status = "REJECTED"]
  /\ UNCHANGED <<history, purchases, clerk>>

(* submitCreditPurchaseRequest prices the keys from the tenant it read and *)
(* uploads the payment proof before it creates the purchase.               *)
ReadForPurchase(c, quantity) ==
  /\ Asked(c, [call |-> "purchase", quantity |-> quantity, version |-> Version, slabs |-> Current])
  /\ UNCHANGED <<history, changes, purchases>>

PricedWith(c) == clerk[c].slabs

CreatePurchase(c) ==
  /\ clerk[c].call = "purchase" /\ Len(purchases) < PurchaseLimit
  /\ purchases' = Append(purchases, [version |-> clerk[c].version, quantity |-> clerk[c].quantity,
                                     amount |-> Amount(PricedWith(c), clerk[c].quantity)])
  /\ Answered(c)
  /\ UNCHANGED <<history, changes>>

DiscountsNext ==
  \/ \E c \in Clerks :
       \/ \E slabs \in Configurations : ShowEditor(c, slabs) \/ ShowPartner(c, slabs)
       \/ SaveDiscounts(c) \/ ReadForRequest(c) \/ CreateRequest(c)
       \/ \E quantity \in Quantities : ReadForPurchase(c, quantity)
       \/ CreatePurchase(c)
  \/ \E r \in 1..RequestLimit : ApproveChange(r) \/ RejectChange(r)

-----------------------------------------------------------------------------
(* At most one request of a tenant waits for a decision, whatever overlaps *)
(* (index one_pending_tenant_credit_discount_change_per_tenant).           *)
OnePendingChange == Cardinality(PendingRequests) <= 1

(* An approved request replaced exactly the configuration it was made for: *)
(* the slabs it recorded as current when the partner asked are those of    *)
(* the version before the one it became.                                   *)
ApprovedAsAsked ==
  \A r \in DOMAIN changes : changes[r].status = "APPROVED" =>
    /\ history[changes[r].applied] = changes[r].slabs
    /\ changes[r].applied > 1 /\ history[changes[r].applied - 1] = changes[r].current

(* An edit that names the version it was shown never overwrites one that   *)
(* came in between (updateTenantCreditPurchaseDiscounts).                  *)
NoLostEdit ==
  [][\A c \in Clerks :
       clerk[c].call = "edit" /\ clerk[c].named # 0 /\ history' # history /\ clerk'[c] = Unasked
       => clerk[c].seen = Version]_discountVars

(* Every purchase costs what the version it names says, also when the      *)
(* discounts changed between the quote and the purchase.                   *)
PricedAsNamed ==
  \A k \in DOMAIN purchases :
    purchases[k].amount = Amount(history[purchases[k].version], purchases[k].quantity)

(* Tenant and partner get the terms they were shown: one change at a time  *)
(* is pending, it is applied to what it was made for, and a purchase costs *)
(* what the version it names says.                                         *)
TermsAgreed == OnePendingChange /\ ApprovedAsAsked /\ PricedAsNamed
=============================================================================
