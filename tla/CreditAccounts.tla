--------------------------- MODULE CreditAccounts ---------------------------
(***************************************************************************)
(* What the credit and payout handlers promise: every request is carried   *)
(* out in one step, on the database as it is at that moment.  The handlers *)
(* as they run, several at a time, are in CreditTransactions.              *)
(***************************************************************************)
EXTENDS CreditOperations, FiniteSetsExt

VARIABLE db

Init == db = OpeningDatabase

Perform(o) ==
  /\ Allowed(o, db)
  /\ db' = Applied(o, db, db)

Next == \E o \in Requests(db) : Perform(o)

Spec == Init /\ [][Next]_db

----------------------------------------------------------------------------
(* Every document has the shape its schema gives it; in particular no      *)
(* balance is negative (`min: 0' in the models).                           *)
TypeOK == db \in Database

(* What the partner has earned is available, on hold or paid: no handler   *)
(* creates or loses money, whatever the order of requests and decisions.   *)
MoneyConserved ==
  db.partner.earned = db.partner.available + db.partner.hold + db.partner.paid

Total(status) ==
  SumFunctionOnSet([i \in DOMAIN db.payouts |-> db.payouts[i].amount],
                   {i \in DOMAIN db.payouts : db.payouts[i].status = status})

(* The money on hold is exactly that of the pending requests and the money *)
(* paid that of the approved ones, so that a pending request can always be *)
(* decided and none is paid twice.                                         *)
RequestsBalance ==
  /\ db.partner.hold = Total("PENDING")
  /\ db.partner.paid = Total("APPROVED")

(* The credits a tenant bought are those of its approved purchases: no     *)
(* approval is counted twice and none is lost.                             *)
PurchasesBalance ==
  \A t \in Tenants :
    db.tenants[t].purchased =
      SumFunctionOnSet([i \in DOMAIN db.purchases |-> db.purchases[i].credits],
                       {i \in DOMAIN db.purchases : /\ db.purchases[i].tenant = t
                                                    /\ db.purchases[i].status = "APPROVED"})

Chained(ledger, balance) ==
  /\ \A i \in 1 .. Len(ledger) - 1 : ledger[i + 1].before = ledger[i].after
  /\ balance = IF ledger = << >> THEN 0 ELSE ledger[Len(ledger)].after

(* Each ledger accounts for its balance: an entry starts where the one     *)
(* before it ended, and the last one ends at the balance of the document.  *)
LedgersExplain ==
  /\ Chained(db.partnerLedger.AVAILABLE, db.partner.available)
  /\ \A t \in Tenants : Chained(db.tenantLedger[t], db.tenants[t].credits)

Decided(requests, after) ==
  \A i \in DOMAIN requests :
    requests[i].status # "PENDING" => i \in DOMAIN after /\ after[i] = requests[i]

(* A decision is final: an approved or rejected request never changes.     *)
DecisionsStand ==
  [][Decided(db.payouts, db'.payouts) /\ Decided(db.purchases, db'.purchases)]_db
=============================================================================
