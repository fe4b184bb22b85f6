------------------------- MODULE CreditTransactions -------------------------
(***************************************************************************)
(* The credit and payout handlers as they run.  Each request has a session *)
(* of its own (mongoose.startSession) and works in one transaction: it     *)
(* reads a snapshot, checks its conditions on what it read, and saves      *)
(* values computed from it.  Sessions overlap freely, and one may fail at  *)
(* any point (an error, a lost connection, a crash of the process): the    *)
(* handlers abort and answer 500, they do not retry.                       *)
(*                                                                         *)
(* submitCreditPurchaseRequest is the exception: it has no transaction.    *)
(* It looks for a pending request and creates one later.                   *)
(*                                                                         *)
(* The transactions of MongoDB are modelled from the way the handlers use  *)
(* them: reads come from a snapshot, the writes appear together at the     *)
(* commit, and a transaction that writes a document another one has        *)
(* committed since its snapshot aborts with a write conflict.              *)
(***************************************************************************)
EXTENDS CreditOperations

CONSTANT Sessions   \* the bound on requests: a session serves one and ends

VARIABLES
  db,   \* the committed contents of the database
  tx    \* what each session is doing

vars == << db, tx >>

New == [status |-> "new"]

Ended == [status |-> "ended"]

Open(o) == [status |-> "open", op |-> o, snapshot |-> db]

IsOpen(s) == tx[s].status = "open"

(* The documents a transaction saves; those it creates conflict with none. *)
SavedPartner(o) ==
  IF \/ o.kind \in {"requestPayout", "approvePayout", "rejectPayout"}
     \/ o.kind \in {"approvePurchase", "grant"} /\ o.commission # 0
  THEN {<< "partner", 0 >>}
  ELSE {}

SavedTenant(o, d) ==
  CASE o.kind = "approvePurchase" -> {<< "tenant", d.purchases[o.id].tenant >>}
    [] o.kind \in {"grant", "deduct", "enroll"} -> {<< "tenant", o.tenant >>}
    [] OTHER -> {}

SavedRequest(o) ==
  CASE o.kind \in {"approvePayout", "rejectPayout"} -> {<< "payout", o.id >>}
    [] o.kind \in {"approvePurchase", "rejectPurchase"} -> {<< "purchase", o.id >>}
    [] OTHER -> {}

(* Mutant of Writes: the partner is saved without the session.             *)
WritesWithoutPartner(o, d) == SavedTenant(o, d) \cup SavedRequest(o)

(* Mutant of Writes: the request is saved without the session.             *)
WritesWithoutRequest(o, d) == SavedPartner(o) \cup SavedTenant(o, d)

Writes(o, d) == SavedPartner(o) \cup SavedTenant(o, d) \cup SavedRequest(o)

SavedBy(s) == Writes(tx[s].op, tx[s].snapshot)

Conflict(r, s) == IsOpen(r) /\ SavedBy(r) \cap SavedBy(s) # {}

PendingPurchases(t) ==
  {i \in DOMAIN db.purchases :
     db.purchases[i].tenant = t /\ db.purchases[i].status = "PENDING"}

----------------------------------------------------------------------------
Init ==
  /\ db = OpeningDatabase
  /\ tx = [s \in Sessions |-> New]

(* Everything the handler reads and checks before its first save.          *)
Begin(s, o) ==
  /\ tx[s] = New
  /\ Allowed(o, db)
  /\ o.kind = "submitPurchase" => PendingPurchases(o.tenant) = {}
  /\ tx' = [tx EXCEPT ![s] = Open(o)]
  /\ UNCHANGED db

(* commitTransaction, or the insertion of a purchase request.  The other   *)
(* transactions that save one of the same documents can only abort now.    *)
Commit(s) ==
  /\ IsOpen(s)
  /\ db' = Applied(tx[s].op, tx[s].snapshot, db)
  /\ tx' = [r \in Sessions |-> IF r = s \/ Conflict(r, s) THEN Ended ELSE tx[r]]

Abort(s) ==
  /\ IsOpen(s)
  /\ tx' = [tx EXCEPT ![s] = Ended]
  /\ UNCHANGED db

Next ==
  \E s \in Sessions :
    \/ \E o \in Requests(db) : Begin(s, o)
    \/ Commit(s)
    \/ Abort(s)

Spec == Init /\ [][Next]_vars

----------------------------------------------------------------------------
Atomic == INSTANCE CreditAccounts

(* The handlers, interleaved and failing in any way, do what the same      *)
(* requests done one at a time would do.                                   *)
Serializable == Atomic!Spec

TypeOK == Atomic!TypeOK
MoneyConserved == Atomic!MoneyConserved
RequestsBalance == Atomic!RequestsBalance
PurchasesBalance == Atomic!PurchasesBalance
LedgersExplain == Atomic!LedgersExplain
DecisionsStand == Atomic!DecisionsStand

(* The books of the overlapping handlers: no commission is lost or paid    *)
(* twice, and each ledger leads without a gap to its balance               *)
(* (requestPartnerPayout, approvePartnerPayoutRequest,                     *)
(* approveTenantCreditPurchaseRequest, createBorrowerEnrollment).          *)
BooksAgree == MoneyConserved /\ LedgersExplain

(* What is on hold, available and purchased follows from the requests and  *)
(* their decisions alone.                                                  *)
RequestsExplained == RequestsBalance /\ PurchasesBalance
=============================================================================
