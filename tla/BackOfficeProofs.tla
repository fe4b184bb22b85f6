--------------------------- MODULE BackOfficeProofs ---------------------------
(* What holds of services of BackOffice for every number of calls in        *)
(* progress, and of the documents they write: the discount requests of a    *)
(* tenant, the onboarding of a partner's tenants, the recovery of an        *)
(* account, the risk checks of a phone, the reminders of an instalment, the *)
(* override tokens of a device, and the builds of the app.                  *)
EXTENDS BackOffice, FiniteSetTheorems, SequenceTheorems, WellFoundedInduction, TLAPS

\* A set without two different elements has cardinality 0 or 1.
LEMMA AtMostOne == ASSUME NEW S, \A x, y \in S : x = y PROVE Cardinality(S) \in {0, 1}
<1>1. CASE S = {}
  BY <1>1, FS_EmptySet
<1>2. CASE S # {}
  <2>1. PICK x \in S : TRUE
    BY <1>2
  <2>2. S = {x}
    BY <2>1
  <2> QED  BY <2>2, FS_Singleton
<1> QED  BY <1>1, <1>2

\* A sequence after one element is appended.
LEMMA Appended ==
  ASSUME NEW S, NEW s \in Seq(S), NEW e \in S
  PROVE  /\ Append(s, e) \in Seq(S) /\ Len(Append(s, e)) = Len(s) + 1
         /\ DOMAIN Append(s, e) = 1..(Len(s) + 1) /\ DOMAIN s = 1..Len(s) /\ Len(s) \in Nat
         /\ \A k \in 1..Len(s) : Append(s, e)[k] = s[k]
         /\ Append(s, e)[Len(s) + 1] = e
OBVIOUS

-----------------------------------------------------------------------------
(* Discount requests *)

Slabs == {SlabsWith(p) : p \in Percentages \cup {0}}
Amounts == {Amount(quote[1], quote[2]) : quote \in Slabs \X Quantities}
ChangeDocs == [status : {"PENDING", "APPROVED", "REJECTED"}, base : Nat, current : Slabs,
               slabs : Slabs, applied : Nat]
PurchaseDocs == [version : Nat, quantity : Quantities, amount : Amounts]

Calls ==
  {Unasked}
  \cup [call : {"edit"}, named : Nat, slabs : Slabs, seen : Nat]
  \cup [call : {"partner"}, named : Nat, slabs : Slabs]
  \cup [call : {"create"}, base : Nat, current : Slabs, slabs : Slabs]
  \cup [call : {"purchase"}, quantity : Quantities, version : Nat, slabs : Slabs]

DiscountTypes ==
  /\ history \in Seq(Slabs) /\ Version >= 1
  /\ changes \in Seq(ChangeDocs)
  /\ purchases \in Seq(PurchaseDocs)
  /\ clerk \in [Clerks -> Calls]

\* What a call has read of a version is what that version says.
Read(r, versions_) ==
  /\ r.call = "edit" => r.named = 0 \/ r.named = r.seen
  /\ r.call = "create" => r.base \in DOMAIN versions_ /\ versions_[r.base] = r.current
  /\ r.call = "purchase" => r.version \in DOMAIN versions_ /\ versions_[r.version] = r.slabs

\* A request was made for a version, and an approved one is the version after it.
Applied(doc, versions_) ==
  /\ doc.base \in DOMAIN versions_ /\ versions_[doc.base] = doc.current
  /\ doc.status = "APPROVED" =>
       doc.applied = doc.base + 1 /\ doc.applied \in DOMAIN versions_ /\ versions_[doc.applied] = doc.slabs

Priced(doc, versions_) ==
  /\ doc.version \in DOMAIN versions_
  /\ doc.amount = Amount(versions_[doc.version], doc.quantity)

OnePending(docs) ==
  \A r, q \in DOMAIN docs : docs[r].status = "PENDING" /\ docs[q].status = "PENDING" => r = q

DiscountInv ==
  /\ DiscountTypes
  /\ \A c \in Clerks : Read(clerk[c], history)
  /\ \A r \in DOMAIN changes : Applied(changes[r], history)
  /\ \A k \in DOMAIN purchases : Priced(purchases[k], history)
  /\ OnePending(changes)

\* A later history keeps the versions there are.
Extends(longer, shorter) ==
  /\ DOMAIN shorter \subseteq DOMAIN longer
  /\ \A v \in DOMAIN shorter : longer[v] = shorter[v]

\* What a call read is still a version of a longer history.
LEMMA ReadExtends ==
  ASSUME NEW r, NEW old, NEW new, Read(r, old), Extends(new, old) PROVE Read(r, new)
BY DEF Read, Extends

\* So is what an applied request names.
LEMMA AppliedExtends ==
  ASSUME NEW doc, NEW old, NEW new, Applied(doc, old), Extends(new, old) PROVE Applied(doc, new)
BY DEF Applied, Extends

\* So is what a purchase was priced at.
LEMMA PricedExtends ==
  ASSUME NEW doc, NEW old, NEW new, Priced(doc, old), Extends(new, old) PROVE Priced(doc, new)
BY DEF Priced, Extends

\* Saving discounts adds one version and changes no earlier one.
LEMMA HistoryNext ==
  ASSUME DiscountInv, NEW slabs \in Slabs, history' = Append(history, slabs)
  PROVE  /\ history' \in Seq(Slabs) /\ Version' = Version + 1 /\ Version' >= 1
         /\ Extends(history', history) /\ Version' \in DOMAIN history' /\ history'[Version'] = slabs
<1>1. history \in Seq(Slabs) /\ Version >= 1 /\ Version \in Nat
  BY DEF DiscountInv, DiscountTypes, Version
<1> QED  BY <1>1, Appended DEF Version, Extends

\* The current version is the last of the history.
LEMMA CurrentSlabs ==
  ASSUME DiscountInv PROVE Version \in DOMAIN history /\ Version \in Nat /\ Current \in Slabs
BY DEF DiscountInv, DiscountTypes, Version, Current

\* What a call of a clerk carries, by its kind.
LEMMA CallTypes ==
  ASSUME DiscountInv, NEW c \in Clerks
  PROVE  /\ clerk[c].call = "edit" =>
              clerk[c].slabs \in Slabs /\ clerk[c].named \in Nat /\ clerk[c].seen \in Nat
         /\ clerk[c].call = "partner" => clerk[c].slabs \in Slabs /\ clerk[c].named \in Nat
         /\ clerk[c].call = "create" =>
              clerk[c].slabs \in Slabs /\ clerk[c].current \in Slabs /\ clerk[c].base \in Nat
         /\ clerk[c].call = "purchase" =>
              clerk[c].slabs \in Slabs /\ clerk[c].quantity \in Quantities /\ clerk[c].version \in Nat
<1>1. clerk[c] \in Calls
  BY DEF DiscountInv, DiscountTypes
<1> QED  BY <1>1 DEF Calls, Unasked

\* The slabs of the configurations are slabs.
LEMMA SlabsOf ==
  /\ \A p \in Percentages : SlabsWith(p) \in Slabs
  /\ SlabsWith(0) \in Slabs /\ Configurations \subseteq Slabs
BY Zenon DEF Slabs, Configurations

\* A call reads, or ends, and writes nothing.
LEMMA ClerkNext ==
  ASSUME DiscountInv, NEW c \in Clerks, NEW r \in Calls, clerk' = [clerk EXCEPT ![c] = r],
         Read(r, history), UNCHANGED <<history, changes, purchases>>
  PROVE  DiscountInv'
<1>1. /\ clerk' \in [Clerks -> Calls]
      /\ \A d \in Clerks : clerk'[d] = IF d = c THEN r ELSE clerk[d]
  BY DEF DiscountInv, DiscountTypes
<1>2. \A d \in Clerks : Read(clerk'[d], history)
  BY <1>1 DEF DiscountInv
<1>3. \A d \in Clerks : Read(clerk'[d], history')
  BY <1>2
<1>4. DiscountTypes'
  BY <1>1 DEF DiscountInv, DiscountTypes, Version
<1> QED  BY <1>3, <1>4 DEF DiscountInv, OnePending

\* A clerk without a call has read nothing.
LEMMA UnaskedRead == Unasked \in Calls /\ \A versions_ : Read(Unasked, versions_)
BY DEF Read, Unasked, Calls

\* Reading the configuration keeps the invariant.
LEMMA ReadingNext ==
  ASSUME DiscountInv, NEW c \in Clerks,
         \/ \E slabs \in Configurations : ShowEditor(c, slabs) \/ ShowPartner(c, slabs)
         \/ ReadForRequest(c) \/ \E quantity \in Quantities : ReadForPurchase(c, quantity)
  PROVE  DiscountInv'
<1>1. ASSUME NEW slabs \in Configurations, ShowEditor(c, slabs) PROVE DiscountInv'
  <2>1. PICK named \in {0, Version} :
          Asked(c, [call |-> "edit", named |-> named, slabs |-> slabs, seen |-> Version])
    BY <1>1 DEF ShowEditor
  <2> DEFINE r == [call |-> "edit", named |-> named, slabs |-> slabs, seen |-> Version]
  <2>2. r \in Calls /\ Read(r, history)
    BY CurrentSlabs, SlabsOf DEF Calls, Read
  <2>3. clerk' = [clerk EXCEPT ![c] = r]
    BY <2>1 DEF Asked
  <2> HIDE DEF r
  <2> QED  BY <1>1, <2>2, <2>3, ClerkNext DEF ShowEditor
<1>2. ASSUME NEW slabs \in Configurations, ShowPartner(c, slabs) PROVE DiscountInv'
  <2>1. PICK named \in {0, Version} : Asked(c, [call |-> "partner", named |-> named, slabs |-> slabs])
    BY <1>2 DEF ShowPartner
  <2> DEFINE r == [call |-> "partner", named |-> named, slabs |-> slabs]
  <2>2. r \in Calls /\ Read(r, history)
    BY CurrentSlabs, SlabsOf DEF Calls, Read
  <2>3. clerk' = [clerk EXCEPT ![c] = r]
    BY <2>1 DEF Asked
  <2> HIDE DEF r
  <2> QED  BY <1>2, <2>2, <2>3, ClerkNext DEF ShowPartner
<1>3. CASE ReadForRequest(c)
  <2> DEFINE r == [call |-> "create", base |-> Version, current |-> Current, slabs |-> clerk[c].slabs]
  <2>1. r \in Calls /\ Read(r, history)
    BY <1>3, CurrentSlabs, CallTypes DEF Calls, Read, ReadForRequest, Current
  <2>2. clerk' = [clerk EXCEPT ![c] = IF Named(c) THEN r ELSE Unasked]
    BY <1>3 DEF ReadForRequest
  <2> HIDE DEF r
  <2>3. CASE Named(c)
    BY <1>3, <2>1, <2>2, <2>3, ClerkNext DEF ReadForRequest
  <2>4. CASE ~Named(c)
    BY <1>3, <2>2, <2>4, UnaskedRead, ClerkNext DEF ReadForRequest
  <2> QED  BY <2>3, <2>4
<1>4. ASSUME NEW quantity \in Quantities, ReadForPurchase(c, quantity) PROVE DiscountInv'
  <2> DEFINE r == [call |-> "purchase", quantity |-> quantity, version |-> Version, slabs |-> Current]
  <2>1. r \in Calls /\ Read(r, history)
    BY CurrentSlabs DEF Calls, Read, Current
  <2>2. clerk' = [clerk EXCEPT ![c] = r]
    BY <1>4 DEF ReadForPurchase, Asked
  <2> HIDE DEF r
  <2> QED  BY <1>4, <2>1, <2>2, ClerkNext DEF ReadForPurchase
<1> QED  BY <1>1, <1>2, <1>3, <1>4

\* The calls in progress when one of them ends and the history has grown.
LEMMA AnsweredNext ==
  ASSUME DiscountInv, NEW c \in Clerks, Answered(c), Extends(history', history)
  PROVE  /\ clerk' \in [Clerks -> Calls]
         /\ \A d \in Clerks : Read(clerk'[d], history')
<1>1. /\ clerk' \in [Clerks -> Calls]
      /\ \A d \in Clerks : clerk'[d] = IF d = c THEN Unasked ELSE clerk[d]
  BY UnaskedRead DEF DiscountInv, DiscountTypes, Answered
<1>2. \A d \in Clerks : Read(clerk[d], history')
  BY ReadExtends DEF DiscountInv
<1> QED  BY <1>1, <1>2, UnaskedRead

\* A history extends itself.
LEMMA SameExtends == \A versions_ : Extends(versions_, versions_)
BY DEF Extends

\* Saving discounts keeps the invariant.
LEMMA SaveDiscountsNext == ASSUME DiscountInv, NEW c \in Clerks, SaveDiscounts(c) PROVE DiscountInv'
<1>1. clerk[c].slabs \in Slabs /\ Answered(c) /\ UNCHANGED <<changes, purchases>>
  BY CallTypes DEF SaveDiscounts
<1>2. history' \in Seq(Slabs) /\ Version' >= 1 /\ Extends(history', history)
  <2>1. CASE EditAllowed(c)
    BY <1>1, <2>1, HistoryNext DEF SaveDiscounts
  <2>2. CASE ~EditAllowed(c)
    <3>1. history' = history
      BY <2>2 DEF SaveDiscounts
    <3> QED  BY <3>1, SameExtends DEF DiscountInv, DiscountTypes, Version
  <2> QED  BY <2>1, <2>2
<1>3. /\ clerk' \in [Clerks -> Calls]
      /\ \A d \in Clerks : Read(clerk'[d], history')
  BY <1>1, <1>2, AnsweredNext
<1>4. DiscountTypes'
  BY <1>1, <1>2, <1>3 DEF DiscountInv, DiscountTypes
<1>5. \A r \in DOMAIN changes : Applied(changes[r], history')
  BY <1>2, AppliedExtends DEF DiscountInv
<1>6. \A k \in DOMAIN purchases : Priced(purchases[k], history')
  BY <1>2, PricedExtends DEF DiscountInv
<1> QED  BY <1>1, <1>3, <1>4, <1>5, <1>6 DEF DiscountInv, OnePending

\* Creating a request keeps it.
LEMMA CreateRequestNext == ASSUME DiscountInv, NEW c \in Clerks, CreateRequest(c) PROVE DiscountInv'
<1> DEFINE doc == [status |-> "PENDING", base |-> clerk[c].base, current |-> clerk[c].current,
                   slabs |-> clerk[c].slabs, applied |-> 0]
<1>1. /\ doc \in ChangeDocs /\ doc.status = "PENDING"
      /\ doc.base = clerk[c].base /\ doc.current = clerk[c].current
  BY CallTypes DEF CreateRequest, ChangeDocs
<1>2. /\ changes' = IF ~MayCreate THEN changes ELSE Append(changes, doc)
      /\ Answered(c) /\ UNCHANGED <<history, purchases>> /\ clerk[c].call = "create"
  BY DEF CreateRequest
<1> HIDE DEF doc
<1>3. Applied(doc, history)
  BY <1>1, <1>2 DEF DiscountInv, Read, Applied
<1>4. /\ clerk' \in [Clerks -> Calls]
      /\ \A d \in Clerks : Read(clerk'[d], history')
  BY <1>2, AnsweredNext, SameExtends
<1>5. /\ changes' \in Seq(ChangeDocs) /\ OnePending(changes')
      /\ \A r \in DOMAIN changes' : Applied(changes'[r], history)
  <2>1. CASE ~MayCreate
    BY <1>2, <2>1 DEF DiscountInv, DiscountTypes
  <2>2. CASE MayCreate
    <3>1. changes' = Append(changes, doc) /\ changes \in Seq(ChangeDocs)
      BY <1>2, <2>2 DEF DiscountInv, DiscountTypes
    <3>2. \A r \in DOMAIN changes : changes[r].status # "PENDING"
      BY <2>2 DEF MayCreate, PendingRequests
    <3>3. /\ changes' \in Seq(ChangeDocs) /\ DOMAIN changes' = DOMAIN changes \cup {Len(changes) + 1}
          /\ \A r \in DOMAIN changes : changes'[r] = changes[r]
          /\ changes'[Len(changes) + 1] = doc
      BY <1>1, <3>1, Appended
    <3> QED  BY <1>3, <3>2, <3>3 DEF OnePending, DiscountInv
  <2> QED  BY <2>1, <2>2
<1>6. DiscountTypes'
  BY <1>2, <1>4, <1>5 DEF DiscountInv, DiscountTypes, Version
<1>7. \A k \in DOMAIN purchases' : Priced(purchases'[k], history')
  BY <1>2 DEF DiscountInv
<1>8. \A r \in DOMAIN changes' : Applied(changes'[r], history')
  BY <1>2, <1>5
<1> QED  BY <1>4, <1>5, <1>6, <1>7, <1>8 DEF DiscountInv

\* Creating a purchase keeps it.
LEMMA CreatePurchaseNext == ASSUME DiscountInv, NEW c \in Clerks, CreatePurchase(c) PROVE DiscountInv'
<1> DEFINE doc == [version |-> clerk[c].version, quantity |-> clerk[c].quantity,
                   amount |-> Amount(PricedWith(c), clerk[c].quantity)]
<1>1. /\ purchases' = Append(purchases, doc)
      /\ Answered(c) /\ UNCHANGED <<history, changes>> /\ clerk[c].call = "purchase"
  BY DEF CreatePurchase
<1>2. PricedWith(c) = clerk[c].slabs
  BY DEF PricedWith
<1>3. Amount(clerk[c].slabs, clerk[c].quantity) \in Amounts
  <2> DEFINE quote == <<clerk[c].slabs, clerk[c].quantity>>
  <2>1. quote \in Slabs \X Quantities /\ quote[1] = clerk[c].slabs /\ quote[2] = clerk[c].quantity
    BY <1>1, CallTypes
  <2> HIDE DEF quote
  <2>2. Amount(quote[1], quote[2]) \in Amounts
    BY <2>1, Zenon DEF Amounts
  <2> QED  BY <2>1, <2>2, Zenon
<1>4. /\ doc \in PurchaseDocs /\ doc.version = clerk[c].version
      /\ doc.quantity = clerk[c].quantity /\ doc.amount = Amount(clerk[c].slabs, clerk[c].quantity)
  <2> DEFINE a == Amount(clerk[c].slabs, clerk[c].quantity)
  <2>1. doc = [version |-> clerk[c].version, quantity |-> clerk[c].quantity, amount |-> a]
    BY <1>2
  <2>2. a \in Amounts
    BY <1>3
  <2> HIDE DEF a, doc
  <2>3. /\ doc \in PurchaseDocs /\ doc.version = clerk[c].version
        /\ doc.quantity = clerk[c].quantity /\ doc.amount = a
    BY <1>1, <2>1, <2>2, CallTypes DEF PurchaseDocs
  <2> QED  BY <2>3 DEF a
<1> HIDE DEF doc
<1>5. Priced(doc, history)
  <2>1. clerk[c].version \in DOMAIN history /\ history[clerk[c].version] = clerk[c].slabs
    BY <1>1 DEF DiscountInv, Read
  <2> QED  BY <1>4, <2>1 DEF Priced
<1>6. /\ clerk' \in [Clerks -> Calls]
      /\ \A d \in Clerks : Read(clerk'[d], history')
  BY <1>1, AnsweredNext, SameExtends
<1>7. /\ purchases' \in Seq(PurchaseDocs)
      /\ \A k \in DOMAIN purchases' : Priced(purchases'[k], history)
  <2>1. purchases \in Seq(PurchaseDocs)
    BY DEF DiscountInv, DiscountTypes
  <2>2. /\ purchases' \in Seq(PurchaseDocs)
        /\ DOMAIN purchases' = DOMAIN purchases \cup {Len(purchases) + 1}
        /\ \A k \in DOMAIN purchases : purchases'[k] = purchases[k]
        /\ purchases'[Len(purchases) + 1] = doc
    BY <1>1, <1>4, <2>1, Appended
  <2> QED  BY <1>5, <2>2 DEF DiscountInv
<1>8. DiscountTypes'
  BY <1>1, <1>6, <1>7 DEF DiscountInv, DiscountTypes, Version
<1>9. \A k \in DOMAIN purchases' : Priced(purchases'[k], history')
  BY <1>1, <1>7
<1> QED  BY <1>1, <1>6, <1>8, <1>9 DEF DiscountInv, OnePending

\* A decision on a pending request, which may add a version.
LEMMA DecisionNext ==
  ASSUME DiscountInv, NEW r \in DOMAIN changes, changes[r].status = "PENDING",
         NEW doc \in ChangeDocs, doc.status # "PENDING", changes' = [changes EXCEPT ![r] = doc],
         Extends(history', history), history' \in Seq(Slabs), Version' >= 1, Applied(doc, history'),
         UNCHANGED <<purchases, clerk>>
  PROVE  DiscountInv'
<1>1. changes \in Seq(ChangeDocs)
  BY DEF DiscountInv, DiscountTypes
<1>2. /\ changes' \in Seq(ChangeDocs) /\ DOMAIN changes' = DOMAIN changes
      /\ \A q \in DOMAIN changes : changes'[q] = IF q = r THEN doc ELSE changes[q]
  BY <1>1
<1>3. DiscountTypes'
  BY <1>2 DEF DiscountInv, DiscountTypes
<1>4. \A c \in Clerks : Read(clerk'[c], history')
  BY ReadExtends DEF DiscountInv
<1>5. \A k \in DOMAIN purchases : Priced(purchases'[k], history')
  BY PricedExtends DEF DiscountInv
<1>6. \A q \in DOMAIN changes' : Applied(changes'[q], history')
  BY <1>2, AppliedExtends DEF DiscountInv
<1>7. OnePending(changes')
  BY <1>2 DEF DiscountInv, OnePending
<1> QED  BY <1>3, <1>4, <1>5, <1>6, <1>7 DEF DiscountInv

\* Approving a change keeps it.
LEMMA ApproveChangeNext ==
  ASSUME DiscountInv, NEW r \in 1..RequestLimit, ApproveChange(r) PROVE DiscountInv'
<1> DEFINE doc == [changes[r] EXCEPT !.status = "APPROVED", !.applied = Version + 1]
<1>1. /\ r \in DOMAIN changes /\ changes[r].status = "PENDING" /\ changes[r].base = Version
      /\ history' = Append(history, changes[r].slabs) /\ UNCHANGED <<purchases, clerk>>
  BY DEF ApproveChange, PendingRequests, Applicable
<1>2. changes[r] \in ChangeDocs /\ changes \in Seq(ChangeDocs) /\ Version \in Nat
  BY <1>1, CurrentSlabs DEF DiscountInv, DiscountTypes
<1>3. changes[r].slabs \in Slabs
  BY <1>2 DEF ChangeDocs
<1>4. /\ doc \in ChangeDocs /\ doc.status = "APPROVED" /\ doc.applied = Version + 1
      /\ doc.base = Version /\ doc.slabs = changes[r].slabs /\ doc.current = changes[r].current
  <2> DEFINE v == Version + 1
  <2>1. v \in Nat
    BY <1>2
  <2>2. doc = [changes[r] EXCEPT !.status = "APPROVED", !.applied = v]
    OBVIOUS
  <2> HIDE DEF v, doc
  <2>3. /\ doc \in ChangeDocs /\ doc.status = "APPROVED" /\ doc.applied = v
        /\ doc.base = changes[r].base /\ doc.slabs = changes[r].slabs /\ doc.current = changes[r].current
    BY <1>2, <2>1, <2>2 DEF ChangeDocs
  <2> QED  BY <1>1, <2>3 DEF v
<1>5. changes' = [changes EXCEPT ![r] = doc]
  BY <1>1, <1>2 DEF ApproveChange
<1> HIDE DEF doc
<1>6. /\ history' \in Seq(Slabs) /\ Version' = Version + 1 /\ Version' >= 1
      /\ Extends(history', history) /\ Version' \in DOMAIN history' /\ history'[Version'] = changes[r].slabs
  BY <1>1, <1>3, HistoryNext
<1>7. Applied(doc, history')
  <2>1. Version \in DOMAIN history' /\ history'[Version] = doc.current
    BY <1>1, <1>4, <1>6, CurrentSlabs DEF DiscountInv, Applied, Extends
  <2> QED  BY <1>4, <1>6, <2>1 DEF Applied
<1> QED  BY <1>1, <1>4, <1>5, <1>6, <1>7, DecisionNext

\* Rejecting one keeps it.
LEMMA RejectChangeNext ==
  ASSUME DiscountInv, NEW r \in 1..RequestLimit, RejectChange(r) PROVE DiscountInv'
<1> DEFINE doc == [changes[r] EXCEPT !.status = "REJECTED"]
<1>1. /\ r \in DOMAIN changes /\ changes[r].status = "PENDING"
      /\ UNCHANGED <<history, purchases, clerk>>
  BY DEF RejectChange, PendingRequests
<1>2. changes[r] \in ChangeDocs /\ changes \in Seq(ChangeDocs)
  BY <1>1 DEF DiscountInv, DiscountTypes
<1>3. /\ doc \in ChangeDocs /\ doc.status = "REJECTED"
      /\ doc.base = changes[r].base /\ doc.current = changes[r].current
  BY <1>2 DEF ChangeDocs
<1>4. changes' = [changes EXCEPT ![r] = doc]
  BY <1>1, <1>2 DEF RejectChange
<1> HIDE DEF doc
<1>5. Applied(doc, history')
  <2>1. Applied(changes[r], history)
    BY <1>1 DEF DiscountInv
  <2> QED  BY <1>1, <1>3, <2>1 DEF Applied
<1>6. history' \in Seq(Slabs) /\ Version' >= 1 /\ Extends(history', history)
  <2>1. history \in Seq(Slabs) /\ Version >= 1
    BY DEF DiscountInv, DiscountTypes
  <2> QED  BY <1>1, <2>1, SameExtends DEF Version
<1> QED  BY <1>1, <1>3, <1>4, <1>5, <1>6, DecisionNext

\* It holds at the start.
LEMMA DiscountInit == ASSUME DiscountsInit PROVE DiscountInv
<1> DEFINE slabs == SlabsWith(0)
<1>1. slabs \in Slabs
  BY SlabsOf
<1>2. history = <<slabs>>
  BY DEF DiscountsInit
<1> HIDE DEF slabs
<1>3. history \in Seq(Slabs) /\ Version >= 1
  BY <1>1, <1>2 DEF Version
<1>4. changes = <<>> /\ purchases = <<>> /\ clerk = [c \in Clerks |-> Unasked]
  BY DEF DiscountsInit
<1>5. clerk \in [Clerks -> Calls] /\ \A c \in Clerks : Read(clerk[c], history)
  BY <1>4, UnaskedRead
<1>6. changes \in Seq(ChangeDocs) /\ purchases \in Seq(PurchaseDocs) /\ DOMAIN changes = {} /\ DOMAIN purchases = {}
  BY <1>4
<1> QED  BY <1>3, <1>5, <1>6 DEF DiscountInv, DiscountTypes, OnePending

\* Every step keeps it.
LEMMA DiscountStep == ASSUME DiscountInv, [Next]_officeVars PROVE DiscountInv'
<1>1. CASE DiscountsNext
  BY <1>1, ReadingNext, SaveDiscountsNext, CreateRequestNext, CreatePurchaseNext, ApproveChangeNext,
     RejectChangeNext
  DEF DiscountsNext
<1>2. CASE UNCHANGED discountVars
  BY <1>2 DEF discountVars, DiscountInv, DiscountTypes, Version
<1> QED  BY <1>1, <1>2 DEF Next, officeVars

\* It holds in every state.
LEMMA DiscountInvariance == Spec => []DiscountInv
<1>1. Init => DiscountInv
  BY DiscountInit DEF Init
<1>2. DiscountInv /\ [Next]_officeVars => DiscountInv'
  BY DiscountStep
<1> QED  BY <1>1, <1>2, PTL DEF Spec

\* The tenant and the partner get the terms they were shown: approveTenantCreditDiscountChangeRequest,
\* submitCreditPurchaseRequest and the edits of the discounts between what they read and write.
THEOREM Terms == Spec => []TermsAgreed
<1>1. DiscountInv => TermsAgreed
  <2> SUFFICES ASSUME DiscountInv PROVE OnePendingChange /\ ApprovedAsAsked /\ PricedAsNamed
    BY DEF TermsAgreed
  <2>1. OnePendingChange
    <3> DEFINE S == PendingRequests
               n == Cardinality(S)
    <3>1. \A r, q \in S : r = q
      BY DEF DiscountInv, OnePending, PendingRequests
    <3> HIDE DEF S
    <3>2. n \in {0, 1}
      BY <3>1, AtMostOne
    <3> HIDE DEF n
    <3>3. n <= 1
      BY <3>2
    <3> QED  BY <3>3 DEF n, S, OnePendingChange
  <2>2. ApprovedAsAsked
    <3> SUFFICES ASSUME NEW r \in DOMAIN changes, changes[r].status = "APPROVED"
                 PROVE  /\ history[changes[r].applied] = changes[r].slabs
                        /\ changes[r].applied > 1 /\ history[changes[r].applied - 1] = changes[r].current
      BY DEF ApprovedAsAsked
    <3>1. Applied(changes[r], history)
      BY DEF DiscountInv
    <3>2. DOMAIN history = 1..Len(history) /\ Len(history) \in Nat
      BY DEF DiscountInv, DiscountTypes
    <3>3. changes[r].base \in Nat /\ changes[r].base >= 1 /\ changes[r].applied = changes[r].base + 1
      BY <3>1, <3>2 DEF Applied
    <3>4. changes[r].applied > 1 /\ changes[r].applied - 1 = changes[r].base
      BY <3>3
    <3> QED  BY <3>1, <3>4 DEF Applied
  <2>3. PricedAsNamed
    BY DEF DiscountInv, Priced, PricedAsNamed
  <2> QED  BY <2>1, <2>2, <2>3
<1> QED  BY <1>1, DiscountInvariance, PTL

\* updateTenantCreditPurchaseDiscounts: an edit that names the version it was shown never
\* overwrites another one.
THEOREM Edits == Spec => NoLostEdit
<1>1. DiscountInv /\ [Next]_officeVars =>
        [\A c \in Clerks :
           clerk[c].call = "edit" /\ clerk[c].named # 0 /\ history' # history /\ clerk'[c] = Unasked
           => clerk[c].seen = Version]_discountVars
  <2> SUFFICES ASSUME DiscountInv, DiscountsNext, NEW c \in Clerks, clerk[c].call = "edit",
                      clerk[c].named # 0, history' # history, clerk'[c] = Unasked
               PROVE  clerk[c].seen = Version
    BY DEF Next, officeVars
  <2>1. clerk[c] # Unasked /\ clerk \in [Clerks -> Calls] /\ clerk[c].named = clerk[c].seen
    BY DEF Unasked, DiscountInv, DiscountTypes, Read
  <2>2. ASSUME NEW d \in Clerks, SaveDiscounts(d) PROVE clerk[c].seen = Version
    <3>1. d = c
      BY <2>1, <2>2 DEF SaveDiscounts, Answered
    <3> QED  BY <2>1, <2>2, <3>1 DEF SaveDiscounts, EditAllowed, Named
  <2>3. ASSUME NEW r \in 1..RequestLimit, ApproveChange(r) \/ RejectChange(r) PROVE FALSE
    BY <2>1, <2>3 DEF ApproveChange, RejectChange
  <2> QED
    BY <2>2, <2>3 DEF DiscountsNext, ShowEditor, ShowPartner, ReadForRequest, CreateRequest,
                      ReadForPurchase, CreatePurchase
<1> QED  BY <1>1, DiscountInvariance, PTL DEF Spec, NoLostEdit

-----------------------------------------------------------------------------
(* Tenant onboarding *)

Roles == {"partner", "tenant"}
Steps == {"signup", "channelPartner", "account", "tenantAccount"}
Numbers == Mobiles \cup {"none"}
OtpDocs == [purpose : {"signup", "tenant"}, mobile : Mobiles,
            verified : BOOLEAN, consumed : BOOLEAN, expired : BOOLEAN]
TenantDocs == [area : Areas, active : BOOLEAN, otp : Nat]
OfficeCalls ==
  {Closed}
  \cup [step : Steps, mobile : Mobiles, role : Roles]
  \cup [step : {"enforce"}, mobile : Numbers, area : Areas, otp : Nat, restricted : BOOLEAN]
  \cup [step : {"insert"}, mobile : Numbers, area : Areas, otp : Nat, locked : BOOLEAN, grown : BOOLEAN]

OnboardingTypes ==
  /\ partner \in [active : BOOLEAN, restricted : BOOLEAN, limit : Limits, area : Areas]
  /\ tenants \in Seq(TenantDocs)
  /\ otps \in Seq(OtpDocs)
  /\ office \in [Offices -> OfficeCalls]

Holding(r) == r.step = "insert" /\ r.locked
CodeKnown(r, known) == r.step \in {"enforce", "insert"} => r.otp = 0 \/ r.otp \in DOMAIN known

\* A creation that holds the partner, and beside which nothing was added, still has room.
PlaceInv ==
  /\ \A o \in Offices : Holding(office[o]) /\ ~office[o].grown =>
       office[o].area = partner.area /\ HasRoom
  /\ \A o, p \in Offices : Holding(office[o]) /\ Holding(office[p]) => o = p

\* The code behind a tenant is consumed.
CodesInv ==
  /\ \A o \in Offices : CodeKnown(office[o], otps)
  /\ \A k \in DOMAIN tenants : tenants[k].otp # 0 =>
       tenants[k].otp \in DOMAIN otps /\ otps[tenants[k].otp].consumed
  /\ OneTenantPerCode

OnboardingInv == OnboardingTypes /\ PlaceInv /\ CodesInv

\* What a call of an office carries, by its step.
LEMMA OfficeTypes ==
  ASSUME OnboardingInv, NEW o \in Offices
  PROVE  /\ office[o].step \in Steps => office[o].mobile \in Mobiles /\ office[o].role \in Roles
         /\ office[o].step = "enforce" =>
              /\ office[o].mobile \in Numbers /\ office[o].area \in Areas /\ office[o].otp \in Nat
              /\ office[o].restricted \in BOOLEAN
         /\ office[o].step = "insert" =>
              /\ office[o].mobile \in Numbers /\ office[o].area \in Areas /\ office[o].otp \in Nat
              /\ office[o].locked \in BOOLEAN /\ office[o].grown \in BOOLEAN
<1>1. office[o] \in OfficeCalls
  BY DEF OnboardingInv, OnboardingTypes
<1> QED  BY <1>1 DEF OfficeCalls, Closed, Steps

\* The codes are typed.
LEMMA OtpTypes ==
  ASSUME OnboardingInv, NEW k \in DOMAIN otps
  PROVE  k \in Nat /\ otps[k] \in OtpDocs /\ otps[k].mobile \in Mobiles
<1>1. otps \in Seq(OtpDocs)
  BY DEF OnboardingInv, OnboardingTypes
<1>2. k \in Nat /\ otps[k] \in OtpDocs
  BY <1>1
<1> QED  BY <1>2 DEF OtpDocs

\* An office without a call holds nothing.
LEMMA ClosedCall == Closed \in OfficeCalls /\ ~Holding(Closed) /\ \A known : CodeKnown(Closed, known)
BY DEF Closed, OfficeCalls, Holding, CodeKnown

\* A call goes on, and writes nothing but its hold on the partner.
LEMMA OfficeNext ==
  ASSUME OnboardingInv, NEW o \in Offices, NEW r \in OfficeCalls, office' = [office EXCEPT ![o] = r],
         CodeKnown(r, otps), Holding(r) => ~Locked /\ r.area = partner.area /\ HasRoom,
         UNCHANGED <<partner, tenants, otps>>
  PROVE  OnboardingInv'
<1>1. /\ office' \in [Offices -> OfficeCalls]
      /\ \A p \in Offices : office'[p] = IF p = o THEN r ELSE office[p]
  BY DEF OnboardingInv, OnboardingTypes
<1>2. HasRoom' = HasRoom
  BY DEF HasRoom, ActiveIn
<1>3. OnboardingTypes'
  BY <1>1 DEF OnboardingInv, OnboardingTypes
<1>4. PlaceInv'
  <2>1. Holding(r) => \A p \in Offices : ~Holding(office[p])
    BY DEF Locked, Holding
  <2> QED  BY <1>1, <1>2, <2>1 DEF OnboardingInv, PlaceInv
<1>5. CodesInv'
  BY <1>1 DEF OnboardingInv, CodesInv, OneTenantPerCode
<1> QED  BY <1>3, <1>4, <1>5 DEF OnboardingInv

\* Codes are sent, verified and expire; none is forgotten.
LEMMA OtpsNext ==
  ASSUME OnboardingInv, otps' \in Seq(OtpDocs), DOMAIN otps \subseteq DOMAIN otps',
         \A k \in DOMAIN otps : otps[k].consumed => otps'[k].consumed,
         UNCHANGED <<partner, tenants, office>>
  PROVE  OnboardingInv'
<1>1. OnboardingTypes'
  BY DEF OnboardingInv, OnboardingTypes
<1>2. PlaceInv'
  BY DEF OnboardingInv, PlaceInv, HasRoom, ActiveIn
<1>3. CodesInv'
  BY DEF OnboardingInv, CodesInv, OneTenantPerCode, CodeKnown
<1> QED  BY <1>1, <1>2, <1>3 DEF OnboardingInv

\* Sending a code keeps the invariant.
LEMMA SendingNext ==
  ASSUME OnboardingInv, NEW mobile \in Mobiles, SendSignupOtp(mobile) \/ SendTenantOtp(mobile)
  PROVE  OnboardingInv'
<1>1. PICK purpose \in {"signup", "tenant"} : SendOtp(purpose, mobile)
  BY DEF SendSignupOtp, SendTenantOtp
<1> DEFINE doc == NewOtp(purpose, mobile)
<1>2. doc \in OtpDocs
  BY DEF NewOtp, OtpDocs
<1>3. otps' = Append(otps, doc) /\ otps \in Seq(OtpDocs) /\ UNCHANGED <<partner, tenants, office>>
  BY <1>1 DEF SendOtp, OnboardingInv, OnboardingTypes
<1> HIDE DEF doc
<1>4. /\ otps' \in Seq(OtpDocs) /\ DOMAIN otps \subseteq DOMAIN otps'
      /\ \A k \in DOMAIN otps : otps'[k] = otps[k]
  BY <1>2, <1>3, Appended
<1> QED  BY <1>3, <1>4, OtpsNext

\* One code is marked.
LEMMA OtpMarked ==
  ASSUME OnboardingInv, NEW k \in DOMAIN otps, NEW doc \in OtpDocs, otps' = [otps EXCEPT ![k] = doc]
  PROVE  /\ otps' \in Seq(OtpDocs) /\ DOMAIN otps' = DOMAIN otps
         /\ \A n \in DOMAIN otps : otps'[n] = IF n = k THEN doc ELSE otps[n]
<1>1. otps \in Seq(OtpDocs)
  BY DEF OnboardingInv, OnboardingTypes
<1> QED  BY <1>1

\* Verifying a code, or its end, keeps it.
LEMMA MarkingNext ==
  ASSUME OnboardingInv, NEW k \in DOMAIN otps, VerifySignupOtp(k) \/ VerifyTenantOtp(k) \/ ExpireOtp(k)
  PROVE  OnboardingInv'
<1>1. otps \in Seq(OtpDocs) /\ otps[k] \in OtpDocs
  BY DEF OnboardingInv, OnboardingTypes
<1>2. \E doc \in OtpDocs : doc.consumed = otps[k].consumed /\ otps' = [otps EXCEPT ![k] = doc]
  <2>1. CASE VerifySignupOtp(k) \/ VerifyTenantOtp(k)
    <3> DEFINE doc == [otps[k] EXCEPT !.verified = TRUE]
    <3>1. doc \in OtpDocs /\ doc.consumed = otps[k].consumed
      BY <1>1 DEF OtpDocs
    <3>2. otps' = [otps EXCEPT ![k] = doc]
      BY <1>1, <2>1 DEF VerifySignupOtp, VerifyTenantOtp, VerifyOtp
    <3> HIDE DEF doc
    <3> QED  BY <3>1, <3>2
  <2>2. CASE ExpireOtp(k)
    <3> DEFINE doc == [otps[k] EXCEPT !.expired = TRUE]
    <3>1. doc \in OtpDocs /\ doc.consumed = otps[k].consumed
      BY <1>1 DEF OtpDocs
    <3>2. otps' = [otps EXCEPT ![k] = doc]
      BY <1>1, <2>2 DEF ExpireOtp
    <3> HIDE DEF doc
    <3> QED  BY <3>1, <3>2
  <2> QED  BY <2>1, <2>2
<1>3. PICK doc \in OtpDocs : doc.consumed = otps[k].consumed /\ otps' = [otps EXCEPT ![k] = doc]
  BY <1>2
<1>4. UNCHANGED <<partner, tenants, office>>
  BY DEF VerifySignupOtp, VerifyTenantOtp, VerifyOtp, ExpireOtp
<1> QED  BY <1>3, <1>4, OtpMarked, OtpsNext

\* A number is looked up, or a login created for it.
LoginCall(o) ==
  \/ \E k \in DOMAIN otps : StartSignup(o, k)
  \/ \E mobile \in Mobiles :
       \/ StartChannelPartner(o, mobile) \/ StartTenantAccount(o, mobile)
       \/ \E role \in Roles : StartAdminAccount(o, mobile, role)
  \/ CompleteSignup(o) \/ CreateChannelPartner(o) \/ CreateAdminAccount(o) \/ CreateTenantAccount(o)

\* Starting a creation keeps it.
LEMMA StartNext ==
  ASSUME OnboardingInv, NEW o \in Offices, NEW op, NEW step \in Steps, NEW mobile \in Mobiles,
         NEW role \in Roles, StartCreation(o, op, step, mobile, role)
  PROVE  OnboardingInv'
<1> DEFINE r == [step |-> step, mobile |-> mobile, role |-> role]
<1>1. r \in OfficeCalls /\ ~Holding(r) /\ CodeKnown(r, otps)
  BY DEF OfficeCalls, Holding, CodeKnown, Steps
<1>2. office' = [office EXCEPT ![o] = r] /\ UNCHANGED <<partner, tenants, otps>>
  BY DEF StartCreation, Opens
<1> HIDE DEF r
<1> QED  BY <1>1, <1>2, OfficeNext

\* A login keeps it.
LEMMA LoginNext == ASSUME OnboardingInv, NEW o \in Offices, LoginCall(o) PROVE OnboardingInv'
<1>1. ASSUME NEW step, CreateLogin(o, step) PROVE OnboardingInv'
  BY <1>1, ClosedCall, OfficeNext DEF CreateLogin, Closes, Turns
<1>2. ASSUME NEW k \in DOMAIN otps, StartSignup(o, k) PROVE OnboardingInv'
  <2>1. otps[k].mobile \in Mobiles
    BY OtpTypes
  <2>2. "signup" \in Steps /\ "partner" \in Roles
    BY DEF Steps, Roles
  <2> QED  BY <1>2, <2>1, <2>2, StartNext DEF StartSignup
<1>3. ASSUME NEW mobile \in Mobiles, NEW role \in Roles, StartAdminAccount(o, mobile, role)
      PROVE  OnboardingInv'
  <2>1. "account" \in Steps
    BY DEF Steps
  <2> QED  BY <1>3, <2>1, StartNext DEF StartAdminAccount
<1>4. ASSUME NEW mobile \in Mobiles, StartChannelPartner(o, mobile) \/ StartTenantAccount(o, mobile)
      PROVE  OnboardingInv'
  <2>1. "channelPartner" \in Steps /\ "tenantAccount" \in Steps /\ Roles = {"partner", "tenant"}
    BY DEF Steps, Roles
  <2>2. CASE StartChannelPartner(o, mobile)
    BY <2>1, <2>2, StartNext DEF StartChannelPartner
  <2>3. CASE StartTenantAccount(o, mobile)
    BY <2>1, <2>3, StartNext DEF StartTenantAccount
  <2> QED  BY <1>4, <2>2, <2>3
<1> QED
  BY <1>1, <1>2, <1>3, <1>4
  DEF LoginCall, CompleteSignup, CreateChannelPartner, CreateAdminAccount, CreateTenantAccount

\* A tenant creation is a call that knows the code it names.
LEMMA CreationCall ==
  ASSUME OnboardingInv, NEW mobile \in Numbers, NEW area \in Areas, NEW k \in Nat,
         k = 0 \/ k \in DOMAIN otps
  PROVE  /\ Creation(mobile, area, k) \in OfficeCalls
         /\ ~Holding(Creation(mobile, area, k)) /\ CodeKnown(Creation(mobile, area, k), otps)
<1>1. partner.restricted \in BOOLEAN
  BY DEF OnboardingInv, OnboardingTypes
<1> QED  BY <1>1 DEF Creation, OfficeCalls, Holding, CodeKnown

\* Starting the creation of a tenant keeps the invariant.
LEMMA StartTenantNext ==
  ASSUME OnboardingInv, NEW o \in Offices, NEW area \in Areas,
         \/ \E k \in DOMAIN otps : StartPartnerTenant(o, k, area)
         \/ StartBareTenant(o, area)
         \/ \E mobile \in Mobiles : StartAdminTenant(o, mobile, area)
  PROVE  OnboardingInv'
<1>1. \E mobile \in Numbers, k \in Nat :
        /\ k = 0 \/ k \in DOMAIN otps
        /\ office' = [office EXCEPT ![o] = Creation(mobile, area, k)]
        /\ UNCHANGED <<partner, tenants, otps>>
  <2>1. ASSUME NEW k \in DOMAIN otps, StartPartnerTenant(o, k, area)
        PROVE  /\ otps[k].mobile \in Numbers /\ k \in Nat
               /\ office' = [office EXCEPT ![o] = Creation(otps[k].mobile, area, k)]
               /\ UNCHANGED <<partner, tenants, otps>>
    <3>1. otps[k].mobile \in Numbers /\ k \in Nat
      BY OtpTypes DEF Numbers
    <3> QED  BY <2>1, <3>1 DEF StartPartnerTenant, Opens
  <2>2. ASSUME StartBareTenant(o, area)
        PROVE  /\ "none" \in Numbers /\ 0 \in Nat
               /\ office' = [office EXCEPT ![o] = Creation("none", area, 0)]
               /\ UNCHANGED <<partner, tenants, otps>>
    BY <2>2 DEF StartBareTenant, Opens, Numbers
  <2>3. ASSUME NEW mobile \in Mobiles, StartAdminTenant(o, mobile, area)
        PROVE  /\ mobile \in Numbers /\ 0 \in Nat
               /\ office' = [office EXCEPT ![o] = Creation(mobile, area, 0)]
               /\ UNCHANGED <<partner, tenants, otps>>
    BY <2>3 DEF StartAdminTenant, Opens, Numbers
  <2> QED  BY <2>1, <2>2, <2>3
<1>2. PICK mobile \in Numbers, k \in Nat :
        /\ k = 0 \/ k \in DOMAIN otps
        /\ office' = [office EXCEPT ![o] = Creation(mobile, area, k)]
        /\ UNCHANGED <<partner, tenants, otps>>
  BY <1>1
<1> QED  BY <1>2, CreationCall, OfficeNext

\* The check of the partner's restriction keeps it.
LEMMA EnforceNext == ASSUME OnboardingInv, NEW o \in Offices, Enforce(o) PROVE OnboardingInv'
<1> DEFINE checked == office[o].restricted /\ partner.active /\ partner.restricted
           granted == [step |-> "insert", mobile |-> office[o].mobile, area |-> office[o].area,
                       otp |-> office[o].otp, locked |-> checked, grown |-> FALSE]
<1>1. checked \in BOOLEAN
  OBVIOUS
<1>2. /\ office[o].step = "enforce" /\ UNCHANGED <<partner, tenants, otps>>
      /\ IF ~checked THEN Turns(o, granted)
         ELSE IF MayHold /\ office[o].area = partner.area /\ HasRoom THEN Turns(o, granted)
         ELSE Closes(o)
  BY DEF Enforce
<1>3. CodeKnown(office[o], otps)
  BY DEF OnboardingInv, CodesInv
<1>4. /\ granted \in OfficeCalls /\ granted.step = "insert" /\ granted.locked = checked
      /\ granted.area = office[o].area /\ CodeKnown(granted, otps)
  <2> HIDE DEF checked
  <2> QED  BY <1>1, <1>2, <1>3, OfficeTypes DEF OfficeCalls, CodeKnown
<1> HIDE DEF checked, granted
<1>5. CASE Turns(o, granted)
  <2>1. checked => ~Locked /\ office[o].area = partner.area /\ HasRoom
    <3>1. Closes(o) => granted = Closed
      <4>1. granted \in OfficeCalls /\ office \in [Offices -> OfficeCalls]
        BY <1>4 DEF OnboardingInv, OnboardingTypes
      <4> QED  BY <1>5, <4>1 DEF Closes, Turns
    <3>2. granted # Closed
      BY <1>4 DEF Closed
    <3> QED  BY <1>2, <3>1, <3>2 DEF MayHold
  <2>2. Holding(granted) => ~Locked /\ granted.area = partner.area /\ HasRoom
    BY <1>4, <2>1 DEF Holding
  <2> QED  BY <1>2, <1>4, <1>5, <2>2, OfficeNext DEF Turns
<1>6. CASE Closes(o)
  BY <1>2, <1>6, ClosedCall, OfficeNext DEF Closes, Turns
<1> QED  BY <1>2, <1>5, <1>6

\* An aborted creation keeps it.
LEMMA AbortNext == ASSUME OnboardingInv, NEW o \in Offices, AbortTenant(o) PROVE OnboardingInv'
BY ClosedCall, OfficeNext DEF AbortTenant, Closes, Turns

\* The administrator changes the partner while no creation holds it.
LEMMA PartnerNext ==
  ASSUME OnboardingInv, UpdateChannelPartner \/ UpdateChannelPartnerStatus PROVE OnboardingInv'
<1>1. ~Locked /\ UNCHANGED <<tenants, otps, office>>
  BY DEF UpdateChannelPartner, UpdateChannelPartnerStatus
<1>2. partner' \in [active : BOOLEAN, restricted : BOOLEAN, limit : Limits, area : Areas]
  BY DEF UpdateChannelPartner, UpdateChannelPartnerStatus, OnboardingInv, OnboardingTypes
<1>3. OnboardingTypes'
  BY <1>1, <1>2 DEF OnboardingInv, OnboardingTypes
<1>4. \A o \in Offices : ~Holding(office[o])
  BY <1>1 DEF Locked, Holding
<1>5. PlaceInv'
  BY <1>1, <1>4 DEF PlaceInv
<1>6. CodesInv'
  BY <1>1 DEF OnboardingInv, CodesInv, OneTenantPerCode
<1> QED  BY <1>3, <1>5, <1>6 DEF OnboardingInv

\* The calls in progress when tenants were added or changed beside them.
LEMMA GrownCalls ==
  ASSUME OnboardingInv, NEW unheld \in BOOLEAN, NEW o \in Offices
  PROVE  /\ Grown(unheld)[o] \in OfficeCalls
         /\ Grown(unheld)[o].step = office[o].step
         /\ Holding(Grown(unheld)[o]) <=> Holding(office[o])
         /\ Grown(unheld)[o].area = office[o].area
         /\ CodeKnown(Grown(unheld)[o], otps)
         /\ ~unheld => Grown(unheld)[o] = office[o]
         /\ unheld /\ office[o].step = "insert" => Grown(unheld)[o].grown
<1>1. ASSUME NEW p \in Offices
      PROVE  /\ Grown(unheld)[p] \in OfficeCalls
             /\ Grown(unheld)[p].step = office[p].step
             /\ Holding(Grown(unheld)[p]) <=> Holding(office[p])
             /\ Grown(unheld)[p].area = office[p].area
             /\ CodeKnown(Grown(unheld)[p], otps)
             /\ ~unheld => Grown(unheld)[p] = office[p]
             /\ unheld /\ office[p].step = "insert" => Grown(unheld)[p].grown
  <2>1. office[p] \in OfficeCalls /\ CodeKnown(office[p], otps)
    BY DEF OnboardingInv, OnboardingTypes, CodesInv
  <2>2. CASE unheld /\ office[p].step = "insert"
    <3> DEFINE r == [office[p] EXCEPT !.grown = TRUE]
    <3>1. Grown(unheld)[p] = r
      BY <2>2 DEF Grown
    <3>2. office[p] \in [step : {"insert"}, mobile : Numbers, area : Areas, otp : Nat,
                         locked : BOOLEAN, grown : BOOLEAN]
      BY <2>1, <2>2 DEF OfficeCalls, Closed, Steps
    <3>3. /\ r \in [step : {"insert"}, mobile : Numbers, area : Areas, otp : Nat,
                    locked : BOOLEAN, grown : BOOLEAN]
          /\ r.step = "insert" /\ r.locked = office[p].locked /\ r.area = office[p].area
          /\ r.otp = office[p].otp /\ r.grown
      BY <3>2
    <3>4. r \in OfficeCalls
      BY <3>3 DEF OfficeCalls
    <3> HIDE DEF r
    <3> QED  BY <2>1, <2>2, <3>1, <3>3, <3>4 DEF Holding, CodeKnown
  <2>3. CASE ~(unheld /\ office[p].step = "insert")
    <3>1. Grown(unheld)[p] = office[p]
      BY <2>3 DEF Grown
    <3> QED  BY <2>1, <2>3, <3>1
  <2> QED  BY <2>2, <2>3
<1> QED  BY <1>1

\* updateTenant and updateTenantStatus.
LEMMA TenantNext ==
  ASSUME OnboardingInv, NEW k \in DOMAIN tenants,
         UpdateTenantStatus(k) \/ \E area \in Areas : UpdateTenant(k, area)
  PROVE  OnboardingInv'
<1>1. tenants \in Seq(TenantDocs) /\ tenants[k] \in TenantDocs
  BY DEF OnboardingInv, OnboardingTypes
<1>2. PICK doc : doc \in TenantDocs /\ doc.otp = tenants[k].otp /\ TenantSet(k, doc)
  <2>1. CASE UpdateTenantStatus(k)
    <3> DEFINE doc == [tenants[k] EXCEPT !.active = ~@]
    <3>1. doc \in TenantDocs /\ doc.otp = tenants[k].otp
      BY <1>1 DEF TenantDocs
    <3>2. TenantSet(k, doc)
      BY <2>1 DEF UpdateTenantStatus
    <3> HIDE DEF doc
    <3> QED  BY <3>1, <3>2
  <2>2. ASSUME NEW area \in Areas, UpdateTenant(k, area)
        PROVE  \E doc : doc \in TenantDocs /\ doc.otp = tenants[k].otp /\ TenantSet(k, doc)
    <3> DEFINE doc == [tenants[k] EXCEPT !.area = area]
    <3>1. doc \in TenantDocs /\ doc.otp = tenants[k].otp
      BY <1>1 DEF TenantDocs
    <3>2. TenantSet(k, doc)
      BY <2>2 DEF UpdateTenant
    <3> HIDE DEF doc
    <3> QED  BY <3>1, <3>2
  <2> QED  BY <2>1, <2>2
<1>3. tenants' = [tenants EXCEPT ![k] = doc] /\ office' = Grown(TRUE) /\ UNCHANGED <<partner, otps>>
  BY <1>2 DEF TenantSet
<1>4. /\ tenants' \in Seq(TenantDocs) /\ DOMAIN tenants' = DOMAIN tenants
      /\ \A n \in DOMAIN tenants : tenants'[n].otp = tenants[n].otp
  BY <1>1, <1>2, <1>3
<1>5. OnboardingTypes'
  <2>1. office' \in [Offices -> OfficeCalls]
    <3>1. \A o \in Offices : Grown(TRUE)[o] \in OfficeCalls
      BY GrownCalls
    <3>2. Grown(TRUE) \in [Offices -> OfficeCalls]
      BY <3>1 DEF Grown
    <3> QED  BY <1>3, <3>2
  <2> QED  BY <1>3, <1>4, <2>1 DEF OnboardingInv, OnboardingTypes
<1>6. PlaceInv'
  <2>1. ASSUME NEW o \in Offices
        PROVE  (Holding(office'[o]) <=> Holding(office[o])) /\ (Holding(office[o]) => office'[o].grown)
    BY <1>3, GrownCalls DEF Holding
  <2> QED  BY <2>1 DEF OnboardingInv, PlaceInv
<1>7. CodesInv'
  <2>1. \A o \in Offices : CodeKnown(office'[o], otps')
    <3>1. \A o \in Offices : CodeKnown(Grown(TRUE)[o], otps)
      BY GrownCalls
    <3>2. office' = Grown(TRUE) /\ otps' = otps
      BY <1>3
    <3> QED  BY <3>1, <3>2, Zenon
  <2>2. \A n \in DOMAIN tenants : tenants[n].otp # 0 =>
           tenants[n].otp \in DOMAIN otps' /\ otps'[tenants[n].otp].consumed
    BY <1>3 DEF OnboardingInv, CodesInv
  <2>3. OneTenantPerCode'
    BY <1>4 DEF OnboardingInv, CodesInv, OneTenantPerCode
  <2> QED  BY <1>4, <2>1, <2>2, <2>3 DEF CodesInv
<1> QED  BY <1>5, <1>6, <1>7 DEF OnboardingInv

\* What the last writes of a creation do.
LEMMA CommitSets ==
  ASSUME OnboardingInv, NEW o \in Offices, Commit(o)
  PROVE  /\ office[o].step = "insert" /\ office[o].locked \in BOOLEAN /\ partner' = partner
         /\ \E doc \in TenantDocs :
              doc.otp = office[o].otp /\ doc.area = office[o].area /\ tenants' = Append(tenants, doc)
         /\ office'[o] = Closed /\ office' \in [Offices -> OfficeCalls]
         /\ \A p \in Offices : p # o =>
              /\ office'[p].step = office[p].step
              /\ Holding(office'[p]) <=> Holding(office[p])
              /\ office'[p].area = office[p].area
              /\ CodeKnown(office'[p], otps)
              /\ office[o].locked => office'[p] = office[p]
              /\ ~office[o].locked /\ office[p].step = "insert" => office'[p].grown
<1>1. office[o].step = "insert" /\ partner' = partner
  BY DEF Commit
<1>2. office[o].locked \in BOOLEAN /\ office[o].area \in Areas /\ office[o].otp \in Nat
  BY <1>1, OfficeTypes
<1>3. \E doc \in TenantDocs :
        doc.otp = office[o].otp /\ doc.area = office[o].area /\ tenants' = Append(tenants, doc)
  <2> DEFINE doc == [area |-> office[o].area, active |-> TRUE, otp |-> office[o].otp]
  <2>1. doc \in TenantDocs /\ doc.otp = office[o].otp /\ doc.area = office[o].area
    BY <1>2 DEF TenantDocs
  <2>2. tenants' = Append(tenants, doc)
    BY DEF Commit
  <2> HIDE DEF doc
  <2> QED  BY <2>1, <2>2
<1> DEFINE unheld == ~office[o].locked
<1>4. office' = [Grown(unheld) EXCEPT ![o] = Closed]
  BY DEF Commit
<1>5. unheld \in BOOLEAN
  BY <1>2
<1>6. \A p \in Offices :
        /\ Grown(unheld)[p] \in OfficeCalls
        /\ Grown(unheld)[p].step = office[p].step
        /\ Holding(Grown(unheld)[p]) <=> Holding(office[p])
        /\ Grown(unheld)[p].area = office[p].area
        /\ CodeKnown(Grown(unheld)[p], otps)
        /\ ~unheld => Grown(unheld)[p] = office[p]
        /\ unheld /\ office[p].step = "insert" => Grown(unheld)[p].grown
  <2> HIDE DEF unheld
  <2> QED  BY <1>5, GrownCalls
<1>7. /\ office'[o] = Closed /\ office' \in [Offices -> OfficeCalls]
      /\ \A p \in Offices : p # o => office'[p] = Grown(unheld)[p]
  <2> HIDE DEF unheld
  <2>1. Grown(unheld) = [p \in Offices |-> Grown(unheld)[p]]
    BY DEF Grown
  <2>2. Grown(unheld) \in [Offices -> OfficeCalls]
    BY <1>6, <2>1
  <2> QED  BY <1>4, <2>2, ClosedCall
<1>8. /\ office[o].locked => ~unheld
      /\ ~office[o].locked => unheld
  OBVIOUS
<1> HIDE DEF unheld
<1> QED  BY <1>1, <1>2, <1>3, <1>6, <1>7, <1>8

\* A committed creation keeps it.
LEMMA CommitNext ==
  ASSUME OnboardingInv, NEW o \in Offices, CommitWithCode(o) \/ CommitWithoutCode(o)
  PROVE  OnboardingInv'
<1>1. Commit(o)
  BY DEF CommitWithCode, CommitWithoutCode
<1> DEFINE code == office[o].otp
<1>2. PICK doc \in TenantDocs : doc.otp = code /\ tenants' = Append(tenants, doc)
  BY <1>1, CommitSets
<1>3. tenants \in Seq(TenantDocs)
  BY DEF OnboardingInv, OnboardingTypes
<1>4. /\ tenants' \in Seq(TenantDocs)
      /\ DOMAIN tenants' = DOMAIN tenants \cup {Len(tenants) + 1}
      /\ \A k \in DOMAIN tenants : tenants'[k] = tenants[k]
      /\ tenants'[Len(tenants) + 1] = doc
  BY <1>2, <1>3, Appended
<1>5. /\ otps' \in Seq(OtpDocs) /\ DOMAIN otps' = DOMAIN otps
      /\ \A k \in DOMAIN otps : otps[k].consumed => otps'[k].consumed
      /\ code # 0 => code \in DOMAIN otps /\ ~otps[code].consumed /\ otps'[code].consumed
  <2>1. otps \in Seq(OtpDocs)
    BY DEF OnboardingInv, OnboardingTypes
  <2>2. CASE CommitWithoutCode(o)
    BY <2>1, <2>2 DEF CommitWithoutCode
  <2>3. CASE CommitWithCode(o)
    <3>1. code # 0 /\ code \in DOMAIN otps /\ ~otps[code].consumed
      BY <1>1, <2>3, CommitSets DEF CommitWithCode, Spends, Unspent, OnboardingInv, CodesInv, CodeKnown
    <3> DEFINE spent == [otps[code] EXCEPT !.consumed = TRUE]
    <3>2. spent \in OtpDocs /\ spent.consumed
      BY <3>1, OtpTypes DEF OtpDocs
    <3>3. otps' = [otps EXCEPT ![code] = spent]
      BY <2>1, <2>3, <3>1 DEF CommitWithCode
    <3> HIDE DEF spent, code
    <3> QED  BY <3>1, <3>2, <3>3, OtpMarked
  <2> QED  BY <2>2, <2>3
<1>6. \A p \in Offices : CodeKnown(office'[p], otps')
  <2>1. \A p \in Offices : CodeKnown(office'[p], otps)
    BY <1>1, CommitSets, ClosedCall
  <2> QED  BY <1>5, <2>1 DEF CodeKnown
<1> HIDE DEF code
<1>7. OnboardingTypes'
  BY <1>1, <1>4, <1>5, CommitSets DEF OnboardingInv, OnboardingTypes
<1>8. PlaceInv'
  <2>1. ASSUME NEW p \in Offices, Holding(office'[p])
        PROVE  p # o /\ Holding(office[p]) /\ (~office[o].locked => office'[p].grown)
    BY <1>1, <2>1, CommitSets, ClosedCall DEF Holding
  <2>2. ASSUME NEW p \in Offices, Holding(office'[p]) PROVE office'[p].grown
    <3>1. ~office[o].locked
      BY <1>1, <2>1, <2>2, CommitSets DEF Holding, OnboardingInv, PlaceInv
    <3> QED  BY <2>1, <2>2, <3>1
  <2>3. \A p, q \in Offices : Holding(office'[p]) /\ Holding(office'[q]) => p = q
    BY <2>1 DEF OnboardingInv, PlaceInv
  <2> QED  BY <2>2, <2>3 DEF PlaceInv
<1>9. \A k \in DOMAIN tenants' : tenants'[k].otp # 0 =>
         tenants'[k].otp \in DOMAIN otps' /\ otps'[tenants'[k].otp].consumed
  BY <1>2, <1>4, <1>5 DEF OnboardingInv, CodesInv
<1>10. OneTenantPerCode'
  <2>1. \A k \in DOMAIN tenants : code # 0 => tenants[k].otp # code
    BY <1>5 DEF OnboardingInv, CodesInv
  <2>2. \A k, n \in DOMAIN tenants : tenants[k].otp # 0 /\ tenants[k].otp = tenants[n].otp => k = n
    BY DEF OnboardingInv, CodesInv, OneTenantPerCode
  <2> QED  BY <1>2, <1>4, <2>1, <2>2 DEF OneTenantPerCode
<1> QED  BY <1>6, <1>7, <1>8, <1>9, <1>10 DEF OnboardingInv, CodesInv

\* It holds at the start.
LEMMA OnboardingStart == ASSUME OnboardingInit PROVE OnboardingInv
<1>1. OnboardingTypes
  BY ClosedCall DEF OnboardingInit, OnboardingTypes
<1>2. \A o \in Offices : ~Holding(office[o]) /\ CodeKnown(office[o], otps)
  BY ClosedCall DEF OnboardingInit
<1>3. DOMAIN tenants = {}
  BY DEF OnboardingInit
<1> QED  BY <1>1, <1>2, <1>3 DEF OnboardingInv, PlaceInv, CodesInv, OneTenantPerCode

\* Every step keeps it.
LEMMA OnboardingStep == ASSUME OnboardingInv, [Next]_officeVars PROVE OnboardingInv'
<1>1. CASE OnboardingNext
  <2>1. ASSUME NEW mobile \in Mobiles, SendSignupOtp(mobile) \/ SendTenantOtp(mobile) PROVE OnboardingInv'
    BY <2>1, SendingNext
  <2>2. ASSUME NEW k \in DOMAIN otps, VerifySignupOtp(k) \/ VerifyTenantOtp(k) \/ ExpireOtp(k)
        PROVE  OnboardingInv'
    BY <2>2, MarkingNext
  <2>3. ASSUME NEW o \in Offices, LoginCall(o) PROVE OnboardingInv'
    BY <2>3, LoginNext
  <2>4. ASSUME NEW o \in Offices, NEW area \in Areas,
               \/ \E k \in DOMAIN otps : StartPartnerTenant(o, k, area)
               \/ StartBareTenant(o, area)
               \/ \E mobile \in Mobiles : StartAdminTenant(o, mobile, area)
        PROVE  OnboardingInv'
    BY <2>4, StartTenantNext
  <2>5. ASSUME NEW o \in Offices, Enforce(o) \/ CommitWithoutCode(o) \/ CommitWithCode(o) \/ AbortTenant(o)
        PROVE  OnboardingInv'
    BY <2>5, EnforceNext, CommitNext, AbortNext
  <2>6. ASSUME NEW k \in DOMAIN tenants, UpdateTenantStatus(k) \/ \E area \in Areas : UpdateTenant(k, area)
        PROVE  OnboardingInv'
    BY <2>6, TenantNext
  <2> QED
    BY <1>1, <2>1, <2>2, <2>3, <2>4, <2>5, <2>6, PartnerNext, Zenon DEF OnboardingNext, LoginCall, Roles
<1>2. CASE UNCHANGED onboardingVars
  <2>1. UNCHANGED <<partner, tenants, otps, office>>
    BY <1>2 DEF onboardingVars
  <2>2. otps \in Seq(OtpDocs)
    BY DEF OnboardingInv, OnboardingTypes
  <2> QED  BY <2>1, <2>2, OtpsNext
<1> QED  BY <1>1, <1>2 DEF Next, officeVars

\* It holds in every state.
LEMMA OnboardingInvariance == Spec => []OnboardingInv
<1>1. Init => OnboardingInv
  BY OnboardingStart DEF Init
<1>2. OnboardingInv /\ [Next]_officeVars => OnboardingInv'
  BY OnboardingStep
<1> QED  BY <1>1, <1>2, PTL DEF Spec

\* A checked creation takes the place it was granted, and no more.
LEMMA CommitFits ==
  ASSUME OnboardingInv, NEW o \in Offices, Commit(o), office[o].locked, ~office[o].grown
  PROVE  Cardinality(ActiveIn(partner.area)') <= partner.limit
<1> DEFINE old == ActiveIn(partner.area)
           new == old \cup {Len(tenants) + 1}
           later == ActiveIn(partner.area)'
<1>1. PICK doc \in TenantDocs : tenants' = Append(tenants, doc)
  BY CommitSets
<1>2. /\ tenants \in Seq(TenantDocs) /\ partner' = partner /\ Len(tenants) \in Nat
      /\ DOMAIN tenants = 1..Len(tenants)
      /\ DOMAIN tenants' = 1..(Len(tenants) + 1)
      /\ \A k \in 1..Len(tenants) : tenants'[k] = tenants[k]
  BY <1>1, Appended, CommitSets DEF OnboardingInv, OnboardingTypes
<1>3. later \subseteq new
  BY <1>2 DEF ActiveIn
<1>4. IsFiniteSet(old)
  <2>1. IsFiniteSet(1..Len(tenants))
    BY <1>2, FS_Interval
  <2>2. old \subseteq 1..Len(tenants)
    BY <1>2 DEF ActiveIn
  <2> QED  BY <2>1, <2>2, FS_Subset
<1>5. Cardinality(old) < partner.limit /\ partner.limit \in Nat
  <2>1. HasRoom
    BY CommitSets DEF OnboardingInv, PlaceInv, Holding
  <2>2. partner.limit \in Limits
    BY DEF OnboardingInv, OnboardingTypes
  <2> QED  BY <2>1, <2>2, OnboardingAssumption DEF HasRoom
<1> HIDE DEF old, later
<1>6. IsFiniteSet(new) /\ Cardinality(new) <= Cardinality(old) + 1 /\ Cardinality(old) \in Nat
  <2> DEFINE n == Cardinality(old)
             m == Cardinality(new)
  <2>1. IsFiniteSet(new) /\ (m = n \/ m = n + 1) /\ n \in Nat
    BY <1>4, FS_AddElement, FS_CardinalityType
  <2> HIDE DEF n, m
  <2>2. m <= n + 1
    BY <2>1
  <2> QED  BY <2>1, <2>2 DEF n, m
<1>7. Cardinality(later) <= Cardinality(new) /\ Cardinality(later) \in Nat /\ Cardinality(new) \in Nat
  BY <1>3, <1>6, FS_Subset, FS_CardinalityType
<1> DEFINE n == Cardinality(old)
           m == Cardinality(new)
           l == Cardinality(later)
<1>8. n < partner.limit /\ m <= n + 1 /\ l <= m /\ n \in Nat /\ m \in Nat /\ l \in Nat
  BY <1>5, <1>6, <1>7
<1> HIDE DEF n, m, l
<1>9. l <= partner.limit
  BY <1>5, <1>8
<1> QED  BY <1>9 DEF l, later

\* enforcePartnerTenantOnboarding writes the partner, so that two creations never take the
\* same place, and createPartnerTenant consumes the code in the transaction of its tenant.
THEOREM Onboarding == Spec => OnboardingHeld
<1>1. OnboardingInv /\ [Next]_officeVars =>
        [\A o \in Offices :
           office[o].step = "insert" /\ office[o].locked /\ ~office[o].grown /\ Len(tenants') > Len(tenants)
             /\ office'[o] = Closed
           => Cardinality(ActiveIn(partner.area)') <= partner.limit]_onboardingVars
  <2> SUFFICES ASSUME OnboardingInv, OnboardingNext, NEW o \in Offices, office[o].step = "insert",
                      office[o].locked, ~office[o].grown, Len(tenants') > Len(tenants),
                      office'[o] = Closed
               PROVE  Cardinality(ActiveIn(partner.area)') <= partner.limit
    BY DEF Next, officeVars
  <2>1. tenants \in Seq(TenantDocs) /\ Len(tenants) \in Nat
    BY DEF OnboardingInv, OnboardingTypes
  <2>2. ASSUME UNCHANGED tenants PROVE FALSE
    BY <2>1, <2>2
  <2>3. ASSUME NEW p \in Offices, Commit(p) PROVE Cardinality(ActiveIn(partner.area)') <= partner.limit
    <3>1. p = o
      <4>1. p # o => office'[o].step = "insert"
        BY <2>3, CommitSets
      <4> QED  BY <4>1 DEF Closed
    <3> QED  BY <2>3, <3>1, CommitFits
  <2>4. ASSUME NEW k \in DOMAIN tenants, NEW doc, TenantSet(k, doc) PROVE FALSE
    <3>1. Len(tenants') = Len(tenants)
      BY <2>1, <2>4 DEF TenantSet
    <3> QED  BY <2>1, <3>1
  <2>5. (\E p \in Offices : Commit(p)) \/ (\E k \in DOMAIN tenants : \E doc : TenantSet(k, doc)) \/ UNCHANGED tenants
    BY Zenon
    DEF OnboardingNext, SendSignupOtp, SendTenantOtp, SendOtp, VerifySignupOtp, VerifyTenantOtp, VerifyOtp,
        ExpireOtp, StartSignup, StartPartnerTenant, StartChannelPartner, StartTenantAccount,
        StartAdminAccount, StartAdminTenant, StartBareTenant, StartCreation, CompleteSignup,
        CreateChannelPartner, CreateAdminAccount, CreateTenantAccount, CreateLogin, Enforce,
        CommitWithoutCode, CommitWithCode, AbortTenant, UpdateChannelPartner,
        UpdateChannelPartnerStatus, UpdateTenant, UpdateTenantStatus
  <2> QED  BY <2>2, <2>3, <2>4, <2>5
<1>2. OnboardingInv => OneTenantPerCode
  BY DEF OnboardingInv, CodesInv
<1> QED  BY <1>1, <1>2, OnboardingInvariance, PTL DEF Spec, OnboardingHeld, LimitHeld

-----------------------------------------------------------------------------
(* Account recovery *)

CodeDocs == [verified : BOOLEAN, attempts : Nat, cooling : BOOLEAN, expired : BOOLEAN]
ResetDocs == [code : Nat, used : BOOLEAN, expired : BOOLEAN]
Resetting == [step : {"reset"}, token : Nat, left : SUBSET {"account", "token"}]
Visits ==
  {Away}
  \cup [step : {"compare"}, code : Nat, attempts : Nat]
  \cup [step : {"retire", "issue"}, code : Nat]
  \cup Resetting

RecoveryTyped ==
  /\ crowd \in Crowds /\ crowded \in BOOLEAN /\ visitDeaths \in Nat
  /\ codes \in Seq(CodeDocs) /\ Len(codes) <= CodeLimit
  /\ resets \in Seq(ResetDocs) /\ Len(resets) <= ResetLimit
  /\ visit \in [Visitors -> Visits]
  /\ tries \in [1..CodeLimit -> Nat] /\ changed \in [1..ResetLimit -> Nat]

\* A reset token, and a call that is to issue one, comes from a code that was verified.
Proved(k) == k \in DOMAIN codes /\ codes[k].verified
VisitSourced(v) ==
  /\ visit[v].step = "compare" => visit[v].code \in DOMAIN codes
  /\ visit[v].step \in {"retire", "issue"} => Proved(visit[v].code)
  /\ visit[v].step = "reset" => visit[v].token \in DOMAIN resets
TokensSourced == \A r \in DOMAIN resets : Proved(resets[r].code)
Sourced == TokensSourced /\ \A v \in Visitors : VisitSourced(v)

Single == \A v, w \in Visitors : visit[v] # Away /\ visit[w] # Away => v = w

\* A comparison that was not counted was cut short.
Counted ==
  /\ \A k \in 1..CodeLimit :
       IF k \in DOMAIN codes
       THEN codes[k].attempts <= MaxAttempts /\ tries[k] <= codes[k].attempts + visitDeaths
       ELSE tries[k] = 0
  /\ \A v \in Visitors : visit[v].step = "compare" =>
       visit[v].attempts = codes[visit[v].code].attempts + 1 /\ visit[v].attempts <= MaxAttempts

\* One token can be used, and none while a new one is issued.
Usables == {r \in DOMAIN resets : UsableReset(resets[r])}
Exclusive ==
  /\ \A r, q \in Usables : r = q
  /\ \A v \in Visitors : visit[v].step = "issue" => Usables = {}

\* A token that has set the password is used, or is being marked, or a call was cut short.
Marking(r) == \E v \in Visitors : visit[v].step = "reset" /\ visit[v].token = r /\ "account" \notin visit[v].left
Spending ==
  /\ \A r \in 1..ResetLimit :
       /\ changed[r] <= 1 + visitDeaths
       /\ changed[r] <= visitDeaths \/ (r \in DOMAIN resets /\ resets[r].used) \/ Marking(r)
  /\ \A v \in Visitors : visit[v].step = "reset" =>
       /\ "account" \in visit[v].left => changed[visit[v].token] <= visitDeaths
       /\ "token" \in visit[v].left \/ resets[visit[v].token].used

RecoveryInv == RecoveryTyped /\ Sourced /\ (~crowded => Single /\ Counted /\ Exclusive /\ Spending)

\* What a visit carries, by its step.
LEMMA VisitTypes ==
  ASSUME RecoveryTyped, NEW v \in Visitors
  PROVE  /\ visit[v] \in Visits /\ visit[v].step \in {"away", "compare", "retire", "issue", "reset"}
         /\ visit[v].step = "away" <=> visit[v] = Away
         /\ visit[v].step = "compare" => visit[v] \in [step : {"compare"}, code : Nat, attempts : Nat]
         /\ visit[v].step \in {"retire", "issue"} => visit[v] \in [step : {"retire", "issue"}, code : Nat]
         /\ visit[v].step = "reset" => visit[v] \in Resetting
<1>1. visit[v] \in Visits
  BY DEF RecoveryTyped
<1>2. CASE visit[v] = Away
  BY <1>1, <1>2 DEF Away
<1>3. CASE visit[v] \in [step : {"compare"}, code : Nat, attempts : Nat]
  BY <1>1, <1>3 DEF Away
<1>4. CASE visit[v] \in [step : {"retire", "issue"}, code : Nat]
  BY <1>1, <1>4 DEF Away
<1>5. CASE visit[v] \in Resetting
  BY <1>1, <1>5 DEF Away, Resetting
<1> QED  BY <1>1, <1>2, <1>3, <1>4, <1>5 DEF Visits

\* A call moves on alone.
MovesOn(v, r) ==
  /\ visit'[v] = r
  /\ \A w \in Visitors : w # v => visit'[w] = visit[w]

\* A visit that starts moves one visitor, and notes whether others are about.
LEMMA Entered ==
  ASSUME RecoveryTyped, NEW v \in Visitors, NEW r \in Visits, Enters(v, r)
  PROVE  /\ visit' \in [Visitors -> Visits] /\ MovesOn(v, r) /\ crowded' \in BOOLEAN
         /\ visit[v] = Away
         /\ ~crowded' => ~crowded /\ \A w \in Visitors : visit[w] = Away
<1>1. /\ visit \in [Visitors -> Visits] /\ visit' = [visit EXCEPT ![v] = r] /\ visit[v] = Away
  BY DEF RecoveryTyped, Enters
<1>2. crowded' = (crowded \/ \E w \in Visitors : visit[w] # Away)
  BY DEF Enters
<1>3. visit' \in [Visitors -> Visits] /\ MovesOn(v, r)
  BY <1>1 DEF MovesOn
<1>4. ~crowded' => ~crowded /\ \A w \in Visitors : visit[w] = Away
  BY <1>2
<1>5. crowded' \in BOOLEAN
  BY <1>2
<1> QED  BY <1>1, <1>3, <1>4, <1>5

\* A visit that goes on moves one visitor.
LEMMA Gone ==
  ASSUME RecoveryTyped, NEW v \in Visitors, NEW r \in Visits, Goes(v, r)
  PROVE  visit' \in [Visitors -> Visits] /\ MovesOn(v, r) /\ crowded' = crowded
<1>1. visit \in [Visitors -> Visits] /\ visit' = [visit EXCEPT ![v] = r] /\ crowded' = crowded
  BY DEF RecoveryTyped, Goes
<1> QED  BY <1>1 DEF MovesOn

\* A visitor who is away has a visit record too.
LEMMA AwayIsVisit == Away \in Visits
BY DEF Visits

\* One code is rewritten, and not its count or its verification.
LEMMA CodeTouched ==
  ASSUME RecoveryInv, NEW k \in DOMAIN codes, NEW d \in CodeDocs,
         d.attempts = codes[k].attempts, d.verified = codes[k].verified,
         codes' = [codes EXCEPT ![k] = d],
         UNCHANGED <<resets, holder, password, visit, visitDeaths, tries, changed, crowded, crowd>>
  PROVE  RecoveryInv'
<1>1. codes \in Seq(CodeDocs) /\ Len(codes) <= CodeLimit
  BY DEF RecoveryInv, RecoveryTyped
<1>2. /\ codes' \in Seq(CodeDocs) /\ Len(codes') = Len(codes) /\ DOMAIN codes' = DOMAIN codes
      /\ \A j \in DOMAIN codes : codes'[j].attempts = codes[j].attempts /\ codes'[j].verified = codes[j].verified
  BY <1>1
<1>3. RecoveryTyped'
  BY <1>1, <1>2 DEF RecoveryInv, RecoveryTyped
<1>4. \A j : Proved(j) => Proved(j)'
  BY <1>2 DEF Proved
<1>5. Sourced'
  BY <1>2, <1>4 DEF RecoveryInv, Sourced, VisitSourced, TokensSourced
<1>6. ASSUME ~crowded PROVE (Single /\ Counted /\ Exclusive /\ Spending)'
  <2>1. Single' /\ Exclusive' /\ Spending'
    BY <1>6 DEF RecoveryInv, Single, Exclusive, Usables, UsableReset, Spending, Marking
  <2>2. Counted /\ Sourced
    BY <1>6 DEF RecoveryInv
  <2>3. Counted'
    <3>1. \A j \in 1..CodeLimit :
            IF j \in DOMAIN codes'
            THEN codes'[j].attempts <= MaxAttempts /\ tries'[j] <= codes'[j].attempts + visitDeaths'
            ELSE tries'[j] = 0
      BY <2>2, <1>2 DEF Counted
    <3>2. \A v \in Visitors : visit[v].step = "compare" => visit[v].code \in DOMAIN codes
      BY <2>2 DEF Sourced, VisitSourced
    <3>3. \A v \in Visitors : visit'[v].step = "compare" =>
            visit'[v].attempts = codes'[visit'[v].code].attempts + 1 /\ visit'[v].attempts <= MaxAttempts
      BY <2>2, <3>2, <1>2 DEF Counted
    <3> QED  BY <3>1, <3>3 DEF Counted
  <2> QED  BY <2>1, <2>3
<1> QED  BY <1>3, <1>5, <1>6 DEF RecoveryInv

\* Resending a code, or its end, keeps the invariant.
LEMMA CodeKept ==
  ASSUME RecoveryInv, NEW k,
         ResendCode(k) \/ CoolDown(k) \/ CodeExpires(k)
  PROVE  RecoveryInv'
<1>0. k \in DOMAIN codes /\ codes \in Seq(CodeDocs)
  BY DEF ResendCode, CoolDown, CodeExpires, ActiveCode, RecoveryInv, RecoveryTyped
<1>1. codes[k] \in CodeDocs
  BY <1>0
<1>2. CASE ResendCode(k)
  <2>1. PICK d : d = [codes[k] EXCEPT !.cooling = TRUE]
    OBVIOUS
  <2>2. d \in CodeDocs /\ d.attempts = codes[k].attempts /\ d.verified = codes[k].verified
    BY <2>1, <1>1 DEF CodeDocs
  <2>3. codes' = [codes EXCEPT ![k] = d]
    BY <1>2, <2>1 DEF ResendCode
  <2> QED  BY <1>0, <1>2, <2>2, <2>3, CodeTouched DEF ResendCode
<1>3. CASE CoolDown(k)
  <2>1. PICK d : d = [codes[k] EXCEPT !.cooling = FALSE]
    OBVIOUS
  <2>2. d \in CodeDocs /\ d.attempts = codes[k].attempts /\ d.verified = codes[k].verified
    BY <2>1, <1>1 DEF CodeDocs
  <2>3. codes' = [codes EXCEPT ![k] = d]
    BY <1>3, <2>1 DEF CoolDown
  <2> QED  BY <1>0, <1>3, <2>2, <2>3, CodeTouched DEF CoolDown
<1>4. CASE CodeExpires(k)
  <2>1. PICK d : d = [codes[k] EXCEPT !.expired = TRUE]
    OBVIOUS
  <2>2. d \in CodeDocs /\ d.attempts = codes[k].attempts /\ d.verified = codes[k].verified
    BY <2>1, <1>1 DEF CodeDocs
  <2>3. codes' = [codes EXCEPT ![k] = d]
    BY <1>4, <2>1 DEF CodeExpires
  <2> QED  BY <1>0, <1>4, <2>2, <2>3, CodeTouched DEF CodeExpires
<1> QED  BY <1>2, <1>3, <1>4

\* Sending a code keeps it.
LEMMA CodeSent ==
  ASSUME RecoveryInv, SendCode
  PROVE  RecoveryInv'
<1>1. /\ codes \in Seq(CodeDocs) /\ Len(codes) < crowd.codes /\ codes' = Append(codes, NewCode)
      /\ crowd \in Crowds
  BY DEF RecoveryInv, RecoveryTyped, SendCode
<1>2. NewCode \in CodeDocs /\ NewCode.attempts = 0
  BY DEF NewCode, CodeDocs
<1>3. PICK n : n = Len(codes) + 1
  OBVIOUS
<1>4. /\ codes' \in Seq(CodeDocs) /\ Len(codes') = n /\ DOMAIN codes' = 1..n /\ n \in Nat
      /\ DOMAIN codes = 1..(n - 1) /\ Len(codes) = n - 1
      /\ \A j \in 1..(n - 1) : codes'[j] = codes[j]
      /\ codes'[n] = NewCode
  BY <1>1, <1>2, <1>3, Appended
<1>5. n <= CodeLimit
  BY <1>1, <1>3, <1>4, CrowdsAssumption
<1>6. RecoveryTyped'
  BY <1>4, <1>5 DEF RecoveryInv, RecoveryTyped, SendCode
<1>7. DOMAIN codes \subseteq DOMAIN codes' /\ \A j \in DOMAIN codes : codes'[j] = codes[j]
  BY <1>4
<1>8. \A j : Proved(j) => Proved(j)'
  BY <1>7 DEF Proved
<1>9. Sourced'
  BY <1>7, <1>8 DEF RecoveryInv, Sourced, VisitSourced, TokensSourced, SendCode
<1>10. ASSUME ~crowded PROVE (Single /\ Counted /\ Exclusive /\ Spending)'
  <2>1. Single' /\ Exclusive' /\ Spending'
    BY <1>10 DEF RecoveryInv, Single, Exclusive, Usables, UsableReset, Spending, Marking, SendCode
  <2>2. Counted /\ Sourced /\ tries' = tries /\ visitDeaths' = visitDeaths /\ visit' = visit /\ visitDeaths \in Nat
    BY <1>10 DEF RecoveryInv, RecoveryTyped, SendCode
  <2>3. Counted'
    <3>1. ASSUME NEW j \in 1..CodeLimit
          PROVE  IF j \in DOMAIN codes'
                 THEN codes'[j].attempts <= MaxAttempts /\ tries'[j] <= codes'[j].attempts + visitDeaths'
                 ELSE tries'[j] = 0
      <4>1. CASE j \in DOMAIN codes
        BY <4>1, <2>2, <1>7 DEF Counted
      <4>2. CASE j = n
        <5>1. j \notin DOMAIN codes
          BY <4>2, <1>4
        <5>2. tries[j] = 0
          BY <5>1, <2>2, <3>1 DEF Counted
        <5> QED  BY <5>2, <4>2, <1>2, <1>4, <2>2, AttemptsAssumption
      <4>3. CASE j \notin DOMAIN codes'
        <5>1. j \notin DOMAIN codes
          BY <4>3, <1>7
        <5> QED  BY <5>1, <4>3, <2>2, <3>1 DEF Counted
      <4> QED  BY <4>1, <4>2, <4>3, <1>4
    <3>2. \A v \in Visitors : visit[v].step = "compare" => visit[v].code \in DOMAIN codes
      BY <2>2 DEF Sourced, VisitSourced
    <3>3. \A v \in Visitors : visit'[v].step = "compare" =>
            visit'[v].attempts = codes'[visit'[v].code].attempts + 1 /\ visit'[v].attempts <= MaxAttempts
      BY <2>2, <3>2, <1>7 DEF Counted
    <3> QED  BY <3>1, <3>3 DEF Counted
  <2> QED  BY <2>1, <2>3
<1> QED  BY <1>6, <1>9, <1>10 DEF RecoveryInv, SendCode

\* Activating or suspending the account keeps it.
LEMMA HolderSet == ASSUME RecoveryInv, SetHolder PROVE RecoveryInv'
BY DEF RecoveryInv, RecoveryTyped, Sourced, VisitSourced, TokensSourced, Proved, Single, Counted, Exclusive, Usables, UsableReset,
       Spending, Marking, SetHolder

\* Tokens are rewritten, none becomes usable, and a used one stays used.
TokensKept ==
  /\ resets' \in Seq(ResetDocs) /\ Len(resets') = Len(resets) /\ DOMAIN resets' = DOMAIN resets
  /\ \A r \in DOMAIN resets :
       /\ resets'[r].code = resets[r].code
       /\ resets[r].used => resets'[r].used
       /\ UsableReset(resets'[r]) => UsableReset(resets[r])

\* Where tokens are only spent, the usable ones stay exclusive and keep their codes.
LEMMA TokensUsable ==
  ASSUME RecoveryInv, TokensKept
  PROVE  /\ Usables' \subseteq Usables
         /\ Exclusive => \A r, q \in Usables' : r = q
         /\ UNCHANGED codes => TokensSourced'
<1>1. Usables' \subseteq Usables
  BY DEF Usables, TokensKept
<1>2. ASSUME UNCHANGED codes PROVE TokensSourced'
  <2>1. TokensSourced
    BY DEF RecoveryInv, Sourced
  <2>2. \A k : Proved(k) => Proved(k)'
    BY <1>2 DEF Proved
  <2>3. \A r \in DOMAIN resets' : r \in DOMAIN resets /\ resets'[r].code = resets[r].code
    BY DEF TokensKept
  <2>4. \A r \in DOMAIN resets' : Proved(resets[r].code)'
    BY <2>1, <2>2, <2>3 DEF TokensSourced
  <2> QED  BY <2>4 DEF TokensSourced
<1> QED  BY <1>1, <1>2 DEF Exclusive

\* An expiring token keeps the invariant.
LEMMA ResetExpired ==
  ASSUME RecoveryInv, NEW k, ResetExpires(k)
  PROVE  RecoveryInv'
<1>1. /\ resets \in Seq(ResetDocs) /\ Len(resets) <= ResetLimit /\ k \in DOMAIN resets
  BY DEF RecoveryInv, RecoveryTyped, ResetExpires
<1>2. resets[k] \in ResetDocs
  BY <1>1
<1>3. PICK d : d = [resets[k] EXCEPT !.expired = TRUE]
  OBVIOUS
<1>4. d \in ResetDocs /\ d.code = resets[k].code /\ d.used = resets[k].used /\ ~UsableReset(d)
  BY <1>2, <1>3 DEF ResetDocs, UsableReset
<1>5. resets' = [resets EXCEPT ![k] = d]
  BY <1>3 DEF ResetExpires
<1>6. TokensKept
  BY <1>1, <1>4, <1>5 DEF TokensKept
<1>7. RecoveryTyped'
  BY <1>1, <1>6 DEF RecoveryInv, RecoveryTyped, TokensKept, ResetExpires
<1>8. Sourced'
  <2>1. TokensSourced'
    BY <1>6, TokensUsable DEF ResetExpires
  <2>2. Sourced /\ UNCHANGED <<visit, codes>> /\ DOMAIN resets' = DOMAIN resets
    BY <1>6 DEF RecoveryInv, TokensKept, ResetExpires
  <2>3. \A v \in Visitors : VisitSourced(v)'
    BY <2>2 DEF Sourced, VisitSourced, Proved
  <2> QED  BY <2>1, <2>3 DEF Sourced
<1>9. ASSUME ~crowded PROVE (Single /\ Counted /\ Exclusive /\ Spending)'
  <2>0. Exclusive /\ Spending /\ Sourced
    BY <1>9 DEF RecoveryInv
  <2>1. Single' /\ Counted'
    BY <1>9 DEF RecoveryInv, Single, Counted, ResetExpires
  <2>2. Exclusive'
    <3>1. Usables' \subseteq Usables /\ \A r, q \in Usables' : r = q
      BY <1>6, <2>0, TokensUsable
    <3> QED  BY <3>1, <2>0 DEF Exclusive, ResetExpires
  <2>3. Spending'
    <3>1. \A r : Marking(r) => Marking(r)'
      BY DEF Marking, ResetExpires
    <3>2. \A r \in DOMAIN resets : r \in DOMAIN resets' /\ (resets[r].used => resets'[r].used)
      BY <1>6 DEF TokensKept
    <3>3. \A r \in 1..ResetLimit :
            /\ changed'[r] <= 1 + visitDeaths'
            /\ changed'[r] <= visitDeaths' \/ (r \in DOMAIN resets' /\ resets'[r].used) \/ Marking(r)'
      BY <2>0, <3>1, <3>2 DEF Spending, ResetExpires
    <3>4. \A v \in Visitors : visit'[v].step = "reset" =>
            /\ "account" \in visit'[v].left => changed'[visit'[v].token] <= visitDeaths'
            /\ "token" \in visit'[v].left \/ resets'[visit'[v].token].used
      BY <2>0, <3>2 DEF Spending, Sourced, VisitSourced, ResetExpires
    <3> QED  BY <3>3, <3>4 DEF Spending
  <2> QED  BY <2>1, <2>2, <2>3
<1> QED  BY <1>7, <1>8, <1>9 DEF RecoveryInv, ResetExpires

\* A call that moves on does not stand between its two saves, unless it did.
NotMarking(v) == visit[v].step = "reset" => "account" \in visit[v].left
\* A call between its two saves stays there while another moves on.
LEMMA MarkingKept ==
  ASSUME RecoveryInv, NEW v \in Visitors, NEW r, MovesOn(v, r), NotMarking(v), NEW k, Marking(k)
  PROVE  Marking(k)'
<1>1. PICK w \in Visitors : visit[w].step = "reset" /\ visit[w].token = k /\ "account" \notin visit[w].left
  BY DEF Marking
<1>2. w # v
  BY <1>1 DEF NotMarking
<1> QED  BY <1>1, <1>2 DEF MovesOn, Marking

\* Retiring the earlier tokens keeps the invariant.
LEMMA TokensRetired ==
  ASSUME RecoveryInv, NEW v \in Visitors, RetireTokens(v)
  PROVE  RecoveryInv'
<1>0. PICK r : r = [visit[v] EXCEPT !.step = "issue"]
  OBVIOUS
<1>1. visit[v].step = "retire" /\ visit[v] \in [step : {"retire", "issue"}, code : Nat]
  BY VisitTypes DEF RetireTokens, RecoveryInv
<1>2. r \in [step : {"retire", "issue"}, code : Nat] /\ r.step = "issue" /\ r.code = visit[v].code
  BY <1>0, <1>1
<1>3. r \in Visits
  BY <1>2 DEF Visits
<1>4. visit' \in [Visitors -> Visits] /\ MovesOn(v, r) /\ crowded' = crowded
  <2>1. Goes(v, r) /\ RecoveryTyped
    BY <1>0 DEF RetireTokens, RecoveryInv
  <2> QED  BY <2>1, <1>3, Gone
<1>5. /\ resets \in Seq(ResetDocs) /\ Len(resets) <= ResetLimit
      /\ resets' = [k \in DOMAIN resets |-> Outdated(resets[k])]
  BY DEF RecoveryInv, RecoveryTyped, RetireTokens
<1>6. \A k \in DOMAIN resets :
        /\ Outdated(resets[k]) \in ResetDocs /\ Outdated(resets[k]).code = resets[k].code
        /\ resets[k].used => Outdated(resets[k]).used
        /\ ~UsableReset(Outdated(resets[k]))
  <2>1. ASSUME NEW d \in ResetDocs
        PROVE  /\ Outdated(d) \in ResetDocs /\ Outdated(d).code = d.code /\ (d.used => Outdated(d).used)
               /\ ~UsableReset(Outdated(d))
    BY DEF Outdated, ResetDocs, UsableReset
  <2>2. \A k \in DOMAIN resets : resets[k] \in ResetDocs
    BY <1>5
  <2> QED  BY <2>1, <2>2
<1>7. TokensKept /\ Usables' = {}
  <2>1. DOMAIN resets = 1..Len(resets) /\ Len(resets) \in Nat
    BY <1>5
  <2>2. resets' \in Seq(ResetDocs)
    BY <1>5, <1>6, <2>1
  <2>3. DOMAIN resets' = DOMAIN resets /\ \A k \in DOMAIN resets : resets'[k] = Outdated(resets[k])
    BY <1>5
  <2>4. Len(resets') = Len(resets)
    BY <2>1, <2>2, <2>3
  <2> QED  BY <2>2, <2>3, <2>4, <1>6 DEF TokensKept, Usables
<1>8. RecoveryTyped'
  BY <1>4, <1>5, <1>7 DEF RecoveryInv, RecoveryTyped, TokensKept, RetireTokens
<1>9. Sourced'
  <2>1. TokensSourced'
    BY <1>7, TokensUsable DEF RetireTokens
  <2>2. Sourced /\ UNCHANGED codes /\ DOMAIN resets' = DOMAIN resets
    BY <1>7 DEF RecoveryInv, TokensKept, RetireTokens
  <2>3. \A w \in Visitors : w # v => VisitSourced(w)'
    BY <2>2, <1>4 DEF MovesOn, Sourced, VisitSourced, Proved
  <2>4. VisitSourced(v)'
    BY <2>2, <1>1, <1>2, <1>4 DEF MovesOn, Sourced, VisitSourced, Proved
  <2> QED  BY <2>1, <2>3, <2>4 DEF Sourced
<1>10. ASSUME ~crowded PROVE (Single /\ Counted /\ Exclusive /\ Spending)'
  <2>0. Single /\ Counted /\ Exclusive /\ Spending /\ Sourced
    BY <1>10 DEF RecoveryInv
  <2>1. Single'
    BY <2>0, <1>4, <1>1 DEF MovesOn, Single, Away
  <2>2. Counted'
    <3>1. \A w \in Visitors : visit'[w].step = "compare" => w # v /\ visit'[w] = visit[w]
      BY <1>2, <1>4 DEF MovesOn
    <3> QED  BY <3>1, <2>0 DEF Counted, RetireTokens
  <2>3. Exclusive'
    BY <1>7 DEF Exclusive
  <2>4. Spending'
    <3>1. \A k : Marking(k) => Marking(k)'
      BY <1>1, <1>4, MarkingKept DEF NotMarking
    <3>2. \A k \in DOMAIN resets : k \in DOMAIN resets' /\ (resets[k].used => resets'[k].used)
      BY <1>7 DEF TokensKept
    <3>3. \A k \in 1..ResetLimit :
            /\ changed'[k] <= 1 + visitDeaths'
            /\ changed'[k] <= visitDeaths' \/ (k \in DOMAIN resets' /\ resets'[k].used) \/ Marking(k)'
      BY <2>0, <3>1, <3>2 DEF Spending, RetireTokens
    <3>4. \A w \in Visitors : visit'[w].step = "reset" => w # v /\ visit'[w] = visit[w]
      BY <1>2, <1>4 DEF MovesOn
    <3>5. \A w \in Visitors : visit'[w].step = "reset" =>
            /\ "account" \in visit'[w].left => changed'[visit'[w].token] <= visitDeaths'
            /\ "token" \in visit'[w].left \/ resets'[visit'[w].token].used
      BY <2>0, <3>2, <3>4 DEF Spending, Sourced, VisitSourced, RetireTokens
    <3> QED  BY <3>3, <3>5 DEF Spending
  <2> QED  BY <2>1, <2>2, <2>3, <2>4
<1> QED  BY <1>4, <1>8, <1>9, <1>10 DEF RecoveryInv

\* Issuing a token keeps it.
LEMMA TokenIssued ==
  ASSUME RecoveryInv, NEW v \in Visitors, IssueToken(v)
  PROVE  RecoveryInv'
<1>1. visit[v].step = "issue" /\ visit[v] \in [step : {"retire", "issue"}, code : Nat]
  BY VisitTypes DEF IssueToken, RecoveryInv
<1>2. visit' \in [Visitors -> Visits] /\ MovesOn(v, Away) /\ crowded' = crowded
  <2>1. Goes(v, Away) /\ RecoveryTyped
    BY DEF IssueToken, Departs, RecoveryInv
  <2> QED  BY <2>1, AwayIsVisit, Gone
<1>3. /\ resets \in Seq(ResetDocs) /\ Len(resets) < ResetLimit /\ resets' = Append(resets, NewReset(visit[v].code))
      /\ ResetLimit \in Nat
  BY CrowdsAssumption DEF RecoveryInv, RecoveryTyped, IssueToken
<1>4. NewReset(visit[v].code) \in ResetDocs /\ NewReset(visit[v].code).code = visit[v].code
  BY <1>1 DEF NewReset, ResetDocs
<1>5. PICK n : n = Len(resets) + 1
  OBVIOUS
<1>6. /\ resets' \in Seq(ResetDocs) /\ Len(resets') = n /\ DOMAIN resets' = 1..n /\ n \in Nat
      /\ DOMAIN resets = 1..(n - 1) /\ Len(resets) = n - 1
      /\ \A k \in 1..(n - 1) : resets'[k] = resets[k]
      /\ resets'[n] = NewReset(visit[v].code)
  BY <1>3, <1>4, <1>5, Appended
<1>7. DOMAIN resets \subseteq DOMAIN resets' /\ \A k \in DOMAIN resets : resets'[k] = resets[k]
  BY <1>6
<1>8. RecoveryTyped'
  <2>1. n <= ResetLimit
    BY <1>3, <1>6
  <2> QED  BY <2>1, <1>2, <1>6 DEF RecoveryInv, RecoveryTyped, IssueToken
<1>9. Sourced'
  <2>0. Sourced /\ UNCHANGED codes
    BY DEF RecoveryInv, IssueToken
  <2>1. Proved(visit[v].code)
    BY <2>0, <1>1 DEF Sourced, VisitSourced
  <2>2. \A k \in DOMAIN resets' : k \in DOMAIN resets \/ k = n
    BY <1>6
  <2>3. \A k \in DOMAIN resets' : Proved(resets'[k].code)
    BY <2>0, <2>1, <2>2, <1>4, <1>6, <1>7 DEF Sourced, TokensSourced
  <2>4. TokensSourced'
    BY <2>3, <2>0 DEF TokensSourced, Proved
  <2>5. \A w \in Visitors : w # v => VisitSourced(w)'
    BY <2>0, <1>2, <1>7 DEF MovesOn, Sourced, VisitSourced, Proved
  <2>6. VisitSourced(v)'
    BY <1>2 DEF MovesOn, VisitSourced, Away
  <2> QED  BY <2>4, <2>5, <2>6 DEF Sourced
<1>10. ASSUME ~crowded PROVE (Single /\ Counted /\ Exclusive /\ Spending)'
  <2>0. Single /\ Counted /\ Exclusive /\ Spending /\ Sourced
    BY <1>10 DEF RecoveryInv
  <2>1. Single'
    BY <2>0, <1>2, <1>1 DEF MovesOn, Single
  <2>2. Counted'
    <3>1. \A w \in Visitors : visit'[w].step = "compare" => w # v /\ visit'[w] = visit[w]
      BY <1>2 DEF MovesOn, Away
    <3> QED  BY <3>1, <2>0 DEF Counted, IssueToken
  <2>3. Exclusive'
    <3>1. \A k \in DOMAIN resets : ~UsableReset(resets[k])
      BY <2>0, <1>1 DEF Exclusive, Usables
    <3>2. \A k \in Usables' : k = n
      BY <3>1, <1>6, <1>7 DEF Usables
    <3>3. \A w \in Visitors : visit'[w].step # "issue"
      <4>1. \A w \in Visitors : w # v => visit[w] = Away
        BY <2>0, <1>1 DEF Single, Away
      <4> QED  BY <4>1, <1>2 DEF MovesOn, Away
    <3> QED  BY <3>2, <3>3 DEF Exclusive
  <2>4. Spending'
    <3>1. \A k : Marking(k) => Marking(k)'
      BY <1>1, <1>2, MarkingKept DEF NotMarking
    <3>2. \A k \in 1..ResetLimit :
            /\ changed'[k] <= 1 + visitDeaths'
            /\ changed'[k] <= visitDeaths' \/ (k \in DOMAIN resets' /\ resets'[k].used) \/ Marking(k)'
      BY <2>0, <3>1, <1>7 DEF Spending, IssueToken
    <3>3. \A w \in Visitors : visit'[w].step = "reset" => w # v /\ visit'[w] = visit[w]
      BY <1>2 DEF MovesOn, Away
    <3>4. \A w \in Visitors : visit'[w].step = "reset" =>
            /\ "account" \in visit'[w].left => changed'[visit'[w].token] <= visitDeaths'
            /\ "token" \in visit'[w].left \/ resets'[visit'[w].token].used
      BY <2>0, <1>7, <3>3 DEF Spending, Sourced, VisitSourced, IssueToken
    <3> QED  BY <3>2, <3>4 DEF Spending
  <2> QED  BY <2>1, <2>2, <2>3, <2>4
<1> QED  BY <1>2, <1>8, <1>9, <1>10 DEF RecoveryInv

\* A visitor alone stays alone.
LEMMA OneMoves ==
  ASSUME NEW v \in Visitors, NEW r, MovesOn(v, r), \A w \in Visitors : w # v => visit[w] = Away
  PROVE  Single' /\ \A w \in Visitors : w # v => visit'[w] = Away
<1>1. \A w \in Visitors : w # v => visit'[w] = Away
  BY DEF MovesOn
<1>2. \A w \in Visitors : visit'[w] # Away => w = v
  BY <1>1
<1> QED  BY <1>1, <1>2 DEF Single

\* Starting a verification keeps the invariant.
LEMMA VerifyStarted ==
  ASSUME RecoveryInv, NEW v \in Visitors, NEW k, StartVerify(v, k)
  PROVE  RecoveryInv'
<1>0. PICK r : r = [step |-> "compare", code |-> k, attempts |-> codes[k].attempts + 1]
  OBVIOUS
<1>1. /\ codes \in Seq(CodeDocs) /\ k \in DOMAIN codes /\ codes[k].attempts < MaxAttempts
      /\ UNCHANGED <<codes, resets, holder, password, visitDeaths, tries, changed, crowd>>
  BY DEF RecoveryInv, RecoveryTyped, StartVerify, ActiveCode, MayTry
<1>2. codes[k] \in CodeDocs /\ k \in Nat
  BY <1>1
<1>3. codes[k].attempts \in Nat
  BY <1>2 DEF CodeDocs
<1>4. r \in [step : {"compare"}, code : Nat, attempts : Nat] /\ r.step = "compare" /\ r.code = k
      /\ r.attempts = codes[k].attempts + 1 /\ r.attempts <= MaxAttempts /\ r # Away
  BY <1>0, <1>1, <1>2, <1>3, AttemptsAssumption DEF Away
<1>5. r \in Visits
  BY <1>4 DEF Visits
<1>6. /\ visit' \in [Visitors -> Visits] /\ MovesOn(v, r) /\ crowded' \in BOOLEAN
      /\ visit[v] = Away
      /\ ~crowded' => ~crowded /\ \A w \in Visitors : visit[w] = Away
  <2>1. Enters(v, r) /\ RecoveryTyped
    BY <1>0 DEF StartVerify, RecoveryInv
  <2> QED  BY <2>1, <1>5, Entered
<1>7. RecoveryTyped'
  BY <1>1, <1>6 DEF RecoveryInv, RecoveryTyped
<1>8. Sourced'
  <2>0. Sourced
    BY DEF RecoveryInv
  <2>1. TokensSourced'
    BY <2>0, <1>1 DEF Sourced, TokensSourced, Proved
  <2>2. \A w \in Visitors : w # v => VisitSourced(w)'
    BY <2>0, <1>1, <1>6 DEF MovesOn, Sourced, VisitSourced, Proved
  <2>3. VisitSourced(v)'
    BY <1>1, <1>4, <1>6 DEF MovesOn, VisitSourced
  <2> QED  BY <2>1, <2>2, <2>3 DEF Sourced
<1>9. ASSUME ~crowded' PROVE (Single /\ Counted /\ Exclusive /\ Spending)'
  <2>0. Single /\ Counted /\ Exclusive /\ Spending /\ \A w \in Visitors : visit[w] = Away
    BY <1>6, <1>9 DEF RecoveryInv
  <2>1. Single' /\ \A w \in Visitors : w # v => visit'[w] = Away
    <3>1. \A w \in Visitors : w # v => visit[w] = Away
      BY <2>0
    <3>2. MovesOn(v, r)
      BY <1>6
    <3> QED  BY <3>1, <3>2, OneMoves
  <2>2. \A w \in Visitors : visit'[w].step # "issue" /\ visit'[w].step # "reset" /\ (visit'[w].step = "compare" => w = v)
    BY <2>1, <1>4, <1>6 DEF MovesOn, Away
  <2>3. Counted'
    <3>1. \A j \in 1..CodeLimit :
            IF j \in DOMAIN codes'
            THEN codes'[j].attempts <= MaxAttempts /\ tries'[j] <= codes'[j].attempts + visitDeaths'
            ELSE tries'[j] = 0
      BY <2>0, <1>1 DEF Counted
    <3>2. visit'[v] = r
      BY <1>6 DEF MovesOn
    <3> QED  BY <3>1, <3>2, <2>2, <1>1, <1>4 DEF Counted
  <2>4. Exclusive'
    BY <2>0, <2>2, <1>1 DEF Exclusive, Usables
  <2>5. Spending'
    <3>1. \A j : ~Marking(j)
      BY <2>0 DEF Marking, Away
    <3> QED  BY <3>1, <2>0, <2>2, <1>1 DEF Spending
  <2> QED  BY <2>1, <2>3, <2>4, <2>5
<1> QED  BY <1>6, <1>7, <1>8, <1>9 DEF RecoveryInv

\* Starting a reset keeps it.
LEMMA ResetStarted ==
  ASSUME RecoveryInv, NEW v \in Visitors, NEW k, StartReset(v, k)
  PROVE  RecoveryInv'
<1>0. PICK r : r = [step |-> "reset", token |-> k, left |-> {"account", "token"}]
  OBVIOUS
<1>1. /\ resets \in Seq(ResetDocs) /\ k \in DOMAIN resets /\ UsableReset(resets[k])
      /\ UNCHANGED <<codes, resets, holder, password, visitDeaths, tries, changed, crowd>>
  BY DEF RecoveryInv, RecoveryTyped, StartReset
<1>2. k \in Nat /\ k \in 1..ResetLimit
  BY <1>1, CrowdsAssumption DEF RecoveryInv, RecoveryTyped
<1>4. r \in Resetting /\ r.step = "reset" /\ r.token = k /\ r.left = {"account", "token"} /\ r # Away
  BY <1>0, <1>2 DEF Away, Resetting
<1>5. r \in Visits
  BY <1>4 DEF Visits
<1>6. /\ visit' \in [Visitors -> Visits] /\ MovesOn(v, r) /\ crowded' \in BOOLEAN
      /\ visit[v] = Away
      /\ ~crowded' => ~crowded /\ \A w \in Visitors : visit[w] = Away
  <2>1. Enters(v, r) /\ RecoveryTyped
    BY <1>0 DEF StartReset, RecoveryInv
  <2> QED  BY <2>1, <1>5, Entered
<1>7. RecoveryTyped'
  BY <1>1, <1>6 DEF RecoveryInv, RecoveryTyped
<1>8. Sourced'
  <2>0. Sourced
    BY DEF RecoveryInv
  <2>1. TokensSourced'
    BY <2>0, <1>1 DEF Sourced, TokensSourced, Proved
  <2>2. \A w \in Visitors : w # v => VisitSourced(w)'
    BY <2>0, <1>1, <1>6 DEF MovesOn, Sourced, VisitSourced, Proved
  <2>3. VisitSourced(v)'
    BY <1>1, <1>4, <1>6 DEF MovesOn, VisitSourced
  <2> QED  BY <2>1, <2>2, <2>3 DEF Sourced
<1>9. ASSUME ~crowded' PROVE (Single /\ Counted /\ Exclusive /\ Spending)'
  <2>0. Single /\ Counted /\ Exclusive /\ Spending /\ \A w \in Visitors : visit[w] = Away
    BY <1>6, <1>9 DEF RecoveryInv
  <2>1. Single' /\ \A w \in Visitors : w # v => visit'[w] = Away
    <3>1. \A w \in Visitors : w # v => visit[w] = Away
      BY <2>0
    <3>2. MovesOn(v, r)
      BY <1>6
    <3> QED  BY <3>1, <3>2, OneMoves
  <2>2. \A w \in Visitors : visit'[w].step # "issue" /\ visit'[w].step # "compare" /\ (visit'[w].step = "reset" => w = v)
    BY <2>1, <1>4, <1>6 DEF MovesOn, Away
  <2>3. Counted' /\ Exclusive'
    BY <2>0, <2>2, <1>1 DEF Counted, Exclusive, Usables
  <2>5. Spending'
    <3>1. \A j : ~Marking(j)
      BY <2>0 DEF Marking, Away
    <3>2. ~resets[k].used
      BY <1>1 DEF UsableReset
    <3>3. changed[k] <= visitDeaths
      BY <2>0, <3>1, <3>2, <1>2 DEF Spending
    <3>4. visit'[v] = r
      BY <1>6 DEF MovesOn
    <3> QED  BY <3>1, <3>3, <3>4, <2>0, <2>2, <1>1, <1>4 DEF Spending
  <2> QED  BY <2>1, <2>3, <2>5
<1> QED  BY <1>6, <1>7, <1>8, <1>9 DEF RecoveryInv

\* The provider has compared a code: the call writes its count, and goes on if it was right.
LEMMA CodeCompared ==
  ASSUME RecoveryInv, NEW v \in Visitors, visit[v].step = "compare", Compared(v),
         NEW d \in CodeDocs, d.attempts = visit[v].attempts, codes[visit[v].code].verified => d.verified,
         codes' = [codes EXCEPT ![visit[v].code] = d],
         NEW r \in Visits, r = Away \/ (r.step = "retire" /\ r.code = visit[v].code /\ d.verified), Goes(v, r),
         UNCHANGED <<resets, holder, password, visitDeaths, changed, crowd>>
  PROVE  RecoveryInv'
<1>0. PICK k : k = visit[v].code
  OBVIOUS
<1>1. /\ codes \in Seq(CodeDocs) /\ Len(codes) <= CodeLimit /\ tries \in [1..CodeLimit -> Nat]
      /\ visitDeaths \in Nat /\ CodeLimit \in Nat
  BY CrowdsAssumption DEF RecoveryInv, RecoveryTyped
<1>2. k \in DOMAIN codes
  BY <1>0 DEF RecoveryInv, Sourced, VisitSourced
<1>3. /\ codes' \in Seq(CodeDocs) /\ Len(codes') = Len(codes) /\ DOMAIN codes' = DOMAIN codes
      /\ codes'[k] = d /\ \A j \in DOMAIN codes : j # k => codes'[j] = codes[j]
  BY <1>0, <1>1, <1>2
<1>4. k \in 1..CodeLimit
  BY <1>1, <1>2
<1>5. /\ tries' \in [1..CodeLimit -> Nat] /\ tries'[k] = tries[k] + 1
      /\ \A j \in 1..CodeLimit : j # k => tries'[j] = tries[j]
  <2>1. tries' = [tries EXCEPT ![k] = tries[k] + 1]
    BY <1>0 DEF Compared
  <2>2. tries[k] + 1 \in Nat
    BY <1>1, <1>4
  <2> QED  BY <2>1, <2>2, <1>1, <1>4
<1>6. visit' \in [Visitors -> Visits] /\ MovesOn(v, r) /\ crowded' = crowded
  BY Gone DEF RecoveryInv
<1>7. RecoveryTyped'
  BY <1>1, <1>3, <1>5, <1>6 DEF RecoveryInv, RecoveryTyped
<1>8. \A j : Proved(j) => Proved(j)'
  <2>1. codes[k].verified => d.verified
    BY <1>0
  <2> QED  BY <2>1, <1>2, <1>3 DEF Proved
<1>9. Sourced'
  <2>0. Sourced
    BY DEF RecoveryInv
  <2>1. TokensSourced'
    BY <2>0, <1>8 DEF Sourced, TokensSourced
  <2>2. \A w \in Visitors : w # v => VisitSourced(w)'
    BY <2>0, <1>3, <1>6, <1>8 DEF MovesOn, Sourced, VisitSourced
  <2>3. VisitSourced(v)'
    <3>1. visit'[v] = r
      BY <1>6 DEF MovesOn
    <3>2. CASE r = Away
      BY <3>1, <3>2 DEF VisitSourced, Away
    <3>3. CASE r.step = "retire" /\ r.code = k /\ d.verified
      <4>1. Proved(k)'
        BY <3>3, <1>2, <1>3 DEF Proved
      <4>2. visit'[v].code = k
        BY <3>1, <3>3
      <4>3. Proved(visit[v].code)'
        BY <4>1, <4>2 DEF Proved
      <4> QED  BY <4>3, <3>1, <3>3 DEF VisitSourced
    <3> QED  BY <3>2, <3>3, <1>0
  <2> QED  BY <2>1, <2>2, <2>3 DEF Sourced
<1>10. ASSUME ~crowded PROVE (Single /\ Counted /\ Exclusive /\ Spending)'
  <2>0. Single /\ Counted /\ Exclusive /\ Spending /\ Sourced
    BY <1>10 DEF RecoveryInv
  <2>1. \A w \in Visitors : w # v => visit[w] = Away
    BY <2>0 DEF Single, Away
  <2>2. Single' /\ \A w \in Visitors : w # v => visit'[w] = Away
    BY <2>1, <1>6, OneMoves
  <2>3. \A w \in Visitors : visit'[w].step \notin {"compare", "issue", "reset"}
    <3>1. visit'[v] = r
      BY <1>6 DEF MovesOn
    <3>2. r.step \notin {"compare", "issue", "reset"}
      BY DEF Away
    <3> QED  BY <3>1, <3>2, <2>2 DEF Away
  <2>4. Counted'
    <3>1. visit[v].attempts = codes[k].attempts + 1 /\ visit[v].attempts <= MaxAttempts
      BY <2>0, <1>0 DEF Counted
    <3>2. tries[k] <= codes[k].attempts + visitDeaths
      BY <2>0, <1>2, <1>4 DEF Counted
    <3>3. d.attempts \in Nat /\ tries[k] \in Nat
      BY <1>1, <1>4 DEF CodeDocs
    <3>4. codes[k].attempts \in Nat
      <4>1. codes[k] \in CodeDocs
        BY <1>1, <1>2
      <4> QED  BY <4>1 DEF CodeDocs
    <3>6. PICK a \in Nat : a = codes[k].attempts
      BY <3>4
    <3>7. d.attempts = a + 1 /\ a + 1 <= MaxAttempts /\ tries[k] <= a + visitDeaths
      BY <3>1, <3>2, <3>6
    <3>8. tries'[k] <= codes'[k].attempts + visitDeaths' /\ codes'[k].attempts <= MaxAttempts
      <4>1. tries'[k] = tries[k] + 1 /\ codes'[k].attempts = a + 1 /\ visitDeaths' = visitDeaths
        BY <3>7, <1>3, <1>5
      <4>2. tries[k] + 1 <= (a + 1) + visitDeaths
        BY <3>3, <3>7, <1>1
      <4> QED  BY <4>1, <4>2, <3>7
    <3>5. \A j \in 1..CodeLimit :
            IF j \in DOMAIN codes'
            THEN codes'[j].attempts <= MaxAttempts /\ tries'[j] <= codes'[j].attempts + visitDeaths'
            ELSE tries'[j] = 0
      BY <3>8, <2>0, <1>2, <1>3, <1>5 DEF Counted
    <3> QED  BY <3>5, <2>3 DEF Counted
  <2>5. Exclusive'
    BY <2>0, <2>3 DEF Exclusive, Usables
  <2>6. Spending'
    <3>1. NotMarking(v)
      BY DEF NotMarking
    <3>2. \A j : Marking(j) => Marking(j)'
      BY <3>1, <1>6, MarkingKept
    <3> QED  BY <3>2, <2>0, <2>3 DEF Spending
  <2> QED  BY <2>2, <2>4, <2>5, <2>6
<1> QED  BY <1>6, <1>7, <1>9, <1>10 DEF RecoveryInv

\* A wrong code keeps it.
LEMMA CodeWrong ==
  ASSUME RecoveryInv, NEW v \in Visitors, WrongCode(v)
  PROVE  RecoveryInv'
<1>1. /\ visit[v].step = "compare" /\ visit[v].attempts \in Nat /\ visit[v].code \in DOMAIN codes
      /\ codes \in Seq(CodeDocs)
  BY VisitTypes DEF RecoveryInv, RecoveryTyped, WrongCode, Sourced, VisitSourced
<1>2. PICK d : d = [codes[visit[v].code] EXCEPT !.attempts = visit[v].attempts]
  OBVIOUS
<1>3. codes[visit[v].code] \in CodeDocs
  BY <1>1
<1>4. d \in CodeDocs /\ d.attempts = visit[v].attempts /\ d.verified = codes[visit[v].code].verified
  BY <1>1, <1>2, <1>3 DEF CodeDocs
<1>5. codes' = [codes EXCEPT ![visit[v].code] = d]
  BY <1>2 DEF WrongCode
<1>6. Goes(v, Away) /\ Compared(v) /\ UNCHANGED <<resets, holder, password, visitDeaths, changed, crowd>>
  BY DEF WrongCode, Departs
<1> QED  BY <1>1, <1>4, <1>5, <1>6, AwayIsVisit, CodeCompared

\* A right code keeps it.
LEMMA CodeRight ==
  ASSUME RecoveryInv, NEW v \in Visitors, RightCode(v)
  PROVE  RecoveryInv'
<1>1. /\ visit[v].step = "compare" /\ visit[v].attempts \in Nat /\ visit[v].code \in DOMAIN codes
      /\ visit[v].code \in Nat /\ codes \in Seq(CodeDocs)
  BY VisitTypes DEF RecoveryInv, RecoveryTyped, RightCode, Sourced, VisitSourced
<1>2. PICK e : e = [codes[visit[v].code] EXCEPT !.attempts = visit[v].attempts]
  OBVIOUS
<1>3. PICK d : d = [e EXCEPT !.verified = TRUE]
  OBVIOUS
<1>4. codes[visit[v].code] \in CodeDocs
  BY <1>1
<1>5. e \in CodeDocs /\ e.attempts = visit[v].attempts
  BY <1>1, <1>2, <1>4 DEF CodeDocs
<1>6. d \in CodeDocs /\ d.attempts = visit[v].attempts /\ d.verified
  BY <1>3, <1>5 DEF CodeDocs
<1>7. codes' = [codes EXCEPT ![visit[v].code] = d]
  <2>1. codes' = [[codes EXCEPT ![visit[v].code].attempts = visit[v].attempts]
                    EXCEPT ![visit[v].code].verified = TRUE]
    BY DEF RightCode
  <2>2. [codes EXCEPT ![visit[v].code].attempts = visit[v].attempts] = [codes EXCEPT ![visit[v].code] = e]
    BY <1>2
  <2>3. [codes EXCEPT ![visit[v].code] = e][visit[v].code] = e
    BY <1>1
  <2>4. codes' = [[codes EXCEPT ![visit[v].code] = e] EXCEPT ![visit[v].code] = d]
    BY <1>3, <2>1, <2>2, <2>3
  <2> QED  BY <2>4, <1>1
<1>8. PICK r : r = [step |-> "retire", code |-> visit[v].code]
  OBVIOUS
<1>9. r \in Visits /\ r.step = "retire" /\ r.code = visit[v].code
  BY <1>1, <1>8 DEF Visits
<1>10. Goes(v, r) /\ Compared(v) /\ UNCHANGED <<resets, holder, password, visitDeaths, changed, crowd>>
  BY <1>8 DEF RightCode
<1> QED  BY <1>1, <1>6, <1>7, <1>9, <1>10, CodeCompared

\* Arithmetic: one more death allows one more.
LEMMA DeathAllows ==
  ASSUME NEW d \in Nat, NEW n \in Nat
  PROVE  /\ n <= 1 + d => n <= 1 + (d + 1)
         /\ n <= 1 + d => n <= d + 1
         /\ \A a \in Nat : n <= a + d => n <= a + (d + 1) /\ n + 1 <= a + (d + 1)
OBVIOUS

\* A visit that dies keeps the invariant.
LEMMA VisitCutShort ==
  ASSUME RecoveryInv, NEW v \in Visitors, VisitDies(v)
  PROVE  RecoveryInv'
<1>1. visit[v] # Away /\ visitDeaths' = visitDeaths + 1 /\ visitDeaths \in Nat
      /\ UNCHANGED <<codes, resets, holder, password, changed, crowd>>
  BY DEF VisitDies, RecoveryInv, RecoveryTyped
<1>2. visit' \in [Visitors -> Visits] /\ MovesOn(v, Away) /\ crowded' = crowded
  <2>1. Goes(v, Away) /\ RecoveryTyped
    BY DEF VisitDies, Departs, RecoveryInv
  <2> QED  BY <2>1, AwayIsVisit, Gone
<1>3. tries \in [1..CodeLimit -> Nat] /\ codes \in Seq(CodeDocs) /\ Len(codes) <= CodeLimit /\ CodeLimit \in Nat
  BY CrowdsAssumption DEF RecoveryInv, RecoveryTyped
\* A code that was compared exists, and no other count changes.
<1>4. /\ tries' \in [1..CodeLimit -> Nat]
      /\ \A j \in 1..CodeLimit : tries'[j] = tries[j] \/ (j \in DOMAIN codes /\ tries'[j] = tries[j] + 1)
  <2>1. CASE visit[v].step = "compare"
    <3>0. PICK k : k = visit[v].code
      OBVIOUS
    <3>1. k \in DOMAIN codes
      BY <2>1, <3>0 DEF RecoveryInv, Sourced, VisitSourced
    <3>2. k \in 1..CodeLimit
      BY <3>1, <1>3
    <3>3. tries' = [tries EXCEPT ![k] = tries[k] + 1]
      BY <2>1, <3>0 DEF VisitDies, Compared
    <3>4. tries[k] + 1 \in Nat
      BY <3>2, <1>3
    <3> QED  BY <3>1, <3>2, <3>3, <3>4, <1>3
  <2>2. CASE visit[v].step # "compare"
    <3>1. tries' = tries
      BY <2>2 DEF VisitDies
    <3> QED  BY <3>1, <1>3
  <2> QED  BY <2>1, <2>2
<1>5. RecoveryTyped'
  BY <1>1, <1>2, <1>4 DEF RecoveryInv, RecoveryTyped
<1>6. Sourced'
  <2>0. Sourced
    BY DEF RecoveryInv
  <2>1. TokensSourced'
    BY <2>0, <1>1 DEF Sourced, TokensSourced, Proved
  <2>2. \A w \in Visitors : w # v => VisitSourced(w)'
    BY <2>0, <1>1, <1>2 DEF MovesOn, Sourced, VisitSourced, Proved
  <2>3. VisitSourced(v)'
    BY <1>2 DEF MovesOn, VisitSourced, Away
  <2> QED  BY <2>1, <2>2, <2>3 DEF Sourced
<1>7. ASSUME ~crowded PROVE (Single /\ Counted /\ Exclusive /\ Spending)'
  <2>0. Single /\ Counted /\ Exclusive /\ Spending
    BY <1>7 DEF RecoveryInv
  <2>1. \A w \in Visitors : w # v => visit[w] = Away
    BY <2>0, <1>1 DEF Single
  <2>2. Single' /\ \A w \in Visitors : w # v => visit'[w] = Away
    BY <2>1, <1>2, OneMoves
  <2>3. \A w \in Visitors : visit'[w].step = "away"
    BY <1>2, <2>2 DEF MovesOn, Away
  <2>4. Counted'
    <3>1. ASSUME NEW j \in 1..CodeLimit
          PROVE  IF j \in DOMAIN codes'
                 THEN codes'[j].attempts <= MaxAttempts /\ tries'[j] <= codes'[j].attempts + visitDeaths'
                 ELSE tries'[j] = 0
      <4>1. CASE j \in DOMAIN codes
        <5>1. codes[j] \in CodeDocs
          BY <4>1, <1>3
        <5>2. codes[j].attempts \in Nat /\ tries[j] \in Nat
          BY <5>1, <1>3 DEF CodeDocs
        <5>3. codes[j].attempts <= MaxAttempts /\ tries[j] <= codes[j].attempts + visitDeaths
          BY <4>1, <2>0 DEF Counted
        <5>4. tries'[j] <= codes[j].attempts + (visitDeaths + 1)
          BY <5>2, <5>3, <1>1, <1>4, DeathAllows
        <5> QED  BY <4>1, <5>3, <5>4, <1>1
      <4>2. CASE j \notin DOMAIN codes
        BY <4>2, <1>1, <1>4, <2>0 DEF Counted
      <4> QED  BY <4>1, <4>2
    <3> QED  BY <3>1, <2>3 DEF Counted
  <2>5. Exclusive'
    BY <2>0, <2>3, <1>1 DEF Exclusive, Usables
  <2>6. Spending'
    <3>1. ASSUME NEW k \in 1..ResetLimit PROVE changed'[k] <= 1 + visitDeaths' /\ changed'[k] <= visitDeaths'
      <4>1. changed[k] \in Nat /\ changed[k] <= 1 + visitDeaths
        BY <2>0 DEF RecoveryInv, RecoveryTyped, Spending
      <4> QED  BY <4>1, <1>1, DeathAllows
    <3> QED  BY <3>1, <2>3 DEF Spending
  <2> QED  BY <2>2, <2>4, <2>5, <2>6
<1> QED  BY <1>2, <1>5, <1>6, <1>7 DEF RecoveryInv

\* Where a call that saves goes next: it has the other save left, or leaves.
LEMMA Saves ==
  ASSUME RecoveryInv, NEW v \in Visitors, NEW what \in {"account", "token"}, SaveReset(v, what)
  PROVE  \E r \in Visits :
           /\ Goes(v, r)
           /\ r = Away => visit[v].left = {what}
           /\ r # Away => /\ r.step = "reset" /\ r.token = visit[v].token
                          /\ r.left = visit[v].left \ {what} /\ r.left # {}
<1>1. visit[v] \in Resetting /\ what \in visit[v].left
  BY VisitTypes DEF SaveReset, RecoveryInv
<1>2. CASE visit[v].left = {what}
  BY <1>2, AwayIsVisit DEF SaveReset, Departs
<1>3. CASE visit[v].left # {what}
  <2>1. PICK r : r = [visit[v] EXCEPT !.left = visit[v].left \ {what}]
    OBVIOUS
  <2>2. r \in Resetting /\ r.step = "reset" /\ r.token = visit[v].token /\ r.left = visit[v].left \ {what}
    BY <2>1, <1>1 DEF Resetting
  <2>3. r \in Visits /\ r # Away
    BY <2>2 DEF Visits, Away
  <2>4. Goes(v, r)
    BY <1>3, <2>1 DEF SaveReset
  <2>5. r.left # {}
    BY <2>2, <1>1, <1>3
  <2> QED  BY <2>2, <2>3, <2>4, <2>5
<1> QED  BY <1>2, <1>3

\* Saving the new password keeps it.
LEMMA AccountSaved ==
  ASSUME RecoveryInv, NEW v \in Visitors, SaveReset(v, "account")
  PROVE  RecoveryInv'
<1>0. PICK t : t = visit[v].token
  OBVIOUS
<1>1. /\ visit[v].step = "reset" /\ visit[v] \in Resetting /\ "account" \in visit[v].left
      /\ t \in DOMAIN resets
  BY <1>0, VisitTypes DEF SaveReset, RecoveryInv, Sourced, VisitSourced
<1>2. PICK r \in Visits :
        /\ Goes(v, r)
        /\ r = Away => visit[v].left = {"account"}
        /\ r # Away => /\ r.step = "reset" /\ r.token = visit[v].token
                       /\ r.left = visit[v].left \ {"account"} /\ r.left # {}
  BY Saves
<1>3. visit' \in [Visitors -> Visits] /\ MovesOn(v, r) /\ crowded' = crowded
  BY <1>2, Gone DEF RecoveryInv
<1>4. /\ changed \in [1..ResetLimit -> Nat] /\ resets \in Seq(ResetDocs) /\ Len(resets) <= ResetLimit
      /\ ResetLimit \in Nat /\ visitDeaths \in Nat
  BY CrowdsAssumption DEF RecoveryInv, RecoveryTyped
<1>5. t \in 1..ResetLimit
  BY <1>1, <1>4
<1>6. /\ UNCHANGED <<codes, holder, visitDeaths, tries, crowd, resets>> /\ password' = t
      /\ changed' = [changed EXCEPT ![t] = changed[t] + 1]
  BY <1>0 DEF SaveReset
<1>7. /\ changed' \in [1..ResetLimit -> Nat] /\ changed'[t] = changed[t] + 1
      /\ \A k \in 1..ResetLimit : k # t => changed'[k] = changed[k]
  <2>1. changed[t] + 1 \in Nat
    BY <1>4, <1>5
  <2> QED  BY <2>1, <1>4, <1>5, <1>6
<1>8. RecoveryTyped'
  BY <1>3, <1>6, <1>7 DEF RecoveryInv, RecoveryTyped
<1>9. Sourced'
  <2>0. Sourced
    BY DEF RecoveryInv
  <2>1. TokensSourced'
    BY <2>0, <1>6 DEF Sourced, TokensSourced, Proved
  <2>2. \A w \in Visitors : w # v => VisitSourced(w)'
    BY <2>0, <1>3, <1>6 DEF MovesOn, Sourced, VisitSourced, Proved
  <2>3. VisitSourced(v)'
    <3>1. visit'[v] = r
      BY <1>3 DEF MovesOn
    <3> QED  BY <3>1, <1>0, <1>1, <1>2, <1>6 DEF VisitSourced, Away
  <2> QED  BY <2>1, <2>2, <2>3 DEF Sourced
<1>10. ASSUME ~crowded PROVE (Single /\ Counted /\ Exclusive /\ Spending)'
  <2>0. Single /\ Counted /\ Exclusive /\ Spending
    BY <1>10 DEF RecoveryInv
  <2>1. \A w \in Visitors : w # v => visit[w] = Away
    BY <2>0, <1>1 DEF Single, Away
  <2>2. Single' /\ \A w \in Visitors : w # v => visit'[w] = Away
    BY <2>1, <1>3, OneMoves
  <2>3. visit'[v] = r /\ (r = Away \/ r.step = "reset")
    BY <1>2, <1>3 DEF MovesOn
  <2>4. \A w \in Visitors : visit'[w].step \notin {"compare", "issue"} /\ (visit'[w].step = "reset" => w = v)
    BY <2>2, <2>3 DEF Away
  <2>5. Counted' /\ Exclusive'
    BY <2>0, <2>4, <1>6 DEF Counted, Exclusive, Usables
  <2>6. Spending'
    <3>1. changed[t] <= visitDeaths /\ ("token" \in visit[v].left \/ resets[t].used)
      BY <2>0, <1>0, <1>1 DEF Spending
    <3>2. changed'[t] <= 1 + visitDeaths'
      <4>1. changed[t] \in Nat
        BY <1>4, <1>5
      <4> QED  BY <4>1, <3>1, <1>4, <1>6, <1>7
    <3>3. resets'[t].used \/ Marking(t)'
      <4>1. CASE r = Away
        <5>1. "token" \notin visit[v].left
          BY <4>1, <1>2
        <5> QED  BY <5>1, <3>1, <1>6
      <4>2. CASE r # Away
        BY <4>2, <1>0, <1>2, <2>3 DEF Marking
      <4> QED  BY <4>1, <4>2
    <3>4. \A k : Marking(k) => k = t
      BY <2>1, <1>0 DEF Marking, Away
    <3>5. \A k : ~Marking(k)
      BY <2>1, <1>1 DEF Marking, Away
    <3>6. \A k \in 1..ResetLimit :
            /\ changed'[k] <= 1 + visitDeaths'
            /\ changed'[k] <= visitDeaths' \/ (k \in DOMAIN resets' /\ resets'[k].used) \/ Marking(k)'
      <4>1. ASSUME NEW k \in 1..ResetLimit, k # t
            PROVE  /\ changed'[k] <= 1 + visitDeaths'
                   /\ changed'[k] <= visitDeaths' \/ (k \in DOMAIN resets' /\ resets'[k].used)
        BY <4>1, <3>5, <2>0, <1>6, <1>7 DEF Spending
      <4>2. t \in DOMAIN resets'
        BY <1>1, <1>6
      <4> QED  BY <4>1, <4>2, <3>2, <3>3
    <3>7. visit'[v].step = "reset" =>
            /\ "account" \notin visit'[v].left
            /\ "token" \in visit'[v].left \/ resets'[visit'[v].token].used
      <4>1. CASE r = Away
        BY <4>1, <2>3 DEF Away
      <4>2. CASE r # Away
        BY <4>2, <3>1, <2>3, <1>0, <1>2, <1>6
      <4> QED  BY <4>1, <4>2
    <3> QED  BY <3>6, <3>7, <2>4 DEF Spending
  <2> QED  BY <2>2, <2>5, <2>6
<1> QED  BY <1>3, <1>8, <1>9, <1>10 DEF RecoveryInv

\* Spending the token keeps it.
LEMMA TokenSaved ==
  ASSUME RecoveryInv, NEW v \in Visitors, SaveReset(v, "token")
  PROVE  RecoveryInv'
<1>0. PICK t : t = visit[v].token
  OBVIOUS
<1>1. /\ visit[v].step = "reset" /\ visit[v] \in Resetting /\ "token" \in visit[v].left
      /\ t \in DOMAIN resets
  BY <1>0, VisitTypes DEF SaveReset, RecoveryInv, Sourced, VisitSourced
<1>2. PICK r \in Visits :
        /\ Goes(v, r)
        /\ r = Away => visit[v].left = {"token"}
        /\ r # Away => /\ r.step = "reset" /\ r.token = visit[v].token
                       /\ r.left = visit[v].left \ {"token"} /\ r.left # {}
  BY Saves
<1>3. visit' \in [Visitors -> Visits] /\ MovesOn(v, r) /\ crowded' = crowded
  BY <1>2, Gone DEF RecoveryInv
<1>4. /\ changed \in [1..ResetLimit -> Nat] /\ resets \in Seq(ResetDocs) /\ Len(resets) <= ResetLimit
      /\ ResetLimit \in Nat /\ visitDeaths \in Nat
  BY CrowdsAssumption DEF RecoveryInv, RecoveryTyped
<1>5. PICK d : d = Spent(resets[t])
  OBVIOUS
<1>6. /\ UNCHANGED <<codes, holder, visitDeaths, tries, crowd, password, changed>>
      /\ resets' = [resets EXCEPT ![t] = d]
  BY <1>0, <1>5 DEF SaveReset
<1>7. d \in ResetDocs /\ d.used /\ d.code = resets[t].code /\ ~UsableReset(d)
  <2>1. resets[t] \in ResetDocs
    BY <1>1, <1>4
  <2> QED  BY <2>1, <1>5 DEF Spent, ResetDocs, UsableReset
<1>8. TokensKept /\ resets'[t].used
  BY <1>1, <1>4, <1>6, <1>7 DEF TokensKept
<1>9. RecoveryTyped'
  BY <1>3, <1>4, <1>6, <1>8 DEF RecoveryInv, RecoveryTyped, TokensKept
<1>10. Sourced'
  <2>0. Sourced /\ DOMAIN resets' = DOMAIN resets
    BY <1>8 DEF RecoveryInv, TokensKept
  <2>1. TokensSourced'
    BY <1>6, <1>8, TokensUsable
  <2>2. \A w \in Visitors : w # v => VisitSourced(w)'
    BY <2>0, <1>3, <1>6 DEF MovesOn, Sourced, VisitSourced, Proved
  <2>3. VisitSourced(v)'
    <3>1. visit'[v] = r
      BY <1>3 DEF MovesOn
    <3> QED  BY <3>1, <2>0, <1>0, <1>1, <1>2 DEF VisitSourced, Away
  <2> QED  BY <2>1, <2>2, <2>3 DEF Sourced
<1>11. ASSUME ~crowded PROVE (Single /\ Counted /\ Exclusive /\ Spending)'
  <2>0. Single /\ Counted /\ Exclusive /\ Spending
    BY <1>11 DEF RecoveryInv
  <2>1. \A w \in Visitors : w # v => visit[w] = Away
    BY <2>0, <1>1 DEF Single, Away
  <2>2. Single' /\ \A w \in Visitors : w # v => visit'[w] = Away
    BY <2>1, <1>3, OneMoves
  <2>3. visit'[v] = r /\ (r = Away \/ r.step = "reset")
    BY <1>2, <1>3 DEF MovesOn
  <2>4. \A w \in Visitors : visit'[w].step \notin {"compare", "issue"} /\ (visit'[w].step = "reset" => w = v)
    BY <2>2, <2>3 DEF Away
  <2>5. Counted'
    BY <2>0, <2>4, <1>6 DEF Counted
  <2>6. Exclusive'
    <3>1. \A k, q \in Usables' : k = q
      BY <1>8, <2>0, TokensUsable
    <3> QED  BY <3>1, <2>4 DEF Exclusive
  <2>7. Spending'
    <3>1. \A k : Marking(k) => k = t
      BY <2>1, <1>0 DEF Marking, Away
    <3>2. \A k \in DOMAIN resets : k \in DOMAIN resets' /\ (resets[k].used => resets'[k].used)
      BY <1>8 DEF TokensKept
    <3>3. \A k \in 1..ResetLimit :
            /\ changed'[k] <= 1 + visitDeaths'
            /\ changed'[k] <= visitDeaths' \/ (k \in DOMAIN resets' /\ resets'[k].used) \/ Marking(k)'
      <4>1. \A k \in 1..ResetLimit : changed[k] <= 1 + visitDeaths
              /\ (changed[k] <= visitDeaths \/ (k \in DOMAIN resets /\ resets[k].used) \/ k = t)
        BY <3>1, <2>0 DEF Spending
      <4> QED  BY <4>1, <3>2, <1>1, <1>6, <1>8
    <3>4. visit'[v].step = "reset" =>
            /\ "account" \in visit'[v].left => changed'[visit'[v].token] <= visitDeaths'
            /\ "token" \in visit'[v].left \/ resets'[visit'[v].token].used
      <4>1. CASE r = Away
        BY <4>1, <2>3 DEF Away
      <4>2. CASE r # Away
        <5>1. "account" \in visit[v].left => changed[t] <= visitDeaths
          BY <2>0, <1>0, <1>1 DEF Spending
        <5> QED  BY <4>2, <5>1, <2>3, <1>0, <1>2, <1>6, <1>8
      <4> QED  BY <4>1, <4>2
    <3> QED  BY <3>3, <3>4, <2>4 DEF Spending
  <2> QED  BY <2>2, <2>5, <2>6, <2>7
<1> QED  BY <1>3, <1>9, <1>10, <1>11 DEF RecoveryInv

\* Every step keeps it.
LEMMA RecoveryStep == ASSUME RecoveryInv, RecoveryNext PROVE RecoveryInv'
<1>1. CASE SendCode \/ SetHolder
  BY <1>1, CodeSent, HolderSet
<1>2. CASE \E k \in 1..CodeLimit : ResendCode(k) \/ CoolDown(k) \/ CodeExpires(k)
  BY <1>2, CodeKept
<1>3. CASE \E r \in 1..ResetLimit : ResetExpires(r)
  BY <1>3, ResetExpired
<1>4. ASSUME NEW v \in Visitors,
             \/ \E k \in 1..CodeLimit : StartVerify(v, k)
             \/ WrongCode(v) \/ RightCode(v) \/ RetireTokens(v) \/ IssueToken(v)
             \/ \E r \in 1..ResetLimit : StartReset(v, r)
             \/ \E what \in {"account", "token"} : SaveReset(v, what)
             \/ VisitDies(v)
      PROVE  RecoveryInv'
  BY <1>4, VerifyStarted, CodeWrong, CodeRight, TokensRetired, TokenIssued, ResetStarted, AccountSaved,
     TokenSaved, VisitCutShort
<1> QED  BY <1>1, <1>2, <1>3, <1>4 DEF RecoveryNext

\* It holds at the start.
LEMMA RecoveryStart == ASSUME RecoveryInit PROVE RecoveryInv
<1>1. RecoveryTyped
  <2>1. codes \in Seq(CodeDocs) /\ Len(codes) = 0 /\ resets \in Seq(ResetDocs) /\ Len(resets) = 0
    BY DEF RecoveryInit
  <2>2. visit \in [Visitors -> Visits]
    BY AwayIsVisit DEF RecoveryInit
  <2>3. tries \in [1..CodeLimit -> Nat] /\ changed \in [1..ResetLimit -> Nat]
    BY DEF RecoveryInit
  <2>4. crowd \in Crowds /\ crowded \in BOOLEAN /\ visitDeaths \in Nat
    BY DEF RecoveryInit
  <2> QED  BY <2>1, <2>2, <2>3, <2>4, CrowdsAssumption DEF RecoveryTyped
<1>2. Sourced
  BY DEF RecoveryInit, Sourced, VisitSourced, TokensSourced, Away
<1>3. Single /\ Counted /\ Exclusive
  BY DEF RecoveryInit, Single, Counted, Exclusive, Usables, Away
<1>4. Spending
  BY DEF RecoveryInit, Spending, Marking, Away
<1> QED  BY <1>1, <1>2, <1>3, <1>4 DEF RecoveryInv

\* Steps of the other parts keep it.
LEMMA RecoveryKept == ASSUME RecoveryInv, UNCHANGED recoveryVars PROVE RecoveryInv'
BY DEF RecoveryInv, RecoveryTyped, Sourced, VisitSourced, TokensSourced, Proved, Single, Counted, Exclusive,
       Usables, UsableReset, Spending, Marking, recoveryVars

\* It contains the property.
LEMMA RecoveryMeans == ASSUME RecoveryInv PROVE RecoveryHeld
<1>0. /\ codes \in Seq(CodeDocs) /\ Len(codes) <= CodeLimit /\ CodeLimit \in Nat
      /\ resets \in Seq(ResetDocs) /\ Len(resets) <= ResetLimit /\ ResetLimit \in Nat
      /\ tries \in [1..CodeLimit -> Nat] /\ visitDeaths \in Nat
  BY CrowdsAssumption DEF RecoveryInv, RecoveryTyped
<1>1. ASSUME ~crowded, NEW k \in DOMAIN codes PROVE tries[k] <= MaxAttempts + visitDeaths
  <2>1. k \in 1..CodeLimit /\ codes[k] \in CodeDocs
    BY <1>0
  <2>2. codes[k].attempts <= MaxAttempts /\ tries[k] <= codes[k].attempts + visitDeaths
    BY <1>1, <2>1 DEF RecoveryInv, Counted
  <2>3. PICK a \in Nat : a = codes[k].attempts
    BY <2>1 DEF CodeDocs
  <2>4. tries[k] \in Nat /\ a <= MaxAttempts /\ tries[k] <= a + visitDeaths
    BY <2>1, <2>2, <2>3, <1>0
  <2> QED  BY <2>4, <1>0, AttemptsAssumption
<1>2. ASSUME ~crowded, NEW r \in DOMAIN resets PROVE changed[r] <= 1 + visitDeaths
  <2>1. r \in 1..ResetLimit
    BY <1>0
  <2> QED  BY <1>2, <2>1 DEF RecoveryInv, Spending
<1>3. OneResetToken
  BY DEF RecoveryInv, Exclusive, Usables, OneResetToken
<1>4. \A r \in DOMAIN resets : codes[resets[r].code].verified
  BY DEF RecoveryInv, Sourced, TokensSourced, Proved
<1> QED  BY <1>1, <1>2, <1>3, <1>4 DEF RecoveryHeld, AttemptsHeld, ResetSetsOnce

\* Account recovery: without overlapping calls a code is compared a bounded number of times, one reset
\* token is usable, and it sets the password once; a token always comes from a verified code
\* (auth.controller.js, forgotPasswordVerifyOtp and resetForgotPassword).
THEOREM Recovery == Spec => []RecoveryHeld
<1>1. ASSUME Init PROVE RecoveryInv
  BY <1>1, RecoveryStart DEF Init
<1>2. ASSUME RecoveryInv, [Next]_officeVars PROVE RecoveryInv'
  <2>1. RecoveryNext \/ UNCHANGED recoveryVars
    BY <1>2 DEF Next, officeVars
  <2> QED  BY <2>1, <1>2, RecoveryStep, RecoveryKept
<1> QED  BY <1>1, <1>2, RecoveryMeans, PTL DEF Spec

-----------------------------------------------------------------------------
(* Risk checks *)

States == DOMAIN Rank
PhoneStates == {"ACTIVE", "LOCKED", "RELEASE"}
FlagDocs == [type : RiskTypes, severity : {"medium", "critical"},
             status : {"open", "acknowledged", "resolved", "cleared", "wiped",
                       "compromised_permanent", "warning_pending"}]
ChallengeDocs == [call : {"check", "verify"}, used : BOOLEAN]
OrderDocs == [flag : Nat, open : BOOLEAN]

Matches == {NoMatch} \cup [type : RiskTypes, flag : Nat, read : FlagDocs \cup {<<>>}]
Assessments ==
  [step : {"resolve", "find", "upsert", "device"}, found : SUBSET RiskTypes, todo : SUBSET RiskTypes,
   match : Matches, raised : SUBSET Nat, enforced : BOOLEAN, security : States, state : PhoneStates, since : Nat]
Lockings ==
  [step : {"lock", "state", "order"}, todo : SUBSET Nat, flag : Nat, state : PhoneStates, since : Nat,
   critical : SUBSET Nat, spared : SUBSET Nat]
Checks ==
  {Unoccupied}
  \cup [step : {"decode"}, challenge : Nat, security : States, state : PhoneStates, since : Nat]
  \cup Assessments
  \cup [step : {"saving"}, left : SUBSET Nat]
  \cup [step : {"healthy"}, healthy : BOOLEAN]
  \cup Lockings
  \cup [step : {"report"}, type : RiskTypes, severity : {"medium", "critical"}, state : PhoneStates, since : Nat]
  \cup [step : {"others", "wipe"}, flag : Nat]
  \cup {[step |-> "wiped"]}

RiskTyped ==
  /\ challenges \in Seq(ChallengeDocs)
  /\ flags \in Seq(FlagDocs) /\ lockOrders \in Seq(OrderDocs)
  /\ security \in States /\ phoneState \in PhoneStates /\ unlocks \in Nat
  /\ checker \in [Checkers -> Checks]

\* A flag that a check is to write is of the type it looked for, and none it is to
\* resolve is critical.
Chosen(r, docs) ==
  /\ r.step = "upsert" =>
       /\ r.match.type # "none"
       /\ r.match.flag # 0 => r.match.flag \in DOMAIN docs /\ docs[r.match.flag].type = r.match.type
  /\ r.step = "saving" => \A k \in r.left :
       k \in DOMAIN docs /\ docs[k].type = "USB_DEBUGGING_ENABLED" /\ docs[k].severity # "critical"

\* Of a device that is not unlocked meanwhile, what a call has read of its lock holds on.
LockSteps == {"lock", "state", "order"}
Reading == {"decode", "resolve", "find", "upsert", "device", "report"} \cup LockSteps
OrderedIn(k, orders) == \E n \in DOMAIN orders : orders[n].flag = k
ReadLock(r, lock, count, orders) ==
  /\ r.step \in Reading => r.since <= count /\ (r.since = count /\ r.state = "LOCKED" => lock)
  /\ r.step = "order" /\ r.since = count => lock
  /\ r.step \in LockSteps /\ r.since = count /\ r.state # "RELEASE" =>
       \A k \in (r.critical \ r.spared) \ r.todo : lock \/ OrderedIn(k, orders) \/ (r.step # "lock" /\ k = r.flag)

\* A call that decides alone that the device is healthy has seen no active flag.
Reopened(doc) == doc.status = "acknowledged"
Decided(r, docs) ==
  /\ r.step = "others" => r.flag \in DOMAIN docs /\ (~ActiveFlag(docs[r.flag]) \/ Reopened(docs[r.flag]))
  /\ r.step = "healthy" /\ r.healthy => \A k \in DOMAIN docs : ActiveFlag(docs[k]) => Reopened(docs[k])

\* Every LOCK command, created or about to be, followed a lock, and the phone has left every lock but one.
Ordering == {c \in Checkers : checker[c].step = "order"}
OrdersInv == Len(lockOrders) + Cardinality(Ordering) <= unlocks + (IF PhoneLocked THEN 1 ELSE 0)

ChecksInv ==
  \A c \in Checkers :
    /\ Chosen(checker[c], flags) /\ ReadLock(checker[c], PhoneLocked, unlocks, lockOrders)
    /\ checker[c] # Unoccupied => checkScene.calls[c] # {}
    /\ SingleChecker => Decided(checker[c], flags)

RiskInv == RiskTyped /\ OrdersInv /\ ChecksInv

\* What a check carries, by its step.
LEMMA CheckTypes ==
  ASSUME RiskTyped, NEW c \in Checkers
  PROVE  /\ checker[c] \in Checks
         /\ checker[c].step = "decode" =>
              /\ checker[c].security \in States /\ checker[c].state \in PhoneStates /\ checker[c].since \in Nat
              /\ checker[c].challenge \in Nat
         /\ checker[c].step \in {"resolve", "find", "upsert", "device"} => checker[c] \in Assessments
         /\ checker[c].step = "saving" => checker[c] \in [step : {"saving"}, left : SUBSET Nat]
         /\ checker[c].step = "healthy" => checker[c].healthy \in BOOLEAN
         /\ checker[c].step \in LockSteps => checker[c] \in Lockings
         /\ checker[c].step = "report" =>
              /\ checker[c].type \in RiskTypes /\ checker[c].severity \in {"medium", "critical"}
              /\ checker[c].state \in PhoneStates /\ checker[c].since \in Nat
         /\ checker[c].step \in {"others", "wipe"} => checker[c].flag \in Nat
         /\ checker[c].step = "none" => checker[c] = Unoccupied
<1>1. checker[c] \in Checks
  BY DEF RiskTyped
<1> QED  BY <1>1 DEF Checks, Assessments, Lockings, LockSteps, Unoccupied

\* A checker at rest holds nothing.
LEMMA RestingCheck ==
  /\ Unoccupied \in Checks
  /\ \A docs : Chosen(Unoccupied, docs) /\ Decided(Unoccupied, docs)
  /\ \A lock, count, orders : ReadLock(Unoccupied, lock, count, orders)
BY DEF Checks, Unoccupied, Chosen, Decided, ReadLock, Reading, LockSteps

\* Flags are created, and their kind stays; one that a clean check may resolve does not
\* become critical.
FlagsNext ==
  /\ flags' \in Seq(FlagDocs)
  /\ \A k \in DOMAIN flags :
       /\ k \in DOMAIN flags' /\ flags'[k].type = flags[k].type
       /\ flags[k].type = "USB_DEBUGGING_ENABLED" /\ flags[k].severity # "critical"
            => flags'[k].severity # "critical"

\* A lock is lost by an unlock only, and a LOCK command is never forgotten.
LocksNext ==
  /\ lockOrders' \in Seq(OrderDocs) /\ phoneState' \in PhoneStates /\ unlocks' \in Nat
  /\ unlocks <= unlocks' /\ (unlocks' = unlocks /\ PhoneLocked => PhoneLocked')
  /\ \A k : OrderedIn(k, lockOrders) => OrderedIn(k, lockOrders')

\* Unchanged flags are a step of the flags.
LEMMA FlagsSame == ASSUME RiskTyped, UNCHANGED flags PROVE FlagsNext
BY DEF RiskTyped, FlagsNext

\* An unchanged lock is a step of the lock.
LEMMA LocksSame == ASSUME RiskTyped, UNCHANGED <<lockOrders, phoneState, unlocks>> PROVE LocksNext
BY DEF RiskTyped, LocksNext, PhoneLocked

\* A flag a check has chosen stays one of its kind.
LEMMA ChosenNext == ASSUME FlagsNext, NEW r, Chosen(r, flags) PROVE Chosen(r, flags')
BY DEF FlagsNext, Chosen

\* What a check read of the lock stays true of the past.
LEMMA ReadLockNext ==
  ASSUME RiskTyped, LocksNext, NEW c \in Checkers, ReadLock(checker[c], PhoneLocked, unlocks, lockOrders)
  PROVE  ReadLock(checker[c], PhoneLocked', unlocks', lockOrders')
<1> DEFINE r == checker[c]
<1>1. r.step \in Reading => r.since \in Nat
  BY CheckTypes DEF Reading, LockSteps, Lockings, Assessments
<1> HIDE DEF r
<1>2. r.step \in Reading => r.since <= unlocks' /\ (r.since = unlocks' => r.since = unlocks /\ unlocks' = unlocks)
  BY <1>1 DEF ReadLock, LocksNext, RiskTyped, r
<1>3. ReadLock(r, PhoneLocked, unlocks, lockOrders) => ReadLock(r, PhoneLocked', unlocks', lockOrders')
  BY <1>2 DEF ReadLock, LocksNext, Reading, LockSteps
<1> QED  BY <1>3 DEF r

\* One call makes a step.
LEMMA CheckNext ==
  ASSUME RiskInv, NEW c \in Checkers, NEW r \in Checks, checker' = [checker EXCEPT ![c] = r],
         checkScene' = checkScene, checkScene.calls[c] # {}, FlagsNext, LocksNext,
         security' \in States, challenges' \in Seq(ChallengeDocs),
         Chosen(r, flags'), ReadLock(r, PhoneLocked', unlocks', lockOrders'),
         SingleChecker => Decided(r, flags'), OrdersInv'
  PROVE  RiskInv'
<1>1. /\ checker' \in [Checkers -> Checks]
      /\ \A d \in Checkers : checker'[d] = IF d = c THEN r ELSE checker[d]
  BY DEF RiskInv, RiskTyped
<1>2. RiskTyped'
  BY <1>1 DEF FlagsNext, LocksNext, RiskTyped
<1>3. SingleChecker' <=> SingleChecker
  BY DEF SingleChecker
<1>4. ASSUME NEW d \in Checkers
      PROVE  /\ Chosen(checker'[d], flags') /\ ReadLock(checker'[d], PhoneLocked', unlocks', lockOrders')
             /\ checker'[d] # Unoccupied => checkScene.calls[d] # {}
             /\ SingleChecker => Decided(checker'[d], flags')
  <2>1. CASE d = c
    BY <1>1, <2>1
  <2>2. CASE d # c
    <3>1. checker'[d] = checker[d]
      BY <1>1, <2>2
    <3>2. SingleChecker => checker[d] = Unoccupied
      BY <2>2 DEF SingleChecker, RiskInv, ChecksInv
    <3> QED  BY <3>1, <3>2, ChosenNext, ReadLockNext, RestingCheck DEF RiskInv, ChecksInv
  <2> QED  BY <2>1, <2>2
<1> QED  BY <1>2, <1>3, <1>4 DEF RiskInv, ChecksInv

\* No call makes a step.
LEMMA AroundNext ==
  ASSUME RiskInv, UNCHANGED <<checker, checkScene>>, FlagsNext, LocksNext,
         security' \in States, challenges' \in Seq(ChallengeDocs), OrdersInv',
         \A c \in Checkers : Decided(checker[c], flags) => Decided(checker[c], flags')
  PROVE  RiskInv'
<1>1. RiskTyped'
  BY DEF RiskInv, FlagsNext, LocksNext, RiskTyped
<1>2. SingleChecker' <=> SingleChecker
  BY DEF SingleChecker
<1>3. \A c \in Checkers : /\ Chosen(checker[c], flags')
                          /\ ReadLock(checker[c], PhoneLocked', unlocks', lockOrders')
  BY ChosenNext, ReadLockNext DEF RiskInv, ChecksInv
<1> QED  BY <1>1, <1>2, <1>3 DEF RiskInv, ChecksInv

\* Orders are not touched.
LEMMA OrdersKept ==
  ASSUME RiskInv, UNCHANGED <<lockOrders, phoneState, unlocks>>,
         \A c \in Checkers : checker'[c].step = "order" <=> checker[c].step = "order"
  PROVE  OrdersInv'
<1>1. Ordering' = Ordering
  BY DEF Ordering
<1> QED  BY <1>1 DEF RiskInv, OrdersInv, PhoneLocked

\* A step away from the orders keeps what is known of them.
LEMMA OrdersBeside ==
  ASSUME RiskInv, NEW c \in Checkers, NEW r, checker' = [checker EXCEPT ![c] = r],
         r.step # "order", checker[c].step # "order", UNCHANGED <<lockOrders, phoneState, unlocks>>
  PROVE  OrdersInv'
BY OrdersKept DEF RiskInv, RiskTyped

\* Finitely many checks are about to order a lock.
LEMMA OrderingFinite ==
  ASSUME RiskInv PROVE IsFiniteSet(Ordering) /\ Cardinality(Ordering) \in Nat
<1>1. IsFiniteSet(Ordering)
  BY CheckersAssumption, FS_Subset DEF Ordering
<1> QED  BY <1>1, FS_CardinalityType

FlagStatuses == {"open", "acknowledged", "resolved", "cleared", "wiped", "compromised_permanent", "warning_pending"}

\* Rewriting a flag, in ways the code does, is a step of the flags.
LEMMA FlagSet ==
  ASSUME RiskTyped, NEW k \in DOMAIN flags, NEW doc \in FlagDocs, flags' = [flags EXCEPT ![k] = doc],
         doc.type = flags[k].type,
         doc.type = "USB_DEBUGGING_ENABLED" /\ flags[k].severity # "critical" => doc.severity # "critical"
  PROVE  FlagsNext /\ flags'[k] = doc /\ DOMAIN flags' = DOMAIN flags
BY DEF RiskTyped, FlagsNext

\* So is changing its status alone.
LEMMA StatusSet ==
  ASSUME RiskTyped, NEW k, NEW status \in FlagStatuses, flags' = [flags EXCEPT ![k].status = status]
  PROVE  /\ FlagsNext /\ DOMAIN flags' = DOMAIN flags
         /\ \A n \in DOMAIN flags : n # k => flags'[n] = flags[n]
         /\ k \in DOMAIN flags => flags'[k].status = status /\ flags'[k].severity = flags[k].severity
<1>1. CASE k \notin DOMAIN flags
  <2>1. flags' = flags
    BY <1>1 DEF RiskTyped
  <2> QED  BY <1>1, <2>1, FlagsSame
<1>2. CASE k \in DOMAIN flags
  <2>1. flags[k] \in FlagDocs
    BY <1>2 DEF RiskTyped
  <2>2. PICK doc : doc = [flags[k] EXCEPT !.status = status]
    OBVIOUS
  <2>3. flags' = [flags EXCEPT ![k] = doc]
    BY <1>2, <2>2
  <2>4. /\ doc \in FlagDocs /\ doc.type = flags[k].type /\ doc.severity = flags[k].severity
        /\ doc.status = status
    BY <2>1, <2>2 DEF FlagDocs, FlagStatuses
  <2>5. FlagsNext /\ flags'[k] = doc /\ DOMAIN flags' = DOMAIN flags
    BY <1>2, <2>3, <2>4, FlagSet
  <2> QED  BY <2>3, <2>4, <2>5
<1> QED  BY <1>1, <1>2

\* So is adding one.
LEMMA FlagAdded ==
  ASSUME RiskTyped, NEW doc \in FlagDocs, flags' = Append(flags, doc)
  PROVE  /\ FlagsNext /\ DOMAIN flags' = DOMAIN flags \cup {Len(flags) + 1} /\ Len(flags) + 1 \in Nat
         /\ \A k \in DOMAIN flags : flags'[k] = flags[k]
<1>1. flags \in Seq(FlagDocs)
  BY DEF RiskTyped
<1> QED  BY <1>1, Appended DEF FlagsNext

\* Severities, states and findings are what their names say.
LEMMA RiskTypesOf ==
  /\ \A type \in RiskTypes : FindingSeverity(type) \in {"medium", "critical"} /\ FindingStatus(type) \in FlagStatuses
  /\ \A found : StateOf(found) \in States /\ StateOf(found) # "HEALTHY"
  /\ \A s, t \in States : Merged(s, t) \in States /\ (t # "HEALTHY" => Merged(s, t) # "HEALTHY")
  /\ "USB_DEBUGGING_ENABLED" \in RiskTypes /\ FindingSeverity("USB_DEBUGGING_ENABLED") = "medium"
<1>1. \A type \in RiskTypes : FindingSeverity(type) \in {"medium", "critical"} /\ FindingStatus(type) \in FlagStatuses
  BY DEF RiskTypes, FindingSeverity, FindingStatus, FlagStatuses
<1>2. States = {"HEALTHY", "WARNING", "LOCKED", "COMPROMISED_PERMANENT", "WIPED_PENDING_REPROVISION"}
  BY DEF States, Rank
<1>3. \A found : StateOf(found) \in States /\ StateOf(found) # "HEALTHY"
  BY <1>2 DEF StateOf
<1>4. /\ Rank["HEALTHY"] = 1 /\ Rank["WARNING"] = 2 /\ Rank["LOCKED"] = 4
      /\ Rank["COMPROMISED_PERMANENT"] = 5 /\ Rank["WIPED_PENDING_REPROVISION"] = 6
  BY DEF Rank
<1> HIDE DEF Rank
<1>5. \A s, t \in States : Merged(s, t) \in States /\ (t # "HEALTHY" => Merged(s, t) # "HEALTHY")
  BY <1>2, <1>4 DEF Merged
<1>6. "USB_DEBUGGING_ENABLED" \in RiskTypes /\ FindingSeverity("USB_DEBUGGING_ENABLED") = "medium"
  BY DEF RiskTypes, FindingSeverity
<1> QED  BY <1>1, <1>3, <1>5, <1>6

\* A call in progress is one of its scene.
LEMMA InScene == ASSUME RiskInv, NEW c \in Checkers, checker[c].step # "none" PROVE checkScene.calls[c] # {}
BY DEF RiskInv, ChecksInv, Unoccupied

\* A free checker takes no step of a check.
LEMMA Occupied == ASSUME NEW c, checker[c] = Unoccupied PROVE checker[c].step = "none"
BY DEF Unoccupied

\* A call begins, having read the lock.
LEMMA BeginsNext ==
  ASSUME RiskInv, NEW c \in Checkers, NEW r \in Checks, NEW op, Begins(c, op, r),
         UNCHANGED <<challenges, security, phoneState, lockOrders, unlocks, checkScene>>, FlagsNext,
         r.step \in {"decode", "report", "others", "wipe"},
         r.step \in Reading => r.since = unlocks /\ r.state = phoneState,
         r.step = "others" => r.flag \in DOMAIN flags' /\ ~ActiveFlag(flags'[r.flag])
  PROVE  RiskInv'
<1>1. /\ checker' = [checker EXCEPT ![c] = r] /\ checker[c].step = "none" /\ checkScene.calls[c] # {}
      /\ r.step # "order"
  BY Occupied DEF Begins
<1>2. OrdersInv'
  BY <1>1, OrdersBeside
<1>3. Chosen(r, flags') /\ Decided(r, flags')
  BY DEF Chosen, Decided
<1>4. ReadLock(r, PhoneLocked', unlocks', lockOrders')
  BY DEF ReadLock, LockSteps, RiskInv, RiskTyped, PhoneLocked
<1>5. LocksNext /\ security' \in States /\ challenges' \in Seq(ChallengeDocs)
  BY LocksSame DEF RiskInv, RiskTyped
<1> QED  BY <1>1, <1>2, <1>3, <1>4, <1>5, CheckNext

\* Starting a check keeps the invariant.
LEMMA CheckStartNext ==
  ASSUME RiskInv, NEW c \in Checkers,
         \/ \E k \in DOMAIN challenges : StartRiskCheck(c, k) \/ StartIntegrityCheck(c, k)
         \/ \E type \in RiskTypes, severity \in {"medium", "critical"} : StartReport(c, type, severity)
         \/ \E k \in DOMAIN flags : StartWipe(c, k) \/ ClearFlag(c, k)
  PROVE  RiskInv'
<1> USE DEF Reading, LockSteps
<1>0. DOMAIN flags \subseteq Nat /\ DOMAIN challenges \subseteq Nat
  BY DEF RiskInv, RiskTyped
<1>1. ASSUME NEW k \in Nat, NEW op, StartOn(c, op, k) PROVE RiskInv'
  <2>1. PICK r : r = [step |-> "decode", challenge |-> k, security |-> security,
                      state |-> phoneState, since |-> unlocks]
    OBVIOUS
  <2>2. r \in Checks /\ r.step = "decode" /\ r.since = unlocks /\ r.state = phoneState
    BY <2>1 DEF RiskInv, RiskTyped, Checks
  <2>3. Begins(c, op, r) /\ UNCHANGED <<challenges, security, phoneState, lockOrders, unlocks, checkScene, flags>>
    BY <1>1, <2>1 DEF StartOn
  <2>4. FlagsNext
    BY <2>3, FlagsSame DEF RiskInv
  <2> QED  BY <2>2, <2>3, <2>4, BeginsNext
<1>2. ASSUME NEW type \in RiskTypes, NEW severity \in {"medium", "critical"}, StartReport(c, type, severity)
      PROVE  RiskInv'
  <2>1. PICK r : r = [step |-> "report", type |-> type, severity |-> severity,
                      state |-> phoneState, since |-> unlocks]
    OBVIOUS
  <2>2. r \in Checks /\ r.step = "report" /\ r.since = unlocks /\ r.state = phoneState
    BY <2>1 DEF RiskInv, RiskTyped, Checks
  <2>3. Begins(c, "report", r) /\ UNCHANGED <<challenges, security, phoneState, lockOrders, unlocks, checkScene, flags>>
    BY <1>2, <2>1 DEF StartReport
  <2>4. FlagsNext
    BY <2>3, FlagsSame DEF RiskInv
  <2> QED  BY <2>2, <2>3, <2>4, BeginsNext
<1>3. ASSUME NEW k \in DOMAIN flags, StartWipe(c, k) PROVE RiskInv'
  <2>1. PICK r : r = [step |-> "wipe", flag |-> k]
    OBVIOUS
  <2>2. r \in Checks /\ r.step = "wipe"
    BY <1>0, <2>1 DEF Checks
  <2>3. Begins(c, "wipe", r) /\ UNCHANGED <<challenges, security, phoneState, lockOrders, unlocks, checkScene, flags>>
    BY <1>3, <2>1 DEF StartWipe
  <2>4. FlagsNext
    BY <2>3, FlagsSame DEF RiskInv
  <2> QED  BY <2>2, <2>3, <2>4, BeginsNext
<1>4. ASSUME NEW k \in DOMAIN flags, ClearFlag(c, k) PROVE RiskInv'
  <2>1. PICK r : r = [step |-> "others", flag |-> k]
    OBVIOUS
  <2>2. r \in Checks /\ r.step = "others" /\ r.flag = k
    BY <1>0, <2>1 DEF Checks
  <2>3. Begins(c, "clear", r) /\ UNCHANGED <<challenges, security, phoneState, lockOrders, unlocks, checkScene>>
    BY <1>4, <2>1 DEF ClearFlag
  <2>4. FlagsNext /\ DOMAIN flags' = DOMAIN flags /\ flags'[k].status = "cleared"
    BY <1>4, StatusSet DEF ClearFlag, FlagStatuses, RiskInv
  <2> QED  BY <2>2, <2>3, <2>4, BeginsNext DEF ActiveFlag, Inactive
<1>5. ASSUME NEW k \in DOMAIN challenges, StartRiskCheck(c, k) \/ StartIntegrityCheck(c, k)
      PROVE  StartOn(c, "check", k) \/ StartOn(c, "verify", k)
  BY <1>5 DEF StartRiskCheck, StartIntegrityCheck
<1> QED  BY <1>0, <1>1, <1>2, <1>3, <1>4, <1>5

\* A call goes on, and leaves the lock and its orders alone.
LEMMA GoesOn ==
  ASSUME RiskInv, NEW c \in Checkers, NEW r \in Checks, Proceeds(c, r), checker[c].step \notin {"none", "order"},
         UNCHANGED <<phoneState, lockOrders, unlocks, checkScene>>, FlagsNext, security' \in States,
         challenges' \in Seq(ChallengeDocs), r.step # "order", Chosen(r, flags'),
         ReadLock(r, PhoneLocked, unlocks, lockOrders), SingleChecker => Decided(r, flags')
  PROVE  RiskInv'
<1>1. checker' = [checker EXCEPT ![c] = r] /\ checkScene.calls[c] # {}
  BY InScene DEF Proceeds
<1>2. OrdersInv'
  BY <1>1, OrdersBeside
<1>3. LocksNext /\ ReadLock(r, PhoneLocked', unlocks', lockOrders')
  BY LocksSame DEF RiskInv, PhoneLocked
<1> QED  BY <1>1, <1>2, <1>3, CheckNext

\* Concluding one keeps it.
LEMMA ConcludesNext ==
  ASSUME RiskInv, NEW c \in Checkers, Concludes(c), checker[c].step \notin {"none", "order"},
         UNCHANGED <<challenges, flags, phoneState, lockOrders, unlocks, checkScene>>, security' \in States
  PROVE  RiskInv'
<1>1. FlagsNext /\ challenges' \in Seq(ChallengeDocs) /\ Proceeds(c, Unoccupied)
  BY FlagsSame DEF RiskInv, RiskTyped, Concludes
<1>2. Unoccupied.step # "order"
  BY DEF Unoccupied
<1>3. PICK r : r = Unoccupied
  OBVIOUS
<1>4. /\ r \in Checks /\ Chosen(r, flags') /\ Decided(r, flags')
      /\ ReadLock(r, PhoneLocked, unlocks, lockOrders)
  BY <1>3, RestingCheck
<1> QED  BY <1>1, <1>2, <1>3, <1>4, GoesOn

\* Marking a challenge keeps the challenges typed.
LEMMA ChallengeUsed ==
  ASSUME RiskTyped, NEW k, NEW used \in BOOLEAN, challenges' = [challenges EXCEPT ![k].used = used]
  PROVE  challenges' \in Seq(ChallengeDocs)
<1>1. CASE k \notin DOMAIN challenges
  <2>1. challenges' = challenges
    BY <1>1 DEF RiskTyped
  <2> QED  BY <2>1 DEF RiskTyped
<1>2. CASE k \in DOMAIN challenges
  <2>1. PICK doc : doc = [challenges[k] EXCEPT !.used = used]
    OBVIOUS
  <2>2. challenges \in Seq(ChallengeDocs)
    BY DEF RiskTyped
  <2>3. challenges[k] \in ChallengeDocs
    BY <1>2, <2>2
  <2>4. doc \in ChallengeDocs
    BY <2>1, <2>3 DEF ChallengeDocs
  <2>5. challenges' = [challenges EXCEPT ![k] = doc]
    BY <1>2, <2>1
  <2> QED  BY <1>2, <2>2, <2>4, <2>5
<1> QED  BY <1>1, <1>2

\* Assessing a verdict keeps the invariant.
LEMMA AssessNext ==
  ASSUME RiskInv, NEW c \in Checkers, NEW found \in SUBSET RiskTypes,
         DecodeVerdict(c, found) \/ VerdictUnavailable(c, found)
  PROVE  RiskInv'
<1>1. PICK enforced \in BOOLEAN : Proceeds(c, Assessing(c, found, enforced))
  BY DEF DecodeVerdict, VerdictUnavailable
<1>2. /\ checker[c].step = "decode"
      /\ UNCHANGED <<flags, security, phoneState, lockOrders, unlocks, checkScene>>
  BY DEF DecodeVerdict, VerdictUnavailable
<1>3. challenges' \in Seq(ChallengeDocs)
  <2>1. CASE DecodeVerdict(c, found)
    BY <2>1, ChallengeUsed DEF DecodeVerdict, RiskInv
  <2>2. CASE VerdictUnavailable(c, found)
    <3>1. PICK k : k = checker[c].challenge
      OBVIOUS
    <3>2. challenges' = [challenges EXCEPT ![k].used = (@ \/ challenges[k].call = "check")]
      BY <2>2, <3>1 DEF VerdictUnavailable
    <3>3. CASE k \notin DOMAIN challenges
      <4>1. challenges' = challenges
        BY <3>2, <3>3 DEF RiskInv, RiskTyped
      <4> QED  BY <4>1 DEF RiskInv, RiskTyped
    <3>4. CASE k \in DOMAIN challenges
      <4>1. PICK used \in BOOLEAN : used = (challenges[k].used \/ challenges[k].call = "check")
        BY <3>4 DEF RiskInv, RiskTyped, ChallengeDocs
      <4>2. challenges' = [challenges EXCEPT ![k].used = used]
        BY <3>2, <3>4, <4>1
      <4> QED  BY <4>2, ChallengeUsed DEF RiskInv
    <3> QED  BY <3>3, <3>4
  <2> QED  BY <2>1, <2>2
<1>4. /\ checker[c].security \in States /\ checker[c].state \in PhoneStates /\ checker[c].since \in Nat
      /\ checker[c].since <= unlocks /\ (checker[c].since = unlocks /\ checker[c].state = "LOCKED" => PhoneLocked)
  BY <1>2, CheckTypes DEF RiskInv, ChecksInv, ReadLock, Reading
<1>5. PICK r : r = Assessing(c, found, enforced)
  OBVIOUS
<1>6. /\ r.step \in {"resolve", "find"} /\ r.since = checker[c].since /\ r.state = checker[c].state
      /\ r \in Assessments
  BY <1>4, <1>5 DEF Assessing, Assessments, Matches
<1>7. /\ r \in Checks /\ r.step # "order" /\ Chosen(r, flags') /\ Decided(r, flags')
      /\ ReadLock(r, PhoneLocked, unlocks, lockOrders)
  BY <1>4, <1>6 DEF Checks, Chosen, Decided, ReadLock, Reading, LockSteps
<1>8. FlagsNext /\ security' \in States
  BY <1>2, FlagsSame DEF RiskInv, RiskTyped
<1> QED  BY <1>1, <1>2, <1>3, <1>5, <1>7, <1>8, GoesOn

\* A set of numbers has a least one.
LEMMA Least ==
  ASSUME NEW S, S \subseteq Nat, S # {}
  PROVE  \E j \in S : \A k \in S : j <= k
<1> DEFINE R == OpToRel(<, Nat)
<1>1. IsWellFoundedOn(R, Nat)
  BY NatLessThanWellFounded
<1>2. \A j, k \in Nat : j < k => <<j, k>> \in R
  BY DEF OpToRel
<1> HIDE DEF R
<1> DEFINE N == Nat
<1> IsWellFoundedOn(R, N) /\ S \subseteq N
  BY <1>1
<1> HIDE DEF N
<1>3. PICK j \in S : \A k \in S : ~ (<<k, j>> \in R)
  BY WFMin
<1> USE DEF N
<1>4. ASSUME NEW k \in S PROVE j <= k
  <2>1. j \in Nat /\ k \in Nat
    OBVIOUS
  <2>2. ~ (k < j)
    BY <1>2, <1>3, <2>1
  <2> QED  BY <2>1, <2>2
<1> QED  BY <1>4

\* Finding the flag of a finding keeps the invariant.
LEMMA FindFlagNext == ASSUME RiskInv, NEW c \in Checkers, FindFlag(c) PROVE RiskInv'
<1>1. PICK type \in checker[c].todo :
        LET same == {k \in ActiveFlags : flags[k].type = type}
            one == IF same = {} THEN 0 ELSE CHOOSE k \in same : \A n \in same : k <= n
        IN Proceeds(c, [checker[c] EXCEPT !.step = "upsert", !.todo = @ \ {type},
                          !.match = [type |-> type, flag |-> one,
                                     read |-> IF one = 0 THEN <<>> ELSE flags[one]]])
  BY DEF FindFlag
<1>2. PICK same : same = {k \in ActiveFlags : flags[k].type = type}
  OBVIOUS
<1>3. PICK one : one = IF same = {} THEN 0 ELSE CHOOSE k \in same : \A n \in same : k <= n
  OBVIOUS
<1>4. DOMAIN flags = 1..Len(flags) /\ Len(flags) \in Nat /\ \A k \in DOMAIN flags : flags[k] \in FlagDocs
  BY DEF RiskInv, RiskTyped
<1>5. one = 0 \/ (one \in DOMAIN flags /\ flags[one].type = type)
  <2>1. CASE same # {}
    <3>1. one \in same
      BY <1>2, <1>3, <1>4, <2>1, Least DEF ActiveFlags
    <3> QED  BY <1>2, <3>1 DEF ActiveFlags
  <2> QED  BY <1>3, <2>1
<1>6. PICK m : m = [type |-> type, flag |-> one, read |-> IF one = 0 THEN <<>> ELSE flags[one]]
  OBVIOUS
<1>7. PICK w : w = checker[c] /\ w \in Assessments /\ w.step = "find"
  BY CheckTypes DEF FindFlag, RiskInv
<1>8. m \in Matches /\ m.type = type /\ m.flag = one /\ m.type # "none"
  <2>1. type \in RiskTypes
    BY <1>7 DEF Assessments
  <2> QED  BY <1>4, <1>5, <1>6, <2>1 DEF Matches, RiskTypes
<1>9. Proceeds(c, [w EXCEPT !.step = "upsert", !.todo = @ \ {type}, !.match = m])
  BY <1>1, <1>2, <1>3, <1>6, <1>7
<1>10. PICK w1 : w1 = [w EXCEPT !.step = "upsert"]
  OBVIOUS
<1>11. PICK w2 : w2 = [w1 EXCEPT !.todo = w.todo \ {type}]
  OBVIOUS
<1>12. PICK r : r = [w2 EXCEPT !.match = m]
  OBVIOUS
<1>13. w1 \in Assessments /\ w1.step = "upsert" /\ w1.since = w.since /\ w1.state = w.state /\ w1.todo = w.todo
  BY <1>7, <1>10 DEF Assessments
<1>14. w2 \in Assessments /\ w2.step = "upsert" /\ w2.since = w.since /\ w2.state = w.state
  BY <1>7, <1>11, <1>13 DEF Assessments
<1>15. /\ r \in Assessments /\ r.step = "upsert" /\ r.since = w.since /\ r.state = w.state
       /\ r.match = m
  BY <1>8, <1>12, <1>14 DEF Assessments
<1>16. Proceeds(c, r)
  BY <1>7, <1>9, <1>10, <1>11, <1>12 DEF Assessments
<1>17. UNCHANGED <<challenges, flags, security, phoneState, lockOrders, unlocks, checkScene>>
  BY DEF FindFlag
<1>18. /\ r \in Checks /\ r.step # "order" /\ Chosen(r, flags') /\ Decided(r, flags')
       /\ ReadLock(r, PhoneLocked, unlocks, lockOrders)
  <2>1. w.since <= unlocks /\ (w.since = unlocks /\ w.state = "LOCKED" => PhoneLocked)
    BY <1>7 DEF RiskInv, ChecksInv, ReadLock, Reading
  <2> QED  BY <1>5, <1>8, <1>15, <1>17, <2>1 DEF Checks, Chosen, Decided, ReadLock, Reading, LockSteps
<1>19. FlagsNext /\ security' \in States /\ challenges' \in Seq(ChallengeDocs)
  BY <1>17, FlagsSame DEF RiskInv, RiskTyped
<1>20. checker[c].step \notin {"none", "order"}
  BY <1>7
<1> QED  BY <1>16, <1>17, <1>18, <1>19, <1>20, GoesOn

\* What an upsert writes: a new flag, or the one it found, raised; never a severity that
\* makes a flag critical which a clean check may resolve.
LEMMA Upserted ==
  ASSUME RiskInv, NEW c \in Checkers, UpsertFlag(c)
  PROVE  /\ FlagsNext
         /\ \A k \in DOMAIN flags : ActiveFlag(flags[k]) => ActiveFlag(flags'[k])
<1>1. PICK m : m = checker[c].match /\ m \in Matches /\ m.type \in RiskTypes /\ m.flag \in Nat
  <2>1. checker[c] \in Assessments /\ checker[c].step = "upsert"
    BY CheckTypes DEF UpsertFlag, RiskInv
  <2>2. checker[c].match \in Matches
    BY <2>1 DEF Assessments
  <2>3. checker[c].match.type # "none"
    BY DEF RiskInv, ChecksInv, Chosen, UpsertFlag
  <2> QED  BY <2>2, <2>3 DEF Matches, NoMatch
<1>2. CASE m.flag = 0
  <2>1. PICK doc : doc = [type |-> m.type, severity |-> FindingSeverity(m.type), status |-> FindingStatus(m.type)]
    OBVIOUS
  <2>2. doc \in FlagDocs
    BY <1>1, <2>1, RiskTypesOf DEF FlagDocs, FlagStatuses
  <2>3. flags' = Append(flags, doc)
    BY <1>1, <1>2, <2>1 DEF UpsertFlag
  <2> QED  BY <2>2, <2>3, FlagAdded DEF RiskInv
<1>3. CASE m.flag # 0
  <2>1. PICK k : k = m.flag /\ k \in DOMAIN flags /\ flags[k].type = m.type
    BY <1>1, <1>3 DEF RiskInv, ChecksInv, Chosen, UpsertFlag
  <2>2. flags[k] \in FlagDocs
    BY <2>1 DEF RiskInv, RiskTyped
  <2>3. PICK severity : severity = IF FindingSeverity(m.type) = "critical" /\ m.read.severity # "critical"
                                   THEN "critical" ELSE flags[k].severity
    OBVIOUS
  <2>4. PICK status : status = IF m.read.status # FindingStatus(m.type) THEN FindingStatus(m.type)
                               ELSE flags[k].status
    OBVIOUS
  <2>5. PICK old : old = [flags[k] EXCEPT !.severity = severity]
    OBVIOUS
  <2>6. PICK doc : doc = [old EXCEPT !.status = status]
    OBVIOUS
  <2>7. old \in FlagDocs /\ old.type = m.type /\ old.severity = severity /\ old.status = flags[k].status
    BY <2>1, <2>2, <2>3, <2>5 DEF FlagDocs
  <2>8. doc \in FlagDocs /\ doc.type = m.type /\ doc.severity = severity /\ doc.status = status
    <3>1. status \in FlagStatuses
      BY <1>1, <2>2, <2>4, RiskTypesOf DEF FlagDocs, FlagStatuses
    <3> QED  BY <2>6, <2>7, <3>1 DEF FlagDocs, FlagStatuses
  <2>9. flags' = [flags EXCEPT ![k] = doc]
    <3>1. flags' = [flags EXCEPT ![k] = Raise(flags[k], m.read, m.type)]
      BY <1>1, <1>3, <2>1 DEF UpsertFlag
    <3>2. Raise(flags[k], m.read, m.type) = [flags[k] EXCEPT !.severity = severity, !.status = status]
      BY <2>2, <2>3, <2>4 DEF Raise, FlagDocs
    <3>3. [flags[k] EXCEPT !.severity = severity, !.status = status] = doc
      BY <2>2, <2>5, <2>6 DEF FlagDocs
    <3> QED  BY <3>1, <3>2, <3>3
  <2>10. m.type = "USB_DEBUGGING_ENABLED" /\ flags[k].severity # "critical" => severity # "critical"
    BY <2>3, RiskTypesOf
  <2>11. FlagsNext /\ flags'[k] = doc
    BY <2>1, <2>8, <2>9, <2>10, FlagSet DEF RiskInv
  <2>12. ActiveFlag(flags[k]) => ActiveFlag(doc)
    BY <2>4, <2>8 DEF ActiveFlag, Inactive, FindingStatus
  <2>13. \A n \in DOMAIN flags : n # k => flags'[n] = flags[n]
    BY <2>1, <2>9
  <2> QED  BY <2>11, <2>12, <2>13
<1> QED  BY <1>2, <1>3

\* Saving that flag keeps it.
LEMMA UpsertFlagNext == ASSUME RiskInv, NEW c \in Checkers, UpsertFlag(c) PROVE RiskInv'
<1>1. PICK w : w = checker[c] /\ w \in Assessments /\ w.step = "upsert"
  BY CheckTypes DEF UpsertFlag, RiskInv
<1>2. w.match \in Matches /\ w.match.flag \in Nat
  BY <1>1 DEF Assessments, Matches, NoMatch
<1>3. PICK k : k = IF w.match.flag = 0 THEN Len(flags) + 1 ELSE w.match.flag
  OBVIOUS
<1>4. k \in Nat
  BY <1>2, <1>3 DEF RiskInv, RiskTyped
<1>5. PICK step \in {"device", "find"} : step = IF w.todo = {} THEN "device" ELSE "find"
  OBVIOUS
<1>6. Proceeds(c, [w EXCEPT !.step = step, !.raised = @ \cup {k}, !.match = NoMatch])
  BY <1>1, <1>3, <1>5 DEF UpsertFlag
<1>7. PICK w1 : w1 = [w EXCEPT !.step = step]
  OBVIOUS
<1>8. PICK w2 : w2 = [w1 EXCEPT !.raised = w.raised \cup {k}]
  OBVIOUS
<1>9. PICK r : r = [w2 EXCEPT !.match = NoMatch]
  OBVIOUS
<1>10. w1 \in Assessments /\ w1.step = step /\ w1.since = w.since /\ w1.state = w.state /\ w1.raised = w.raised
  BY <1>1, <1>7 DEF Assessments
<1>11. w2 \in Assessments /\ w2.step = step /\ w2.since = w.since /\ w2.state = w.state
  BY <1>1, <1>4, <1>8, <1>10 DEF Assessments
<1>12. r \in Assessments /\ r.step = step /\ r.since = w.since /\ r.state = w.state
  BY <1>9, <1>11 DEF Assessments, Matches
<1>13. Proceeds(c, r)
  BY <1>1, <1>6, <1>7, <1>8, <1>9 DEF Assessments
<1>14. /\ r \in Checks /\ r.step # "order" /\ Chosen(r, flags') /\ Decided(r, flags')
       /\ ReadLock(r, PhoneLocked, unlocks, lockOrders)
  <2>1. w.since <= unlocks /\ (w.since = unlocks /\ w.state = "LOCKED" => PhoneLocked)
    BY <1>1 DEF RiskInv, ChecksInv, ReadLock, Reading
  <2> QED  BY <1>12, <2>1 DEF Checks, Chosen, Decided, ReadLock, Reading, LockSteps
<1>15. UNCHANGED <<challenges, security, phoneState, lockOrders, unlocks, checkScene>>
  BY DEF UpsertFlag
<1>16. FlagsNext /\ security' \in States /\ challenges' \in Seq(ChallengeDocs)
  BY <1>15, Upserted DEF RiskInv, RiskTyped
<1>17. checker[c].step \notin {"none", "order"}
  BY <1>1
<1> QED  BY <1>13, <1>14, <1>15, <1>16, <1>17, GoesOn

\* Resolving flags keeps it.
LEMMA ResolveNext ==
  ASSUME RiskInv, NEW c \in Checkers,
         FindResolvable(c) \/ LookForActive(c) \/ LookForOthers(c) \/ \E k \in DOMAIN flags : SaveResolved(c, k)
  PROVE  RiskInv'
<1>1. /\ UNCHANGED <<challenges, security, phoneState, lockOrders, unlocks, checkScene>>
      /\ security' \in States /\ challenges' \in Seq(ChallengeDocs)
  BY DEF FindResolvable, LookForActive, LookForOthers, SaveResolved, RiskInv, RiskTyped
<1>2. checker[c].step \notin {"none", "order"}
  BY DEF FindResolvable, LookForActive, LookForOthers, SaveResolved
<1>3. ASSUME NEW r \in Checks, r.step \notin Reading
      PROVE  ReadLock(r, PhoneLocked, unlocks, lockOrders) /\ r.step # "order"
  BY <1>3 DEF ReadLock, Reading, LockSteps
<1>4. CASE FindResolvable(c)
  <2>1. PICK r : r = [step |-> "saving", left |-> {k \in ActiveFlags : Resolvable(flags[k])}]
    OBVIOUS
  <2>2. Proceeds(c, r) /\ UNCHANGED flags
    BY <1>4, <2>1 DEF FindResolvable
  <2>3. r \in Checks /\ r.step \notin Reading
    BY <2>1 DEF Checks, ActiveFlags, RiskInv, RiskTyped, Reading, LockSteps
  <2>4. Chosen(r, flags') /\ Decided(r, flags')
    BY <2>1, <2>2 DEF Chosen, Decided, ActiveFlags, Resolvable
  <2>5. FlagsNext
    BY <2>2, FlagsSame DEF RiskInv
  <2> QED  BY <1>1, <1>2, <1>3, <2>2, <2>3, <2>4, <2>5, GoesOn
<1>5. CASE LookForActive(c)
  <2>1. PICK r : r = [step |-> "healthy", healthy |-> ActiveFlags = {}]
    OBVIOUS
  <2>2. Proceeds(c, r) /\ UNCHANGED flags
    BY <1>5, <2>1 DEF LookForActive
  <2>3. r \in Checks /\ r.step \notin Reading
    BY <2>1 DEF Checks, Reading, LockSteps
  <2>4. Chosen(r, flags') /\ Decided(r, flags')
    BY <2>1, <2>2 DEF Chosen, Decided, ActiveFlags
  <2>5. FlagsNext
    BY <2>2, FlagsSame DEF RiskInv
  <2> QED  BY <1>1, <1>2, <1>3, <2>2, <2>3, <2>4, <2>5, GoesOn
<1>6. CASE LookForOthers(c)
  <2>1. PICK k : k = checker[c].flag
    OBVIOUS
  <2>2. PICK r : r = [step |-> "healthy", healthy |-> NothingElse(k)]
    OBVIOUS
  <2>3. Proceeds(c, r) /\ UNCHANGED flags
    BY <1>6, <2>1, <2>2 DEF LookForOthers
  <2>4. r \in Checks /\ r.step \notin Reading
    BY <2>2 DEF Checks, Reading, LockSteps, NothingElse
  <2>5. Chosen(r, flags')
    BY <2>2 DEF Chosen
  <2>6. SingleChecker => Decided(r, flags')
    <3>1. SingleChecker => ~ActiveFlag(flags[k]) \/ Reopened(flags[k])
      BY <1>6, <2>1 DEF RiskInv, ChecksInv, Decided, LookForOthers
    <3> QED  BY <2>2, <2>3, <3>1 DEF Decided, NothingElse, ActiveFlags
  <2>7. FlagsNext
    BY <2>3, FlagsSame DEF RiskInv
  <2> QED  BY <1>1, <1>2, <1>3, <2>3, <2>4, <2>5, <2>6, <2>7, GoesOn
<1>7. ASSUME NEW k \in DOMAIN flags, SaveResolved(c, k) PROVE RiskInv'
  <2>1. PICK w : w = checker[c] /\ w \in [step : {"saving"}, left : SUBSET Nat]
    BY <1>7, CheckTypes DEF SaveResolved, RiskInv
  <2>2. PICK r : r = [w EXCEPT !.left = w.left \ {k}]
    OBVIOUS
  <2>3. Proceeds(c, r)
    BY <1>7, <2>1, <2>2 DEF SaveResolved
  <2>4. r \in [step : {"saving"}, left : SUBSET Nat] /\ r.left \subseteq w.left
    BY <2>1, <2>2
  <2>5. r \in Checks /\ r.step \notin Reading
    BY <2>4 DEF Checks, Reading, LockSteps
  <2>6. FlagsNext
    BY <1>7, StatusSet DEF SaveResolved, FlagStatuses, RiskInv
  <2>7. Chosen(w, flags')
    BY <2>1, <2>6, ChosenNext DEF RiskInv, ChecksInv
  <2>8. Chosen(r, flags') /\ Decided(r, flags')
    BY <2>1, <2>4, <2>7 DEF Chosen, Decided
  <2> QED  BY <1>1, <1>2, <1>3, <2>3, <2>5, <2>6, <2>8, GoesOn
<1> QED  BY <1>4, <1>5, <1>6, <1>7

\* A check that ends keeps it.
LEMMA EndsNext ==
  ASSUME RiskInv, NEW c \in Checkers, SetHealthy(c) \/ WipeDevice(c) \/ EndLocking(c)
  PROVE  RiskInv'
<1>1. security' \in States
  <2>1. "HEALTHY" \in States /\ "WIPED_PENDING_REPROVISION" \in States
    BY DEF States, Rank
  <2> QED  BY <2>1 DEF SetHealthy, WipeDevice, EndLocking, RiskInv, RiskTyped
<1> QED  BY <1>1, ConcludesNext DEF SetHealthy, WipeDevice, EndLocking

\* The flag of a wiped device keeps it.
LEMMA WipeFlagNext == ASSUME RiskInv, NEW c \in Checkers, WipeFlag(c) PROVE RiskInv'
<1>1. PICK r : r = [step |-> "wiped"]
  OBVIOUS
<1>2. r \in Checks /\ r.step = "wiped" /\ r.step # "order"
  BY <1>1 DEF Checks
<1>3. Proceeds(c, r) /\ UNCHANGED <<challenges, security, phoneState, lockOrders, unlocks, checkScene>>
  BY <1>1 DEF WipeFlag
<1>4. FlagsNext
  BY StatusSet DEF WipeFlag, FlagStatuses, RiskInv
<1>5. Chosen(r, flags') /\ Decided(r, flags') /\ ReadLock(r, PhoneLocked, unlocks, lockOrders)
  BY <1>2 DEF Chosen, Decided, ReadLock, Reading, LockSteps
<1>6. security' \in States /\ challenges' \in Seq(ChallengeDocs) /\ checker[c].step \notin {"none", "order"}
  BY <1>3 DEF RiskInv, RiskTyped, WipeFlag
<1> QED  BY <1>2, <1>3, <1>4, <1>5, <1>6, GoesOn

\* Recording the security state keeps it.
LEMMA SetSecurityNext == ASSUME RiskInv, NEW c \in Checkers, SetSecurity(c) PROVE RiskInv'
<1>1. PICK w : w = checker[c] /\ w \in Assessments /\ w.step = "device"
  BY CheckTypes DEF SetSecurity, RiskInv
<1>2. PICK todo : todo = IF w.enforced THEN NeedsLock(w.raised) ELSE {}
  OBVIOUS
<1>3. todo \in SUBSET Nat
  BY <1>1, <1>2 DEF NeedsLock, Assessments
<1>4. PICK r : r = Locking(c, todo)
  OBVIOUS
<1>5. Proceeds(c, r) /\ UNCHANGED <<challenges, flags, phoneState, lockOrders, unlocks, checkScene>>
  BY <1>1, <1>2, <1>4 DEF SetSecurity
<1>6. /\ r \in Lockings /\ r.step = "lock" /\ r.critical = r.todo /\ r.spared = {}
      /\ r.since = w.since /\ r.state = w.state
  BY <1>1, <1>3, <1>4 DEF Locking, Lockings, Assessments
<1>7. w.since <= unlocks /\ (w.since = unlocks /\ w.state = "LOCKED" => PhoneLocked)
  BY <1>1 DEF RiskInv, ChecksInv, ReadLock, Reading
<1>8. /\ r \in Checks /\ r.step # "order" /\ Chosen(r, flags') /\ Decided(r, flags')
      /\ ReadLock(r, PhoneLocked, unlocks, lockOrders)
  BY <1>6, <1>7 DEF Checks, Chosen, Decided, ReadLock, Reading, LockSteps
<1>9. security' \in States
  <2>1. w.security \in States
    BY <1>1 DEF Assessments
  <2> QED  BY <1>1, <2>1, RiskTypesOf DEF SetSecurity
<1>10. FlagsNext /\ challenges' \in Seq(ChallengeDocs) /\ checker[c].step \notin {"none", "order"}
  BY <1>1, <1>5, FlagsSame DEF RiskInv, RiskTyped
<1> QED  BY <1>5, <1>8, <1>9, <1>10, GoesOn

\* Creating the flag of a report keeps it.
LEMMA CreateReportedNext == ASSUME RiskInv, NEW c \in Checkers, CreateReported(c) PROVE RiskInv'
<1>1. PICK w : w = checker[c] /\ w.step = "report"
  BY DEF CreateReported
<1>2. PICK doc : doc = [type |-> w.type, severity |-> w.severity, status |-> "open"]
  OBVIOUS
<1>3. doc \in FlagDocs /\ w.state \in PhoneStates /\ w.since \in Nat
  BY <1>1, <1>2, CheckTypes DEF FlagDocs, RiskInv
<1>4. flags' = Append(flags, doc) /\ UNCHANGED <<challenges, security, phoneState, lockOrders, unlocks, checkScene>>
  BY <1>1, <1>2 DEF CreateReported
<1>5. FlagsNext /\ Len(flags) + 1 \in Nat
  BY <1>3, <1>4, FlagAdded DEF RiskInv
<1>6. PICK todo : todo = IF w.severity = "critical" /\ AutoLockType(w.type) THEN {Len(flags) + 1} ELSE {}
  OBVIOUS
<1>7. PICK r : r = Locking(c, todo)
  OBVIOUS
<1>8. Proceeds(c, r)
  BY <1>1, <1>6, <1>7 DEF CreateReported
<1>9. /\ r \in Lockings /\ r.step = "lock" /\ r.critical = r.todo /\ r.spared = {}
      /\ r.since = w.since /\ r.state = w.state
  BY <1>1, <1>3, <1>5, <1>6, <1>7 DEF Locking, Lockings
<1>10. w.since <= unlocks /\ (w.since = unlocks /\ w.state = "LOCKED" => PhoneLocked)
  BY <1>1 DEF RiskInv, ChecksInv, ReadLock, Reading
<1>11. /\ r \in Checks /\ r.step # "order" /\ Chosen(r, flags') /\ Decided(r, flags')
       /\ ReadLock(r, PhoneLocked, unlocks, lockOrders)
  BY <1>9, <1>10 DEF Checks, Chosen, Decided, ReadLock, Reading, LockSteps
<1>12. security' \in States /\ challenges' \in Seq(ChallengeDocs) /\ checker[c].step \notin {"none", "order"}
  BY <1>1, <1>4 DEF RiskInv, RiskTyped
<1> QED  BY <1>4, <1>5, <1>8, <1>11, <1>12, GoesOn

\* One flag of a call is looked at, and locks the phone or not.
LEMMA CheckLockNext ==
  ASSUME RiskInv, NEW c \in Checkers, NEW k \in DOMAIN flags, CheckLock(c, k)
  PROVE  RiskInv'
<1>1. PICK w : w = checker[c] /\ w \in Lockings /\ w.step = "lock" /\ k \in w.todo
  BY CheckTypes DEF CheckLock, RiskInv, LockSteps
<1>2. /\ w.since <= unlocks /\ (w.since = unlocks /\ w.state = "LOCKED" => PhoneLocked)
      /\ w.since = unlocks /\ w.state # "RELEASE" =>
           \A n \in (w.critical \ w.spared) \ w.todo : PhoneLocked \/ OrderedIn(n, lockOrders)
  BY <1>1 DEF RiskInv, ChecksInv, ReadLock, Reading, LockSteps
<1>3. UNCHANGED <<challenges, flags, security, phoneState, lockOrders, unlocks, checkScene>>
  BY DEF CheckLock
<1>4. FlagsNext /\ security' \in States /\ challenges' \in Seq(ChallengeDocs)
  BY <1>3, FlagsSame DEF RiskInv, RiskTyped
<1>5. checker[c].step \notin {"none", "order"} /\ k \in Nat
  BY <1>1 DEF Lockings
<1>6. CASE w.state # "ACTIVE" \/ OpenOrder(k)
  <2>1. PICK r : r = [w EXCEPT !.todo = w.todo \ {k}]
    OBVIOUS
  <2>2. Proceeds(c, r)
    BY <1>1, <1>6, <2>1 DEF CheckLock
  <2>3. /\ r \in Lockings /\ r.step = "lock" /\ r.since = w.since /\ r.state = w.state /\ r.spared = w.spared
        /\ r.critical = w.critical /\ r.todo = w.todo \ {k}
    BY <1>1, <2>1 DEF Lockings
  <2>4. w.since = unlocks /\ w.state # "RELEASE" => PhoneLocked \/ OrderedIn(k, lockOrders)
    BY <1>1, <1>2, <1>6 DEF OpenOrder, OrderedIn, Lockings, PhoneStates
  <2>5. /\ r \in Checks /\ r.step # "order" /\ Chosen(r, flags') /\ Decided(r, flags')
        /\ ReadLock(r, PhoneLocked, unlocks, lockOrders)
    BY <1>2, <2>3, <2>4 DEF Checks, Chosen, Decided, ReadLock, Reading, LockSteps
  <2> QED  BY <1>3, <1>4, <1>5, <2>2, <2>5, GoesOn
<1>7. CASE w.state = "ACTIVE" /\ ~OpenOrder(k)
  <2>1. PICK w1 : w1 = [w EXCEPT !.step = "state"]
    OBVIOUS
  <2>2. PICK w2 : w2 = [w1 EXCEPT !.todo = w.todo \ {k}]
    OBVIOUS
  <2>3. PICK r : r = [w2 EXCEPT !.flag = k]
    OBVIOUS
  <2>4. Proceeds(c, r)
    BY <1>1, <1>7, <2>1, <2>2, <2>3 DEF CheckLock, Lockings
  <2>5. /\ w1 \in Lockings /\ w1.step = "state" /\ w1.since = w.since /\ w1.state = w.state /\ w1.spared = w.spared
        /\ w1.critical = w.critical
    BY <1>1, <2>1 DEF Lockings
  <2>6. /\ w2 \in Lockings /\ w2.step = "state" /\ w2.since = w.since /\ w2.state = w.state /\ w2.spared = w.spared
        /\ w2.critical = w.critical /\ w2.todo = w.todo \ {k}
    BY <1>1, <2>2, <2>5 DEF Lockings
  <2>7. /\ r \in Lockings /\ r.step = "state" /\ r.since = w.since /\ r.state = w.state /\ r.spared = w.spared
        /\ r.critical = w.critical /\ r.todo = w.todo \ {k} /\ r.flag = k
    BY <1>5, <2>3, <2>6 DEF Lockings
  <2>8. /\ r \in Checks /\ r.step # "order" /\ Chosen(r, flags') /\ Decided(r, flags')
        /\ ReadLock(r, PhoneLocked, unlocks, lockOrders)
    BY <1>2, <2>7 DEF Checks, Chosen, Decided, ReadLock, Reading, LockSteps
  <2> QED  BY <1>3, <1>4, <1>5, <2>4, <2>8, GoesOn
<1> QED  BY <1>6, <1>7

\* A flag that the tenant's rules spare is left alone.
LEMMA SpareFlagNext ==
  ASSUME RiskInv, NEW c \in Checkers, NEW k \in DOMAIN flags, SpareFlag(c, k)
  PROVE  RiskInv'
<1>1. PICK w : w = checker[c] /\ w \in Lockings /\ w.step = "lock" /\ k \in w.todo
  BY CheckTypes DEF SpareFlag, RiskInv, LockSteps
<1>2. /\ w.since <= unlocks /\ (w.since = unlocks /\ w.state = "LOCKED" => PhoneLocked)
      /\ w.since = unlocks /\ w.state # "RELEASE" =>
           \A n \in (w.critical \ w.spared) \ w.todo : PhoneLocked \/ OrderedIn(n, lockOrders)
  BY <1>1 DEF RiskInv, ChecksInv, ReadLock, Reading, LockSteps
<1>3. UNCHANGED <<challenges, flags, security, phoneState, lockOrders, unlocks, checkScene>>
  BY DEF SpareFlag
<1>4. FlagsNext /\ security' \in States /\ challenges' \in Seq(ChallengeDocs)
  BY <1>3, FlagsSame DEF RiskInv, RiskTyped
<1>5. checker[c].step \notin {"none", "order"} /\ k \in Nat
  BY <1>1 DEF Lockings
<1>6. PICK w1 : w1 = [w EXCEPT !.todo = w.todo \ {k}]
  OBVIOUS
<1>7. PICK r : r = [w1 EXCEPT !.spared = w.spared \cup {k}]
  OBVIOUS
<1>8. Proceeds(c, r)
  BY <1>1, <1>6, <1>7 DEF SpareFlag, Lockings
<1>9. /\ w1 \in Lockings /\ w1.step = "lock" /\ w1.since = w.since /\ w1.state = w.state
      /\ w1.critical = w.critical /\ w1.todo = w.todo \ {k}
  BY <1>1, <1>6 DEF Lockings
<1>10. /\ r \in Lockings /\ r.step = "lock" /\ r.since = w.since /\ r.state = w.state
       /\ r.critical = w.critical /\ r.todo = w.todo \ {k} /\ r.spared = w.spared \cup {k}
  <2>1. w.spared \cup {k} \in SUBSET Nat
    BY <1>1, <1>5 DEF Lockings
  <2> QED  BY <1>7, <1>9, <2>1 DEF Lockings
<1>11. /\ r \in Checks /\ r.step # "order" /\ Chosen(r, flags') /\ Decided(r, flags')
       /\ ReadLock(r, PhoneLocked, unlocks, lockOrders)
  BY <1>2, <1>10 DEF Checks, Chosen, Decided, ReadLock, Reading, LockSteps
<1> QED  BY <1>3, <1>4, <1>5, <1>8, <1>11, GoesOn

\* A call that is done with its flag.
Back(w) == [w EXCEPT !.step = "lock", !.flag = 0]

\* A check that has ordered goes back to locking, with what it knew.
LEMMA BackToLock ==
  ASSUME NEW w \in Lockings, NEW r, r = Back(w)
  PROVE  /\ r \in Lockings /\ r.step = "lock" /\ r.since = w.since /\ r.state = w.state /\ r.spared = w.spared
         /\ r.critical = w.critical /\ r.todo = w.todo /\ r \in Checks
<1>1. PICK w1 : w1 = [w EXCEPT !.step = "lock"]
  OBVIOUS
<1>2. /\ w1 \in Lockings /\ w1.step = "lock" /\ w1.since = w.since /\ w1.state = w.state /\ w1.spared = w.spared
      /\ w1.critical = w.critical /\ w1.todo = w.todo
  BY <1>1 DEF Lockings
<1>3. r = [w1 EXCEPT !.flag = 0]
  BY <1>1 DEF Lockings, Back
<1> QED  BY <1>2, <1>3 DEF Lockings, Checks

\* Locking the device keeps the invariant.
LEMMA LockDeviceNext == ASSUME RiskInv, NEW c \in Checkers, LockDevice(c) PROVE RiskInv'
<1>1. PICK w : w = checker[c] /\ w \in Lockings /\ w.step = "state"
  BY CheckTypes DEF LockDevice, RiskInv, LockSteps
<1>2. /\ w.since <= unlocks /\ (w.since = unlocks /\ w.state = "LOCKED" => PhoneLocked)
      /\ w.since = unlocks /\ w.state # "RELEASE" =>
           \A n \in (w.critical \ w.spared) \ w.todo : PhoneLocked \/ OrderedIn(n, lockOrders) \/ n = w.flag
  BY <1>1 DEF RiskInv, ChecksInv, ReadLock, Reading, LockSteps
<1>3. UNCHANGED <<challenges, flags, lockOrders, unlocks, checkScene>>
  BY DEF LockDevice
<1>4. FlagsNext /\ challenges' \in Seq(ChallengeDocs)
  BY <1>3, FlagsSame DEF RiskInv, RiskTyped
<1>5. checker[c].step \notin {"none", "order"}
  BY <1>1
<1>6. CASE PhoneLocked
  <2>1. PICK r : r = Back(w)
    OBVIOUS
  <2>2. Proceeds(c, r) /\ UNCHANGED <<phoneState, security>>
    BY <1>1, <1>6, <2>1 DEF LockDevice, LockApplies, Back
  <2>3. /\ r \in Lockings /\ r.step = "lock" /\ r.since = w.since /\ r.state = w.state /\ r.spared = w.spared
        /\ r.critical = w.critical /\ r.todo = w.todo /\ r \in Checks
    BY <2>1, <1>1, BackToLock
  <2>4. /\ r.step # "order" /\ Chosen(r, flags') /\ Decided(r, flags')
        /\ ReadLock(r, PhoneLocked, unlocks, lockOrders)
    BY <1>2, <1>6, <2>3 DEF Chosen, Decided, ReadLock, Reading, LockSteps
  <2>5. security' \in States
    BY <2>2 DEF RiskInv, RiskTyped
  <2> QED  BY <1>3, <1>4, <1>5, <2>2, <2>3, <2>4, <2>5, GoesOn
<1>7. CASE ~PhoneLocked
  <2>1. PICK r : r = [w EXCEPT !.step = "order"]
    OBVIOUS
  <2>2. checker' = [checker EXCEPT ![c] = r] /\ phoneState' = "LOCKED" /\ security' = "LOCKED"
    BY <1>1, <1>7, <2>1 DEF LockDevice, LockApplies, Proceeds
  <2>3. r \in Lockings /\ r.step = "order" /\ r.since = w.since
    BY <1>1, <2>1 DEF Lockings
  <2>4. /\ r \in Checks /\ Chosen(r, flags') /\ Decided(r, flags')
        /\ ReadLock(r, PhoneLocked', unlocks', lockOrders')
    BY <1>2, <1>3, <2>2, <2>3 DEF Checks, Chosen, Decided, ReadLock, Reading, LockSteps, PhoneLocked
  <2>5. LocksNext /\ security' \in States
    BY <1>3, <2>2 DEF LocksNext, RiskInv, RiskTyped, States, Rank, PhoneLocked, PhoneStates
  <2>6. Ordering' = Ordering \cup {c} /\ c \notin Ordering
    BY <1>1, <2>2, <2>3 DEF Ordering, RiskInv, RiskTyped
  <2>7. OrdersInv'
    <3> DEFINE n == Cardinality(Ordering)
               m == Cardinality(Ordering')
               l == Len(lockOrders)
    <3>1. m = n + 1
      BY <2>6, OrderingFinite, FS_AddElement
    <3>2. l + n <= unlocks /\ l \in Nat /\ n \in Nat /\ unlocks \in Nat
      BY <1>7, OrderingFinite DEF OrdersInv, RiskInv, RiskTyped
    <3> HIDE DEF n, m, l
    <3>3. l + m <= unlocks + 1
      BY <3>1, <3>2
    <3> QED  BY <1>3, <2>2, <3>3 DEF l, m, OrdersInv, PhoneLocked
  <2> QED  BY <1>3, <1>4, <1>5, <2>2, <2>4, <2>5, <2>7, InScene, CheckNext
<1> QED  BY <1>6, <1>7

\* Creating the lock order keeps it.
LEMMA CreateOrderNext == ASSUME RiskInv, NEW c \in Checkers, CreateOrder(c) PROVE RiskInv'
<1>1. PICK w : w = checker[c] /\ w \in Lockings /\ w.step = "order"
  BY CheckTypes DEF CreateOrder, RiskInv, LockSteps
<1>2. /\ w.since <= unlocks /\ (w.since = unlocks /\ w.state = "LOCKED" => PhoneLocked)
      /\ w.since = unlocks /\ w.state # "RELEASE" =>
           \A n \in (w.critical \ w.spared) \ w.todo : PhoneLocked \/ OrderedIn(n, lockOrders) \/ n = w.flag
  BY <1>1 DEF RiskInv, ChecksInv, ReadLock, Reading, LockSteps
<1>3. PICK r : r = Back(w)
  OBVIOUS
<1>4. PICK doc : doc = [flag |-> w.flag, open |-> TRUE]
  OBVIOUS
<1>5. /\ UNCHANGED <<challenges, flags, security, phoneState, unlocks, checkScene>>
      /\ checker' = [checker EXCEPT ![c] = r] /\ lockOrders' = Append(lockOrders, doc)
  BY <1>1, <1>3, <1>4 DEF CreateOrder, Proceeds, Back
<1>6. /\ r \in Lockings /\ r.step = "lock" /\ r.since = w.since /\ r.state = w.state /\ r.spared = w.spared
      /\ r.critical = w.critical /\ r.todo = w.todo /\ r \in Checks
  BY <1>1, <1>3, BackToLock
<1>7. lockOrders \in Seq(OrderDocs) /\ doc \in OrderDocs /\ doc.flag = w.flag
  BY <1>1, <1>4 DEF RiskInv, RiskTyped, Lockings, OrderDocs
<1>8. /\ lockOrders' \in Seq(OrderDocs) /\ Len(lockOrders') = Len(lockOrders) + 1
      /\ DOMAIN lockOrders' = DOMAIN lockOrders \cup {Len(lockOrders) + 1}
      /\ \A n \in DOMAIN lockOrders : lockOrders'[n] = lockOrders[n]
      /\ lockOrders'[Len(lockOrders) + 1] = doc
  BY <1>5, <1>7, Appended
<1>9. LocksNext
  BY <1>5, <1>8 DEF LocksNext, RiskInv, RiskTyped, OrderedIn, PhoneLocked
<1>10. OrderedIn(w.flag, lockOrders')
  BY <1>7, <1>8 DEF OrderedIn
<1>11. /\ Chosen(r, flags') /\ Decided(r, flags') /\ ReadLock(r, PhoneLocked', unlocks', lockOrders')
  BY <1>2, <1>5, <1>6, <1>9, <1>10 DEF Chosen, Decided, ReadLock, Reading, LockSteps, LocksNext
<1>12. Ordering' = Ordering \ {c} /\ c \in Ordering
  BY <1>1, <1>5, <1>6 DEF Ordering, RiskInv, RiskTyped
<1>13. OrdersInv'
  <2> DEFINE n == Cardinality(Ordering)
             m == Cardinality(Ordering')
             l == Len(lockOrders)
             total == unlocks + (IF PhoneLocked THEN 1 ELSE 0)
  <2>1. m = n - 1
    BY <1>12, OrderingFinite, FS_RemoveElement
  <2>2. l + n <= total /\ l \in Nat /\ n \in Nat /\ total \in Nat
    BY <1>7, OrderingFinite DEF OrdersInv, RiskInv, RiskTyped
  <2> HIDE DEF n, m, l, total
  <2>3. (l + 1) + m <= total
    BY <2>1, <2>2
  <2> QED  BY <1>5, <1>8, <2>3 DEF l, m, total, OrdersInv, PhoneLocked
<1>14. FlagsNext /\ security' \in States /\ challenges' \in Seq(ChallengeDocs)
  BY <1>5, FlagsSame DEF RiskInv, RiskTyped
<1>15. checkScene.calls[c] # {}
  BY <1>1, InScene
<1> QED  BY <1>5, <1>6, <1>9, <1>11, <1>13, <1>14, <1>15, CheckNext

\* An order that is refused ends its call, and is none.
LEMMA OrderRefusedNext == ASSUME RiskInv, NEW c \in Checkers, OrderRefused(c) PROVE RiskInv'
<1>1. PICK r : r = Unoccupied
  OBVIOUS
<1>2. /\ UNCHANGED <<challenges, flags, security, phoneState, lockOrders, unlocks, checkScene>>
      /\ checker' = [checker EXCEPT ![c] = r] /\ checker[c].step = "order" /\ r.step # "order"
  BY <1>1 DEF OrderRefused, Concludes, Proceeds, Unoccupied
<1>3. /\ r \in Checks /\ Chosen(r, flags') /\ Decided(r, flags')
      /\ ReadLock(r, PhoneLocked', unlocks', lockOrders')
  BY <1>1, RestingCheck
<1>4. Ordering' = Ordering \ {c} /\ c \in Ordering
  BY <1>2 DEF Ordering, RiskInv, RiskTyped
<1>5. OrdersInv'
  <2> DEFINE n == Cardinality(Ordering)
             m == Cardinality(Ordering')
             l == Len(lockOrders)
             total == unlocks + (IF PhoneLocked THEN 1 ELSE 0)
  <2>1. m = n - 1
    BY <1>4, OrderingFinite, FS_RemoveElement
  <2>2. l + n <= total /\ l \in Nat /\ n \in Nat /\ total \in Nat
    BY OrderingFinite DEF OrdersInv, RiskInv, RiskTyped
  <2> HIDE DEF n, m, l, total
  <2>3. l + m <= total
    BY <2>1, <2>2
  <2> QED  BY <1>2, <2>3 DEF l, m, total, OrdersInv, PhoneLocked
<1>6. FlagsNext /\ LocksNext /\ security' \in States /\ challenges' \in Seq(ChallengeDocs)
  BY <1>2, FlagsSame, LocksSame DEF RiskInv, RiskTyped
<1>7. checkScene.calls[c] # {}
  BY <1>2, InScene
<1> QED  BY <1>2, <1>3, <1>5, <1>6, <1>7, CheckNext

-----------------------------------------------------------------------------
(* The administrator, the tenant and the phone *)

\* What happens around the checks keeps it.
LEMMA RiskAround ==
  ASSUME RiskInv,
         \/ IssueRiskChallenge \/ IssueIntegrityChallenge \/ TenantUnlocks \/ ReleaseQueued
         \/ \E n \in DOMAIN lockOrders : OrderEnds(n)
         \/ \E k \in DOMAIN flags : AcknowledgeFlag(k)
  PROVE  RiskInv'
<1>1. ASSUME NEW call \in {"check", "verify"}, IssueChallenge(call) PROVE RiskInv'
  <2>1. PICK doc : doc = [call |-> call, used |-> FALSE]
    OBVIOUS
  <2>2. doc \in ChallengeDocs
    BY <2>1 DEF ChallengeDocs
  <2>3. challenges \in Seq(ChallengeDocs) /\ challenges' = Append(challenges, doc)
    BY <1>1, <2>1 DEF RiskInv, RiskTyped, IssueChallenge
  <2>4. challenges' \in Seq(ChallengeDocs)
    BY <2>2, <2>3, Appended
  <2>5. UNCHANGED <<flags, security, phoneState, lockOrders, checker, unlocks, checkScene>>
    BY <1>1 DEF IssueChallenge
  <2>6. OrdersInv' /\ security' \in States
    BY <2>5, OrdersKept DEF RiskInv, RiskTyped
  <2> QED  BY <2>4, <2>5, <2>6, FlagsSame, LocksSame, AroundNext DEF RiskInv
<1>2. CASE TenantUnlocks \/ ReleaseQueued
  <2>1. /\ phoneState' \in PhoneStates /\ phoneState' # "LOCKED"
        /\ unlocks' = IF PhoneLocked THEN unlocks + 1 ELSE unlocks
        /\ UNCHANGED <<challenges, flags, security, lockOrders, checker, checkScene>>
    BY <1>2 DEF TenantUnlocks, ReleaseQueued, LeavesFor, PhoneStates
  <2>2. LocksNext /\ security' \in States /\ challenges' \in Seq(ChallengeDocs)
    <3>1. unlocks' \in Nat /\ unlocks <= unlocks' /\ (PhoneLocked => unlocks' # unlocks)
      BY <2>1 DEF RiskInv, RiskTyped
    <3> QED  BY <2>1, <3>1, Zenon DEF LocksNext, RiskInv, RiskTyped
  <2>3. OrdersInv'
    <3> DEFINE n == Cardinality(Ordering)
               l == Len(lockOrders)
    <3>1. Ordering' = Ordering
      BY <2>1 DEF Ordering
    <3>2. l + n <= unlocks + (IF PhoneLocked THEN 1 ELSE 0)
      BY DEF OrdersInv, RiskInv
    <3> HIDE DEF n, l
    <3>3. l + n <= unlocks'
      BY <2>1, <3>2 DEF RiskInv, RiskTyped
    <3>4. ~PhoneLocked'
      BY <2>1 DEF PhoneLocked
    <3>5. unlocks' + 0 = unlocks'
      BY <2>1 DEF RiskInv, RiskTyped
    <3> QED  BY <2>1, <3>1, <3>3, <3>4, <3>5 DEF l, n, OrdersInv
  <2> QED  BY <2>1, <2>2, <2>3, FlagsSame, AroundNext DEF RiskInv
<1>3. ASSUME NEW n \in DOMAIN lockOrders, OrderEnds(n) PROVE RiskInv'
  <2>1. lockOrders \in Seq(OrderDocs) /\ lockOrders[n] \in OrderDocs
    BY DEF RiskInv, RiskTyped
  <2>2. PICK doc : doc = [lockOrders[n] EXCEPT !.open = FALSE]
    OBVIOUS
  <2>3. doc \in OrderDocs /\ doc.flag = lockOrders[n].flag
    BY <2>1, <2>2 DEF OrderDocs
  <2>4. /\ lockOrders' = [lockOrders EXCEPT ![n] = doc]
        /\ UNCHANGED <<challenges, flags, security, phoneState, checker, unlocks, checkScene>>
    BY <1>3, <2>2 DEF OrderEnds
  <2>5. /\ lockOrders' \in Seq(OrderDocs) /\ Len(lockOrders') = Len(lockOrders)
        /\ DOMAIN lockOrders' = DOMAIN lockOrders
        /\ \A m \in DOMAIN lockOrders : lockOrders'[m].flag = lockOrders[m].flag
    BY <2>1, <2>3, <2>4
  <2>6. LocksNext
    BY <2>4, <2>5 DEF LocksNext, RiskInv, RiskTyped, OrderedIn, PhoneLocked
  <2>7. OrdersInv'
    BY <2>4, <2>5 DEF OrdersInv, RiskInv, Ordering, PhoneLocked
  <2>8. security' \in States /\ challenges' \in Seq(ChallengeDocs)
    BY <2>4 DEF RiskInv, RiskTyped
  <2> QED  BY <2>4, <2>6, <2>7, <2>8, FlagsSame, AroundNext DEF RiskInv
<1>4. ASSUME NEW k \in DOMAIN flags, AcknowledgeFlag(k) PROVE RiskInv'
  <2>1. /\ flags' = [flags EXCEPT ![k].status = "acknowledged"]
        /\ UNCHANGED <<challenges, security, phoneState, lockOrders, checker, unlocks, checkScene>>
    BY <1>4 DEF AcknowledgeFlag
  <2>2. /\ FlagsNext /\ DOMAIN flags' = DOMAIN flags
        /\ \A n \in DOMAIN flags : flags'[n] = flags[n] \/ Reopened(flags'[n])
    BY <2>1, StatusSet DEF FlagStatuses, RiskInv, Reopened
  <2>3. \A c \in Checkers : Decided(checker[c], flags) => Decided(checker[c], flags')
    BY <2>2 DEF Decided
  <2>4. OrdersInv' /\ security' \in States /\ challenges' \in Seq(ChallengeDocs)
    BY <2>1, OrdersKept DEF RiskInv, RiskTyped
  <2> QED  BY <2>1, <2>2, <2>3, <2>4, LocksSame, AroundNext DEF RiskInv
<1> QED  BY <1>1, <1>2, <1>3, <1>4 DEF IssueRiskChallenge, IssueIntegrityChallenge

\* It holds at the start.
LEMMA RiskStart == ASSUME RiskInit PROVE RiskInv
<1>1. /\ challenges = <<>> /\ flags = <<>> /\ lockOrders = <<>> /\ security = "HEALTHY" /\ phoneState = "ACTIVE"
      /\ unlocks = 0 /\ checker = [c \in Checkers |-> Unoccupied]
  BY DEF RiskInit
<1>2. RiskTyped
  <2>1. security \in States
    BY <1>1 DEF States, Rank
  <2>2. checker \in [Checkers -> Checks]
    BY <1>1, RestingCheck
  <2>3. challenges \in Seq(ChallengeDocs) /\ flags \in Seq(FlagDocs) /\ lockOrders \in Seq(OrderDocs)
    BY <1>1
  <2>4. phoneState \in PhoneStates /\ unlocks \in Nat
    BY <1>1 DEF PhoneStates
  <2> QED  BY <2>1, <2>2, <2>3, <2>4 DEF RiskTyped
<1>3. Ordering = {}
  BY <1>1 DEF Ordering, Unoccupied
<1>4. OrdersInv
  BY <1>1, <1>3, FS_EmptySet DEF OrdersInv, PhoneLocked
<1> QED  BY <1>1, <1>2, <1>4, RestingCheck DEF RiskInv, ChecksInv

\* Every step keeps it.
LEMMA RiskStep == ASSUME RiskInv, [Next]_officeVars PROVE RiskInv'
<1>1. CASE RiskNext
  BY <1>1, RiskAround, CheckStartNext, AssessNext, FindFlagNext, UpsertFlagNext, ResolveNext, EndsNext,
     WipeFlagNext, SetSecurityNext, CreateReportedNext, CheckLockNext, SpareFlagNext, LockDeviceNext,
     CreateOrderNext, OrderRefusedNext
  DEF RiskNext
<1>2. CASE UNCHANGED riskVars
  <2>1. UNCHANGED <<challenges, flags, security, phoneState, lockOrders, checker, unlocks, checkScene>>
    BY <1>2 DEF riskVars
  <2>2. OrdersInv' /\ security' \in States /\ challenges' \in Seq(ChallengeDocs)
    BY <2>1, OrdersKept DEF RiskInv, RiskTyped
  <2> QED  BY <2>1, <2>2, FlagsSame, LocksSame, AroundNext DEF RiskInv
<1> QED  BY <1>1, <1>2 DEF Next, officeVars

\* It holds in every state.
LEMMA RiskInvariance == Spec => []RiskInv
<1>1. Init => RiskInv
  BY RiskStart DEF Init
<1>2. RiskInv /\ [Next]_officeVars => RiskInv'
  BY RiskStep
<1> QED  BY <1>1, <1>2, PTL DEF Spec

\* enforceRiskAutoLock: checks and reports that overlap lock the phone for a flag once, and
\* once more for each time it left the locked state.
THEOREM LockOrders == Spec => []OneLockOrder
<1>1. RiskInv => OneLockOrder
  <2> SUFFICES ASSUME RiskInv, NEW k \in DOMAIN flags
               PROVE  Cardinality({n \in DOMAIN lockOrders : lockOrders[n].flag = k /\ lockOrders[n].open})
                        <= 1 + unlocks
    BY DEF OneLockOrder
  <2> DEFINE S == {n \in DOMAIN lockOrders : lockOrders[n].flag = k /\ lockOrders[n].open}
             l == Len(lockOrders)
             m == Cardinality(Ordering)
             s == Cardinality(S)
  <2>1. l \in Nat /\ DOMAIN lockOrders = 1..l
    BY DEF RiskInv, RiskTyped
  <2>2. IsFiniteSet(1..l) /\ Cardinality(1..l) = l
    BY <2>1, FS_Interval
  <2>3. s <= l /\ s \in Nat
    BY <2>1, <2>2, FS_Subset, FS_CardinalityType
  <2>4. l + m <= unlocks + 1 /\ m \in Nat /\ unlocks \in Nat
    BY OrderingFinite DEF RiskInv, RiskTyped, OrdersInv
  <2> HIDE DEF s, l, m
  <2>5. s <= 1 + unlocks
    BY <2>1, <2>3, <2>4
  <2> QED  BY <2>5 DEF s
<1> QED  BY <1>1, RiskInvariance, PTL

\* A step of a check of the device that is alone is the only one that declares it healthy.
LEMMA HealthyStep ==
  ASSUME RiskInv, RiskNext, SingleChecker, security' = "HEALTHY", security # "HEALTHY"
  PROVE  \A k \in ActiveFlags : flags[k].status = "acknowledged"
<1>1. ASSUME UNCHANGED security PROVE FALSE
  BY <1>1
<1>2. ASSUME NEW c \in Checkers, SetSecurity(c) PROVE FALSE
  <2>1. checker[c] \in Assessments
    BY <1>2, CheckTypes DEF SetSecurity, RiskInv
  <2>2. checker[c].security \in States
    BY <2>1 DEF Assessments
  <2> QED  BY <1>2, <2>2, RiskTypesOf DEF SetSecurity
<1>3. ASSUME NEW c \in Checkers, LockDevice(c) \/ WipeDevice(c) PROVE FALSE
  BY <1>3 DEF LockDevice, WipeDevice
<1>4. ASSUME NEW c \in Checkers, SetHealthy(c) PROVE \A k \in ActiveFlags : flags[k].status = "acknowledged"
  <2>1. checker[c].step = "healthy" /\ checker[c].healthy
    BY <1>4 DEF SetHealthy
  <2> QED  BY <2>1 DEF RiskInv, ChecksInv, Decided, Reopened, ActiveFlags
<1>5. ASSUME NEW c \in Checkers, NEW found,
             \/ DecodeVerdict(c, found) \/ VerdictUnavailable(c, found)
             \/ FindFlag(c) \/ UpsertFlag(c) \/ FindResolvable(c) \/ LookForActive(c) \/ LookForOthers(c)
      PROVE  UNCHANGED security
  BY <1>5 DEF DecodeVerdict, VerdictUnavailable, FindFlag, UpsertFlag, FindResolvable, LookForActive, LookForOthers
<1>6. ASSUME NEW c \in Checkers,
             CreateOrder(c) \/ OrderRefused(c) \/ EndLocking(c) \/ CreateReported(c) \/ WipeFlag(c)
      PROVE  UNCHANGED security
  BY <1>6 DEF CreateOrder, OrderRefused, EndLocking, CreateReported, WipeFlag
<1>7. ASSUME NEW c \in Checkers, NEW k,
             \/ StartRiskCheck(c, k) \/ StartIntegrityCheck(c, k) \/ ClearFlag(c, k) \/ StartWipe(c, k)
             \/ SaveResolved(c, k) \/ SpareFlag(c, k) \/ CheckLock(c, k)
      PROVE  UNCHANGED security
  BY <1>7 DEF StartRiskCheck, StartIntegrityCheck, StartOn, ClearFlag, StartWipe, SaveResolved, SpareFlag, CheckLock
<1>8. ASSUME NEW c \in Checkers, NEW type, NEW severity, StartReport(c, type, severity)
      PROVE  UNCHANGED security
  BY <1>8 DEF StartReport
<1>9. ASSUME \/ IssueRiskChallenge \/ IssueIntegrityChallenge \/ TenantUnlocks \/ ReleaseQueued
             \/ \E n \in DOMAIN lockOrders : OrderEnds(n)
             \/ \E k \in DOMAIN flags : AcknowledgeFlag(k)
      PROVE  UNCHANGED security
  BY <1>9 DEF IssueRiskChallenge, IssueIntegrityChallenge, IssueChallenge, TenantUnlocks, ReleaseQueued,
              LeavesFor, OrderEnds, AcknowledgeFlag
<1>10. \/ UNCHANGED security
       \/ \E c \in Checkers : SetSecurity(c) \/ LockDevice(c) \/ WipeDevice(c) \/ SetHealthy(c)
  BY <1>5, <1>6, <1>7, <1>8, <1>9, Zenon DEF RiskNext
<1> QED  BY <1>1, <1>2, <1>3, <1>4, <1>10

\* A step ends a critical flag only by clearing it.
LEMMA CriticalStep ==
  ASSUME RiskInv, RiskNext, NEW k \in ActiveFlags, flags[k].severity = "critical", ~ActiveFlag(flags'[k])
  PROVE  flags'[k].status = "cleared"
<1>0. k \in DOMAIN flags /\ ActiveFlag(flags[k])
  BY DEF ActiveFlags
<1>1. ASSUME UNCHANGED flags PROVE FALSE
  BY <1>0, <1>1
<1>2. ASSUME NEW c \in Checkers, UpsertFlag(c) PROVE FALSE
  BY <1>0, <1>2, Upserted
<1>3. ASSUME NEW c \in Checkers, NEW n \in DOMAIN flags, SaveResolved(c, n) PROVE FALSE
  <2>1. flags[n].severity # "critical"
    BY <1>3 DEF RiskInv, ChecksInv, Chosen, SaveResolved
  <2>2. flags'[k] = flags[k]
    BY <1>0, <1>3, <2>1, StatusSet DEF SaveResolved, FlagStatuses, RiskInv
  <2> QED  BY <1>0, <2>2
<1>4. ASSUME NEW c \in Checkers, CreateReported(c) PROVE FALSE
  <2>1. flags \in Seq(FlagDocs)
    BY DEF RiskInv, RiskTyped
  <2>2. flags'[k] = flags[k]
    BY <1>0, <1>4, <2>1 DEF CreateReported
  <2> QED  BY <1>0, <2>2
<1>5. ASSUME NEW n, NEW status \in FlagStatuses, flags' = [flags EXCEPT ![n].status = status]
      PROVE  status \in Inactive /\ flags'[k].status = status
  <2>1. n = k
    BY <1>0, <1>5, StatusSet DEF RiskInv
  <2> QED  BY <1>0, <1>5, <2>1, StatusSet DEF RiskInv, ActiveFlag
<1>6. ASSUME NEW n \in DOMAIN flags, AcknowledgeFlag(n) PROVE FALSE
  BY <1>5, <1>6 DEF AcknowledgeFlag, FlagStatuses, Inactive
<1>7. ASSUME NEW c \in Checkers, WipeFlag(c) PROVE FALSE
  BY <1>5, <1>7 DEF WipeFlag, FlagStatuses, Inactive
<1>8. ASSUME NEW c \in Checkers, NEW n \in DOMAIN flags, ClearFlag(c, n) PROVE flags'[k].status = "cleared"
  BY <1>5, <1>8 DEF ClearFlag, FlagStatuses
<1>9. \/ UNCHANGED flags
      \/ \E c \in Checkers : UpsertFlag(c) \/ CreateReported(c) \/ WipeFlag(c)
      \/ \E c \in Checkers, n \in DOMAIN flags : SaveResolved(c, n) \/ ClearFlag(c, n)
      \/ \E n \in DOMAIN flags : AcknowledgeFlag(n)
  BY Zenon
  DEF RiskNext, IssueRiskChallenge, IssueIntegrityChallenge, IssueChallenge, TenantUnlocks, ReleaseQueued,
      LeavesFor, OrderEnds,
      StartRiskCheck, StartIntegrityCheck, StartOn, DecodeVerdict, VerdictUnavailable,
      FindFlag, FindResolvable, LookForActive, CreateOrder, EndLocking, StartReport, SetHealthy,
      LookForOthers, SpareFlag, OrderRefused, Concludes, CheckLock, StartWipe, SetSecurity, LockDevice, WipeDevice
<1> QED  BY <1>1, <1>2, <1>3, <1>4, <1>6, <1>7, <1>8, <1>9

\* A call stops locking only with the device locked or an order for each critical flag.
LEMMA LockStep ==
  ASSUME RiskInv, RiskNext, NEW c \in Checkers, checker[c].step \in {"lock", "order"}, checker'[c] = Unoccupied,
         unlocks = checker[c].since, checker[c].state # "RELEASE", NEW k \in checker[c].critical \ checker[c].spared
  PROVE  PhoneLocked \/ \E n \in DOMAIN lockOrders : lockOrders[n].flag = k
<1>1. \A r : r.step # "none" => r # Unoccupied
  BY DEF Unoccupied
<1>2. checker[c] # Unoccupied /\ checker[c] \in Lockings
  BY CheckTypes DEF Unoccupied, RiskInv, LockSteps
<1>3. ASSUME NEW d \in Checkers, NEW r, Proceeds(d, r), d # c \/ r.step # "none" PROVE FALSE
  BY <1>1, <1>2, <1>3 DEF Proceeds, RiskInv, RiskTyped
<1>4. ASSUME NEW d \in Checkers, NEW r, NEW op, Begins(d, op, r) PROVE FALSE
  BY <1>2, <1>4 DEF Begins, RiskInv, RiskTyped
<1>5. CASE checker[c].step = "order"
  BY <1>5 DEF RiskInv, ChecksInv, ReadLock
<1>6. CASE checker[c].step = "lock"
  <2>1. checker[c].todo = {}
    <3>1. CASE UNCHANGED checker
      BY <1>2, <3>1
    <3>2. ASSUME NEW n \in DOMAIN flags, CheckLock(c, n) \/ SpareFlag(c, n) PROVE FALSE
      <4>1. PICK w : w = checker[c] /\ w \in Lockings /\ w.step = "lock"
        BY <1>2, <1>6
      <4>2. PICK r : Proceeds(c, r) /\ (\/ r = [w EXCEPT !.todo = @ \ {n}]
                                       \/ r = [w EXCEPT !.todo = @ \ {n}, !.spared = @ \cup {n}]
                                       \/ r = [w EXCEPT !.step = "state", !.todo = @ \ {n}, !.flag = n])
        BY <3>2, <4>1 DEF CheckLock, SpareFlag
      <4>3. r.step \in {"lock", "state"}
        BY <4>1, <4>2 DEF Lockings
      <4> QED  BY <1>3, <4>2, <4>3
    <3>3. CASE EndLocking(c)
      BY <3>3 DEF EndLocking
    <3>4. ASSUME NEW d \in Checkers, d # c, NEW r, Proceeds(d, r) PROVE FALSE
      BY <1>3, <3>4
    <3>5. \/ UNCHANGED checker
          \/ \E d \in Checkers : \E r : \E op : Begins(d, op, r)
          \/ \E d \in Checkers : checker[d].step # "lock" /\ \E r : Proceeds(d, r)
          \/ \E d \in Checkers : EndLocking(d) \/ \E n \in DOMAIN flags : CheckLock(d, n) \/ SpareFlag(d, n)
      <4> DEFINE Turn(d) == checker[d].step # "lock" /\ \E r : Proceeds(d, r)
      <4>1. ASSUME NEW d \in Checkers, NEW found, DecodeVerdict(d, found) \/ VerdictUnavailable(d, found)
            PROVE  Turn(d)
        BY <4>1 DEF DecodeVerdict, VerdictUnavailable
      <4>2. ASSUME NEW d \in Checkers,
                   FindFlag(d) \/ UpsertFlag(d) \/ FindResolvable(d) \/ LookForActive(d) \/ LookForOthers(d)
            PROVE  Turn(d)
        BY <4>2 DEF FindFlag, UpsertFlag, FindResolvable, LookForActive, LookForOthers
      <4>3. ASSUME NEW d \in Checkers, SetHealthy(d) \/ WipeFlag(d) \/ WipeDevice(d) \/ SetSecurity(d)
            PROVE  Turn(d)
        BY <4>3 DEF SetHealthy, WipeFlag, WipeDevice, SetSecurity, Concludes
      <4>4. ASSUME NEW d \in Checkers, LockDevice(d) \/ CreateOrder(d) \/ OrderRefused(d) \/ CreateReported(d)
            PROVE  Turn(d)
        BY <4>4 DEF LockDevice, CreateOrder, OrderRefused, CreateReported, Concludes
      <4>5. ASSUME NEW d \in Checkers, NEW n, SaveResolved(d, n) PROVE Turn(d)
        BY <4>5 DEF SaveResolved
      <4>6. ASSUME NEW d \in Checkers, NEW n,
                   StartRiskCheck(d, n) \/ StartIntegrityCheck(d, n) \/ ClearFlag(d, n) \/ StartWipe(d, n)
            PROVE  \E r : \E op : Begins(d, op, r)
        BY <4>6, Zenon DEF StartRiskCheck, StartIntegrityCheck, StartOn, ClearFlag, StartWipe
      <4>7. ASSUME NEW d \in Checkers, NEW type, NEW severity, StartReport(d, type, severity)
            PROVE  \E r : \E op : Begins(d, op, r)
        BY <4>7, Zenon DEF StartReport
      <4>8. ASSUME \/ IssueRiskChallenge \/ IssueIntegrityChallenge \/ TenantUnlocks \/ ReleaseQueued
                   \/ \E n \in DOMAIN lockOrders : OrderEnds(n)
                   \/ \E n \in DOMAIN flags : AcknowledgeFlag(n)
            PROVE  UNCHANGED checker
        BY <4>8 DEF IssueRiskChallenge, IssueIntegrityChallenge, IssueChallenge, TenantUnlocks, ReleaseQueued,
                    LeavesFor, OrderEnds, AcknowledgeFlag
      <4> HIDE DEF Turn
      <4>9. \/ UNCHANGED checker
            \/ \E d \in Checkers : \E r : \E op : Begins(d, op, r)
            \/ \E d \in Checkers : Turn(d)
            \/ \E d \in Checkers : EndLocking(d) \/ \E n \in DOMAIN flags : CheckLock(d, n) \/ SpareFlag(d, n)
        BY <4>1, <4>2, <4>3, <4>4, <4>5, <4>6, <4>7, <4>8, Zenon DEF RiskNext
      <4> QED  BY <4>9 DEF Turn
    <3>6. ASSUME NEW d \in Checkers, EndLocking(d) \/ \E n \in DOMAIN flags : CheckLock(d, n) \/ SpareFlag(d, n)
          PROVE  \E r : Proceeds(d, r)
      BY <3>6 DEF EndLocking, CheckLock, SpareFlag, Concludes
    <3> QED  BY <1>4, <1>6, <3>1, <3>2, <3>3, <3>4, <3>5, <3>6
  <2> QED  BY <1>6, <2>1 DEF RiskInv, ChecksInv, ReadLock, LockSteps, OrderedIn
<1> QED  BY <1>5, <1>6

\* clearRiskFlag, recordIntegrityAssessment and enforceRiskAutoLock: what the device and its
\* flags say agrees, however checks, reports and decisions overlap.
THEOREM Compromises == Spec => CompromiseHandled
<1>1. RiskInv /\ [Next]_officeVars =>
        [SingleChecker /\ security' = "HEALTHY" /\ security # "HEALTHY"
           => \A k \in ActiveFlags : flags[k].status = "acknowledged"]_riskVars
  BY HealthyStep DEF Next, officeVars
<1>2. RiskInv /\ [Next]_officeVars =>
        [\A k \in DOMAIN flags :
           k \in ActiveFlags /\ flags[k].severity = "critical" /\ ~ActiveFlag(flags'[k])
           => flags'[k].status = "cleared"]_riskVars
  BY CriticalStep DEF Next, officeVars
<1>3. RiskInv /\ [Next]_officeVars =>
        [\A c \in Checkers :
           /\ checker[c].step \in {"lock", "order"} /\ checker'[c] = Unoccupied
           /\ unlocks = checker[c].since /\ checker[c].state # "RELEASE"
           => \A k \in checker[c].critical \ checker[c].spared :
                PhoneLocked \/ \E n \in DOMAIN lockOrders : lockOrders[n].flag = k]_riskVars
  BY LockStep DEF Next, officeVars
<1> QED
  BY <1>1, <1>2, <1>3, RiskInvariance, PTL
  DEF Spec, CompromiseHandled, HealthyAnnounced, CriticalStays, CriticalLocks
-----------------------------------------------------------------------------
(* EMI reminders *)

CommandDocs == [kind : Kinds \cup {"VISIBLE"}, installment : Installments, source : Nat,
                status : CommandStatuses, retryCount : 0..Attempts]
Requests ==
  {NoCaller}
  \cup [step : {"find", "create"}, kind : Kinds, installment : Installments]
  \cup [step : {"look", "notify"}, installment : Installments, source : Nat]
Pushes == {NoPush} \cup [id : Nat \ {0}, doc : CommandDocs]

RemindersTyped ==
  /\ together \in Urgencies /\ mishaps \in Nat /\ loosened \in BOOLEAN
  /\ phone \in [running : BOOLEAN, release : {"no", "pending", "done"}]
  /\ unpaid \subseteq Installments /\ past \subseteq Installments
  /\ commands \in Seq(CommandDocs) /\ Len(commands) <= together.commands
  /\ caller \in [Callers -> Requests]
  /\ pusher \in Pushes

\* A notification belongs to a reminder of its instalment, and a reminder never fails.
Announces(n, k) == k \in DOMAIN commands /\ commands[k].installment = n
RemindersSourced ==
  \A n \in DOMAIN commands :
    /\ commands[n].kind \in Kinds <=> commands[n].source = 0
    /\ commands[n].kind \in Kinds => commands[n].status # "failed"
    /\ commands[n].source # 0 => Announces(commands[n].installment, commands[n].source)
OneEach == \A m, n \in DOMAIN commands : commands[m].source = commands[n].source /\ commands[n].source # 0 => m = n

\* A caller about to create a reminder, or a notification, has found that there is none.
CallerFits(r) ==
  /\ r.step \in {"look", "notify"} => Announces(r.installment, r.source)
  /\ Alone /\ r.step = "notify" => ~Shown(r.source)
  /\ Alone /\ ~loosened /\ r.step = "create" => SameReminder(r.kind, r.installment) = {}
CallersFit == \A c \in Callers : CallerFits(caller[c]) /\ (caller[c] # NoCaller => c \in together.callers)

\* The delivery batch alone counts attempts, and knows the command as it is unless it was acknowledged.
PushFits ==
  pusher # NoPush =>
    /\ pusher.id \in DOMAIN commands
    /\ pusher.doc.kind = commands[pusher.id].kind /\ pusher.doc.source = commands[pusher.id].source
    /\ pusher.doc.installment = commands[pusher.id].installment
    /\ pusher.doc.status \in {"pending", "failed"} /\ pusher.doc.retryCount < Attempts
    /\ ~loosened => commands[pusher.id] = pusher.doc

RemindersInv ==
  /\ RemindersTyped /\ RemindersSourced /\ CallersFit /\ PushFits
  /\ OneActiveReminder /\ (Alone => OneEach)
\* The least of a set of numbers is one of them.
LEMMA MinMember ==
  ASSUME NEW S, S \subseteq Nat, S # {}
  PROVE  Min(S) \in S
BY Least DEF Min

\* So is the greatest, of numbers up to a limit.
LEMMA MaxMember ==
  ASSUME NEW n \in Nat, NEW S, S \subseteq 1..n, S # {}
  PROVE  Max(S) \in S
<1> DEFINE B == {m \in Nat : \A x \in S : x <= m}
<1>1. n \in B /\ B \subseteq Nat
  OBVIOUS
<1>2. PICK m \in B : \A k \in B : m <= k
  <2> HIDE DEF B
  <2> QED  BY <1>1, Least
<1>3. m \in Nat /\ \A x \in S : x <= m /\ x \in Nat /\ x >= 1
  BY <1>2
<1>4. m \in S
  <2>1. SUFFICES ASSUME m \notin S PROVE FALSE
    OBVIOUS
  <2>2. \A x \in S : x <= m - 1
    BY <1>3, <2>1
  <2>3. m - 1 \in Nat
    <3>1. PICK x \in S : TRUE
      OBVIOUS
    <3> QED  BY <3>1, <2>2, <1>3
  <2>4. m - 1 \in B
    BY <2>2, <2>3
  <2>5. m <= m - 1
    <3> HIDE DEF B
    <3> QED  BY <1>2, <2>4
  <2> QED  BY <2>5, <1>3
<1>5. \E x \in S : \A y \in S : x >= y
  BY <1>3, <1>4
<1> QED  BY <1>5 DEF Max

\* Alone, no two requests run together.
LEMMA AloneMeans ==
  ASSUME RemindersTyped, Alone, NEW c \in together.callers, NEW d \in together.callers
  PROVE  c = d
<1>1. IsFiniteSet(together.callers) /\ Cardinality(together.callers) = 1
  BY ReminderAssumption DEF RemindersTyped, Alone
<1>2. together.callers \ {c} = {}
  <2>1. IsFiniteSet(together.callers \ {c}) /\ Cardinality(together.callers \ {c}) = 0
    BY <1>1, FS_RemoveElement
  <2> QED  BY <2>1, FS_EmptySet
<1> QED  BY <1>2

\* What a request for a reminder carries, by its step.
LEMMA RequestTypes ==
  ASSUME RemindersTyped, NEW c \in Callers
  PROVE  /\ caller[c] \in Requests
         /\ caller[c].step = "idle" <=> caller[c] = NoCaller
         /\ caller[c].step \in {"find", "create"} =>
              caller[c] \in [step : {"find", "create"}, kind : Kinds, installment : Installments]
         /\ caller[c].step \in {"look", "notify"} =>
              caller[c] \in [step : {"look", "notify"}, installment : Installments, source : Nat]
<1>1. caller[c] \in Requests
  BY DEF RemindersTyped
<1>2. CASE caller[c] = NoCaller
  BY <1>1, <1>2 DEF NoCaller
<1>3. CASE caller[c] \in [step : {"find", "create"}, kind : Kinds, installment : Installments]
  BY <1>1, <1>3 DEF NoCaller
<1>4. CASE caller[c] \in [step : {"look", "notify"}, installment : Installments, source : Nat]
  BY <1>1, <1>4 DEF NoCaller
<1> QED  BY <1>1, <1>2, <1>3, <1>4 DEF Requests

\* A push carries a command.
LEMMA PushTypes ==
  ASSUME RemindersTyped, pusher # NoPush
  PROVE  pusher.id \in Nat /\ pusher.id # 0 /\ pusher.doc \in CommandDocs
<1>1. pusher \in [id : Nat \ {0}, doc : CommandDocs]
  BY DEF RemindersTyped, Pushes
<1> QED  BY <1>1

\* One caller moves, and nobody writes a command.
LEMMA CallerGoes ==
  ASSUME RemindersInv, NEW c \in Callers, NEW r \in Requests, Becomes(c, r),
         CallerFits(r)', r # NoCaller => c \in together.callers,
         loosened' \in BOOLEAN, loosened => loosened',
         UNCHANGED <<phone, unpaid, past, commands, pusher, together>>, mishaps' \in Nat
  PROVE  RemindersInv'
<1>1. /\ caller' = [caller EXCEPT ![c] = r] /\ caller \in [Callers -> Requests]
  BY DEF RemindersInv, RemindersTyped, Becomes
<1>2. /\ caller' \in [Callers -> Requests] /\ caller'[c] = r
      /\ \A d \in Callers : d # c => caller'[d] = caller[d]
  BY <1>1
<1>3. RemindersTyped'
  BY <1>2 DEF RemindersInv, RemindersTyped
<1>4. RemindersSourced' /\ (Alone => OneEach)'
  BY DEF RemindersInv, RemindersSourced, Announces, Alone, OneEach
<1>5. PushFits'
  BY DEF RemindersInv, PushFits
<1>6. OneActiveReminder'
  BY DEF RemindersInv, OneActiveReminder, Alone, Active
<1>7. CallersFit'
  <2>0. CallersFit
    BY DEF RemindersInv
  <2>1. ASSUME NEW d \in Callers, d # c PROVE CallerFits(caller[d])'
    <3>1. CallerFits(caller[d]) /\ caller'[d] = caller[d]
      BY <2>0, <2>1, <1>2 DEF CallersFit
    <3> QED  BY <3>1 DEF CallerFits, Announces, Alone, Shown, SameReminder, Active
  <2>2. CallerFits(caller[c])'
    BY <1>2 DEF CallerFits
  <2>3. \A d \in Callers : (caller[d] # NoCaller)' => d \in together'.callers
    BY <2>0, <1>2 DEF CallersFit
  <2> QED  BY <2>1, <2>2, <2>3 DEF CallersFit
<1> QED  BY <1>3, <1>4, <1>5, <1>6, <1>7 DEF RemindersInv
\* The loan and the phone change.
LEMMA LoanMoves ==
  ASSUME RemindersInv, UNCHANGED <<commands, caller, pusher, mishaps, together, loosened>>,
         phone' \in [running : BOOLEAN, release : {"no", "pending", "done"}],
         unpaid' \subseteq Installments, past' \subseteq Installments
  PROVE  RemindersInv'
<1>1. RemindersTyped'
  BY DEF RemindersInv, RemindersTyped
<1>2. RemindersSourced' /\ (Alone => OneEach)' /\ PushFits' /\ OneActiveReminder'
  BY DEF RemindersInv, RemindersSourced, Announces, Alone, OneEach, PushFits, OneActiveReminder, Active
<1>3. CallersFit'
  BY DEF RemindersInv, CallersFit, CallerFits, Announces, Alone, Shown, SameReminder, Active
<1> QED  BY <1>1, <1>2, <1>3 DEF RemindersInv

\* Payments, due dates and the steps of a release keep the invariant.
LEMMA LoanStep ==
  ASSUME RemindersInv,
         \/ \E i \in Installments : Pay(i) \/ FallDue(i)
         \/ DayEnds \/ QueueRelease \/ CompleteRelease \/ WriteOverRelease
  PROVE  RemindersInv'
<1>0. /\ phone \in [running : BOOLEAN, release : {"no", "pending", "done"}]
      /\ unpaid \subseteq Installments /\ past \subseteq Installments
  BY DEF RemindersInv, RemindersTyped
<1>1. CASE \E i \in Installments : Pay(i)
  BY <1>0, <1>1, LoanMoves DEF Pay
<1>2. CASE \E i \in Installments : FallDue(i)
  BY <1>0, <1>2, LoanMoves DEF FallDue
<1>3. CASE DayEnds
  BY <1>0, <1>3, LoanMoves DEF DayEnds
<1>4. CASE QueueRelease \/ CompleteRelease \/ WriteOverRelease
  BY <1>0, <1>4, LoanMoves DEF QueueRelease, CompleteRelease, WriteOverRelease, ReleaseGoes
<1> QED  BY <1>1, <1>2, <1>3, <1>4

\* Starting a request keeps it.
LEMMA RequestStarts ==
  ASSUME RemindersInv, NEW c \in Callers, NEW kind \in Kinds, Request(c, kind)
  PROVE  RemindersInv'
<1>1. PICK r : r = Wanted(c, kind, Min(Candidates(kind)), TRUE)
  OBVIOUS
<1>2. Min(Candidates(kind)) \in Installments
  <2>1. Candidates(kind) \subseteq Installments /\ Candidates(kind) # {} /\ Installments \subseteq Nat
    BY ReminderAssumption DEF Request, Candidates, RemindersInv, RemindersTyped
  <2>2. Min(Candidates(kind)) \in Candidates(kind)
    BY <2>1, MinMember
  <2> QED  BY <2>1, <2>2
<1>3. r \in Requests /\ r # NoCaller /\ r.step = "find"
  BY <1>1, <1>2 DEF Wanted, Requests, NoCaller
<1>4. /\ Becomes(c, r) /\ c \in together.callers
      /\ UNCHANGED <<phone, unpaid, past, commands, pusher, mishaps, together, loosened>>
  BY <1>1 DEF Request
<1>5. CallerFits(r)'
  BY <1>3 DEF CallerFits
<1>6. loosened' \in BOOLEAN /\ mishaps' \in Nat
  BY <1>4 DEF RemindersInv, RemindersTyped
<1> QED  BY <1>3, <1>4, <1>5, <1>6, CallerGoes

\* A reminder of the policy job keeps it.
LEMMA JobReminds ==
  ASSUME RemindersInv, NEW c \in Callers, NEW kind \in Kinds, NEW i \in Installments, NEW force \in BOOLEAN,
         PolicyJob(c, kind, i, force)
  PROVE  RemindersInv'
<1>1. PICK r : r = Wanted(c, kind, i, ~force)
  OBVIOUS
<1>2. r \in Requests /\ r # NoCaller /\ (r.step = "find" \/ (r.step = "create" /\ force))
  BY <1>1 DEF Wanted, Requests, NoCaller
<1>3. /\ Becomes(c, r) /\ c \in together.callers /\ loosened' = (loosened \/ force)
      /\ UNCHANGED <<phone, unpaid, past, commands, pusher, mishaps, together>>
  BY <1>1 DEF PolicyJob
<1>4. CallerFits(r)'
  BY <1>2, <1>3 DEF CallerFits
<1>5. loosened' \in BOOLEAN /\ mishaps' \in Nat /\ (loosened => loosened')
  BY <1>3 DEF RemindersInv, RemindersTyped
<1> QED  BY <1>2, <1>3, <1>4, <1>5, CallerGoes

\* A request that ends keeps it.
LEMMA CallerLeaves ==
  ASSUME RemindersInv, NEW c \in Callers, Finishes(c),
         UNCHANGED <<phone, unpaid, past, commands, pusher, together, loosened>>, mishaps' \in Nat
  PROVE  RemindersInv'
<1>1. NoCaller \in Requests /\ Becomes(c, NoCaller) /\ CallerFits(NoCaller)'
  BY DEF Requests, Finishes, CallerFits, NoCaller
<1>2. loosened' \in BOOLEAN
  BY DEF RemindersInv, RemindersTyped
<1> QED  BY <1>1, <1>2, CallerGoes

\* The caller finds the command that it announces, or leaves.
LEMMA AnnounceStep ==
  ASSUME RemindersTyped, NEW c \in Callers, NEW k \in Nat, Announce(c, k),
         NEW i \in Installments, caller[c].installment = i
  PROVE  \E r \in Requests :
           /\ Becomes(c, r)
           /\ r = NoCaller \/ (r.step = "look" /\ r.installment = i /\ r.source = k)
<1>1. CASE caller[c].kind = "UPCOMING" /\ ~phone.running
  <2>1. PICK r : r = [step |-> "look", installment |-> i, source |-> k]
    OBVIOUS
  <2>2. r \in Requests /\ r.step = "look" /\ r.installment = i /\ r.source = k
    BY <2>1 DEF Requests
  <2>3. Becomes(c, r)
    BY <1>1, <2>1 DEF Announce
  <2> QED  BY <2>2, <2>3
<1>2. CASE ~(caller[c].kind = "UPCOMING" /\ ~phone.running)
  <2>1. NoCaller \in Requests /\ Becomes(c, NoCaller)
    BY <1>2 DEF Requests, Announce, Finishes
  <2> QED  BY <2>1
<1> QED  BY <1>1, <1>2

\* Looking for an active reminder keeps it.
LEMMA FindStep ==
  ASSUME RemindersInv, NEW c \in Callers, Find(c)
  PROVE  RemindersInv'
<1>0. PICK same : same = SameReminder(caller[c].kind, caller[c].installment)
  OBVIOUS
<1>1. /\ caller[c] \in [step : {"find", "create"}, kind : Kinds, installment : Installments]
      /\ caller[c].step = "find" /\ caller[c] # NoCaller
  BY RequestTypes DEF Find, RemindersInv, NoCaller
<1>2. c \in together.callers
  BY <1>1 DEF RemindersInv, CallersFit
<1>3. /\ UNCHANGED <<phone, unpaid, past, reminded, commands, pusher, mishaps, together, loosened>>
      /\ loosened' \in BOOLEAN /\ mishaps' \in Nat
  BY DEF Find, RemindersInv, RemindersTyped
<1>4. CASE same = {}
  <2>1. PICK r : r = [caller[c] EXCEPT !.step = "create"]
    OBVIOUS
  <2>2. r \in [step : {"find", "create"}, kind : Kinds, installment : Installments] /\ r.step = "create"
        /\ r.kind = caller[c].kind /\ r.installment = caller[c].installment
    BY <2>1, <1>1
  <2>3. r \in Requests
    BY <2>2 DEF Requests
  <2>4. Becomes(c, r)
    BY <1>0, <1>4, <2>1 DEF Find
  <2>5. CallerFits(r)'
    <3>1. SameReminder(r.kind, r.installment) = {}
      BY <2>2, <1>0, <1>4
    <3>2. SameReminder(r.kind, r.installment)' = {}
      BY <3>1, <1>3 DEF SameReminder, Active
    <3> QED  BY <3>2, <2>2 DEF CallerFits
  <2> QED  BY <2>3, <2>4, <2>5, <1>2, <1>3, CallerGoes
<1>5. CASE same # {}
  <2>0. PICK k : k = Max(same)
    OBVIOUS
  <2>1. k \in same
    <3>1. commands \in Seq(CommandDocs)
      BY DEF RemindersInv, RemindersTyped
    <3>2. Len(commands) \in Nat /\ same \subseteq 1..Len(commands)
      BY <3>1, <1>0 DEF SameReminder
    <3> QED  BY <3>2, <2>0, <1>5, MaxMember
  <2>2. k \in DOMAIN commands /\ commands[k].installment = caller[c].installment
    BY <2>1, <1>0 DEF SameReminder
  <2>3. Announce(c, k)
    BY <2>0, <1>0, <1>5 DEF Find, Reuse
  <2>4. k \in Nat
    <3>1. commands \in Seq(CommandDocs)
      BY DEF RemindersInv, RemindersTyped
    <3> QED  BY <3>1, <2>2
  <2>5. PICK i \in Installments : i = caller[c].installment
    BY <1>1
  <2>6. PICK r \in Requests :
           /\ Becomes(c, r)
           /\ r = NoCaller \/ (r.step = "look" /\ r.installment = i /\ r.source = k)
    BY <2>3, <2>4, <2>5, AnnounceStep DEF RemindersInv
  <2>7. CallerFits(r)'
    BY <2>2, <2>5, <2>6, <1>3 DEF CallerFits, Announces, NoCaller
  <2> QED  BY <2>6, <2>7, <1>2, <1>3, CallerGoes
<1> QED  BY <1>4, <1>5

\* So does looking for its notification.
LEMMA LookStep ==
  ASSUME RemindersInv, NEW c \in Callers, Look(c)
  PROVE  RemindersInv'
<1>1. /\ caller[c] \in [step : {"look", "notify"}, installment : Installments, source : Nat]
      /\ caller[c].step = "look" /\ caller[c] # NoCaller
  BY RequestTypes DEF Look, RemindersInv, NoCaller
<1>2. c \in together.callers /\ CallerFits(caller[c])
  BY <1>1 DEF RemindersInv, CallersFit
<1>3. /\ UNCHANGED <<phone, unpaid, past, reminded, commands, pusher, mishaps, together, loosened>>
      /\ loosened' \in BOOLEAN /\ mishaps' \in Nat
  BY DEF Look, RemindersInv, RemindersTyped
<1>4. CASE Shown(caller[c].source)
  BY <1>3, <1>4, CallerLeaves DEF Look
<1>5. CASE ~Shown(caller[c].source)
  <2>1. PICK r : r = [caller[c] EXCEPT !.step = "notify"]
    OBVIOUS
  <2>2. r \in [step : {"look", "notify"}, installment : Installments, source : Nat] /\ r.step = "notify"
        /\ r.source = caller[c].source /\ r.installment = caller[c].installment
    BY <2>1, <1>1
  <2>3. r \in Requests
    BY <2>2 DEF Requests
  <2>4. Becomes(c, r)
    BY <1>5, <2>1 DEF Look
  <2>5. CallerFits(r)'
    <3>1. ~Shown(r.source) /\ Announces(r.installment, r.source)
      BY <1>1, <1>2, <1>5, <2>2 DEF CallerFits
    <3> QED  BY <3>1, <2>2, <1>3 DEF CallerFits, Announces, Shown
  <2> QED  BY <2>3, <2>4, <2>5, <1>2, <1>3, CallerGoes
<1> QED  BY <1>4, <1>5

\* A request that dies keeps it.
LEMMA CallerCutShort ==
  ASSUME RemindersInv, NEW c \in Callers, CallerDies(c)
  PROVE  RemindersInv'
<1>1. mishaps' \in Nat
  BY DEF CallerDies, RemindersInv, RemindersTyped
<1> QED  BY <1>1, CallerLeaves DEF CallerDies

\* So does a request whose notification is refused or fails.
LEMMA NotifyLost ==
  ASSUME RemindersInv, NEW c \in Callers, NotifyRefused(c) \/ NotifyFails(c)
  PROVE  RemindersInv'
<1>1. mishaps' \in Nat
  BY DEF NotifyRefused, NotifyFails, RemindersInv, RemindersTyped
<1> QED  BY <1>1, CallerLeaves DEF NotifyRefused, NotifyFails

\* A caller adds a command, and goes on to announce it or leaves.
LEMMA CommandAdded ==
  ASSUME RemindersInv, NEW c \in Callers, NEW doc \in CommandDocs, NEW r \in Requests, Becomes(c, r),
         c \in together.callers, Len(commands) < together.commands, commands' = Append(commands, doc),
         UNCHANGED <<phone, unpaid, past, pusher, mishaps, together, loosened>>,
         doc.status = "pending", doc.kind \in Kinds <=> doc.source = 0,
         doc.source # 0 => Announces(doc.installment, doc.source),
         Alone /\ doc.source # 0 => ~Shown(doc.source),
         Alone /\ ~loosened /\ doc.kind \in Kinds => SameReminder(doc.kind, doc.installment) = {},
         r = NoCaller \/ (r.step = "look" /\ r.installment = doc.installment /\ r.source = Len(commands) + 1)
  PROVE  RemindersInv'
<1>0. /\ commands \in Seq(CommandDocs) /\ Len(commands) < together.commands /\ together \in Urgencies
      /\ caller \in [Callers -> Requests] /\ together.commands \in Nat
  BY ReminderAssumption DEF RemindersInv, RemindersTyped
<1>1. PICK n : n = Len(commands) + 1
  OBVIOUS
<1>2. /\ commands' \in Seq(CommandDocs) /\ Len(commands') = n /\ DOMAIN commands' = 1..n /\ n \in Nat
      /\ DOMAIN commands = 1..(n - 1) /\ Len(commands) = n - 1
      /\ \A k \in 1..(n - 1) : commands'[k] = commands[k]
      /\ commands'[n] = doc
  BY <1>0, <1>1, Appended
<1>3. /\ DOMAIN commands \subseteq DOMAIN commands' /\ n \in DOMAIN commands' /\ n \notin DOMAIN commands
      /\ \A k \in DOMAIN commands : commands'[k] = commands[k]
      /\ \A k \in DOMAIN commands' : k \in DOMAIN commands \/ k = n
      /\ n \in Nat \ {0}
  BY <1>2
<1>4. /\ caller' \in [Callers -> Requests] /\ caller'[c] = r
      /\ \A d \in Callers : d # c => caller'[d] = caller[d]
  BY <1>0 DEF Becomes
<1>5. RemindersTyped'
  <2>1. n <= together.commands
    BY <1>0, <1>2
  <2> QED  BY <2>1, <1>2, <1>4 DEF RemindersInv, RemindersTyped
<1>6. RemindersSourced'
  <2>1. RemindersSourced
    BY DEF RemindersInv
  <2>2. \A i, k : Announces(i, k) => Announces(i, k)'
    BY <1>3 DEF Announces
  <2>3. ASSUME NEW m \in DOMAIN commands'
        PROVE  /\ commands'[m].kind \in Kinds <=> commands'[m].source = 0
               /\ commands'[m].kind \in Kinds => commands'[m].status # "failed"
               /\ commands'[m].source # 0 => Announces(commands[m].installment, commands[m].source)'
    <3>1. CASE m \in DOMAIN commands
      BY <3>1, <2>1, <2>2, <1>3 DEF RemindersSourced, Announces
    <3>2. CASE m = n
      BY <3>2, <2>2, <1>2 DEF Announces
    <3> QED  BY <3>1, <3>2, <1>3
  <2> QED  BY <2>3 DEF RemindersSourced, Announces
<1>7. PushFits'
  BY <1>3 DEF RemindersInv, PushFits
<1>8. ASSUME Alone PROVE OneEach'
  <2>1. OneEach
    BY <1>8 DEF RemindersInv
  <2>2. \A m \in DOMAIN commands : doc.source # 0 => commands[m].source # doc.source
    BY <1>8 DEF Shown
  <2>3. ASSUME NEW k \in DOMAIN commands', NEW m \in DOMAIN commands',
               commands'[k].source = commands'[m].source, commands'[m].source # 0
        PROVE  k = m
    BY <2>1, <2>2, <2>3, <1>2, <1>3 DEF OneEach
  <2> QED  BY <2>3 DEF OneEach
<1>9. ASSUME Alone, ~loosened PROVE OneActiveReminder'
  <2>1. ASSUME NEW k \in DOMAIN commands, Active(k), commands[k].kind = doc.kind,
               commands[k].installment = doc.installment, doc.kind \in Kinds
        PROVE  FALSE
    <3>1. k \in SameReminder(doc.kind, doc.installment)
      BY <2>1 DEF SameReminder
    <3> QED  BY <3>1, <2>1, <1>9
  <2>2. ASSUME NEW k \in DOMAIN commands', NEW m \in DOMAIN commands', Active(k)', Active(m)',
               commands'[k].kind \in Kinds, commands'[k].kind = commands'[m].kind,
               commands'[k].installment = commands'[m].installment
        PROVE  k = m
    <3>1. CASE k \in DOMAIN commands /\ m \in DOMAIN commands
      BY <3>1, <2>2, <1>3, <1>9 DEF RemindersInv, OneActiveReminder, Active
    <3>2. CASE k \in DOMAIN commands /\ m = n
      BY <3>2, <2>1, <2>2, <1>2, <1>3 DEF Active
    <3>3. CASE k = n /\ m \in DOMAIN commands
      BY <3>3, <2>1, <2>2, <1>2, <1>3 DEF Active
    <3> QED  BY <3>1, <3>2, <3>3, <1>3
  <2> QED  BY <2>2 DEF OneActiveReminder
<1>10. (Alone' <=> Alone) /\ loosened' = loosened
  BY DEF Alone
<1>11. OneActiveReminder'
  BY <1>9, <1>10 DEF OneActiveReminder
<1>12. CallersFit'
  <2>0. CallersFit
    BY DEF RemindersInv
  <2>1. \A i, k : Announces(i, k) => Announces(i, k)'
    BY <1>3 DEF Announces
  <2>2. ASSUME NEW d \in Callers, d # c PROVE CallerFits(caller[d])'
    <3>1. CallerFits(caller[d]) /\ caller'[d] = caller[d]
      BY <2>0, <2>2, <1>4 DEF CallersFit
    <3>2. Alone => caller[d] = NoCaller
      BY <2>0, <2>2, AloneMeans DEF CallersFit, RemindersInv
    <3>3. caller[d].step \in {"look", "notify"} => Announces(caller[d].installment, caller[d].source)
      BY <3>1 DEF CallerFits
    <3>4. Alone' => caller'[d].step = "idle"
      BY <3>1, <3>2, <1>10 DEF NoCaller
    <3>5. caller'[d].step \in {"look", "notify"} => Announces(caller[d].installment, caller[d].source)'
      BY <3>1, <3>3, <2>1 DEF Announces
    <3> QED  BY <3>4, <3>5 DEF CallerFits
  <2>3. CallerFits(caller[c])'
    <3>1. CASE r = NoCaller
      BY <3>1, <1>4 DEF CallerFits, NoCaller
    <3>2. CASE r.step = "look" /\ r.installment = doc.installment /\ r.source = n
      <4>1. Announces(caller[c].installment, caller[c].source)'
        BY <3>2, <1>2, <1>3, <1>4 DEF Announces
      <4> QED  BY <4>1, <3>2, <1>4 DEF CallerFits
    <3> QED  BY <3>1, <3>2, <1>1
  <2>4. \A d \in Callers : (caller[d] # NoCaller)' => d \in together'.callers
    BY <2>0, <1>4 DEF CallersFit
  <2> QED  BY <2>2, <2>3, <2>4 DEF CallersFit
<1> QED  BY <1>5, <1>6, <1>7, <1>8, <1>10, <1>11, <1>12 DEF RemindersInv

\* A new command is what its arguments say.
LEMMA NewDocIs ==
  ASSUME NEW kind \in Kinds \cup {"VISIBLE"}, NEW i \in Installments, NEW s \in Nat
  PROVE  /\ NewDoc(kind, i, s) \in CommandDocs /\ NewDoc(kind, i, s).kind = kind
         /\ NewDoc(kind, i, s).installment = i /\ NewDoc(kind, i, s).source = s
         /\ NewDoc(kind, i, s).status = "pending" /\ NewDoc(kind, i, s).retryCount = 0
BY ReminderAssumption DEF NewDoc, CommandDocs, CommandStatuses

\* Creating a reminder keeps the invariant.
LEMMA CreateStep ==
  ASSUME RemindersInv, NEW c \in Callers, Create(c)
  PROVE  RemindersInv'
<1>1. /\ caller[c] \in [step : {"find", "create"}, kind : Kinds, installment : Installments]
      /\ caller[c].step = "create" /\ caller[c] # NoCaller
  BY RequestTypes DEF Create, RemindersInv, NoCaller
<1>2. c \in together.callers /\ CallerFits(caller[c])
  BY <1>1 DEF RemindersInv, CallersFit
<1>3. /\ UNCHANGED <<phone, unpaid, past, pusher, mishaps, together, loosened>>
      /\ loosened' \in BOOLEAN /\ mishaps' \in Nat
  BY DEF Create, RemindersInv, RemindersTyped
<1>4. CASE phone.release # "no"
  BY <1>3, <1>4, CallerLeaves DEF Create
<1>5. CASE phone.release = "no"
  <2>1. PICK kind \in Kinds, i \in Installments : kind = caller[c].kind /\ i = caller[c].installment
    BY <1>1
  <2>2. PICK doc : doc = NewDoc(kind, i, 0)
    OBVIOUS
  <2>3. /\ doc \in CommandDocs /\ doc.kind = kind /\ doc.installment = i /\ doc.source = 0
        /\ doc.status = "pending"
    BY <2>2, NewDocIs
  <2>4. /\ Len(commands) < together.commands /\ commands' = Append(commands, doc)
        /\ Announce(c, Len(commands) + 1)
    BY <1>5, <2>1, <2>2 DEF Create
  <2>5. Len(commands) + 1 \in Nat
    BY DEF RemindersInv, RemindersTyped
  <2>6. PICK r \in Requests :
           /\ Becomes(c, r)
           /\ r = NoCaller \/ (r.step = "look" /\ r.installment = i /\ r.source = Len(commands) + 1)
    BY <2>1, <2>4, <2>5, AnnounceStep DEF RemindersInv
  <2>7. Alone /\ ~loosened => SameReminder(doc.kind, doc.installment) = {}
    BY <1>1, <1>2, <2>1, <2>3 DEF CallerFits
  <2> QED  BY <1>2, <1>3, <2>3, <2>4, <2>6, <2>7, CommandAdded
<1> QED  BY <1>4, <1>5

\* Notifying keeps it.
LEMMA NotifyStep ==
  ASSUME RemindersInv, NEW c \in Callers, Notify(c)
  PROVE  RemindersInv'
<1>1. /\ caller[c] \in [step : {"look", "notify"}, installment : Installments, source : Nat]
      /\ caller[c].step = "notify" /\ caller[c] # NoCaller
  BY RequestTypes DEF Notify, RemindersInv, NoCaller
<1>2. c \in together.callers /\ CallerFits(caller[c])
  BY <1>1 DEF RemindersInv, CallersFit
<1>3. PICK s \in Nat, i \in Installments : s = caller[c].source /\ i = caller[c].installment
  BY <1>1
<1>4. PICK doc : doc = NewDoc("VISIBLE", i, s)
  OBVIOUS
<1>5. /\ doc \in CommandDocs /\ doc.kind = "VISIBLE" /\ doc.installment = i /\ doc.source = s
      /\ doc.status = "pending"
  BY <1>4, NewDocIs
<1>6. Announces(i, s) /\ (Alone => ~Shown(s)) /\ s # 0
  <2>1. commands \in Seq(CommandDocs)
    BY DEF RemindersInv, RemindersTyped
  <2>2. Announces(i, s) /\ (Alone => ~Shown(s))
    BY <1>1, <1>2, <1>3 DEF CallerFits
  <2> QED  BY <2>1, <2>2 DEF Announces
<1>7. /\ UNCHANGED <<phone, unpaid, past, pusher, mishaps, together, loosened>>
      /\ Len(commands) < together.commands /\ commands' = Append(commands, doc)
  BY <1>3, <1>4 DEF Notify
<1>8. NoCaller \in Requests /\ Becomes(c, NoCaller)
  BY DEF Requests, Notify, Finishes
<1>9. doc.kind \notin Kinds
  BY <1>5 DEF Kinds
<1> QED  BY <1>2, <1>5, <1>6, <1>7, <1>8, <1>9, CommandAdded
\* A command is written without becoming another one, or active again.
LEMMA CommandWritten ==
  ASSUME RemindersInv, NEW k \in DOMAIN commands, NEW d \in CommandDocs, commands' = [commands EXCEPT ![k] = d],
         d.kind = commands[k].kind, d.installment = commands[k].installment, d.source = commands[k].source,
         d.kind \in Kinds => d.status # "failed",
         loosened' \in BOOLEAN, loosened => loosened',
         ~loosened' /\ d.kind \in Kinds /\ d.status \in {"pending", "sent"} => Active(k),
         UNCHANGED <<phone, unpaid, past, caller, mishaps, together>>,
         pusher' \in Pushes, PushFits'
  PROVE  RemindersInv'
<1>0. commands \in Seq(CommandDocs)
  BY DEF RemindersInv, RemindersTyped
<1>1. /\ commands' \in Seq(CommandDocs) /\ Len(commands') = Len(commands) /\ DOMAIN commands' = DOMAIN commands
      /\ commands'[k] = d /\ \A n \in DOMAIN commands : n # k => commands'[n] = commands[n]
  BY <1>0
<1>2. \A n \in DOMAIN commands :
        /\ commands'[n].kind = commands[n].kind /\ commands'[n].installment = commands[n].installment
        /\ commands'[n].source = commands[n].source
  BY <1>1
<1>3. RemindersTyped'
  BY <1>1 DEF RemindersInv, RemindersTyped
<1>4. \A i, n : Announces(i, n) <=> Announces(i, n)'
  BY <1>1, <1>2 DEF Announces
<1>5. RemindersSourced'
  <2>1. ASSUME NEW n \in DOMAIN commands'
        PROVE  /\ commands'[n].kind \in Kinds <=> commands'[n].source = 0
               /\ commands'[n].kind \in Kinds => commands'[n].status # "failed"
               /\ commands'[n].source # 0 => Announces(commands[n].installment, commands[n].source)'
    BY <1>1, <1>2, <1>4 DEF RemindersInv, RemindersSourced, Announces
  <2> QED  BY <2>1 DEF RemindersSourced, Announces
<1>6. (Alone <=> Alone')
  BY DEF Alone
<1>7. (Alone => OneEach)'
  BY <1>1, <1>2, <1>6 DEF RemindersInv, OneEach
<1>8. \A n \in DOMAIN commands : ~loosened' /\ commands[n].kind \in Kinds /\ Active(n)' => Active(n)
  BY <1>1, <1>2 DEF Active
<1>9. OneActiveReminder'
  <2>1. ASSUME Alone, ~loosened',
               NEW n \in DOMAIN commands', NEW m \in DOMAIN commands', Active(n)', Active(m)',
               commands'[n].kind \in Kinds, commands'[n].kind = commands'[m].kind,
               commands'[n].installment = commands'[m].installment
        PROVE  n = m
    <3>1. /\ n \in DOMAIN commands /\ m \in DOMAIN commands
          /\ commands[n].kind \in Kinds /\ commands[n].kind = commands[m].kind
          /\ commands[n].installment = commands[m].installment
      BY <2>1, <1>1, <1>2
    <3>2. Active(n) /\ Active(m)
      BY <2>1, <3>1, <1>8
    <3>3. ~loosened
      BY <2>1
    <3> QED  BY <3>1, <3>2, <3>3, <2>1 DEF RemindersInv, OneActiveReminder
  <2> QED  BY <2>1, <1>6 DEF OneActiveReminder
<1>10. CallersFit'
  <2>0. CallersFit
    BY DEF RemindersInv
  <2>1. ASSUME NEW c \in Callers PROVE CallerFits(caller[c])'
    <3>1. CallerFits(caller[c]) /\ caller'[c] = caller[c]
      BY <2>0 DEF CallersFit
    <3>2. caller'[c].step \in {"look", "notify"} => Announces(caller[c].installment, caller[c].source)'
      BY <3>1, <1>4 DEF CallerFits, Announces
    <3>3. Alone' /\ caller'[c].step = "notify" => ~Shown(caller[c].source)'
      BY <3>1, <1>1, <1>2, <1>6 DEF CallerFits, Shown
    <3>4. ASSUME Alone', ~loosened', caller'[c].step = "create"
          PROVE  SameReminder(caller[c].kind, caller[c].installment)' = {}
      <4>1. SameReminder(caller[c].kind, caller[c].installment) = {}
        BY <3>1, <3>4, <1>6 DEF CallerFits
      <4>2. caller[c].kind \in Kinds
        BY <3>1, <3>4, RequestTypes DEF RemindersInv
      <4>3. ASSUME NEW n \in DOMAIN commands', Active(n)', commands'[n].kind = caller[c].kind,
                   commands'[n].installment = caller[c].installment
            PROVE  FALSE
        <5>1. n \in DOMAIN commands /\ commands[n].kind \in Kinds
          BY <4>2, <4>3, <1>1, <1>2
        <5>2. Active(n)
          BY <5>1, <4>3, <3>4, <1>8
        <5>3. n \in SameReminder(caller[c].kind, caller[c].installment)
          BY <5>1, <5>2, <4>3, <1>2 DEF SameReminder
        <5> QED  BY <5>3, <4>1
      <4> QED  BY <4>3 DEF SameReminder
    <3> QED  BY <3>2, <3>3, <3>4 DEF CallerFits
  <2>2. \A c \in Callers : (caller[c] # NoCaller)' => c \in together'.callers
    BY <2>0 DEF CallersFit
  <2> QED  BY <2>1, <2>2 DEF CallersFit
<1> QED  BY <1>3, <1>5, <1>7, <1>9, <1>10 DEF RemindersInv

\* Taking a command to push keeps it.
LEMMA TakeStep ==
  ASSUME RemindersInv, NEW k, Take(k)
  PROVE  RemindersInv'
<1>1. /\ k \in DOMAIN commands /\ Sendable(k) /\ pusher' = [id |-> k, doc |-> commands[k]]
      /\ UNCHANGED <<phone, unpaid, past, reminded, commands, caller, mishaps, together, loosened>>
      /\ commands \in Seq(CommandDocs)
  BY DEF Take, RemindersInv, RemindersTyped
<1>2. /\ pusher' \in Pushes /\ pusher'.id = k /\ pusher'.doc = commands[k]
  BY <1>1 DEF Pushes
<1>3. RemindersTyped'
  BY <1>1, <1>2 DEF RemindersInv, RemindersTyped
<1>4. PushFits'
  BY <1>1, <1>2 DEF PushFits, Sendable
<1>5. RemindersSourced' /\ (Alone => OneEach)' /\ OneActiveReminder'
  BY <1>1 DEF RemindersInv, RemindersSourced, Announces, Alone, OneEach, OneActiveReminder, Active
<1>6. CallersFit'
  BY <1>1 DEF RemindersInv, CallersFit, CallerFits, Announces, Alone, Shown, SameReminder, Active
<1> QED  BY <1>3, <1>4, <1>5, <1>6 DEF RemindersInv

\* What a save writes: the fields that the batch changed.
LEMMA SavedIs ==
  ASSUME NEW doc \in CommandDocs, NEW read \in CommandDocs, NEW new \in CommandDocs
  PROVE  /\ SavedReminder(doc, read, new) \in CommandDocs
         /\ new.kind = read.kind => SavedReminder(doc, read, new).kind = doc.kind
         /\ new.installment = read.installment => SavedReminder(doc, read, new).installment = doc.installment
         /\ new.source = read.source => SavedReminder(doc, read, new).source = doc.source
         /\ new.status = read.status => SavedReminder(doc, read, new).status = doc.status
         /\ new.status # read.status => SavedReminder(doc, read, new).status = new.status
<1>1. DOMAIN doc = {"kind", "installment", "source", "status", "retryCount"}
  BY DEF CommandDocs
<1>2. PICK d : d = SavedReminder(doc, read, new)
  OBVIOUS
<1>3. /\ d = [f \in {"kind", "installment", "source", "status", "retryCount"} |->
                IF new[f] = read[f] THEN doc[f] ELSE new[f]]
  BY <1>1, <1>2 DEF SavedReminder
<1>4. /\ d.kind = IF new.kind = read.kind THEN doc.kind ELSE new.kind
      /\ d.installment = IF new.installment = read.installment THEN doc.installment ELSE new.installment
      /\ d.source = IF new.source = read.source THEN doc.source ELSE new.source
      /\ d.status = IF new.status = read.status THEN doc.status ELSE new.status
      /\ d.retryCount = IF new.retryCount = read.retryCount THEN doc.retryCount ELSE new.retryCount
  BY <1>3
<1>5. d = [kind |-> d.kind, installment |-> d.installment, source |-> d.source, status |-> d.status,
           retryCount |-> d.retryCount]
  BY <1>3
<1>6. d \in CommandDocs
  <2>1. d.kind \in Kinds \cup {"VISIBLE"} /\ d.installment \in Installments /\ d.source \in Nat
        /\ d.status \in CommandStatuses /\ d.retryCount \in 0..Attempts
    BY <1>4 DEF CommandDocs
  <2> QED  BY <2>1, <1>5 DEF CommandDocs
<1> QED  BY <1>2, <1>4, <1>6

\* The batch saves its result; only an acknowledged reminder may become active by it.
LEMMA PushSaved ==
  ASSUME RemindersInv, pusher # NoPush, NEW new \in CommandDocs, SavePushed(new),
         new.kind = pusher.doc.kind, new.installment = pusher.doc.installment, new.source = pusher.doc.source,
         new.kind \in Kinds => new.status # "failed"
  PROVE  RemindersInv'
<1>1. /\ pusher.id \in Nat /\ pusher.doc \in CommandDocs /\ commands \in Seq(CommandDocs)
      /\ pusher.id \in DOMAIN commands
  BY PushTypes DEF RemindersInv, RemindersTyped, PushFits
<1>2. commands[pusher.id] \in CommandDocs
  BY <1>1
<1>3. PICK d : d = SavedReminder(commands[pusher.id], pusher.doc, new)
  OBVIOUS
<1>4. /\ d \in CommandDocs /\ d.kind = commands[pusher.id].kind
      /\ d.installment = commands[pusher.id].installment /\ d.source = commands[pusher.id].source
      /\ new.status = pusher.doc.status => d.status = commands[pusher.id].status
      /\ new.status # pusher.doc.status => d.status = new.status
  BY <1>1, <1>2, <1>3, SavedIs
<1>5. /\ commands' = [commands EXCEPT ![pusher.id] = d] /\ pusher' = NoPush
      /\ UNCHANGED <<phone, unpaid, past, reminded, caller, mishaps, together, loosened>>
  BY <1>3 DEF SavePushed
<1>6. d.kind = pusher.doc.kind
  BY <1>4 DEF RemindersInv, PushFits
<1>7. d.kind \in Kinds => commands[pusher.id].status # "failed"
  BY <1>1, <1>4 DEF RemindersInv, RemindersSourced
<1>8. d.kind \in Kinds => d.status # "failed"
  BY <1>4, <1>6, <1>7
<1>9. ASSUME ~loosened', d.kind \in Kinds PROVE Active(pusher.id)
  <2>1. commands[pusher.id].status = pusher.doc.status /\ pusher.doc.status \in {"pending", "failed"}
    BY <1>9, <1>5 DEF RemindersInv, PushFits
  <2> QED  BY <2>1, <1>7, <1>9 DEF Active
<1>10. pusher' \in Pushes /\ PushFits'
  BY <1>5 DEF Pushes, PushFits
<1>11. loosened' \in BOOLEAN
  BY <1>5 DEF RemindersInv, RemindersTyped
<1> QED  BY <1>1, <1>4, <1>5, <1>8, <1>9, <1>10, <1>11, CommandWritten

\* The end of a push keeps it.
LEMMA PushStep ==
  ASSUME RemindersInv, Pushed \/ NotPushed
  PROVE  RemindersInv'
<1>1. pusher # NoPush
  BY DEF Pushed, NotPushed
<1>2. pusher.doc \in CommandDocs /\ pusher.doc.retryCount < Attempts
  BY <1>1, PushTypes DEF RemindersInv, PushFits
<1>3. CASE Pushed
  <2>1. PICK new : new = [pusher.doc EXCEPT !.status = "sent"]
    OBVIOUS
  <2>2. /\ new \in CommandDocs /\ new.kind = pusher.doc.kind /\ new.installment = pusher.doc.installment
        /\ new.source = pusher.doc.source /\ new.status = "sent"
    BY <2>1, <1>2 DEF CommandDocs, CommandStatuses
  <2> QED  BY <1>1, <1>3, <2>1, <2>2, PushSaved DEF Pushed
<1>4. CASE NotPushed
  <2>0. PICK s : s = (IF pusher.doc.kind = "VISIBLE" THEN "failed" ELSE "pending")
    OBVIOUS
  <2>1. PICK mid : mid = [pusher.doc EXCEPT !.status = s]
    OBVIOUS
  <2>2. PICK new : new = [mid EXCEPT !.retryCount = mid.retryCount + 1]
    OBVIOUS
  <2>3. mid \in CommandDocs /\ mid.kind = pusher.doc.kind /\ mid.installment = pusher.doc.installment
        /\ mid.source = pusher.doc.source /\ mid.status = s /\ mid.retryCount = pusher.doc.retryCount
    BY <2>0, <2>1, <1>2 DEF CommandDocs, CommandStatuses
  <2>4. mid.retryCount + 1 \in 0..Attempts
    BY <2>3, <1>2, ReminderAssumption DEF CommandDocs
  <2>5. new \in CommandDocs /\ new.kind = pusher.doc.kind /\ new.installment = pusher.doc.installment
        /\ new.source = pusher.doc.source /\ new.status = s
    BY <2>2, <2>3, <2>4 DEF CommandDocs
  <2>6. new.kind \in Kinds => new.status # "failed"
    BY <2>0, <2>5 DEF Kinds
  <2>7. new = Unsent(pusher.doc)
    BY <2>0, <2>1, <2>2, <1>2 DEF Unsent, CommandDocs
  <2> QED  BY <1>1, <1>4, <2>5, <2>6, <2>7, PushSaved DEF NotPushed
<1> QED  BY <1>3, <1>4

\* An acknowledgement keeps it.
LEMMA AcknowledgeStep ==
  ASSUME RemindersInv, NEW k, Acknowledge(k)
  PROVE  RemindersInv'
<1>1. /\ k \in DOMAIN commands /\ loosened' = (loosened \/ pusher.id = k)
      /\ UNCHANGED <<phone, unpaid, past, reminded, caller, pusher, mishaps, together>>
      /\ commands \in Seq(CommandDocs)
  BY DEF Acknowledge, RemindersInv, RemindersTyped
<1>2. commands[k] \in CommandDocs
  BY <1>1
<1>3. PICK d : d = [commands[k] EXCEPT !.status = "acknowledged"]
  OBVIOUS
<1>4. /\ d \in CommandDocs /\ d.kind = commands[k].kind /\ d.installment = commands[k].installment
      /\ d.source = commands[k].source /\ d.status = "acknowledged"
  BY <1>2, <1>3 DEF CommandDocs, CommandStatuses
<1>5. commands' = [commands EXCEPT ![k] = d]
  BY <1>3 DEF Acknowledge
<1>6. loosened' \in BOOLEAN /\ pusher' \in Pushes /\ (loosened => loosened')
  BY <1>1 DEF RemindersInv, RemindersTyped
<1>7. PushFits'
  <2>1. DOMAIN commands' = DOMAIN commands /\ commands'[k] = d
        /\ \A n \in DOMAIN commands : n # k => commands'[n] = commands[n]
    BY <1>1, <1>5
  <2>2. \A n \in DOMAIN commands :
          /\ commands'[n].kind = commands[n].kind /\ commands'[n].installment = commands[n].installment
          /\ commands'[n].source = commands[n].source
    BY <2>1, <1>4
  <2>3. PushFits
    BY DEF RemindersInv
  <2>4. ~loosened' => ~loosened /\ pusher.id # k
    BY <1>1
  <2> QED  BY <1>1, <2>1, <2>2, <2>3, <2>4 DEF PushFits
<1> QED  BY <1>1, <1>4, <1>5, <1>6, <1>7, CommandWritten
\* Every step keeps it.
LEMMA RemindersStep == ASSUME RemindersInv, RemindersNext PROVE RemindersInv'
<1>1. ASSUME NEW c \in Callers,
             \/ QueueOverdueReminder(c) \/ QueueUpcomingReminder(c) \/ SendUpcomingPayment(c)
             \/ \E kind \in Kinds : SendAdminReminder(c, kind)
      PROVE  RemindersInv'
  <2>1. \E kind \in Kinds : Request(c, kind)
    BY <1>1 DEF QueueOverdueReminder, QueueUpcomingReminder, SendUpcomingPayment, SendAdminReminder, Kinds
  <2> QED  BY <2>1, RequestStarts
<1>2. ASSUME NEW c \in Callers, NEW i \in Installments, NEW force \in BOOLEAN,
             RemindOfUpcoming(c, i, force) \/ RemindOfGrace(c, i, force)
      PROVE  RemindersInv'
  <2>1. \E kind \in Kinds : PolicyJob(c, kind, i, force)
    BY <1>2 DEF RemindOfUpcoming, RemindOfGrace, Kinds
  <2> QED  BY <2>1, JobReminds
<1>3. ASSUME NEW c \in Callers, CallerStep(c) \/ CallerDies(c) PROVE RemindersInv'
  BY <1>3, FindStep, CreateStep, LookStep, NotifyStep, NotifyLost, CallerCutShort DEF CallerStep
<1>4. ASSUME NEW k \in CommandNumbers, Take(k) \/ Acknowledge(k) PROVE RemindersInv'
  BY <1>4, TakeStep, AcknowledgeStep
<1>5. CASE Pushed \/ NotPushed
  BY <1>5, PushStep
<1>6. CASE \/ \E i \in Installments : Pay(i) \/ FallDue(i)
           \/ DayEnds \/ QueueRelease \/ CompleteRelease \/ WriteOverRelease
  BY <1>6, LoanStep
<1> QED  BY <1>1, <1>2, <1>3, <1>4, <1>5, <1>6 DEF RemindersNext

\* It holds at the start.
LEMMA RemindersStart == ASSUME RemindersInit PROVE RemindersInv
<1>1. /\ commands \in Seq(CommandDocs) /\ Len(commands) = 0 /\ DOMAIN commands = {}
      /\ together \in Urgencies /\ mishaps = 0 /\ loosened = FALSE /\ pusher = NoPush
      /\ \A c \in Callers : caller[c] = NoCaller
  BY DEF RemindersInit
<1>2. RemindersTyped
  <2>1. phone \in [running : BOOLEAN, release : {"no", "pending", "done"}]
    BY ReminderAssumption DEF RemindersInit
  <2>2. caller \in [Callers -> Requests] /\ unpaid \subseteq Installments /\ past \subseteq Installments
    BY DEF RemindersInit, Requests
  <2>3. together.commands \in Nat
    BY <1>1, ReminderAssumption
  <2>4. mishaps \in Nat /\ loosened \in BOOLEAN /\ pusher \in Pushes /\ Len(commands) <= together.commands
    <3>1. pusher \in Pushes
      BY <1>1 DEF Pushes
    <3>2. mishaps \in Nat /\ loosened \in BOOLEAN
      BY <1>1
    <3>3. Len(commands) <= together.commands
      BY <1>1, <2>3
    <3> QED  BY <3>1, <3>2, <3>3
  <2> QED  BY <1>1, <2>1, <2>2, <2>4 DEF RemindersTyped
<1>3. RemindersSourced /\ PushFits /\ OneActiveReminder /\ OneEach
  BY <1>1 DEF RemindersSourced, PushFits, OneActiveReminder, OneEach
<1>4. CallersFit
  BY <1>1 DEF CallersFit, CallerFits, NoCaller
<1> QED  BY <1>2, <1>3, <1>4 DEF RemindersInv

\* Steps of the other parts keep it.
LEMMA RemindersKept == ASSUME RemindersInv, UNCHANGED reminderVars PROVE RemindersInv'
BY DEF RemindersInv, RemindersTyped, RemindersSourced, Announces, OneEach, CallersFit, CallerFits, Alone, Shown,
       SameReminder, Active, PushFits, OneActiveReminder, reminderVars

\* It contains the property.
LEMMA RemindersMean == ASSUME RemindersInv PROVE RemindersUnique
<1>0. commands \in Seq(CommandDocs) /\ Len(commands) <= together.commands /\ together \in Urgencies
      /\ together.commands \in Nat
  BY ReminderAssumption DEF RemindersInv, RemindersTyped
<1>1. ASSUME NEW k \in DOMAIN commands PROVE commands[k] \in ReminderDocs \cup VisibleDocs
  <2>1. PICK d \in CommandDocs : d = commands[k]
    BY <1>0
  <2>2. d = [kind |-> d.kind, installment |-> d.installment, source |-> d.source, status |-> d.status,
             retryCount |-> d.retryCount]
    BY DEF CommandDocs
  <2>3. CASE d.source = 0
    <3>1. d.kind \in Kinds
      BY <2>1, <2>3 DEF RemindersInv, RemindersSourced
    <3> QED  BY <2>1, <2>2, <2>3, <3>1 DEF ReminderDocs, CommandDocs
  <2>4. CASE d.source # 0
    <3>1. d.kind = "VISIBLE" /\ d.source \in DOMAIN commands
      BY <2>1, <2>4 DEF RemindersInv, RemindersSourced, Announces, CommandDocs
    <3>2. d.source \in 1..together.commands
      BY <3>1, <1>0
    <3>3. d.source \in CommandNumbers
      BY <3>2, <1>0 DEF CommandNumbers
    <3> QED  BY <2>1, <2>2, <3>1, <3>3 DEF VisibleDocs, CommandDocs
  <2> QED  BY <2>3, <2>4
<1>2. pusher.id \in {0} \cup DOMAIN commands
  BY DEF RemindersInv, PushFits, NoPush
<1>3. \A c \in Callers : caller[c].step \in {"idle", "find", "create", "look", "notify"}
  <2>1. ASSUME NEW c \in Callers PROVE caller[c].step \in {"idle", "find", "create", "look", "notify"}
    <3>1. caller[c] \in Requests
      BY DEF RemindersInv, RemindersTyped
    <3> QED  BY <3>1 DEF Requests, NoCaller
  <2> QED  BY <2>1
<1>4. RemindersTypeOK
  BY <1>0, <1>1, <1>2, <1>3 DEF RemindersInv, RemindersTyped, RemindersTypeOK
<1>5. ASSUME Alone, NEW k \in DOMAIN commands
      PROVE  Cardinality({n \in DOMAIN commands : commands[n].source = k}) <= 1
  <2>1. k # 0
    BY <1>0
  <2>2. \A m, n \in {n \in DOMAIN commands : commands[n].source = k} : m = n
    BY <2>1, <1>5 DEF RemindersInv, OneEach
  <2>3. Cardinality({n \in DOMAIN commands : commands[n].source = k}) \in {0, 1}
    BY <2>2, AtMostOne
  <2> QED  BY <2>3
<1> QED  BY <1>4, <1>5 DEF RemindersUnique, OneVisible, RemindersInv

\* A notification of the reminder that a caller announces is visible, and of its instalment.
LEMMA ShownIs ==
  ASSUME RemindersInv, NEW s, NEW i, Announces(i, s), Shown(s)
  PROVE  \E n \in DOMAIN commands : commands[n].kind = "VISIBLE" /\ commands[n].installment = i
<1>1. PICK n \in DOMAIN commands : commands[n].source = s
  BY DEF Shown
<1>2. s # 0 /\ commands[n] \in CommandDocs
  <2>1. commands \in Seq(CommandDocs)
    BY DEF RemindersInv, RemindersTyped
  <2> QED  BY <2>1, <1>1 DEF Announces
<1>3. commands[n].kind = "VISIBLE" /\ Announces(commands[n].installment, s)
  BY <1>1, <1>2 DEF RemindersInv, RemindersSourced, CommandDocs
<1> QED  BY <1>3 DEF Announces

EndAnnounced(c) ==
  Ends(c) /\ WantsNotification(c) =>
    \E n \in DOMAIN commands' :
      commands'[n].kind = "VISIBLE" /\ commands'[n].installment = caller[c].installment

\* A caller that does not move has not ended.
LEMMA OthersWork ==
  ASSUME RemindersInv, NEW c \in Callers, NEW d \in Callers, d # c, NEW r, Becomes(d, r)
  PROVE  EndAnnounced(c)
<1>1. caller'[c] = caller[c]
  BY DEF RemindersInv, RemindersTyped, Becomes
<1> QED  BY <1>1 DEF EndAnnounced, Ends

\* A request that moves is what it moved to.
LEMMA Moved ==
  ASSUME RemindersInv, NEW c \in Callers, NEW r, Becomes(c, r)
  PROVE  caller'[c] = r
BY DEF RemindersInv, RemindersTyped, Becomes

\* A step that ends a caller's work has announced what it wanted announced.
LEMMA CallerAnnounces ==
  ASSUME RemindersInv, NEW c \in Callers, CallerStep(c)
  PROVE  EndAnnounced(c)
<1>0. SUFFICES ASSUME Ends(c), WantsNotification(c)
      PROVE  \E n \in DOMAIN commands' :
               commands'[n].kind = "VISIBLE" /\ commands'[n].installment = caller[c].installment
  BY DEF EndAnnounced
<1>1. CASE Find(c)
  <2>1. caller[c].step = "find" /\ caller[c].kind = "UPCOMING" /\ ~phone.running
    BY <1>0, <1>1 DEF Find, WantsNotification
  <2>2. \E r : Becomes(c, r) /\ r.step # "idle"
    <3>1. CASE SameReminder(caller[c].kind, caller[c].installment) = {}
      <4>1. caller[c] \in [step : {"find", "create"}, kind : Kinds, installment : Installments]
        BY <2>1, RequestTypes DEF RemindersInv
      <4>2. PICK r : r = [caller[c] EXCEPT !.step = "create"]
        OBVIOUS
      <4>3. r.step = "create" /\ Becomes(c, r)
        BY <4>1, <4>2, <3>1, <1>1 DEF Find
      <4> QED  BY <4>3
    <3>2. CASE SameReminder(caller[c].kind, caller[c].installment) # {}
      <4>1. PICK k : Announce(c, k)
        BY <3>2, <1>1 DEF Find, Reuse
      <4>2. PICK r : r = [step |-> "look", installment |-> caller[c].installment, source |-> k]
        OBVIOUS
      <4>3. Becomes(c, r) /\ r.step = "look"
        BY <4>1, <4>2, <2>1 DEF Announce
      <4> QED  BY <4>3
    <3> QED  BY <3>1, <3>2
  <2>3. caller'[c].step # "idle"
    BY <2>2, Moved
  <2> QED  BY <2>3, <1>0 DEF Ends
<1>2. CASE Create(c)
  BY <1>0, <1>2 DEF Create, WantsNotification
<1>3. CASE Look(c)
  <2>1. caller[c] \in [step : {"look", "notify"}, installment : Installments, source : Nat] /\ caller[c].step = "look"
    BY <1>3, RequestTypes DEF Look, RemindersInv
  <2>2. CASE Shown(caller[c].source)
    <3>1. Announces(caller[c].installment, caller[c].source)
      BY <2>1 DEF RemindersInv, CallersFit, CallerFits
    <3>2. commands' = commands
      BY <1>3 DEF Look
    <3>3. \E n \in DOMAIN commands : commands[n].kind = "VISIBLE" /\ commands[n].installment = caller[c].installment
      BY <2>2, <3>1, ShownIs
    <3> QED  BY <3>2, <3>3
  <2>3. CASE ~Shown(caller[c].source)
    <3>1. PICK r : r = [caller[c] EXCEPT !.step = "notify"]
      OBVIOUS
    <3>2. r.step = "notify" /\ Becomes(c, r)
      BY <2>1, <2>3, <3>1, <1>3 DEF Look
    <3>3. caller'[c].step # "idle"
      BY <3>2, Moved
    <3> QED  BY <3>3, <1>0 DEF Ends
  <2> QED  BY <2>2, <2>3
<1>4. CASE Notify(c)
  <2>1. caller[c] \in [step : {"look", "notify"}, installment : Installments, source : Nat]
    BY <1>4, RequestTypes DEF Notify, RemindersInv
  <2>2. PICK doc : doc = NewDoc("VISIBLE", caller[c].installment, caller[c].source)
    OBVIOUS
  <2>3. doc \in CommandDocs /\ doc.kind = "VISIBLE" /\ doc.installment = caller[c].installment
    BY <2>1, <2>2, NewDocIs
  <2>4. commands' = Append(commands, doc) /\ commands \in Seq(CommandDocs)
    BY <2>2, <1>4 DEF Notify, RemindersInv, RemindersTyped
  <2>5. Len(commands) + 1 \in DOMAIN commands' /\ commands'[Len(commands) + 1] = doc
    BY <2>3, <2>4, Appended
  <2> QED  BY <2>3, <2>5
<1>5. CASE NotifyRefused(c)
  BY <1>0, <1>5 DEF NotifyRefused, WantsNotification
<1>6. CASE NotifyFails(c)
  <2>1. mishaps' # mishaps
    BY <1>6 DEF NotifyFails, RemindersInv, RemindersTyped
  <2> QED  BY <2>1, <1>0 DEF Ends
<1> QED  BY <1>1, <1>2, <1>3, <1>4, <1>5, <1>6 DEF CallerStep

\* So does every step.
LEMMA StepAnnounces ==
  ASSUME RemindersInv, RemindersNext, NEW c \in Callers
  PROVE  EndAnnounced(c)
<1>1. ASSUME NEW d \in Callers, NEW kind \in Kinds, Request(d, kind) PROVE EndAnnounced(c)
  <2>1. PICK r : Becomes(d, r)
    BY <1>1 DEF Request
  <2>2. d = c => caller[c].step = "idle"
    BY <1>1 DEF Request
  <2> QED  BY <2>1, <2>2, OthersWork DEF EndAnnounced, Ends
<1>2. ASSUME NEW d \in Callers, NEW kind \in Kinds, NEW i, NEW force, PolicyJob(d, kind, i, force)
      PROVE  EndAnnounced(c)
  <2>1. PICK r : Becomes(d, r)
    BY <1>2 DEF PolicyJob
  <2>2. d = c => caller[c].step = "idle"
    BY <1>2 DEF PolicyJob
  <2> QED  BY <2>1, <2>2, OthersWork DEF EndAnnounced, Ends
<1>3. ASSUME NEW d \in Callers, CallerStep(d) PROVE EndAnnounced(c)
  <2>1. CASE d = c
    BY <2>1, <1>3, CallerAnnounces
  <2>2. CASE d # c
    <3>1. \E r : Becomes(d, r)
      BY <1>3 DEF CallerStep, Find, Create, Look, Notify, NotifyRefused, NotifyFails, Reuse, Announce, Finishes
    <3> QED  BY <3>1, <2>2, OthersWork
  <2> QED  BY <2>1, <2>2
<1>4. ASSUME NEW d \in Callers, CallerDies(d) PROVE EndAnnounced(c)
  <2>1. mishaps' # mishaps
    BY <1>4 DEF CallerDies, RemindersInv, RemindersTyped
  <2> QED  BY <2>1 DEF EndAnnounced, Ends
<1>5. CASE UNCHANGED caller
  BY <1>5 DEF EndAnnounced, Ends
<1>6. ASSUME NEW d \in Callers,
             \/ QueueOverdueReminder(d) \/ QueueUpcomingReminder(d) \/ SendUpcomingPayment(d)
             \/ \E kind \in Kinds : SendAdminReminder(d, kind)
      PROVE  \E kind \in Kinds : Request(d, kind)
  BY <1>6 DEF QueueOverdueReminder, QueueUpcomingReminder, SendUpcomingPayment, SendAdminReminder, Kinds
<1>7. ASSUME NEW d \in Callers, NEW i \in Installments, NEW force \in BOOLEAN,
             RemindOfUpcoming(d, i, force) \/ RemindOfGrace(d, i, force)
      PROVE  \E kind \in Kinds : PolicyJob(d, kind, i, force)
  BY <1>7 DEF RemindOfUpcoming, RemindOfGrace, Kinds
<1>8. ASSUME NEW k, Take(k) \/ Acknowledge(k) PROVE UNCHANGED caller
  BY <1>8 DEF Take, Acknowledge
<1>9. ASSUME \/ Pushed \/ NotPushed \/ DayEnds \/ QueueRelease \/ CompleteRelease \/ WriteOverRelease
             \/ \E i \in Installments : Pay(i) \/ FallDue(i)
      PROVE  UNCHANGED caller
  BY <1>9 DEF Pushed, NotPushed, SavePushed, DayEnds, QueueRelease, CompleteRelease, WriteOverRelease,
              ReleaseGoes, Pay, FallDue
<1> QED  BY <1>1, <1>2, <1>3, <1>4, <1>5, <1>6, <1>7, <1>8, <1>9 DEF RemindersNext

\* The invariant holds in every state.
LEMMA RemindersHold == Spec => []RemindersInv
<1>1. ASSUME Init PROVE RemindersInv
  BY <1>1, RemindersStart DEF Init
<1>2. ASSUME RemindersInv, [Next]_officeVars PROVE RemindersInv'
  <2>1. RemindersNext \/ UNCHANGED reminderVars
    BY <1>2 DEF Next, officeVars
  <2> QED  BY <2>1, <1>2, RemindersStep, RemindersKept
<1> QED  BY <1>1, <1>2, PTL DEF Spec

\* A reminder is active once, and announced once: requests that do not overlap look for it before they
\* create it (emiReminder.service.js, queueEmiReminder and queueUpcomingEmiNotification).
THEOREM Reminders == Spec => []RemindersUnique
BY RemindersHold, RemindersMean, PTL

\* A request for an upcoming instalment that ends without dying and without an error swallowed by
\* safeQueueUpcomingEmiNotification, on a phone whose release is not complete, leaves a visible
\* notification behind (emiReminder.service.js, queueEmiReminder).
THEOREM Announcements == Spec => AnnouncedAtEnd
<1>1. ASSUME RemindersInv, [Next]_officeVars
      PROVE  [\A c \in Callers : Ends(c) /\ WantsNotification(c) =>
               \E n \in DOMAIN commands' :
                 commands'[n].kind = "VISIBLE" /\ commands'[n].installment = caller[c].installment]_reminderVars
  <2>1. RemindersNext \/ UNCHANGED reminderVars
    BY <1>1 DEF Next, officeVars
  <2>2. ASSUME RemindersNext PROVE \A c \in Callers : EndAnnounced(c)
    BY <1>1, <2>2, StepAnnounces
  <2> QED  BY <2>1, <2>2 DEF EndAnnounced
<1> QED  BY <1>1, RemindersHold, PTL DEF Spec, AnnouncedAtEnd
-----------------------------------------------------------------------------
(* Manual override tokens *)

TokenDocs == [status : OverrideStatuses, expires : Nat]
Makings == [op : {"check", "supersede", "create", "end"}, goal : {"generate", "renew", "backfill"}, since : Nat]
Readings == [op : TokenReads, token : Nat, late : BOOLEAN]
Works == {Resting} \cup Makings \cup Readings

OverridesTyped ==
  /\ overrides \in Seq(TokenDocs) /\ day \in Nat /\ tokenDeaths \in Nat
  /\ tokenWork \in [TokenJobs -> Works]

Employed(j) ==
  /\ tokenWork[j] # Resting => crew[j] # {}
  /\ tokenWork[j].op \in TokenReads => tokenWork[j].op \in crew[j]

UnspentOrOutdated(k) == overrides[k].status \in UsableStatus \/ overrides[k].expires <= day

\* What an operation relies on, when it works alone or is the only one that reads tokens.
WorkFits(r) ==
  /\ r.op \in TokenReads => r.token \in DOMAIN overrides
  /\ r.op \in {"create", "supersede"} => r.since <= day
  /\ OneReader /\ r.op = "download" => UnspentOrOutdated(r.token)
  /\ SingleCrew /\ r.op = "download" => overrides[r.token].status = "GENERATED"
  /\ SingleCrew /\ r.op = "create" => \A k \in DOMAIN overrides : overrides[k].status \notin ActiveStatus
  /\ SingleCrew /\ r.op = "end" /\ r.goal = "renew" => ValidBeyond(r.since + RenewalWindow)

OverridesInv ==
  /\ OverridesTyped /\ OneActiveToken
  /\ \A j \in TokenJobs : Employed(j) /\ WorkFits(tokenWork[j])
\* What a job on the tokens carries, by its step.
LEMMA WorkTypes ==
  ASSUME OverridesTyped, NEW j \in TokenJobs
  PROVE  /\ tokenWork[j] \in Works
         /\ tokenWork[j].op \in {"check", "supersede", "create", "end"} =>
              tokenWork[j] \in Makings /\ tokenWork[j] # Resting /\ tokenWork[j].op \notin TokenReads
         /\ tokenWork[j].op \in TokenReads => tokenWork[j] \in Readings /\ tokenWork[j] # Resting
<1>1. tokenWork[j] \in Works
  BY DEF OverridesTyped
<1>2. CASE tokenWork[j] = Resting
  BY <1>1, <1>2 DEF Resting, TokenReads
<1>3. CASE tokenWork[j] \in Makings
  BY <1>1, <1>3 DEF Resting, Makings, TokenReads
<1>4. CASE tokenWork[j] \in Readings
  BY <1>1, <1>4 DEF Resting, Readings, TokenReads
<1> QED  BY <1>1, <1>2, <1>3, <1>4 DEF Works

\* In a crew of one, the others rest.
LEMMA OneWorks ==
  ASSUME SingleCrew, NEW j \in TokenJobs, crew[j] # {}, NEW i \in TokenJobs, i # j, Employed(i)
  PROVE  tokenWork[i] = Resting
BY DEF SingleCrew, Employed

\* Where one reads at a time, no other is between reading and saving.
LEMMA OneReads ==
  ASSUME OneReader, NEW j \in TokenJobs, crew[j] \cap TokenReads # {}, NEW i \in TokenJobs, i # j, Employed(i)
  PROVE  tokenWork[i].op \notin TokenReads
BY DEF OneReader, Employed

\* One operation goes on and writes tokens; the writes of one that reads none leave usable tokens usable.
LEMMA WorkGoesOn ==
  ASSUME OverridesInv, NEW j \in TokenJobs, NEW r \in Works, Does(j, r), UNCHANGED <<day, crew>>,
         tokenDeaths' \in Nat, crew[j] # {}, r.op \in TokenReads => r.op \in crew[j], WorkFits(r)',
         overrides' \in Seq(TokenDocs), DOMAIN overrides \subseteq DOMAIN overrides', OneActiveToken',
         \/ crew[j] \cap TokenReads # {}
         \/ \A k \in DOMAIN overrides : UnspentOrOutdated(k) => UnspentOrOutdated(k)'
  PROVE  OverridesInv'
<1>1. /\ tokenWork' \in [TokenJobs -> Works] /\ tokenWork'[j] = r
      /\ \A i \in TokenJobs : i # j => tokenWork'[i] = tokenWork[i]
  BY DEF OverridesInv, OverridesTyped, Does
<1>2. OverridesTyped'
  BY <1>1 DEF OverridesInv, OverridesTyped
<1>3. Employed(j)' /\ WorkFits(tokenWork[j])'
  BY <1>1 DEF Employed, WorkFits
<1>4. (SingleCrew' <=> SingleCrew) /\ (OneReader' <=> OneReader)
  BY DEF SingleCrew, OneReader
<1>5. ASSUME NEW i \in TokenJobs, i # j PROVE Employed(i)' /\ WorkFits(tokenWork[i])'
  <2>0. Employed(i) /\ WorkFits(tokenWork[i]) /\ tokenWork'[i] = tokenWork[i]
    BY <1>1, <1>5 DEF OverridesInv
  <2>1. Employed(i)'
    BY <2>0 DEF Employed
  <2>2. SingleCrew => tokenWork[i] = Resting
    BY <1>5, <2>0, OneWorks
  <2>3. SingleCrew' => tokenWork'[i].op = "none"
    BY <2>0, <2>2, <1>4 DEF Resting
  <2>4. tokenWork'[i].op \in TokenReads => tokenWork'[i].token \in DOMAIN overrides'
    BY <2>0 DEF WorkFits
  <2>5. ASSUME OneReader, tokenWork[i].op = "download" PROVE UnspentOrOutdated(tokenWork[i].token)'
    <3>1. tokenWork[i].op \in TokenReads
      BY <2>5 DEF TokenReads
    <3>2. crew[j] \cap TokenReads = {}
      BY <3>1, <2>0, <2>5, <1>5, OneReads
    <3>3. UnspentOrOutdated(tokenWork[i].token) /\ tokenWork[i].token \in DOMAIN overrides
      BY <2>0, <2>5, <3>1 DEF WorkFits
    <3> QED  BY <3>2, <3>3, <2>0 DEF UnspentOrOutdated
  <2>6. OneReader' /\ tokenWork'[i].op = "download" => UnspentOrOutdated(tokenWork[i].token)'
    BY <2>0, <2>5, <1>4
  <2>7. tokenWork'[i].op \in {"create", "supersede"} => tokenWork'[i].since <= day'
    BY <2>0 DEF WorkFits
  <2> QED  BY <2>1, <2>3, <2>4, <2>6, <2>7 DEF WorkFits
<1> QED  BY <1>2, <1>3, <1>5 DEF OverridesInv

\* An operation goes on and writes nothing.
LEMMA WorkReads ==
  ASSUME OverridesInv, NEW j \in TokenJobs, NEW r \in Works, Does(j, r), UNCHANGED <<overrides, day, crew>>,
         tokenDeaths' \in Nat, crew[j] # {}, r.op \in TokenReads => r.op \in crew[j], WorkFits(r)
  PROVE  OverridesInv'
<1>1. overrides' \in Seq(TokenDocs) /\ DOMAIN overrides \subseteq DOMAIN overrides' /\ OneActiveToken'
  BY DEF OverridesInv, OverridesTyped, OneActiveToken, SingleCrew
<1>2. WorkFits(r)'
  BY DEF WorkFits, OneReader, SingleCrew, UnspentOrOutdated, ValidBeyond
<1>3. \A k \in DOMAIN overrides : UnspentOrOutdated(k) => UnspentOrOutdated(k)'
  BY DEF UnspentOrOutdated
<1> QED  BY <1>1, <1>2, <1>3, WorkGoesOn

\* A new piece of work is what its arguments say.
LEMMA WorksIs ==
  ASSUME NEW op \in {"check", "supersede", "create", "end"}, NEW goal \in {"generate", "renew", "backfill"},
         NEW since \in Nat
  PROVE  /\ [op |-> op, goal |-> goal, since |-> since] \in Works
         /\ [op |-> op, goal |-> goal, since |-> since].op \notin TokenReads
BY DEF Works, Makings, TokenReads

\* Starting to generate keeps the invariant.
LEMMA GenerateStarts ==
  ASSUME OverridesInv, NEW j \in TokenJobs, StartGenerate(j)
  PROVE  OverridesInv'
<1>1. day \in Nat /\ tokenDeaths' \in Nat /\ crew[j] # {} /\ UNCHANGED <<overrides, day, crew>>
  BY DEF StartGenerate, May, OverridesInv, OverridesTyped
<1>2. PICK r : r = [op |-> "supersede", goal |-> "generate", since |-> day]
  OBVIOUS
<1>3. r \in Works /\ r.op = "supersede" /\ r.since = day /\ r.op \notin TokenReads
  BY <1>1, <1>2, WorksIs
<1>4. Does(j, r)
  BY <1>2 DEF StartGenerate
<1>5. WorkFits(r)
  BY <1>1, <1>3 DEF WorkFits
<1> QED  BY <1>1, <1>3, <1>4, <1>5, WorkReads

\* A renewal ends at once when a token is valid long enough, and supersedes otherwise.
LEMMA RenewalGoesOn ==
  ASSUME OverridesInv, NEW j \in TokenJobs, NEW goal \in {"renew", "backfill"}, NEW until, NEW op,
         op = (IF HasValid(until) THEN "end" ELSE "supersede"), goal = "renew" => until = day + RenewalWindow,
         Does(j, [op |-> op, goal |-> goal, since |-> day]),
         UNCHANGED <<overrides, day, tokenDeaths, crew>>, crew[j] # {}
  PROVE  OverridesInv'
<1>1. day \in Nat /\ tokenDeaths' \in Nat
  BY DEF OverridesInv, OverridesTyped
<1>2. PICK r : r = [op |-> op, goal |-> goal, since |-> day]
  OBVIOUS
<1>3. op \in {"supersede", "end"}
  OBVIOUS
<1>4. r \in Works /\ r.op = op /\ r.since = day /\ r.goal = goal /\ r.op \notin TokenReads
  BY <1>1, <1>2, <1>3, WorksIs
<1>5. WorkFits(r)
  <2>1. r.op = "end" /\ r.goal = "renew" => ValidBeyond(r.since + RenewalWindow)
    BY <1>4 DEF HasValid
  <2>2. r.op \notin {"download", "create"} /\ (r.op = "supersede" => r.since <= day)
    BY <1>1, <1>3, <1>4
  <2> QED  BY <1>4, <2>1, <2>2 DEF WorkFits
<1> QED  BY <1>1, <1>2, <1>4, <1>5, WorkReads

\* Starting a renewal or a backfill keeps it.
LEMMA RenewalStarts ==
  ASSUME OverridesInv, NEW j \in TokenJobs, NEW goal \in {"renew", "backfill"}, StartRenewal(j, goal)
  PROVE  OverridesInv'
<1>1. crew[j] # {} /\ UNCHANGED <<overrides, day, tokenDeaths, crew>>
  BY DEF StartRenewal, May
<1>2. PICK until : until = (IF goal = "renew" THEN day + RenewalWindow ELSE day)
  OBVIOUS
<1>3. PICK op : op = (IF HasValid(until) THEN "end" ELSE "supersede")
  OBVIOUS
<1>4. Does(j, [op |-> op, goal |-> goal, since |-> day])
  BY <1>2, <1>3 DEF StartRenewal
<1> QED  BY <1>1, <1>2, <1>3, <1>4, RenewalGoesOn

\* Its check keeps it.
LEMMA RenewalChecks ==
  ASSUME OverridesInv, NEW j \in TokenJobs, CheckRenewal(j)
  PROVE  OverridesInv'
<1>1. crew[j] # {} /\ UNCHANGED <<overrides, day, tokenDeaths, crew>>
  BY WorkTypes DEF CheckRenewal, OverridesInv, Employed
<1>2. PICK op : op = (IF HasValid(day + RenewalWindow) THEN "end" ELSE "supersede")
  OBVIOUS
<1>3. Does(j, [op |-> op, goal |-> "renew", since |-> day])
  BY <1>2 DEF CheckRenewal
<1> QED  BY <1>1, <1>2, <1>3, RenewalGoesOn
\* An operation that rewrites every token by a rule leaves the others as they were, or retires them.
RetiresOnly(docs) ==
  /\ docs \in Seq(TokenDocs) /\ DOMAIN docs = DOMAIN overrides
  /\ \A k \in DOMAIN overrides :
       /\ docs[k].expires = overrides[k].expires
       /\ docs[k] = overrides[k] \/ (overrides[k].status \in ActiveStatus /\ docs[k].status \notin ActiveStatus)

\* Expiring tokens only retires those whose day has passed.
LEMMA ExpiredRetires ==
  ASSUME OverridesInv
  PROVE  /\ RetiresOnly([k \in DOMAIN overrides |-> Expired(overrides[k])])
         /\ \A k \in DOMAIN overrides : Expired(overrides[k]) = overrides[k] \/ overrides[k].expires <= day
<1>1. overrides \in Seq(TokenDocs)
  BY DEF OverridesInv, OverridesTyped
<1>2. ASSUME NEW d \in TokenDocs
      PROVE  /\ Expired(d) \in TokenDocs /\ Expired(d).expires = d.expires
             /\ Expired(d) = d \/ (d.status \in ActiveStatus /\ Expired(d).status \notin ActiveStatus /\ d.expires <= day)
  BY DEF Expired, TokenDocs, OverrideStatuses, ActiveStatus
<1>3. \A k \in DOMAIN overrides : overrides[k] \in TokenDocs
  BY <1>1
<1>4. DOMAIN overrides = 1..Len(overrides) /\ Len(overrides) \in Nat
  BY <1>1
<1>5. [k \in DOMAIN overrides |-> Expired(overrides[k])] \in Seq(TokenDocs)
  BY <1>2, <1>3, <1>4
<1> QED  BY <1>2, <1>3, <1>5 DEF RetiresOnly

\* Superseding only retires the active ones.
LEMMA RetiredRetires ==
  ASSUME OverridesInv
  PROVE  /\ RetiresOnly([k \in DOMAIN overrides |-> Retired(overrides[k])])
         /\ \A k \in DOMAIN overrides :
              /\ Retired(overrides[k]).status \notin ActiveStatus
              /\ Retired(overrides[k]) = overrides[k] \/ Retired(overrides[k]).status \in UsableStatus
<1>1. overrides \in Seq(TokenDocs)
  BY DEF OverridesInv, OverridesTyped
<1>2. ASSUME NEW d \in TokenDocs
      PROVE  /\ Retired(d) \in TokenDocs /\ Retired(d).expires = d.expires
             /\ Retired(d).status \notin ActiveStatus
             /\ Retired(d) = d \/ (d.status \in ActiveStatus /\ Retired(d).status = "SUPERSEDED")
  BY DEF Retired, TokenDocs, OverrideStatuses, ActiveStatus
<1>3. \A k \in DOMAIN overrides : overrides[k] \in TokenDocs
  BY <1>1
<1>4. DOMAIN overrides = 1..Len(overrides) /\ Len(overrides) \in Nat
  BY <1>1
<1>5. [k \in DOMAIN overrides |-> Retired(overrides[k])] \in Seq(TokenDocs)
  BY <1>2, <1>3, <1>4
<1> QED  BY <1>2, <1>3, <1>5 DEF RetiresOnly, UsableStatus

\* Where tokens are only retired, at most one stays active.
LEMMA RetiringKeeps ==
  ASSUME OverridesInv, RetiresOnly(overrides'), UNCHANGED crew
  PROVE  OneActiveToken'
<1>1. ASSUME SingleCrew, NEW k \in DOMAIN overrides', NEW n \in DOMAIN overrides',
             overrides'[k].status \in ActiveStatus, overrides'[n].status \in ActiveStatus
      PROVE  k = n
  <2>1. /\ k \in DOMAIN overrides /\ overrides'[k] = overrides[k]
        /\ n \in DOMAIN overrides /\ overrides'[n] = overrides[n]
    BY <1>1 DEF RetiresOnly
  <2> QED  BY <2>1, <1>1 DEF OverridesInv, OneActiveToken
<1> QED  BY <1>1 DEF OneActiveToken, SingleCrew

\* Starting the daily job keeps the invariant.
LEMMA JobStarts ==
  ASSUME OverridesInv, NEW j \in TokenJobs, StartJob(j)
  PROVE  OverridesInv'
<1>1. /\ day \in Nat /\ tokenDeaths' \in Nat /\ crew[j] # {} /\ UNCHANGED <<day, crew>>
      /\ overrides' = [k \in DOMAIN overrides |-> Expired(overrides[k])]
  BY DEF StartJob, May, OverridesInv, OverridesTyped
<1>2. PICK r : r = [op |-> "check", goal |-> "renew", since |-> day]
  OBVIOUS
<1>3. r \in Works /\ r.op = "check" /\ r.op \notin TokenReads
  BY <1>1, <1>2, WorksIs
<1>4. Does(j, r)
  BY <1>2 DEF StartJob
<1>5. WorkFits(r)'
  BY <1>3 DEF WorkFits
<1>6. RetiresOnly(overrides') /\ \A k \in DOMAIN overrides : Expired(overrides[k]) = overrides[k] \/ overrides[k].expires <= day
  BY <1>1, ExpiredRetires
<1>7. OneActiveToken' /\ overrides' \in Seq(TokenDocs) /\ DOMAIN overrides \subseteq DOMAIN overrides'
  BY <1>1, <1>6, RetiringKeeps DEF RetiresOnly
<1>8. \A k \in DOMAIN overrides : UnspentOrOutdated(k) => UnspentOrOutdated(k)'
  BY <1>1, <1>6 DEF UnspentOrOutdated, RetiresOnly
<1> QED  BY <1>1, <1>3, <1>4, <1>5, <1>7, <1>8, WorkGoesOn

\* Superseding the earlier tokens keeps it.
LEMMA SupersedeStep ==
  ASSUME OverridesInv, NEW j \in TokenJobs, Supersede(j)
  PROVE  OverridesInv'
<1>1. /\ day \in Nat /\ tokenDeaths' \in Nat /\ UNCHANGED <<day, crew>>
      /\ overrides' = [k \in DOMAIN overrides |-> Retired(overrides[k])]
  BY DEF Supersede, OverridesInv, OverridesTyped
<1>2. tokenWork[j] \in Makings /\ tokenWork[j].op = "supersede" /\ crew[j] # {} /\ WorkFits(tokenWork[j])
  BY WorkTypes DEF Supersede, OverridesInv, Employed
<1>3. PICK r : r = [tokenWork[j] EXCEPT !.op = "create"]
  OBVIOUS
<1>4. r \in Makings /\ r.op = "create" /\ r.since = tokenWork[j].since
  BY <1>2, <1>3 DEF Makings
<1>5. r \in Works /\ r.op \notin TokenReads /\ Does(j, r)
  BY <1>3, <1>4 DEF Works, TokenReads, Supersede
<1>6. /\ RetiresOnly(overrides')
      /\ \A k \in DOMAIN overrides :
           /\ Retired(overrides[k]).status \notin ActiveStatus
           /\ Retired(overrides[k]) = overrides[k] \/ Retired(overrides[k]).status \in UsableStatus
  BY <1>1, RetiredRetires
<1>7. WorkFits(r)'
  <2>1. \A k \in DOMAIN overrides' : overrides'[k].status \notin ActiveStatus
    BY <1>1, <1>6
  <2>2. r.since <= day'
    BY <1>1, <1>2, <1>4 DEF WorkFits
  <2> QED  BY <2>1, <2>2, <1>4, <1>5 DEF WorkFits
<1>8. OneActiveToken' /\ overrides' \in Seq(TokenDocs) /\ DOMAIN overrides \subseteq DOMAIN overrides'
  BY <1>1, <1>6, RetiringKeeps DEF RetiresOnly
<1>9. \A k \in DOMAIN overrides : UnspentOrOutdated(k) => UnspentOrOutdated(k)'
  BY <1>1, <1>6 DEF UnspentOrOutdated, RetiresOnly
<1> QED  BY <1>1, <1>2, <1>5, <1>7, <1>8, <1>9, WorkGoesOn

\* Creating a token keeps it.
LEMMA TokenCreated ==
  ASSUME OverridesInv, NEW j \in TokenJobs, CreateToken(j)
  PROVE  OverridesInv'
<1>1. /\ day \in Nat /\ tokenDeaths' \in Nat /\ UNCHANGED <<day, crew>>
      /\ overrides \in Seq(TokenDocs) /\ overrides' = Append(overrides, NewToken(day + Validity))
      /\ Validity \in Nat /\ RenewalWindow \in Nat /\ RenewalWindow < Validity
  BY ValidityAssumption DEF CreateToken, OverridesInv, OverridesTyped
<1>2. tokenWork[j] \in Makings /\ tokenWork[j].op = "create" /\ crew[j] # {} /\ WorkFits(tokenWork[j])
  BY WorkTypes DEF CreateToken, OverridesInv, Employed
<1>3. PICK r : r = [tokenWork[j] EXCEPT !.op = "end"]
  OBVIOUS
<1>4. r \in Makings /\ r.op = "end" /\ r.since = tokenWork[j].since
  BY <1>2, <1>3 DEF Makings
<1>5. r \in Works /\ r.op \notin TokenReads /\ Does(j, r)
  BY <1>3, <1>4 DEF Works, TokenReads, CreateToken
<1>6. PICK d : d = NewToken(day + Validity)
  OBVIOUS
<1>7. d \in TokenDocs /\ d.status = "GENERATED" /\ d.expires = day + Validity
  BY <1>1, <1>6 DEF NewToken, TokenDocs, OverrideStatuses
<1>8. PICK n : n = Len(overrides) + 1
  OBVIOUS
<1>9. /\ overrides' \in Seq(TokenDocs) /\ DOMAIN overrides' = 1..n /\ n \in Nat
      /\ DOMAIN overrides = 1..(n - 1)
      /\ \A k \in 1..(n - 1) : overrides'[k] = overrides[k]
      /\ overrides'[n] = d
  BY <1>1, <1>6, <1>7, <1>8, Appended
<1>10. /\ DOMAIN overrides \subseteq DOMAIN overrides' /\ n \in DOMAIN overrides'
       /\ \A k \in DOMAIN overrides : overrides'[k] = overrides[k]
       /\ \A k \in DOMAIN overrides' : k \in DOMAIN overrides \/ k = n
  <2>1. \A k \in 1..n : k \in 1..(n - 1) \/ k = n
    BY <1>9
  <2>2. 1..(n - 1) \subseteq 1..n /\ n \in 1..n
    BY <1>1, <1>8, <1>9
  <2> QED  BY <2>1, <2>2, <1>9
<1>11. OneActiveToken'
  <2>1. SingleCrew => \A k \in DOMAIN overrides : overrides[k].status \notin ActiveStatus
    BY <1>2 DEF WorkFits
  <2>2. SingleCrew => \A k \in DOMAIN overrides' : overrides'[k].status \in ActiveStatus => k = n
    BY <2>1, <1>10
  <2> QED  BY <2>2, <1>1 DEF OneActiveToken, SingleCrew
<1>12. WorkFits(r)'
  <2>1. tokenWork[j].since <= day /\ tokenWork[j].since \in Nat
    BY <1>2 DEF WorkFits, Makings
  <2>2. r.since + RenewalWindow < day + Validity
    BY <2>1, <1>1, <1>4
  <2>3. overrides'[n].status \in ActiveStatus /\ overrides'[n].expires > r.since + RenewalWindow
    BY <2>2, <2>1, <1>1, <1>4, <1>7, <1>9 DEF ActiveStatus
  <2>4. \E k \in DOMAIN overrides' : overrides'[k].status \in ActiveStatus /\ overrides'[k].expires > r.since + RenewalWindow
    BY <2>3, <1>10
  <2>5. r.op \notin {"download", "create", "supersede"}
    BY <1>4
  <2> QED  BY <2>4, <2>5, <1>5 DEF WorkFits, ValidBeyond
<1>13. \A k \in DOMAIN overrides : UnspentOrOutdated(k) => UnspentOrOutdated(k)'
  BY <1>1, <1>10 DEF UnspentOrOutdated
<1> QED  BY <1>1, <1>2, <1>5, <1>9, <1>10, <1>11, <1>12, <1>13, WorkGoesOn

\* A job that ends keeps it.
LEMMA WorkRests ==
  ASSUME OverridesInv, NEW j \in TokenJobs, Rests(j), UNCHANGED <<overrides, day, crew>>, tokenDeaths' \in Nat,
         crew[j] # {}
  PROVE  OverridesInv'
<1>1. Resting \in Works /\ Resting.op \notin TokenReads /\ WorkFits(Resting) /\ Does(j, Resting)
  BY DEF Works, Resting, TokenReads, WorkFits, Rests
<1> QED  BY <1>1, WorkReads

\* So does one that is done with a device, or dies.
LEMMA RenewalEnds ==
  ASSUME OverridesInv, NEW j \in TokenJobs, EndRenewal(j) \/ WorkDies(j)
  PROVE  OverridesInv'
<1>1. crew[j] # {}
  BY WorkTypes DEF EndRenewal, WorkDies, OverridesInv, Employed
<1>2. tokenDeaths' \in Nat
  BY DEF EndRenewal, WorkDies, OverridesInv, OverridesTyped
<1> QED  BY <1>1, <1>2, WorkRests DEF EndRenewal, WorkDies

\* Reading a token keeps the invariant.
LEMMA TokenRead ==
  ASSUME OverridesInv, NEW j \in TokenJobs, NEW op \in TokenReads, NEW k, ReadToken(j, op, k)
  PROVE  OverridesInv'
<1>1. /\ k \in DOMAIN overrides /\ UNCHANGED <<overrides, day, tokenDeaths, crew>> /\ tokenDeaths' \in Nat
      /\ op \in crew[j] /\ overrides \in Seq(TokenDocs)
  BY DEF ReadToken, May, OverridesInv, OverridesTyped
<1>2. PICK r : r = [op |-> op, token |-> k, late |-> overrides[k].expires <= day]
  OBVIOUS
<1>3. r.op = op /\ r.token = k /\ r \in Works
  BY <1>1, <1>2 DEF Works, Readings
<1>4. op = "download" => overrides[k].status = "GENERATED"
  BY DEF ReadToken
<1>5. WorkFits(r)
  <2>1. op \notin {"create", "supersede", "end"}
    BY DEF TokenReads
  <2> QED  BY <2>1, <1>1, <1>3, <1>4 DEF WorkFits, UnspentOrOutdated, UsableStatus, ActiveStatus
<1>6. Does(j, r)
  BY <1>2 DEF ReadToken
<1> QED  BY <1>1, <1>3, <1>5, <1>6, WorkReads

\* Saving it keeps it.
LEMMA TokenWritten ==
  ASSUME OverridesInv, NEW j \in TokenJobs, SaveToken(j)
  PROVE  OverridesInv'
<1>1. tokenWork[j] \in Readings /\ tokenWork[j].op \in TokenReads /\ WorkFits(tokenWork[j]) /\ tokenWork[j].op \in crew[j]
  BY WorkTypes DEF SaveToken, OverridesInv, Employed
<1>2. PICK k : k = tokenWork[j].token
  OBVIOUS
<1>3. k \in DOMAIN overrides /\ overrides \in Seq(TokenDocs)
  BY <1>1, <1>2 DEF WorkFits, OverridesInv, OverridesTyped
<1>4. PICK status \in OverrideStatuses :
        /\ overrides' = [overrides EXCEPT ![k].status = status]
        /\ status \in ActiveStatus => tokenWork[j].op = "download"
  <2>1. PICK status : status = (CASE tokenWork[j].op = "download" -> "DOWNLOADED"
                                  [] tokenWork[j].op = "revoke" -> "REVOKED"
                                  [] OTHER -> IF tokenWork[j].late THEN "EXPIRED" ELSE "USED")
    OBVIOUS
  <2>2. overrides' = [overrides EXCEPT ![k].status = status]
    BY <2>1, <1>2 DEF SaveToken
  <2>3. \/ tokenWork[j].op = "download" /\ status = "DOWNLOADED"
        \/ status \in {"REVOKED", "EXPIRED", "USED"}
    BY <2>1, <1>1 DEF TokenReads
  <2> QED  BY <2>2, <2>3 DEF OverrideStatuses, ActiveStatus
<1>5. PICK d : d = [overrides[k] EXCEPT !.status = status]
  OBVIOUS
<1>6. overrides[k] \in TokenDocs
  BY <1>3
<1>7. d \in TokenDocs /\ d.status = status
  BY <1>5, <1>6 DEF TokenDocs
<1>8. overrides' = [overrides EXCEPT ![k] = d]
  BY <1>4, <1>5
<1>9. /\ overrides' \in Seq(TokenDocs) /\ DOMAIN overrides' = DOMAIN overrides /\ overrides'[k] = d
      /\ \A n \in DOMAIN overrides : n # k => overrides'[n] = overrides[n]
  BY <1>3, <1>7, <1>8
<1>10. UNCHANGED <<day, crew>> /\ tokenDeaths' \in Nat /\ Does(j, Resting)
  BY DEF SaveToken, Rests, OverridesInv, OverridesTyped
<1>11. OneActiveToken'
  <2>1. SingleCrew /\ d.status \in ActiveStatus => overrides[k].status \in ActiveStatus
    BY <1>1, <1>2, <1>4, <1>7 DEF WorkFits, ActiveStatus
  <2>2. ASSUME SingleCrew, NEW m \in DOMAIN overrides', NEW n \in DOMAIN overrides',
               overrides'[m].status \in ActiveStatus, overrides'[n].status \in ActiveStatus
        PROVE  m = n
    <3>1. overrides[m].status \in ActiveStatus /\ overrides[n].status \in ActiveStatus
      BY <2>1, <2>2, <1>9
    <3> QED  BY <3>1, <2>2, <1>9 DEF OverridesInv, OneActiveToken
  <2> QED  BY <2>2, <1>10 DEF OneActiveToken, SingleCrew
<1>12. Resting \in Works /\ Resting.op \notin TokenReads /\ WorkFits(Resting)'
  BY DEF Works, Resting, TokenReads, WorkFits
<1>13. crew[j] # {} /\ crew[j] \cap TokenReads # {}
  BY <1>1
<1> QED  BY <1>9, <1>10, <1>11, <1>12, <1>13, WorkGoesOn

\* The passing of a day keeps it.
LEMMA DayStep ==
  ASSUME OverridesInv, DayPasses
  PROVE  OverridesInv'
<1>1. day' = day + 1 /\ day \in Nat /\ UNCHANGED <<overrides, tokenWork, tokenDeaths, crew>>
  BY DEF DayPasses, OverridesInv, OverridesTyped
<1>2. OverridesTyped' /\ OneActiveToken' /\ \A j \in TokenJobs : Employed(j)'
  BY <1>1 DEF OverridesInv, OverridesTyped, OneActiveToken, SingleCrew, Employed
<1>3. ASSUME NEW j \in TokenJobs PROVE WorkFits(tokenWork[j])'
  <2>1. WorkFits(tokenWork[j])
    BY DEF OverridesInv
  <2>2. \A k \in DOMAIN overrides : UnspentOrOutdated(k) => UnspentOrOutdated(k)'
    <3>1. \A k \in DOMAIN overrides : overrides[k].expires \in Nat
      <4>1. \A k \in DOMAIN overrides : overrides[k] \in TokenDocs
        BY DEF OverridesInv, OverridesTyped
      <4> QED  BY <4>1 DEF TokenDocs
    <3> QED  BY <3>1, <1>1 DEF UnspentOrOutdated
  <2>3. tokenWork[j].op \in {"create", "supersede"} => tokenWork[j].since <= day'
    <3>1. tokenWork[j].op \in {"create", "supersede"} => tokenWork[j].since <= day /\ tokenWork[j].since \in Nat
      BY <2>1, WorkTypes DEF WorkFits, OverridesInv, Makings
    <3> QED  BY <3>1, <1>1
  <2>4. tokenWork[j].op = "download" => tokenWork[j].op \in TokenReads
    BY DEF TokenReads
  <2>5. OneReader' /\ tokenWork'[j].op = "download" => UnspentOrOutdated(tokenWork[j].token)'
    BY <2>1, <2>2, <2>4, <1>1 DEF WorkFits, OneReader, UnspentOrOutdated
  <2> QED  BY <2>1, <2>3, <2>5, <1>1 DEF WorkFits, SingleCrew, ValidBeyond
<1> QED  BY <1>2, <1>3 DEF OverridesInv
\* Every step keeps it.
LEMMA OverridesStep == ASSUME OverridesInv, OverridesNext PROVE OverridesInv'
<1>1. ASSUME NEW j \in TokenJobs, StartGenerate(j) \/ StartJob(j) \/ CheckRenewal(j) PROVE OverridesInv'
  BY <1>1, GenerateStarts, JobStarts, RenewalChecks
<1>2. ASSUME NEW j \in TokenJobs, NEW op \in {"renew", "backfill"}, StartRenewal(j, op) PROVE OverridesInv'
  BY <1>2, RenewalStarts
<1>3. ASSUME NEW j \in TokenJobs, Supersede(j) \/ CreateToken(j) \/ EndRenewal(j) \/ SaveToken(j) \/ WorkDies(j)
      PROVE  OverridesInv'
  BY <1>3, SupersedeStep, TokenCreated, RenewalEnds, TokenWritten
<1>4. ASSUME NEW j \in TokenJobs, NEW op \in TokenReads, NEW k \in DOMAIN overrides, ReadToken(j, op, k)
      PROVE  OverridesInv'
  BY <1>4, TokenRead
<1>5. CASE DayPasses
  BY <1>5, DayStep
<1> QED  BY <1>1, <1>2, <1>3, <1>4, <1>5 DEF OverridesNext

\* It holds at the start.
LEMMA OverridesStart == ASSUME OverridesInit PROVE OverridesInv
<1>1. NewToken(Validity) \in TokenDocs
  BY ValidityAssumption DEF NewToken, TokenDocs, OverrideStatuses
<1>2. overrides \in Seq(TokenDocs) /\ DOMAIN overrides = {1}
  BY <1>1 DEF OverridesInit
<1>3. OverridesTyped
  BY <1>2 DEF OverridesInit, OverridesTyped, Works
<1>4. OneActiveToken
  BY <1>2 DEF OneActiveToken
<1>5. ASSUME NEW j \in TokenJobs PROVE Employed(j) /\ WorkFits(tokenWork[j])
  <2>1. tokenWork[j] = Resting
    BY DEF OverridesInit
  <2> QED  BY <2>1 DEF Employed, WorkFits, Resting, TokenReads
<1> QED  BY <1>3, <1>4, <1>5 DEF OverridesInv

\* Steps of the other parts keep it.
LEMMA OverridesKept == ASSUME OverridesInv, UNCHANGED overrideVars PROVE OverridesInv'
BY DEF OverridesInv, OverridesTyped, OneActiveToken, SingleCrew, OneReader, Employed, WorkFits,
       UnspentOrOutdated, ValidBeyond, overrideVars

\* What is not usable does not become so.
StaySpent == OneReader => \A k \in DOMAIN overrides : ~Usable(k) => ~Usable(k)'

\* Retiring leaves spent tokens spent.
LEMMA RetiringSpends ==
  ASSUME RetiresOnly(overrides'), \A k \in DOMAIN overrides : overrides'[k] # overrides[k] => overrides[k].status \in ActiveStatus,
         UNCHANGED day
  PROVE  StaySpent
<1>1. ASSUME NEW k \in DOMAIN overrides, Usable(k)' PROVE Usable(k)
  <2>1. overrides'[k].expires = overrides[k].expires
    BY DEF RetiresOnly
  <2> QED  BY <2>1, <1>1 DEF Usable, UsableStatus
<1> QED  BY <1>1 DEF StaySpent

\* So does every step.
LEMMA StepSpends == ASSUME OverridesInv, OverridesNext PROVE StaySpent
<1>1. ASSUME UNCHANGED <<overrides, day>> PROVE StaySpent
  BY <1>1 DEF StaySpent, Usable
<1>2. ASSUME NEW j \in TokenJobs, StartJob(j) PROVE StaySpent
  <2>1. overrides' = [k \in DOMAIN overrides |-> Expired(overrides[k])] /\ UNCHANGED day
    BY <1>2 DEF StartJob
  <2>2. RetiresOnly(overrides')
    BY <2>1, ExpiredRetires
  <2>3. \A k \in DOMAIN overrides : overrides'[k] # overrides[k] => overrides[k].status \in ActiveStatus
    BY <2>2 DEF RetiresOnly
  <2> QED  BY <2>1, <2>2, <2>3, RetiringSpends
<1>3. ASSUME NEW j \in TokenJobs, Supersede(j) PROVE StaySpent
  <2>1. overrides' = [k \in DOMAIN overrides |-> Retired(overrides[k])] /\ UNCHANGED day
    BY <1>3 DEF Supersede
  <2>2. RetiresOnly(overrides')
    BY <2>1, RetiredRetires
  <2>3. \A k \in DOMAIN overrides : overrides'[k] # overrides[k] => overrides[k].status \in ActiveStatus
    BY <2>2 DEF RetiresOnly
  <2> QED  BY <2>1, <2>2, <2>3, RetiringSpends
<1>4. ASSUME NEW j \in TokenJobs, CreateToken(j) PROVE StaySpent
  <2>1. /\ overrides \in Seq(TokenDocs) /\ overrides' = Append(overrides, NewToken(day + Validity))
        /\ UNCHANGED day
    BY <1>4 DEF CreateToken, OverridesInv, OverridesTyped
  <2>2. \A k \in DOMAIN overrides : overrides'[k] = overrides[k]
    BY <2>1
  <2> QED  BY <2>1, <2>2 DEF StaySpent, Usable
<1>5. ASSUME NEW j \in TokenJobs, SaveToken(j) PROVE StaySpent
  <2>1. tokenWork[j].op \in TokenReads /\ WorkFits(tokenWork[j]) /\ UNCHANGED day
    BY <1>5 DEF SaveToken, OverridesInv
  <2>2. PICK k : k = tokenWork[j].token
    OBVIOUS
  <2>3. k \in DOMAIN overrides /\ overrides \in Seq(TokenDocs)
    BY <2>1, <2>2 DEF WorkFits, OverridesInv, OverridesTyped
  <2>4. PICK status : /\ overrides' = [overrides EXCEPT ![k].status = status]
                      /\ status \in UsableStatus => tokenWork[j].op = "download"
    <3>1. PICK status : status = (CASE tokenWork[j].op = "download" -> "DOWNLOADED"
                                    [] tokenWork[j].op = "revoke" -> "REVOKED"
                                    [] OTHER -> IF tokenWork[j].late THEN "EXPIRED" ELSE "USED")
      OBVIOUS
    <3>2. overrides' = [overrides EXCEPT ![k].status = status]
      BY <3>1, <2>2, <1>5 DEF SaveToken
    <3>3. tokenWork[j].op = "download" \/ status \in {"REVOKED", "EXPIRED", "USED"}
      BY <3>1, <2>1 DEF TokenReads
    <3> QED  BY <3>2, <3>3 DEF UsableStatus, ActiveStatus
  <2>5. PICK d : d = [overrides[k] EXCEPT !.status = status]
    OBVIOUS
  <2>6. d.status = status /\ d.expires = overrides[k].expires
    <3>1. overrides[k] \in TokenDocs
      BY <2>3
    <3> QED  BY <3>1, <2>5 DEF TokenDocs
  <2>7. overrides'[k] = d /\ \A n \in DOMAIN overrides : n # k => overrides'[n] = overrides[n]
    BY <2>3, <2>4, <2>5
  <2>8. ASSUME OneReader, Usable(k)' PROVE Usable(k)
    <3>1. tokenWork[j].op = "download" /\ overrides[k].expires > day
      BY <2>8, <2>1, <2>4, <2>6, <2>7 DEF Usable
    <3>2. UnspentOrOutdated(k)
      BY <2>1, <2>2, <2>8, <3>1 DEF WorkFits
    <3>3. overrides[k].expires \in Nat /\ day \in Nat
      <4>1. overrides[k] \in TokenDocs
        BY <2>3
      <4> QED  BY <4>1 DEF TokenDocs, OverridesInv, OverridesTyped
    <3>4. ~(overrides[k].expires <= day)
      BY <3>1, <3>3
    <3> QED  BY <3>1, <3>2, <3>4 DEF UnspentOrOutdated, Usable
  <2> QED  BY <2>1, <2>7, <2>8 DEF StaySpent, Usable
<1>6. ASSUME DayPasses PROVE StaySpent
  <2>1. day' = day + 1 /\ day \in Nat /\ UNCHANGED overrides
    BY <1>6 DEF DayPasses, OverridesInv, OverridesTyped
  <2>2. \A k \in DOMAIN overrides : overrides[k].expires \in Nat
    <3>1. \A k \in DOMAIN overrides : overrides[k] \in TokenDocs
      BY DEF OverridesInv, OverridesTyped
    <3> QED  BY <3>1 DEF TokenDocs
  <2>3. \A k \in DOMAIN overrides : overrides[k].expires > day' => overrides[k].expires > day
    BY <2>1, <2>2
  <2> QED  BY <2>1, <2>3 DEF StaySpent, Usable
<1>7. ASSUME NEW j \in TokenJobs, NEW op, NEW k,
             \/ StartGenerate(j) \/ CheckRenewal(j) \/ StartRenewal(j, op) \/ EndRenewal(j) \/ WorkDies(j)
             \/ ReadToken(j, op, k)
      PROVE  UNCHANGED <<overrides, day>>
  BY <1>7 DEF StartGenerate, CheckRenewal, StartRenewal, EndRenewal, WorkDies, ReadToken
<1> QED  BY <1>1, <1>2, <1>3, <1>4, <1>5, <1>6, <1>7 DEF OverridesNext

\* One token is active, a spent one stays spent, and a renewal leaves a token that outlives its window
\* (manualOverrideToken.service.js, generateManualOverrideTokenForDevice and its callers).
THEOREM Overrides == Spec => TokensRenewed
<1> DEFINE Left == \A j \in TokenJobs :
             SingleCrew /\ tokenWork[j].op = "end" /\ tokenWork[j].goal = "renew"
               /\ tokenWork'[j] = Resting /\ tokenDeaths' = tokenDeaths
             => ValidBeyond(tokenWork[j].since + RenewalWindow)
<1>1. ASSUME Init PROVE OverridesInv
  BY <1>1, OverridesStart DEF Init
<1>2. ASSUME [Next]_officeVars PROVE OverridesNext \/ UNCHANGED overrideVars
  BY <1>2 DEF Next, officeVars
<1>3. ASSUME OverridesInv, [Next]_officeVars PROVE OverridesInv'
  BY <1>2, <1>3, OverridesStep, OverridesKept
<1>4. ASSUME OverridesInv, [Next]_officeVars
      PROVE  [OneReader => \A k \in DOMAIN overrides : ~Usable(k) => ~Usable(k)']_overrideVars
  BY <1>2, <1>4, StepSpends DEF StaySpent
<1>5. ASSUME OverridesInv PROVE [Left]_overrideVars
  BY <1>5 DEF OverridesInv, WorkFits
<1>6. ASSUME OverridesInv PROVE OneActiveToken
  BY <1>6 DEF OverridesInv
<1> QED  BY <1>1, <1>3, <1>4, <1>5, <1>6, PTL DEF Spec, TokensRenewed, SpentStaysSpent, RenewalLeavesToken
-----------------------------------------------------------------------------
(* App builds *)

Completions ==
  [op : {"claim", "expire", "inspect", "copy", "create", "clean", "finish"}, session : Sessions]
Releases == [op : {"edit", "publish", "published", "archive"}, build : Sessions, read : BuildDocs, version : Versions]
Desks == {AtRest} \cup Completions \cup Releases

BuildDocsTyped ==
  /\ builds \in [Sessions -> BuildDocs \cup {NoBuild}]
  /\ sessions \in [Sessions -> SessionDocs \cup {NoSession}]
  /\ staged \in [Sessions -> {"none", "good", "bad"}] /\ stored \subseteq Sessions

Busy(d) ==
  /\ desk[d] # AtRest => scene[d] # {}
  /\ desk[d].op = "edit" => "edit" \in scene[d]

\* What a request relies on: a completion that has a build to show, that has made none yet or whose
\* version is taken for good, and a publication that has archived the others.
DeskFits(r) ==
  /\ r.op \in {"claim", "expire", "inspect", "copy", "create", "clean", "finish"} => sessions[r.session] # NoSession
  /\ r.op \in {"clean", "finish"} => r.session \in Built
  /\ r.op \in {"edit", "publish", "published", "archive"} => r.build \in Built
  /\ SingleDesk /\ r.op \in {"claim", "inspect", "copy", "create"} => builds[r.session] = NoBuild
  /\ SingleDesk /\ r.op \in {"inspect", "copy", "create", "clean", "finish"} => sessions[r.session].status = "finalizing"
  /\ SingleDesk /\ r.op = "create" => r.session \in stored
  /\ SingleDesk /\ r.op = "published" => \A b \in Sessions : b # r.build => builds[b].status # "published"
  /\ NoEdits /\ r.op = "create" => r.session \in stored \/ VersionTaken(sessions[r.session].version)

Pending(s) == SingleDesk /\ sessions[s].status = "pending" => builds[s] = NoBuild
Matching(s) == NoEdits /\ s \in Built /\ sessions[s] # NoSession => builds[s].version = sessions[s].version
BuildsAgree == BuildsInstallable /\ \A s \in Sessions : Pending(s) /\ Matching(s)

BuildsInv ==
  /\ BuildDocsTyped /\ BuildsAgree /\ desk \in [BuildDesks -> Desks]
  /\ \A d \in BuildDesks : Busy(d) /\ DeskFits(desk[d])

\* What a desk holds, by its operation.
LEMMA DeskTypes ==
  ASSUME BuildsInv, NEW d \in BuildDesks
  PROVE  /\ desk[d] \in Desks
         /\ desk[d].op \in {"claim", "expire", "inspect", "copy", "create", "clean", "finish"} =>
              desk[d] \in Completions /\ desk[d] # AtRest /\ desk[d].session \in Sessions
         /\ desk[d].op \in {"edit", "publish", "published", "archive"} => desk[d] \in Releases /\ desk[d] # AtRest
<1>1. desk[d] \in Desks
  BY DEF BuildsInv
<1>2. CASE desk[d] = AtRest
  BY <1>1, <1>2 DEF AtRest
<1>3. CASE desk[d] \in Completions
  BY <1>1, <1>3 DEF AtRest, Completions
<1>4. CASE desk[d] \in Releases
  BY <1>1, <1>4 DEF AtRest, Releases
<1> QED  BY <1>1, <1>2, <1>3, <1>4 DEF Desks

\* Builds and upload sessions are what their names say.
LEMMA BuildTypes ==
  /\ NoBuild \notin BuildDocs /\ NoBuild.version = 0 /\ NoBuild.status = "none"
  /\ NoSession \notin SessionDocs /\ NoSession.status = "none"
  /\ \A b \in BuildDocs : b.version \in Versions /\ b.status \in {"draft", "published", "archived"}
  /\ \A x \in SessionDocs : x.version \in Versions /\ x.status \in SessionStatuses
  /\ \A v \in Versions : v \in Nat /\ v # 0
BY VersionsAssumption DEF NoBuild, BuildDocs, NoSession, SessionDocs, SessionStatuses

\* With one desk in the scene, the others rest.
LEMMA OneDesk ==
  ASSUME SingleDesk, NEW d \in BuildDesks, scene[d] # {}, NEW e \in BuildDesks, e # d, Busy(e)
  PROVE  desk[e] = AtRest
BY DEF SingleDesk, Busy

\* What no operation takes back: that a session has started, for which version, that it has a build,
\* and, when nothing is edited, the version of the build and that a deleted file was not wanted.
Lasting(s) ==
  /\ sessions[s] # NoSession => sessions'[s] # NoSession /\ sessions'[s].version = sessions[s].version
  /\ builds[s] # NoBuild => builds'[s] # NoBuild /\ (NoEdits => builds'[s].version = builds[s].version)
  /\ NoEdits /\ s \in stored => s \in stored' \/ VersionTaken(sessions[s].version)

\* One request goes on; the others do not notice, or rest.
LEMMA DeskGoesOn ==
  ASSUME BuildsInv, NEW d \in BuildDesks, NEW r \in Desks, Moves(d, r), UNCHANGED scene, scene[d] # {},
         r.op = "edit" => "edit" \in scene[d], DeskFits(r)', BuildDocsTyped', BuildsAgree',
         \A s \in Sessions : Lasting(s)
  PROVE  BuildsInv'
<1>1. /\ desk' \in [BuildDesks -> Desks] /\ desk'[d] = r
      /\ \A e \in BuildDesks : e # d => desk'[e] = desk[e]
  BY DEF BuildsInv, Moves
<1>2. (SingleDesk' <=> SingleDesk) /\ (NoEdits' <=> NoEdits)
  BY DEF SingleDesk, NoEdits
<1>3. Busy(d)' /\ DeskFits(desk[d])'
  BY <1>1 DEF Busy, DeskFits
<1>4. ASSUME NEW e \in BuildDesks, e # d PROVE Busy(e)' /\ DeskFits(desk[e])'
  <2>1. Busy(e) /\ DeskFits(desk[e]) /\ desk'[e] = desk[e]
    BY <1>1, <1>4 DEF BuildsInv
  <2>2. Busy(e)'
    BY <2>1 DEF Busy
  <2>3. SingleDesk => desk[e] = AtRest
    BY <2>1, <1>4, OneDesk
  <2>4. SingleDesk' => desk'[e].op = "none"
    BY <2>1, <2>3, <1>2 DEF AtRest
  <2>5. desk[e].op \in {"claim", "expire", "inspect", "copy", "create", "clean", "finish"} =>
          sessions'[desk[e].session] # NoSession
    BY <2>1, DeskTypes DEF DeskFits, Lasting
  <2>6. Built \subseteq Built'
    BY DEF Built, Lasting
  <2>7. \A v : NoEdits /\ VersionTaken(v) => VersionTaken(v)'
    BY <2>6 DEF VersionTaken, Built, Lasting
  <2>8. ASSUME NoEdits, desk[e].op = "create"
        PROVE  desk[e].session \in stored' \/ VersionTaken(sessions[desk[e].session].version)'
    <3>1. PICK s : s = desk[e].session
      OBVIOUS
    <3>2. s \in Sessions /\ sessions[s] # NoSession /\ (s \in stored \/ VersionTaken(sessions[s].version))
      BY <3>1, <2>1, <2>8, DeskTypes DEF DeskFits
    <3>3. sessions'[s].version = sessions[s].version /\ (s \in stored' \/ VersionTaken(sessions[s].version))
      BY <3>2, <2>8 DEF Lasting
    <3>4. s \in stored' \/ VersionTaken(sessions[s].version)'
      BY <3>3, <2>7, <2>8 DEF VersionTaken
    <3> QED  BY <3>1, <3>4, <2>1
  <2>9. DeskFits(desk[e])'
    <3>1. desk'[e].op \in {"clean", "finish"} => desk'[e].session \in Built'
      BY <2>1, <2>6 DEF DeskFits
    <3>2. desk'[e].op \in {"edit", "publish", "published", "archive"} => desk'[e].build \in Built'
      BY <2>1, <2>6 DEF DeskFits
    <3>3. NoEdits' /\ desk'[e].op = "create" => desk'[e].session \in stored' \/ VersionTaken(sessions[desk[e].session].version)'
      BY <2>1, <2>8, <1>2
    <3> QED  BY <2>1, <2>4, <2>5, <3>1, <3>2, <3>3 DEF DeskFits
  <2> QED  BY <2>2, <2>9
<1>5. \A e \in BuildDesks : Busy(e)' /\ DeskFits(desk[e])'
  BY <1>3, <1>4
<1> QED  BY <1>1, <1>5 DEF BuildsInv

\* A request goes on and writes at most the staging files.
LEMMA DeskReads ==
  ASSUME BuildsInv, NEW d \in BuildDesks, NEW r \in Desks, Moves(d, r), UNCHANGED <<builds, sessions, stored, scene>>,
         staged' \in [Sessions -> {"none", "good", "bad"}], scene[d] # {},
         r.op = "edit" => "edit" \in scene[d], DeskFits(r)
  PROVE  BuildsInv'
<1>1. BuildDocsTyped'
  BY DEF BuildsInv, BuildDocsTyped
<1>2. BuildsAgree'
  BY DEF BuildsInv, BuildsAgree, BuildsInstallable, BuildHasItsFile, CompletedHasBuild, OnePublished,
         Pending, Matching, SingleDesk, NoEdits, Built
<1>3. DeskFits(r)'
  BY DEF DeskFits, SingleDesk, NoEdits, Built, VersionTaken
<1>4. \A s \in Sessions : Lasting(s)
  BY DEF Lasting
<1> QED  BY <1>1, <1>2, <1>3, <1>4, DeskGoesOn

\* A request ends.
LEMMA RestFits == AtRest \in Desks /\ DeskFits(AtRest) /\ DeskFits(AtRest)' /\ AtRest.op = "none"
BY DEF AtRest, Desks, DeskFits

\* One session changes its status, and the file of a session may go if its version is taken.
LEMMA SessionSet ==
  ASSUME BuildsInv, NEW d \in BuildDesks, NEW r \in Desks, Moves(d, r), UNCHANGED <<builds, scene>>,
         NEW s \in Sessions, sessions[s] # NoSession, NEW x \in SessionDocs, x.version = sessions[s].version,
         sessions' = [sessions EXCEPT ![s] = x],
         SingleDesk /\ x.status = "pending" => builds[s] = NoBuild,
         x.status = "completed" => builds[s] # NoBuild,
         stored' \subseteq Sessions,
         \A t \in stored : t \in stored' \/ (t = s /\ VersionTaken(sessions[s].version)),
         SingleDesk \/ NoEdits => Built \subseteq stored',
         staged' \in [Sessions -> {"none", "good", "bad"}], scene[d] # {},
         r.op # "edit", DeskFits(r)'
  PROVE  BuildsInv'
<1>1. /\ sessions \in [Sessions -> SessionDocs \cup {NoSession}] /\ sessions'[s] = x
      /\ sessions' \in [Sessions -> SessionDocs \cup {NoSession}]
      /\ \A t \in Sessions : t # s => sessions'[t] = sessions[t]
  BY DEF BuildsInv, BuildDocsTyped
<1>2. BuildDocsTyped'
  BY <1>1 DEF BuildsInv, BuildDocsTyped
<1>3. x # NoSession
  BY BuildTypes
<1>4. Built' = Built /\ (SingleDesk' <=> SingleDesk) /\ (NoEdits' <=> NoEdits)
  BY DEF Built, SingleDesk, NoEdits
<1>5. BuildsAgree'
  <2>0. BuildsAgree
    BY DEF BuildsInv
  <2>1. BuildHasItsFile'
    BY <1>4 DEF BuildHasItsFile
  <2>2. CompletedHasBuild'
    BY <2>0, <1>1, <1>4 DEF BuildsAgree, BuildsInstallable, CompletedHasBuild
  <2>3. OnePublished'
    BY <2>0, <1>4 DEF BuildsAgree, BuildsInstallable, OnePublished
  <2>4. ASSUME NEW t \in Sessions PROVE Pending(t)' /\ Matching(t)'
    <3>1. Pending(t) /\ Matching(t)
      BY <2>0 DEF BuildsAgree
    <3>2. CASE t = s
      <4>1. Pending(t)'
        BY <3>2, <1>1, <1>4 DEF Pending
      <4>2. Matching(t)'
        BY <3>1, <3>2, <1>1, <1>4 DEF Matching
      <4> QED  BY <4>1, <4>2
    <3>3. CASE t # s
      BY <3>1, <3>3, <1>1, <1>4 DEF Pending, Matching
    <3> QED  BY <3>2, <3>3
  <2> QED  BY <2>1, <2>2, <2>3, <2>4 DEF BuildsAgree, BuildsInstallable
<1>6. ASSUME NEW t \in Sessions PROVE Lasting(t)
  <2>1. sessions[t] # NoSession => sessions'[t] # NoSession /\ sessions'[t].version = sessions[t].version
    BY <1>1, <1>3
  <2> QED  BY <2>1 DEF Lasting
<1> QED  BY <1>2, <1>5, <1>6, DeskGoesOn

\* Changing a session's status keeps the rest of it.
LEMMA StatusIs ==
  ASSUME NEW x \in SessionDocs, NEW status \in SessionStatuses
  PROVE  /\ [x EXCEPT !.status = status] \in SessionDocs
         /\ [x EXCEPT !.status = status].status = status
         /\ [x EXCEPT !.status = status].version = x.version
BY DEF SessionDocs

\* A completion is about a session, at a desk of the scene.
LEMMA SessionOf ==
  ASSUME BuildsInv, NEW d \in BuildDesks,
         desk[d].op \in {"claim", "expire", "inspect", "copy", "create", "clean", "finish"}
  PROVE  /\ desk[d] \in Completions /\ desk[d].session \in Sessions /\ scene[d] # {} /\ DeskFits(desk[d])
         /\ sessions[desk[d].session] \in SessionDocs /\ sessions[desk[d].session] # NoSession
<1>1. desk[d] \in Completions /\ desk[d] # AtRest /\ desk[d].session \in Sessions /\ Busy(d) /\ DeskFits(desk[d])
  BY DeskTypes DEF BuildsInv
<1>2. sessions[desk[d].session] # NoSession
  BY <1>1 DEF DeskFits
<1>3. sessions[desk[d].session] \in SessionDocs
  BY <1>1, <1>2 DEF BuildsInv, BuildDocsTyped
<1> QED  BY <1>1, <1>2, <1>3 DEF Busy

\* A completion that goes on keeps what it is about.
LEMMA OpIs ==
  ASSUME NEW r \in Completions, NEW op \in {"claim", "expire", "inspect", "copy", "create", "clean", "finish"}
  PROVE  /\ [r EXCEPT !.op = op] \in Completions /\ [r EXCEPT !.op = op] \in Desks
         /\ [r EXCEPT !.op = op].op = op /\ [r EXCEPT !.op = op].session = r.session
BY DEF Completions, Desks

\* Opening a session keeps the invariant.
LEMMA OpenStep ==
  ASSUME BuildsInv, NEW d \in BuildDesks, NEW s \in Sessions, NEW v \in Versions, OpenSession(d, s, v)
  PROVE  BuildsInv'
<1>1. PICK x : x = [status |-> "pending", version |-> v, open |-> TRUE, build |-> FALSE]
  OBVIOUS
<1>2. x \in SessionDocs /\ x.status = "pending" /\ x.version = v /\ x # NoSession
  BY <1>1, BuildTypes DEF SessionDocs, SessionStatuses
<1>3. /\ sessions[s] = NoSession /\ builds[s] = NoBuild /\ scene[d] # {} /\ desk[d] = AtRest
      /\ sessions' = [sessions EXCEPT ![s] = x]
      /\ UNCHANGED <<builds, staged, stored, desk, scene>>
  BY <1>1 DEF OpenSession, Starts
<1>4. /\ sessions' \in [Sessions -> SessionDocs \cup {NoSession}] /\ sessions'[s] = x
      /\ \A t \in Sessions : t # s => sessions'[t] = sessions[t]
  BY <1>2, <1>3 DEF BuildsInv, BuildDocsTyped
<1>5. BuildDocsTyped'
  BY <1>3, <1>4 DEF BuildsInv, BuildDocsTyped
<1>6. Moves(d, AtRest)
  BY <1>3 DEF BuildsInv, Moves
<1>7. Built' = Built /\ (SingleDesk' <=> SingleDesk) /\ (NoEdits' <=> NoEdits)
  BY <1>3 DEF Built, SingleDesk, NoEdits, OpenSession
<1>8. BuildsAgree'
  <2>0. BuildsAgree
    BY DEF BuildsInv
  <2>1. CompletedHasBuild'
    BY <2>0, <1>2, <1>3, <1>4, <1>7 DEF BuildsAgree, BuildsInstallable, CompletedHasBuild
  <2>2. BuildHasItsFile' /\ OnePublished'
    BY <2>0, <1>3, <1>7 DEF BuildsAgree, BuildsInstallable, BuildHasItsFile, OnePublished
  <2>3. ASSUME NEW t \in Sessions PROVE Pending(t)' /\ Matching(t)'
    BY <2>0, <1>3, <1>4, <1>7 DEF BuildsAgree, Pending, Matching, Built
  <2> QED  BY <2>1, <2>2, <2>3 DEF BuildsAgree, BuildsInstallable
<1>9. \A t \in Sessions : Lasting(t)
  BY <1>3, <1>4 DEF Lasting
<1> QED  BY <1>3, <1>5, <1>6, <1>8, <1>9, RestFits, DeskGoesOn

\* Beginning a completion keeps it.
LEMMA BeginStep ==
  ASSUME BuildsInv, NEW d \in BuildDesks, NEW s \in Sessions, BeginCompletion(d, s)
  PROVE  BuildsInv'
<1>1. /\ scene[d] # {} /\ sessions[s] # NoSession /\ staged' \in [Sessions -> {"none", "good", "bad"}]
      /\ UNCHANGED <<builds, sessions, stored, scene>>
  BY DEF BeginCompletion, Starts, BuildsInv, BuildDocsTyped
<1>2. PICK op \in {"claim", "expire"} :
        Moves(d, [op |-> op, session |-> s]) /\ (op = "claim" => Completable(sessions[s]))
  BY DEF BeginCompletion
<1>3. PICK r : r = [op |-> op, session |-> s]
  OBVIOUS
<1>4. r \in Desks /\ r.op = op /\ r.session = s
  BY <1>3 DEF Desks, Completions
<1>5. DeskFits(r)
  <2>1. SingleDesk /\ op = "claim" => builds[s] = NoBuild
    BY <1>2 DEF Completable, BuildsInv, BuildsAgree, Pending
  <2> QED  BY <1>1, <1>2, <1>4, <2>1 DEF DeskFits
<1> QED  BY <1>1, <1>2, <1>3, <1>4, <1>5, DeskReads

\* Claiming the session keeps it.
LEMMA ClaimStep == ASSUME BuildsInv, NEW d \in BuildDesks, Claim(d) PROVE BuildsInv'
<1>1. desk[d].op = "claim" /\ UNCHANGED <<builds, staged, stored, scene>>
  BY DEF Claim, At
<1>2. PICK s : s = desk[d].session
  OBVIOUS
<1>3. /\ s \in Sessions /\ sessions[s] \in SessionDocs /\ sessions[s] # NoSession /\ desk[d] \in Completions
      /\ scene[d] # {} /\ DeskFits(desk[d])
  BY <1>1, <1>2, SessionOf
<1>4. PICK x : x = [sessions[s] EXCEPT !.status = "finalizing"]
  OBVIOUS
<1>5. x \in SessionDocs /\ x.status = "finalizing" /\ x.version = sessions[s].version
  BY <1>3, <1>4, StatusIs DEF SessionStatuses
<1>6. sessions' = [sessions EXCEPT ![s] = x]
  BY <1>2, <1>4 DEF Claim, SetSession
<1>7. PICK r : r = [desk[d] EXCEPT !.op = "inspect"]
  OBVIOUS
<1>8. r \in Desks /\ r.op = "inspect" /\ r.session = s /\ Moves(d, r)
  BY <1>2, <1>3, <1>7, OpIs DEF Claim
<1>9. sessions'[s] = x /\ x # NoSession
  BY <1>3, <1>5, <1>6, BuildTypes DEF BuildsInv, BuildDocsTyped
<1>10. DeskFits(r)'
  <2>1. SingleDesk' => builds'[s] = NoBuild
    BY <1>1, <1>2, <1>3 DEF DeskFits, SingleDesk
  <2> QED  BY <1>5, <1>8, <1>9, <2>1 DEF DeskFits
<1>11. /\ stored \subseteq Sessions /\ staged' \in [Sessions -> {"none", "good", "bad"}]
       /\ SingleDesk \/ NoEdits => Built \subseteq stored
  BY <1>1 DEF BuildsInv, BuildDocsTyped, BuildsAgree, BuildsInstallable, BuildHasItsFile
<1> QED  BY <1>1, <1>3, <1>5, <1>6, <1>8, <1>10, <1>11, SessionSet

\* A completion fails, and puts its session back only when the build it may have made is no matter.
LEMMA FailStep ==
  ASSUME BuildsInv, NEW d \in BuildDesks, NEW terminal \in BOOLEAN, Fails(d, terminal),
         desk[d].op \in {"inspect", "copy", "create"},
         stored' \subseteq Sessions,
         \A t \in stored : t \in stored' \/ (t = desk[d].session /\ VersionTaken(sessions[desk[d].session].version)),
         SingleDesk \/ NoEdits => Built \subseteq stored',
         UNCHANGED <<builds, scene>>
  PROVE  BuildsInv'
<1>1. PICK s : s = desk[d].session
  OBVIOUS
<1>2. /\ s \in Sessions /\ sessions[s] \in SessionDocs /\ sessions[s] # NoSession
      /\ scene[d] # {} /\ DeskFits(desk[d])
  BY <1>1, SessionOf
<1>3. PICK status : status = (IF terminal THEN "failed" ELSE "pending")
  OBVIOUS
<1>4. status \in SessionStatuses /\ status # "completed"
  BY <1>3 DEF SessionStatuses
<1>5. PICK x : x = [sessions[s] EXCEPT !.status = status]
  OBVIOUS
<1>6. x \in SessionDocs /\ x.status = status /\ x.version = sessions[s].version
  BY <1>2, <1>4, <1>5, StatusIs
<1>7. sessions' = [sessions EXCEPT ![s] = x]
  BY <1>1, <1>3, <1>5 DEF Fails, SetSession
<1>8. staged' \in [Sessions -> {"none", "good", "bad"}]
  BY DEF Fails, BuildsInv, BuildDocsTyped
<1>9. SingleDesk => builds[s] = NoBuild
  BY <1>1, <1>2 DEF DeskFits
<1>10. Moves(d, AtRest)
  BY DEF Fails, Leaves
<1> QED  BY <1>1, <1>2, <1>4, <1>6, <1>7, <1>8, <1>9, <1>10, RestFits, SessionSet

\* Expiring it keeps it.
LEMMA ExpireStep == ASSUME BuildsInv, NEW d \in BuildDesks, ExpireSession(d) PROVE BuildsInv'
<1>1. desk[d].op = "expire" /\ UNCHANGED <<builds, stored, scene>> /\ Moves(d, AtRest)
  BY DEF ExpireSession, At, Leaves
<1>2. PICK s : s = desk[d].session
  OBVIOUS
<1>3. s \in Sessions /\ sessions[s] \in SessionDocs /\ sessions[s] # NoSession /\ scene[d] # {}
  BY <1>1, <1>2, SessionOf
<1>4. PICK x : x = [sessions[s] EXCEPT !.status = "expired"]
  OBVIOUS
<1>5. x \in SessionDocs /\ x.status = "expired" /\ x.version = sessions[s].version
  BY <1>3, <1>4, StatusIs DEF SessionStatuses
<1>6. sessions' = [sessions EXCEPT ![s] = x] /\ staged' = [staged EXCEPT ![s] = "none"]
  BY <1>2, <1>4 DEF ExpireSession, SetSession
<1>7. /\ stored \subseteq Sessions /\ staged' \in [Sessions -> {"none", "good", "bad"}]
      /\ SingleDesk \/ NoEdits => Built \subseteq stored
  BY <1>6 DEF BuildsInv, BuildDocsTyped, BuildsAgree, BuildsInstallable, BuildHasItsFile
<1> QED  BY <1>1, <1>3, <1>5, <1>6, <1>7, RestFits, SessionSet

\* Inspecting the file keeps it.
LEMMA InspectStep == ASSUME BuildsInv, NEW d \in BuildDesks, Inspect(d) PROVE BuildsInv'
<1>1. desk[d].op = "inspect" /\ UNCHANGED <<builds, stored, scene>>
  BY DEF Inspect, At
<1>2. CASE staged[desk[d].session] = "good"
  <2>1. UNCHANGED <<sessions, staged>> /\ staged \in [Sessions -> {"none", "good", "bad"}]
    BY <1>2 DEF Inspect, BuildsInv, BuildDocsTyped
  <2>2. PICK r : r = [desk[d] EXCEPT !.op = "copy"]
    OBVIOUS
  <2>3. desk[d] \in Completions /\ scene[d] # {} /\ DeskFits(desk[d])
    BY <1>1, SessionOf
  <2>4. r \in Desks /\ r.op = "copy" /\ r.session = desk[d].session /\ Moves(d, r)
    BY <1>2, <2>2, <2>3, OpIs DEF Inspect
  <2>5. DeskFits(r)
    BY <1>1, <2>3, <2>4 DEF DeskFits
  <2> QED  BY <1>1, <2>1, <2>3, <2>4, <2>5, DeskReads
<1>3. CASE staged[desk[d].session] # "good"
  <2>1. PICK terminal \in BOOLEAN : Fails(d, terminal)
    BY <1>3 DEF Inspect
  <2>2. stored' \subseteq Sessions /\ (SingleDesk \/ NoEdits => Built \subseteq stored')
    BY <1>1 DEF BuildsInv, BuildDocsTyped, BuildsAgree, BuildsInstallable, BuildHasItsFile
  <2> QED  BY <1>1, <2>1, <2>2, FailStep
<1> QED  BY <1>2, <1>3

\* Copying it keeps it.
LEMMA CopyStep == ASSUME BuildsInv, NEW d \in BuildDesks, Copy(d) PROVE BuildsInv'
<1>1. desk[d].op = "copy" /\ UNCHANGED <<builds, scene>>
  BY DEF Copy, At
<1>2. PICK s : s = desk[d].session
  OBVIOUS
<1>3. s \in Sessions /\ desk[d] \in Completions /\ scene[d] # {} /\ DeskFits(desk[d])
  BY <1>1, <1>2, SessionOf
<1>4. CASE s \in stored \/ staged[s] = "good"
  <2>1. stored' = stored \cup {s} /\ UNCHANGED <<sessions, staged>>
    BY <1>2, <1>4 DEF Copy
  <2>2. PICK r : r = [desk[d] EXCEPT !.op = "create"]
    OBVIOUS
  <2>3. r \in Desks /\ r.op = "create" /\ r.session = s /\ Moves(d, r)
    BY <1>2, <1>3, <1>4, <2>2, OpIs DEF Copy
  <2>4. (SingleDesk' <=> SingleDesk) /\ (NoEdits' <=> NoEdits) /\ Built' = Built
    BY <1>1 DEF SingleDesk, NoEdits, Built
  <2>5. DeskFits(r)'
    <3>1. SingleDesk' => builds'[s] = NoBuild /\ sessions'[s].status = "finalizing"
      BY <1>1, <1>2, <1>3, <2>1, <2>4 DEF DeskFits
    <3>2. sessions'[s] # NoSession /\ s \in stored'
      BY <1>1, <1>2, <1>3, <2>1 DEF DeskFits
    <3> QED  BY <2>3, <3>1, <3>2 DEF DeskFits
  <2>6. BuildDocsTyped'
    BY <1>1, <1>3, <2>1 DEF BuildsInv, BuildDocsTyped
  <2>7. BuildsAgree'
    BY <1>1, <2>1, <2>4 DEF BuildsInv, BuildsAgree, BuildsInstallable, BuildHasItsFile, CompletedHasBuild,
       OnePublished, Pending, Matching
  <2>8. \A t \in Sessions : Lasting(t)
    BY <1>1, <2>1 DEF Lasting
  <2> QED  BY <1>1, <1>3, <2>3, <2>5, <2>6, <2>7, <2>8, DeskGoesOn
<1>5. CASE ~(s \in stored \/ staged[s] = "good")
  <2>1. Fails(d, FALSE) /\ UNCHANGED stored
    BY <1>2, <1>5 DEF Copy
  <2>2. stored' \subseteq Sessions /\ (SingleDesk \/ NoEdits => Built \subseteq stored')
    BY <2>1 DEF BuildsInv, BuildDocsTyped, BuildsAgree, BuildsInstallable, BuildHasItsFile
  <2> QED  BY <1>1, <2>1, <2>2, FailStep
<1> QED  BY <1>4, <1>5

\* Cleaning up keeps it.
LEMMA CleanStep == ASSUME BuildsInv, NEW d \in BuildDesks, Clean(d) PROVE BuildsInv'
<1>1. desk[d].op = "clean" /\ UNCHANGED <<builds, sessions, stored, scene>>
  BY DEF Clean, At
<1>2. desk[d] \in Completions /\ scene[d] # {} /\ DeskFits(desk[d])
  BY <1>1, SessionOf
<1>3. PICK r : r = [desk[d] EXCEPT !.op = "finish"]
  OBVIOUS
<1>4. r \in Desks /\ r.op = "finish" /\ r.session = desk[d].session /\ Moves(d, r)
  BY <1>2, <1>3, OpIs DEF Clean
<1>5. DeskFits(r)
  BY <1>1, <1>2, <1>4 DEF DeskFits
<1>6. staged' \in [Sessions -> {"none", "good", "bad"}]
  BY DEF Clean, BuildsInv, BuildDocsTyped
<1> QED  BY <1>1, <1>2, <1>4, <1>5, <1>6, DeskReads

\* Finishing keeps it.
LEMMA FinishStep == ASSUME BuildsInv, NEW d \in BuildDesks, FinishCompletion(d) PROVE BuildsInv'
<1>1. desk[d].op = "finish" /\ UNCHANGED <<builds, staged, stored, scene>> /\ Moves(d, AtRest)
  BY DEF FinishCompletion, At, Leaves
<1>2. PICK s : s = desk[d].session
  OBVIOUS
<1>3. /\ s \in Sessions /\ sessions[s] \in SessionDocs /\ sessions[s] # NoSession
      /\ scene[d] # {} /\ DeskFits(desk[d])
  BY <1>1, <1>2, SessionOf
<1>4. PICK y : y = [sessions[s] EXCEPT !.status = "completed"]
  OBVIOUS
<1>5. y \in SessionDocs /\ y.status = "completed" /\ y.version = sessions[s].version
  BY <1>3, <1>4, StatusIs DEF SessionStatuses
<1>6. PICK x : x = [y EXCEPT !.build = TRUE]
  OBVIOUS
<1>7. x \in SessionDocs /\ x.status = "completed" /\ x.version = sessions[s].version
  BY <1>5, <1>6 DEF SessionDocs
<1>8. sessions' = [sessions EXCEPT ![s] = x]
  <2>1. sessions \in [Sessions -> SessionDocs \cup {NoSession}]
    BY DEF BuildsInv, BuildDocsTyped
  <2>2. sessions' = [sessions EXCEPT ![s].status = "completed", ![s].build = TRUE]
    BY <1>2 DEF FinishCompletion
  <2> QED  BY <1>3, <1>4, <1>6, <2>1, <2>2
<1>9. builds[s] # NoBuild
  BY <1>1, <1>2, <1>3 DEF DeskFits, Built
<1>10. /\ stored \subseteq Sessions /\ staged' \in [Sessions -> {"none", "good", "bad"}]
       /\ SingleDesk \/ NoEdits => Built \subseteq stored
  BY <1>1 DEF BuildsInv, BuildDocsTyped, BuildsAgree, BuildsInstallable, BuildHasItsFile
<1> QED  BY <1>1, <1>3, <1>7, <1>8, <1>9, <1>10, RestFits, SessionSet

\* A draft is a build.
LEMMA DraftIs ==
  ASSUME NEW v \in Versions
  PROVE  /\ [status |-> "draft", version |-> v] \in BuildDocs
         /\ [status |-> "draft", version |-> v].version = v
         /\ [status |-> "draft", version |-> v].status = "draft"
BY DEF BuildDocs

\* A session, or an APK sent with the request, becomes a build whose version no other has.
LEMMA BuildCreated ==
  ASSUME BuildsInv, NEW d \in BuildDesks, NEW r \in Desks, Moves(d, r), UNCHANGED <<sessions, staged, scene>>,
         NEW s \in Sessions, NEW v \in Versions, ~VersionTaken(v),
         builds' = [builds EXCEPT ![s] = [status |-> "draft", version |-> v]],
         stored \subseteq stored', stored' \subseteq Sessions,
         SingleDesk \/ NoEdits => s \in stored',
         SingleDesk => builds[s] = NoBuild /\ sessions[s].status # "pending",
         sessions[s] = NoSession => builds[s] = NoBuild,
         sessions[s] # NoSession => v = sessions[s].version,
         scene[d] # {}, r.op # "edit", DeskFits(r)'
  PROVE  BuildsInv'
<1>1. PICK b : b = [status |-> "draft", version |-> v]
  OBVIOUS
<1>2. b \in BuildDocs /\ b.version = v /\ b.status = "draft" /\ b # NoBuild
  BY <1>1, DraftIs, BuildTypes
<1>3. /\ builds \in [Sessions -> BuildDocs \cup {NoBuild}] /\ builds'[s] = b
      /\ builds' \in [Sessions -> BuildDocs \cup {NoBuild}]
      /\ \A t \in Sessions : t # s => builds'[t] = builds[t]
  BY <1>1, <1>2 DEF BuildsInv, BuildDocsTyped
<1>4. BuildDocsTyped'
  BY <1>3 DEF BuildsInv, BuildDocsTyped
<1>5. Built' = Built \cup {s} /\ (SingleDesk' <=> SingleDesk) /\ (NoEdits' <=> NoEdits)
  BY <1>2, <1>3 DEF Built, SingleDesk, NoEdits
<1>6. \A t \in Built : builds[t].version # v
  BY DEF VersionTaken
<1>7. NoEdits /\ sessions[s] # NoSession => builds[s] = NoBuild
  BY <1>6 DEF BuildsInv, BuildsAgree, Matching, Built
<1>8. BuildsAgree'
  <2>0. BuildsAgree
    BY DEF BuildsInv
  <2>1. BuildHasItsFile'
    BY <2>0, <1>5 DEF BuildsAgree, BuildsInstallable, BuildHasItsFile
  <2>2. \A t \in Sessions : sessions'[t].status = "completed" => builds'[t] # NoBuild
    BY <2>0, <1>2, <1>3 DEF BuildsAgree, BuildsInstallable, CompletedHasBuild
  <2>3. \A t, u \in Built' : builds'[t].version = builds'[u].version => t = u
    <3>1. \A t, u \in Built : builds[t].version = builds[u].version => t = u
      BY <2>0 DEF BuildsAgree, BuildsInstallable, CompletedHasBuild
    <3>2. Built \subseteq Sessions
      BY DEF Built
    <3>3. ASSUME NEW t \in Built', NEW u \in Built', builds'[t].version = builds'[u].version PROVE t = u
      <4>1. CASE t = s /\ u # s
        BY <4>1, <3>2, <3>3, <1>2, <1>3, <1>5, <1>6
      <4>2. CASE u = s /\ t # s
        BY <4>2, <3>2, <3>3, <1>2, <1>3, <1>5, <1>6
      <4>3. CASE t # s /\ u # s
        BY <4>3, <3>1, <3>2, <3>3, <1>3, <1>5
      <4> QED  BY <4>1, <4>2, <4>3
    <3> QED  BY <3>3
  <2>4. OnePublished'
    <3>1. \A t \in Sessions : builds'[t].status = "published" => t # s /\ builds'[t] = builds[t]
      BY <1>2, <1>3
    <3> QED  BY <3>1, <2>0, <1>5 DEF BuildsAgree, BuildsInstallable, OnePublished
  <2>5. ASSUME NEW t \in Sessions PROVE Pending(t)' /\ Matching(t)'
    <3>1. Pending(t) /\ Matching(t)
      BY <2>0 DEF BuildsAgree
    <3>2. CASE t = s
      BY <3>2, <1>2, <1>3, <1>5 DEF Pending, Matching
    <3>3. CASE t # s
      BY <3>1, <3>3, <1>3, <1>5 DEF Pending, Matching
    <3> QED  BY <3>2, <3>3
  <2> QED  BY <2>1, <2>2, <2>3, <2>4, <2>5 DEF BuildsAgree, BuildsInstallable, CompletedHasBuild
<1>9. ASSUME NEW t \in Sessions, NoEdits, builds[t] # NoBuild PROVE builds'[t].version = builds[t].version
  <2>1. CASE t # s
    BY <2>1, <1>3
  <2>2. CASE t = s /\ sessions[s] # NoSession
    BY <2>2, <1>7, <1>9
  <2>3. CASE t = s /\ sessions[s] = NoSession
    BY <2>3, <1>9
  <2> QED  BY <2>1, <2>2, <2>3
<1>10. ASSUME NEW t \in Sessions PROVE Lasting(t)
  BY <1>2, <1>3, <1>9 DEF Lasting
<1> QED  BY <1>4, <1>8, <1>10, DeskGoesOn

\* Creating the build keeps the invariant.
LEMMA BuildCreateStep == ASSUME BuildsInv, NEW d \in BuildDesks, CreateBuild(d) PROVE BuildsInv'
<1>1. desk[d].op = "create" /\ UNCHANGED scene
  BY DEF CreateBuild, At
<1>2. PICK s : s = desk[d].session
  OBVIOUS
<1>3. /\ s \in Sessions /\ desk[d] \in Completions /\ scene[d] # {} /\ DeskFits(desk[d])
      /\ sessions[s] \in SessionDocs /\ sessions[s] # NoSession
  BY <1>1, <1>2, SessionOf
<1>4. PICK v : v = sessions[s].version
  OBVIOUS
<1>5. v \in Versions /\ v # 0
  BY <1>3, <1>4, BuildTypes
<1>6. PICK r : r = [desk[d] EXCEPT !.op = "clean"]
  OBVIOUS
<1>7. r \in Desks /\ r.op = "clean" /\ r.session = s
  BY <1>2, <1>3, <1>6, OpIs
<1>8. SingleDesk => builds[s] = NoBuild /\ sessions[s].status = "finalizing" /\ s \in stored
  BY <1>1, <1>2, <1>3 DEF DeskFits
<1>9. NoEdits => s \in stored \/ VersionTaken(v)
  BY <1>1, <1>2, <1>3, <1>4 DEF DeskFits
<1>10. stored \subseteq Sessions /\ (SingleDesk \/ NoEdits => Built \subseteq stored)
       /\ staged \in [Sessions -> {"none", "good", "bad"}]
  BY DEF BuildsInv, BuildDocsTyped, BuildsAgree, BuildsInstallable, BuildHasItsFile
<1>11. CASE /\ ~VersionTaken(v) /\ builds' = [builds EXCEPT ![s] = [status |-> "draft", version |-> v]]
            /\ Moves(d, r) /\ UNCHANGED <<sessions, staged, stored>>
  <2>1. builds'[s] # NoBuild
    <3>1. builds'[s] = [status |-> "draft", version |-> v]
      BY <1>3, <1>11 DEF BuildsInv, BuildDocsTyped
    <3> QED  BY <3>1, <1>5, DraftIs, BuildTypes
  <2>2. DeskFits(r)'
    BY <2>1, <1>1, <1>3, <1>7, <1>8, <1>11 DEF DeskFits, Built, SingleDesk
  <2> QED  BY <2>2, <1>1, <1>3, <1>4, <1>5, <1>7, <1>8, <1>9, <1>10, <1>11, BuildCreated
<1>12. CASE VersionTaken(v) /\ OwnBuild(s) /\ Moves(d, r) /\ UNCHANGED <<builds, sessions, staged, stored>>
  <2>1. builds[s] # NoBuild
    BY <1>4, <1>5, <1>12, BuildTypes DEF OwnBuild
  <2>2. DeskFits(r)
    BY <2>1, <1>3, <1>7, <1>8 DEF DeskFits, Built
  <2> QED  BY <2>2, <1>1, <1>3, <1>7, <1>10, <1>12, DeskReads
<1>13. CASE VersionTaken(v) /\ ~OwnBuild(s) /\ stored' = stored \ {s} /\ Fails(d, TRUE) /\ UNCHANGED builds
  <2>1. SingleDesk \/ NoEdits => s \notin Built
    BY <1>3, <1>8, <1>13 DEF OwnBuild, BuildsInv, BuildsAgree, Matching, Built
  <2>2. stored' \subseteq Sessions /\ (SingleDesk \/ NoEdits => Built \subseteq stored')
    BY <2>1, <1>10, <1>13
  <2>3. \A t \in stored : t \in stored' \/ (t = s /\ VersionTaken(sessions[s].version))
    BY <1>4, <1>13
  <2> QED  BY <2>2, <2>3, <1>1, <1>2, <1>13, FailStep
<1> QED  BY <1>2, <1>4, <1>6, <1>11, <1>12, <1>13 DEF CreateBuild

\* Creating one directly keeps it.
LEMMA DirectStep ==
  ASSUME BuildsInv, NEW d \in BuildDesks, NEW s \in Sessions, NEW v \in Versions, CreateAppBuild(d, s, v)
  PROVE  BuildsInv'
<1>1. /\ scene[d] # {} /\ desk[d] = AtRest /\ sessions[s] = NoSession /\ builds[s] = NoBuild /\ ~VersionTaken(v)
      /\ stored' = stored \cup {s} /\ builds' = [builds EXCEPT ![s] = [status |-> "draft", version |-> v]]
      /\ UNCHANGED <<sessions, staged, desk, scene>>
  BY DEF CreateAppBuild, Starts
<1>2. Moves(d, AtRest)
  BY <1>1 DEF BuildsInv, Moves
<1>3. stored \subseteq Sessions /\ sessions[s].status # "pending"
  BY <1>1, BuildTypes DEF BuildsInv, BuildDocsTyped
<1> QED  BY <1>1, <1>2, <1>3, RestFits, BuildCreated

\* Reading a build keeps it.
LEMMA ReadStep ==
  ASSUME BuildsInv, NEW d \in BuildDesks, NEW op \in {"edit", "publish", "archive"}, NEW s \in Sessions,
         NEW v, ReadBuild(d, op, s, v), op = "edit" => v \in Versions, op # "edit" => v = builds[s].version
  PROVE  BuildsInv'
<1>1. op \in scene[d] /\ s \in Built /\ UNCHANGED <<builds, sessions, staged, stored, scene>>
  BY DEF ReadBuild, Starts
<1>2. builds[s] \in BuildDocs /\ v \in Versions
  BY <1>1, BuildTypes DEF Built, BuildsInv, BuildDocsTyped
<1>3. PICK r : r = [op |-> op, build |-> s, read |-> builds[s], version |-> v]
  OBVIOUS
<1>4. r \in Desks /\ r.op = op /\ r.build = s
  BY <1>2, <1>3 DEF Desks, Releases
<1>5. Moves(d, r)
  BY <1>3 DEF ReadBuild
<1>6. DeskFits(r)
  BY <1>1, <1>4 DEF DeskFits
<1>7. staged' \in [Sessions -> {"none", "good", "bad"}] /\ scene[d] # {}
  BY <1>1 DEF BuildsInv, BuildDocsTyped
<1> QED  BY <1>1, <1>4, <1>5, <1>6, <1>7, DeskReads

\* Builds are saved; what is a build stays one.
LEMMA BuildsSaved ==
  ASSUME BuildsInv, NEW d \in BuildDesks, NEW r \in Desks, Moves(d, r),
         UNCHANGED <<sessions, staged, stored, scene>>, builds' \in [Sessions -> BuildDocs \cup {NoBuild}],
         \A t \in Sessions : builds'[t] = NoBuild <=> builds[t] = NoBuild,
         NoEdits => \A t \in Sessions : builds'[t].version = builds[t].version,
         \A t, u \in Built : builds'[t].version = builds'[u].version => t = u,
         OnePublished', scene[d] # {}, r.op # "edit", DeskFits(r)'
  PROVE  BuildsInv'
<1>1. BuildDocsTyped'
  BY DEF BuildsInv, BuildDocsTyped
<1>2. Built' = Built /\ (SingleDesk' <=> SingleDesk) /\ (NoEdits' <=> NoEdits)
  BY DEF Built, SingleDesk, NoEdits
<1>3. BuildsAgree'
  <2>0. BuildsAgree
    BY DEF BuildsInv
  <2>1. BuildHasItsFile' /\ CompletedHasBuild'
    BY <2>0, <1>2 DEF BuildsAgree, BuildsInstallable, BuildHasItsFile, CompletedHasBuild
  <2>2. \A t \in Sessions : Pending(t)' /\ Matching(t)'
    BY <2>0, <1>2 DEF BuildsAgree, Pending, Matching
  <2> QED  BY <2>1, <2>2 DEF BuildsAgree, BuildsInstallable
<1>4. \A t \in Sessions : Lasting(t)
  BY DEF Lasting
<1> QED  BY <1>1, <1>3, <1>4, DeskGoesOn

\* A saved build takes from the request what the request changed, and keeps the rest.
LEMMA SavedBuildIs ==
  ASSUME NEW doc \in BuildDocs, NEW read \in BuildDocs, NEW new \in BuildDocs
  PROVE  /\ SavedBuild(doc, read, new) \in BuildDocs
         /\ SavedBuild(doc, read, new).version = (IF new.version = read.version THEN doc.version ELSE new.version)
         /\ SavedBuild(doc, read, new).status = (IF new.status = read.status THEN doc.status ELSE new.status)
<1>1. DOMAIN doc = {"status", "version"}
  BY DEF BuildDocs
<1>2. PICK z : z = [status |-> IF new.status = read.status THEN doc.status ELSE new.status,
                    version |-> IF new.version = read.version THEN doc.version ELSE new.version]
  OBVIOUS
<1>3. z \in BuildDocs
  BY <1>2 DEF BuildDocs
<1>4. SavedBuild(doc, read, new) = z
  BY <1>1, <1>2 DEF SavedBuild
<1> QED  BY <1>2, <1>3, <1>4

\* A request saves its build: the version changes to a free one or, when it does not edit, not at all,
\* and a build is published only when no other is.
LEMMA SaveStep ==
  ASSUME BuildsInv, NEW d \in BuildDesks, NEW new \in BuildDocs, SaveBuild(d, new),
         desk[d].op \in {"edit", "published", "archive"},
         NoEdits => new.version = desk[d].read.version,
         new.version # desk[d].read.version =>
           \A t \in Built \ {desk[d].build} : builds[t].version # new.version,
         SingleDesk /\ new.status = "published" /\ new.status # desk[d].read.status =>
           \A t \in Sessions : t # desk[d].build => builds[t].status # "published"
  PROVE  BuildsInv'
<1>1. PICK s : s = desk[d].build
  OBVIOUS
<1>2. PICK read : read = desk[d].read
  OBVIOUS
<1>3. desk[d] \in Releases /\ Busy(d) /\ DeskFits(desk[d]) /\ desk[d] # AtRest
  BY DeskTypes DEF BuildsInv
<1>4. s \in Built /\ s \in Sessions /\ read \in BuildDocs /\ scene[d] # {}
  BY <1>1, <1>2, <1>3 DEF Releases, DeskFits, Built, Busy
<1>5. builds \in [Sessions -> BuildDocs \cup {NoBuild}] /\ builds[s] \in BuildDocs
  BY <1>4 DEF Built, BuildsInv, BuildDocsTyped
<1>6. PICK b : b = SavedBuild(builds[s], read, new)
  OBVIOUS
<1>7. /\ b \in BuildDocs /\ b # NoBuild
      /\ b.version = builds[s].version \/ (b.version = new.version /\ new.version # read.version)
      /\ b.status = builds[s].status \/ (b.status = new.status /\ new.status # read.status)
  BY <1>4, <1>5, <1>6, SavedBuildIs, BuildTypes
<1>8. builds' = [builds EXCEPT ![s] = b] /\ Moves(d, AtRest) /\ UNCHANGED <<sessions, staged, stored, scene>>
  BY <1>1, <1>2, <1>6 DEF SaveBuild, Leaves
<1>9. /\ builds' \in [Sessions -> BuildDocs \cup {NoBuild}] /\ builds'[s] = b
      /\ \A t \in Sessions : t # s => builds'[t] = builds[t]
  BY <1>4, <1>5, <1>7, <1>8
<1>10. \A t \in Sessions : builds'[t] = NoBuild <=> builds[t] = NoBuild
  BY <1>4, <1>7, <1>9 DEF Built
<1>11. NoEdits => \A t \in Sessions : builds'[t].version = builds[t].version
  BY <1>2, <1>7, <1>9
<1>12. ASSUME NEW t \in Built, NEW u \in Built, builds'[t].version = builds'[u].version PROVE t = u
  <2>1. \A x, y \in Built : builds[x].version = builds[y].version => x = y
    BY DEF BuildsInv, BuildsAgree, BuildsInstallable, CompletedHasBuild
  <2>2. \A x \in Built : x # s => builds[x].version # b.version
    BY <2>1, <1>1, <1>2, <1>4, <1>7
  <2>3. Built \subseteq Sessions
    BY DEF Built
  <2>4. CASE t = s
    BY <2>2, <2>3, <2>4, <1>9, <1>12
  <2>5. CASE u = s
    BY <2>2, <2>3, <2>5, <1>9, <1>12
  <2>6. CASE t # s /\ u # s
    BY <2>1, <2>3, <2>6, <1>9, <1>12
  <2> QED  BY <2>4, <2>5, <2>6
<1>13. OnePublished'
  <2>1. SUFFICES ASSUME SingleDesk, NEW t \in Sessions, NEW u \in Sessions,
                        builds'[t].status = "published", builds'[u].status = "published"
                 PROVE  t = u
    BY <1>8 DEF OnePublished, SingleDesk
  <2>2. \A x, y \in Sessions : builds[x].status = "published" /\ builds[y].status = "published" => x = y
    BY <2>1 DEF BuildsInv, BuildsAgree, BuildsInstallable, OnePublished
  <2>3. CASE b.status = builds[s].status
    BY <2>1, <2>2, <2>3, <1>9
  <2>4. CASE b.status # builds[s].status
    BY <2>1, <2>2, <2>4, <1>1, <1>2, <1>7, <1>9
  <2> QED  BY <2>3, <2>4
<1> QED  BY <1>4, <1>8, <1>9, <1>10, <1>11, <1>12, <1>13, RestFits, BuildsSaved

\* A request ends, or dies, and writes nothing.
LEMMA DeskLeaves ==
  ASSUME BuildsInv, NEW d \in BuildDesks, desk[d] # AtRest, Leaves(d),
         UNCHANGED <<builds, sessions, staged, stored, scene>>
  PROVE  BuildsInv'
<1>1. scene[d] # {} /\ staged' \in [Sessions -> {"none", "good", "bad"}]
  BY DEF BuildsInv, Busy, BuildDocsTyped
<1>2. Moves(d, AtRest)
  BY DEF Leaves
<1> QED  BY <1>1, <1>2, RestFits, DeskReads

\* Saving one keeps it.
LEMMA SavingStep ==
  ASSUME BuildsInv, NEW d \in BuildDesks, SaveEdit(d) \/ SavePublished(d) \/ SaveArchived(d)
  PROVE  BuildsInv'
<1>1. desk[d].op \in {"edit", "published", "archive"}
  BY DEF SaveEdit, SavePublished, SaveArchived, At
<1>2. desk[d] \in Releases /\ desk[d] # AtRest /\ Busy(d) /\ DeskFits(desk[d])
  BY <1>1, DeskTypes DEF BuildsInv
<1>3. PICK read : read = desk[d].read
  OBVIOUS
<1>4. read \in BuildDocs /\ desk[d].version \in Versions
  BY <1>2, <1>3 DEF Releases
<1>5. CASE SaveEdit(d)
  <2>1. CASE \E b \in Built \ {desk[d].build} : builds[b].version = desk[d].version
    <3>1. Leaves(d) /\ UNCHANGED <<builds, sessions, staged, stored, scene>>
      BY <1>5, <2>1 DEF SaveEdit
    <3> QED  BY <3>1, <1>2, DeskLeaves
  <2>2. CASE ~ \E b \in Built \ {desk[d].build} : builds[b].version = desk[d].version
    <3>1. PICK new : new = [read EXCEPT !.version = desk[d].version]
      OBVIOUS
    <3>2. new \in BuildDocs /\ new.version = desk[d].version /\ new.status = read.status
      BY <3>1, <1>4 DEF BuildDocs
    <3>3. SaveBuild(d, new)
      BY <3>1, <1>3, <1>5, <2>2 DEF SaveEdit
    <3>4. ~NoEdits
      BY <1>2, <1>5 DEF SaveEdit, At, Busy, NoEdits
    <3> QED  BY <3>2, <3>3, <3>4, <1>1, <1>3, <2>2, SaveStep
  <2> QED  BY <2>1, <2>2
<1>6. CASE SavePublished(d)
  <2>1. PICK new : new = [read EXCEPT !.status = "published"]
    OBVIOUS
  <2>2. new \in BuildDocs /\ new.version = read.version
    BY <2>1, <1>4 DEF BuildDocs
  <2>3. SaveBuild(d, new) /\ desk[d].op = "published"
    BY <2>1, <1>3, <1>6 DEF SavePublished, At
  <2>4. SingleDesk => \A t \in Sessions : t # desk[d].build => builds[t].status # "published"
    BY <2>3, <1>2 DEF DeskFits
  <2> QED  BY <2>2, <2>3, <2>4, <1>1, <1>3, SaveStep
<1>7. CASE SaveArchived(d)
  <2>1. PICK new : new = [read EXCEPT !.status = "archived"]
    OBVIOUS
  <2>2. new \in BuildDocs /\ new.version = read.version /\ new.status = "archived"
    BY <2>1, <1>4 DEF BuildDocs
  <2>3. SaveBuild(d, new)
    BY <2>1, <1>3, <1>7 DEF SaveArchived
  <2> QED  BY <2>2, <2>3, <1>1, <1>3, SaveStep
<1> QED  BY <1>5, <1>6, <1>7

\* Archiving the others keeps it.
LEMMA ArchiveStep == ASSUME BuildsInv, NEW d \in BuildDesks, ArchiveOthers(d) PROVE BuildsInv'
<1>1. desk[d].op = "publish" /\ UNCHANGED <<sessions, staged, stored, scene>>
  BY DEF ArchiveOthers, At
<1>2. desk[d] \in Releases /\ desk[d] # AtRest /\ Busy(d) /\ DeskFits(desk[d])
  BY <1>1, DeskTypes DEF BuildsInv
<1>3. PICK s : s = desk[d].build
  OBVIOUS
<1>4. s \in Built /\ scene[d] # {}
  BY <1>1, <1>2, <1>3 DEF DeskFits, Busy
<1>5. PICK r : r = [desk[d] EXCEPT !.op = "published"]
  OBVIOUS
<1>6. r \in Desks /\ r.op = "published" /\ r.build = s
  BY <1>2, <1>3, <1>5 DEF Desks, Releases
<1>7. Moves(d, r)
  BY <1>5 DEF ArchiveOthers
<1>8. builds \in [Sessions -> BuildDocs \cup {NoBuild}]
  BY DEF BuildsInv, BuildDocsTyped
<1>9. ASSUME NEW b \in BuildDocs
      PROVE  LET x == [b EXCEPT !.status = "archived"]
             IN  x \in BuildDocs /\ x.version = b.version /\ x.status = "archived"
  BY DEF BuildDocs
<1>10. DOMAIN builds' = Sessions
  BY DEF ArchiveOthers
<1>11. ASSUME NEW t \in Sessions
       PROVE  /\ builds'[t] \in BuildDocs \cup {NoBuild} /\ builds'[t].version = builds[t].version
              /\ builds'[t] = NoBuild <=> builds[t] = NoBuild
              /\ builds'[t].status = "published" => builds[t].status = "published" /\ t = s
  <2>1. builds'[t] = IF Supplants(s, t) THEN [builds[t] EXCEPT !.status = "archived"] ELSE builds[t]
    BY <1>3 DEF ArchiveOthers
  <2>2. CASE Supplants(s, t)
    <3>1. builds[t] \in BuildDocs
      BY <2>2, <1>8, BuildTypes DEF Supplants
    <3>2. builds'[t] \in BuildDocs /\ builds'[t].version = builds[t].version /\ builds'[t].status = "archived"
      BY <2>1, <2>2, <3>1, <1>9
    <3> QED  BY <3>1, <3>2, BuildTypes
  <2>3. CASE ~Supplants(s, t)
    BY <2>1, <2>3, <1>8 DEF Supplants
  <2> QED  BY <2>2, <2>3
<1>12. builds' \in [Sessions -> BuildDocs \cup {NoBuild}]
  <2>1. builds' = [t \in Sessions |-> builds'[t]]
    BY DEF ArchiveOthers
  <2> QED  BY <2>1, <1>11
<1>13. \A t, u \in Built : builds'[t].version = builds'[u].version => t = u
  BY <1>11 DEF BuildsInv, BuildsAgree, BuildsInstallable, CompletedHasBuild, Built
<1>14. OnePublished'
  BY <1>11 DEF OnePublished
<1>15. DeskFits(r)'
  BY <1>4, <1>6, <1>11 DEF DeskFits, Built
<1> QED  BY <1>1, <1>4, <1>6, <1>7, <1>11, <1>12, <1>13, <1>14, <1>15, BuildsSaved

\* The browser uploads, or time passes: no request and no build moves.
LEMMA SessionsDrift ==
  ASSUME BuildsInv, UNCHANGED <<builds, stored, desk, scene>>, staged' \in [Sessions -> {"none", "good", "bad"}],
         sessions' \in [Sessions -> SessionDocs \cup {NoSession}],
         \A s \in Sessions : /\ sessions'[s].status = sessions[s].status /\ sessions'[s].version = sessions[s].version
                             /\ sessions'[s] = NoSession <=> sessions[s] = NoSession
  PROVE  BuildsInv'
<1>1. BuildDocsTyped'
  BY DEF BuildsInv, BuildDocsTyped
<1>2. BuildsAgree'
  BY DEF BuildsInv, BuildsAgree, BuildsInstallable, BuildHasItsFile, CompletedHasBuild, OnePublished,
         Pending, Matching, SingleDesk, NoEdits, Built
<1>3. ASSUME NEW d \in BuildDesks PROVE Busy(d)' /\ DeskFits(desk[d])'
  <2>1. Busy(d) /\ DeskFits(desk[d])
    BY DEF BuildsInv
  <2>2. Busy(d)'
    BY <2>1 DEF Busy
  <2>3. desk[d].op \in {"claim", "expire", "inspect", "copy", "create", "clean", "finish"} =>
          desk[d].session \in Sessions
    BY DeskTypes
  <2>4. DeskFits(desk[d])'
    BY <2>1, <2>3 DEF DeskFits, SingleDesk, NoEdits, Built, VersionTaken
  <2> QED  BY <2>2, <2>4
<1> QED  BY <1>1, <1>2, <1>3 DEF BuildsInv

\* Uploading a file keeps it.
LEMMA UploadStep == ASSUME BuildsInv, NEW s \in Sessions, NEW apk \in {"good", "bad"}, Upload(s, apk) PROVE BuildsInv'
<1>1. staged' \in [Sessions -> {"none", "good", "bad"}] /\ UNCHANGED <<builds, sessions, stored, desk, scene>>
  BY DEF Upload, BuildsInv, BuildDocsTyped
<1> QED  BY <1>1, SessionsDrift DEF BuildsInv, BuildDocsTyped

\* A lapsing session keeps it.
LEMMA LapseStep == ASSUME BuildsInv, NEW s \in Sessions, SessionLapses(s) PROVE BuildsInv'
<1>1. UNCHANGED <<builds, staged, stored, desk, scene>> /\ sessions[s].open
  BY DEF SessionLapses
<1>2. sessions[s] \in SessionDocs
  <2>1. NoSession.open = FALSE
    BY DEF NoSession
  <2> QED  BY <2>1, <1>1 DEF BuildsInv, BuildDocsTyped
<1>3. PICK x : x = [sessions[s] EXCEPT !.open = FALSE]
  OBVIOUS
<1>4. x \in SessionDocs /\ x.status = sessions[s].status /\ x.version = sessions[s].version
  BY <1>2, <1>3 DEF SessionDocs
<1>5. /\ sessions' = [sessions EXCEPT ![s] = x] /\ sessions \in [Sessions -> SessionDocs \cup {NoSession}]
      /\ staged \in [Sessions -> {"none", "good", "bad"}]
  BY <1>3 DEF SessionLapses, BuildsInv, BuildDocsTyped
<1>6. /\ sessions' \in [Sessions -> SessionDocs \cup {NoSession}] /\ sessions'[s] = x
      /\ \A t \in Sessions : t # s => sessions'[t] = sessions[t]
  BY <1>4, <1>5
<1>7. x # NoSession /\ sessions[s] # NoSession
  BY <1>2, <1>4, BuildTypes
<1> QED  BY <1>1, <1>4, <1>5, <1>6, <1>7, SessionsDrift

\* Every step keeps it.
LEMMA BuildsStep == ASSUME BuildsInv, BuildsNext PROVE BuildsInv'
<1>1. ASSUME NEW d \in BuildDesks, NEW s \in Sessions, BeginCompletion(d, s) PROVE BuildsInv'
  BY <1>1, BeginStep
<1>2. ASSUME NEW d \in BuildDesks, NEW s \in Sessions, NEW v \in Versions,
             OpenSession(d, s, v) \/ CreateAppBuild(d, s, v)
      PROVE  BuildsInv'
  BY <1>2, OpenStep, DirectStep
<1>3. ASSUME NEW d \in BuildDesks, NEW s \in Sessions, NEW v \in Versions, ReadBuild(d, "edit", s, v)
      PROVE  BuildsInv'
  BY <1>3, ReadStep
<1>4. ASSUME NEW d \in BuildDesks, NEW s \in Sessions, NEW op \in {"publish", "archive"},
             ReadBuild(d, op, s, builds[s].version)
      PROVE  BuildsInv'
  BY <1>4, ReadStep
<1>5. ASSUME NEW d \in BuildDesks, Claim(d) \/ ExpireSession(d) \/ Inspect(d) \/ Copy(d) PROVE BuildsInv'
  BY <1>5, ClaimStep, ExpireStep, InspectStep, CopyStep
<1>6. ASSUME NEW d \in BuildDesks, CreateBuild(d) \/ Clean(d) \/ FinishCompletion(d) PROVE BuildsInv'
  BY <1>6, BuildCreateStep, CleanStep, FinishStep
<1>7. ASSUME NEW d \in BuildDesks, SaveEdit(d) \/ SavePublished(d) \/ SaveArchived(d) \/ ArchiveOthers(d)
      PROVE  BuildsInv'
  BY <1>7, SavingStep, ArchiveStep
<1>8. ASSUME NEW d \in BuildDesks, DeskDies(d) PROVE BuildsInv'
  BY <1>8, DeskLeaves DEF DeskDies
<1>9. ASSUME NEW s \in Sessions, NEW apk \in {"good", "bad"}, Upload(s, apk) PROVE BuildsInv'
  BY <1>9, UploadStep
<1>10. ASSUME NEW s \in Sessions, SessionLapses(s) PROVE BuildsInv'
  BY <1>10, LapseStep
<1> QED  BY <1>1, <1>2, <1>3, <1>4, <1>5, <1>6, <1>7, <1>8, <1>9, <1>10 DEF BuildsNext

\* It holds at the start.
LEMMA BuildsStart == ASSUME BuildsInit PROVE BuildsInv
<1>1. Built = {}
  BY DEF BuildsInit, Built
<1>2. BuildDocsTyped
  BY DEF BuildsInit, BuildDocsTyped
<1>3. \A s \in Sessions : sessions[s] = NoSession /\ builds[s] = NoBuild
  BY DEF BuildsInit
<1>4. BuildsAgree
  BY <1>1, <1>3, BuildTypes DEF BuildsAgree, BuildsInstallable, BuildHasItsFile, CompletedHasBuild, OnePublished,
     Pending, Matching
<1>5. desk \in [BuildDesks -> Desks] /\ \A d \in BuildDesks : desk[d] = AtRest
  BY RestFits DEF BuildsInit
<1>6. \A d \in BuildDesks : Busy(d) /\ DeskFits(desk[d])
  BY <1>5, RestFits DEF Busy
<1> QED  BY <1>2, <1>4, <1>5, <1>6 DEF BuildsInv

\* Steps of the other parts keep it.
LEMMA BuildsKept == ASSUME BuildsInv, UNCHANGED buildVars PROVE BuildsInv'
<1>1. UNCHANGED <<builds, sessions, staged, stored, desk, scene>>
  BY DEF buildVars
<1>2. staged' \in [Sessions -> {"none", "good", "bad"}] /\ sessions' \in [Sessions -> SessionDocs \cup {NoSession}]
  BY <1>1 DEF BuildsInv, BuildDocsTyped
<1> QED  BY <1>1, <1>2, SessionsDrift

\* Every build has its file, every version and every completed session its one build, and one build is
\* published, under the overlaps that the conditions of the three allow (appBuildDirectUpload.service.js,
\* completeDirectBuildUploadSession, and the publication of a build).
THEOREM Builds == Spec => []BuildsInstallable
<1>1. ASSUME Init PROVE BuildsInv
  BY <1>1, BuildsStart DEF Init
<1>2. ASSUME BuildsInv, [Next]_officeVars PROVE BuildsInv'
  <2>1. BuildsNext \/ UNCHANGED buildVars
    BY <1>2 DEF Next, officeVars
  <2> QED  BY <2>1, <1>2, BuildsStep, BuildsKept
<1>3. ASSUME BuildsInv PROVE BuildsInstallable
  BY <1>3 DEF BuildsInv, BuildsAgree
<1> QED  BY <1>1, <1>2, <1>3, PTL DEF Spec
=============================================================================
