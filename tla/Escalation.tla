----------------------------- MODULE Escalation -----------------------------
(***************************************************************************)
(* What the backend promises about the unlock cases of borrowers: a case   *)
(* is first the tenant's, it is handed to the channel partner once the     *)
(* tenant's deadline has passed and to the super administrator once the    *)
(* partner's has passed, and a level decides only cases it has been        *)
(* handed.  BorrowerRequests implements it with handlers and a job that    *)
(* work on stale documents.                                                *)
(*                                                                         *)
(* If runs of the job overlap, a case may be handed to a level once more:  *)
(* the partner's time then starts anew, but no level gets the case before  *)
(* the levels below it had all the time they were given at first.          *)
(***************************************************************************)
EXTENDS Naturals

CONSTANTS Cases,      \* cases a borrower may open
          PartnerSla  \* time a partner has for a case

VARIABLES now,      \* wall-clock time
          reached,  \* the levels each case has been handed to
          due,      \* when the time of the tenant and of the partner is over
          decider,  \* the level whose decision stands, if any
          overlap   \* whether runs of the job may overlap

vars == <<now, reached, due, decider, overlap>>

Levels == {"tenant", "partner", "admin"}
NotDue == 0

Init ==
  /\ now = 0
  /\ reached = [c \in Cases |-> {}]
  /\ due = [c \in Cases |-> [tenant |-> NotDue, partner |-> NotDue]]
  /\ decider = [c \in Cases |-> "nobody"]
  /\ overlap \in BOOLEAN

Tick == now' = now + 1 /\ UNCHANGED <<reached, due, decider>>

(* The tenant has its own time, set when the case is opened.               *)
Open(c) ==
  /\ reached[c] = {}
  /\ reached' = [reached EXCEPT ![c] = {"tenant"}]
  /\ due'[c].tenant \in Nat
  /\ due' = [due EXCEPT ![c].tenant = due'[c].tenant]
  /\ UNCHANGED <<now, decider>>

(* A decision made at the last moment may be overtaken: the case is open   *)
(* again, one level up.                                                    *)
HandToPartner(c) ==
  /\ "tenant" \in reached[c] /\ due[c].tenant <= now
  /\ ~overlap => reached[c] = {"tenant"}
  /\ reached' = [reached EXCEPT ![c] = @ \cup {"partner"}]
  /\ due' = [due EXCEPT ![c].partner = now + PartnerSla]
  /\ decider' = [decider EXCEPT ![c] = "nobody"]
  /\ UNCHANGED now

HandToAdmin(c) ==
  /\ "partner" \in reached[c] /\ due[c].tenant + PartnerSla <= now
  /\ ~overlap => "admin" \notin reached[c] /\ due[c].partner <= now
  /\ reached' = [reached EXCEPT ![c] = @ \cup {"admin"}]
  /\ decider' = [decider EXCEPT ![c] = "nobody"]
  /\ UNCHANGED <<now, due>>

(* An administrator may step in as soon as a partner has the case.         *)
MayDecide(c, level) ==
  \/ level \in reached[c]
  \/ level = "admin" /\ "partner" \in reached[c]

Decide(c, level) ==
  /\ MayDecide(c, level)
  /\ decider' = [decider EXCEPT ![c] = level]
  /\ UNCHANGED <<now, reached, due>>

Next ==
  /\ UNCHANGED overlap
  /\ \/ Tick
     \/ \E c \in Cases :
          \/ Open(c) \/ HandToPartner(c) \/ HandToAdmin(c)
          \/ \E level \in Levels : Decide(c, level)

Spec == Init /\ [][Next]_vars
=============================================================================
