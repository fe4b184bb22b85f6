------------------------ MODULE CreditTransactionsMC ------------------------
(* Small instances of CreditTransactions.                                  *)
EXTENDS CreditTransactions, TLC

Symmetry == Permutations(Sessions) \cup Permutations(Tenants)
=============================================================================
