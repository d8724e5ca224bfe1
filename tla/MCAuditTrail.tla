---------------------------- MODULE MCAuditTrail -----------------------------
(***************************************************************************)
(* Small instances of AuditTrail: one user account and @world.             *)
(***************************************************************************)
EXTENDS AuditTrail, TLC

TransactionSymmetry == Permutations(Transactions)
=============================================================================
