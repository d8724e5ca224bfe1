------------------------------- MODULE MCSeed -------------------------------
(***************************************************************************)
(* Seed in its Deployment, with the history of the script.  Account 1 is   *)
(* checking, 2 savings, 3 travel.                                          *)
(***************************************************************************)
EXTENDS Deployment, TLC

Movement(key, from, to) == [key |-> key, from |-> from, to |-> to]

MCMovements ==
  << Movement("payroll", 0, 1), Movement("save-1", 1, 2), Movement("rent", 1, 0),
     Movement("groceries", 1, 0), Movement("save-2", 1, 2),
     Movement("fx-top-up", 0, 3), Movement("hotel", 3, 0),
     Movement("duplicate-groceries", 1, 0) >>

RunSymmetry == Permutations(Runs)
=============================================================================
