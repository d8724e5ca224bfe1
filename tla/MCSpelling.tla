----------------------------- MODULE MCSpelling -----------------------------
(***************************************************************************)
(* Account ids in upper case, which the request schema accepts, PostgreSQL *)
(* equates with lower case and JavaScript does not.  4 is @world, 5 and 6  *)
(* are user accounts as PostgreSQL prints them; 1 and 2 are 5 and 6 in     *)
(* upper case, which sorts before lower case.                              *)
(***************************************************************************)
EXTENDS LedgerProperties, TLC

CONSTANTS Alice

MCAccounts == {4, 5, 6}
MCRefs == {1, 2, 4, 5, 6}
MCAccountOf == (1 :> 5) @@ (2 :> 6) @@ [a \in MCAccounts |-> a]
MCSystem == {4}
MCOwnerOf == (4 :> None) @@ (5 :> Alice) @@ (6 :> Alice)
MCCurrencyOf == [a \in MCAccounts |-> "USD"]
MCKeys == {}

Move(from, to) ==
  [kind |-> "transfer", from |-> from, to |-> to, amount |-> 1,
   currency |-> "USD", owner |-> Alice, key |-> None]

\* A deposit and a withdrawal of account 5 in upper case, and two transfers
\* from 5 to 6, one of them with the destination in upper case.
SpelledInputs == {Move(4, 1), Move(1, 4), Move(5, 6), Move(5, 2)}
=============================================================================
