----------------------------- MODULE MCReaders ------------------------------
(***************************************************************************)
(* Small instances of LedgerReaders and AccountsPage: the watched account  *)
(* 1 receives and spends, one posting per page; accounts 3 and 4 may be    *)
(* opened from the accounts page.                                          *)
(***************************************************************************)
EXTENDS AccountsPage, TLC

CONSTANTS Alice

MCAccounts == {1, 2, 3, 4}
MCOpen == {1, 2}
MCSystem == {2}
MCOwnerOf == (1 :> Alice) @@ (2 :> None) @@ (3 :> Alice) @@ (4 :> Alice)
MCAccountOf == [a \in MCAccounts |-> a]
MCCurrencyOf == [a \in MCAccounts |-> "USD"]

Move(from, to) ==
  [kind |-> "transfer", from |-> from, to |-> to, amount |-> 1,
   currency |-> "USD", owner |-> Alice, key |-> None]

MoveInputs == {Move(1, 2), Move(2, 1)}
MCKeys == {}

\* Bounds: only the accounts page opens accounts; next to it there is at most
\* one request, and after it has made a call no other page is opened.
AccountsPageUsed ==
  list # ListClosed \/ \E c \in Openings : calls[c].at # "unused"

AccountsPageBound ==
  /\ opened \ MCOpen \subseteq {calls[c].account : c \in Openings}
  /\ AccountsPageUsed =>
       /\ Cardinality({r \in Requests : pc[r] # "idle"}) <= 1
       /\ OtherPagesClosed

ReadersSymmetry == Permutations(Requests) \cup Permutations(Openings)
=============================================================================
