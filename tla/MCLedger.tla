------------------------------ MODULE MCLedger ------------------------------
(***************************************************************************)
(* Small instances of Ledger.  Account 2 is @world; its id sorts between   *)
(* the two user accounts so that the order of locking differs from the     *)
(* order of the legs in both directions.                                   *)
(***************************************************************************)
EXTENDS LedgerProperties, TLC

CONSTANTS Alice, Bob, K

MCAccounts == {1, 2, 3}
MCSystem == {2}
MCOwnerOf == (1 :> Alice) @@ (2 :> None) @@ (3 :> Bob)
MCAccountOf == [a \in MCAccounts |-> a]
MCCurrencyOf == [a \in MCAccounts |-> "USD"]

Move(from, to, amount, owner, key) ==
  [kind |-> "transfer", from |-> from, to |-> to, amount |-> amount,
   currency |-> "USD", owner |-> owner, key |-> key]

Reversals == {[kind |-> "reverse", target |-> t] : t \in Requests}

\* Deposits, competing debits in both directions, and reversals of any of
\* them or of another reversal; a key that some of the debits compete for.
TransferInputs ==
  Reversals \cup
  {Move(2, 1, 2, Alice, None), Move(1, 3, 1, Alice, K),
   Move(1, 3, 2, Alice, None), Move(3, 1, 1, Bob, K)}

\* Retries and reuses of one key: the same body, another amount, another
\* caller; and a transfer without a key that competes for the funds.
RetryInputs ==
  {Move(2, 1, 1, Alice, K), Move(2, 1, 2, Alice, K), Move(2, 1, 1, Bob, K),
   Move(1, 3, 1, Alice, None), Move(1, 3, 1, Alice, K)}

\* One body for each way a transfer is refused, and an amount at the limit of
\* the column.
RefusalInputs ==
  {Move(2, 1, 3, Alice, None), Move(2, 1, 4, Alice, None),
   Move(2, 1, 0, Alice, None), Move(1, 1, 1, Alice, None),
   Move(1, 3, 1, Bob, None),
   [Move(2, 1, 1, Alice, None) EXCEPT !.currency = "EUR"],
   [Move(2, 1, 1, Alice, None) EXCEPT !.currency = "XXX"]}

RefusalsAndRetries == RetryInputs \cup RefusalInputs \cup Reversals

\* A request of every kind, for progress and for the abstract ledger. Requests
\* differ in nothing but their names, so one of them need not be reversed.
MixedInputs ==
  {i \in Reversals : i.target # CHOOSE r \in Requests : TRUE} \cup
  {Move(2, 1, 1, Alice, K), Move(2, 3, 1, Bob, None), Move(3, 2, 1, Bob, K)}

RequestSymmetry == Permutations(Requests)
=============================================================================
