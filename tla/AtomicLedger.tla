---------------------------- MODULE AtomicLedger ----------------------------
(***************************************************************************)
(* What the ledger promises its clients: every accepted transfer or        *)
(* reversal takes effect at one instant, against the balances of that      *)
(* instant.  No locks, no rows, no requests in flight: a journal of        *)
(* entries, the balances they add up to, and the conditions under which    *)
(* one more entry may be added.  The detailed module Ledger implements it. *)
(***************************************************************************)
EXTENDS Integers

CONSTANTS
  Ids,             \* identifiers of journal transactions
  Accounts,        \* account identifiers
  SystemAccounts,  \* the accounts without an overdraft floor (@world)
  CurrencyOf,      \* the one currency of each account
  Amounts,         \* the amounts a transfer may move
  Keys,            \* idempotency keys
  None             \* no key, no reversed transaction

VARIABLES
  opened,          \* the accounts that exist
  balance,         \* the balance of each account
  entries          \* the journal: a set of balanced two-legged entries

vars == <<opened, balance, entries>>

Leg == 1..2

\* The legs of a transfer: the source loses what the destination gains.
TransferLegs(from, to, amount) ==
  [i \in Leg |-> IF i = 1 THEN [account |-> from, amount |-> -amount]
                          ELSE [account |-> to, amount |-> amount]]

NegatedLegs(legs) ==
  [i \in Leg |-> [account |-> legs[i].account, amount |-> -legs[i].amount]]

\* What an entry's legs do to one account.
Delta(legs, a) ==
  (IF legs[1].account = a THEN legs[1].amount ELSE 0) +
  (IF legs[2].account = a THEN legs[2].amount ELSE 0)

Init ==
  /\ opened \in SUBSET Accounts
  /\ balance = [a \in Accounts |-> 0]
  /\ entries = {}

Open(a) ==
  /\ a \notin opened
  /\ opened' = opened \cup {a}
  /\ UNCHANGED <<balance, entries>>

\* One entry takes effect: a fresh id, and no guarded account that the entry
\* touches ends below its floor.
Post(id, legs, key, reverses) ==
  /\ \A e \in entries : e.id # id
  /\ \A i \in Leg : legs[i].account \notin SystemAccounts =>
       balance[legs[i].account] + Delta(legs, legs[i].account) >= 0
  /\ balance' = [a \in Accounts |-> balance[a] + Delta(legs, a)]
  /\ entries' = entries \cup
       {[id |-> id, legs |-> legs, key |-> key, reverses |-> reverses]}
  /\ UNCHANGED opened

\* A transfer between two open accounts of one currency, under a key nobody
\* used before.
Transfer(id, from, to, amount, key) ==
  /\ {from, to} \subseteq opened
  /\ from # to
  /\ CurrencyOf[from] = CurrencyOf[to]
  /\ key # None => \A e \in entries : e.key # key
  /\ Post(id, TransferLegs(from, to, amount), key, None)

\* The compensation of an entry nobody compensated before.
Reverse(id, original) ==
  /\ \A e \in entries : e.reverses # original.id
  /\ Post(id, NegatedLegs(original.legs), None, original.id)

Next ==
  \/ \E a \in Accounts : Open(a)
  \/ \E id \in Ids, from, to \in Accounts, amount \in Amounts,
        key \in Keys \cup {None} : Transfer(id, from, to, amount, key)
  \/ \E id \in Ids, original \in entries : Reverse(id, original)

Spec == Init /\ [][Next]_vars
=============================================================================
