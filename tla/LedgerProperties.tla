-------------------------- MODULE LedgerProperties --------------------------
(***************************************************************************)
(* What makes the write side of MiniLedger correct, stated over the        *)
(* committed tables and the requests in flight.                            *)
(***************************************************************************)
EXTENDS Ledger, FiniteSetsExt

-----------------------------------------------------------------------------
(* Clients that spell account ids the way PostgreSQL prints them            *)

CanonicalIds ==
  \A in \in Inputs : in.kind = "transfer" => {in.from, in.to} \subseteq Accounts

-----------------------------------------------------------------------------
(* Types                                                                    *)

BalanceInRange == {n \in Int : InRange(n)}

Codes ==
  {"ok", "error", "unknown_currency", "non_positive_amount", "same_account",
   "unknown_account", "account_currency_mismatch", "not_account_owner",
   "insufficient_funds", "idempotency_conflict", "unknown_transaction",
   "already_reversed"}

Stages == {"idle", "lookup", "begin", "respond", "done"} \cup InTransaction

DraftOK(d) ==
  /\ d.currency \in Currencies
  /\ d.reverses \in Requests \cup {None}
  /\ \A i \in Leg : d.legs[i].ref \in Refs /\ d.legs[i].amount \in Int

PostingOK(p) ==
  /\ p.seq \in Nat \ {0}
  /\ p.account \in Accounts
  /\ p.amount \in BalanceInRange
  /\ p.balanceAfter \in BalanceInRange

DatabaseOK ==
  /\ opened \in SUBSET Accounts
  /\ DOMAIN balance = Accounts
  /\ \A a \in Accounts : balance[a].balance \in BalanceInRange
  /\ \A j \in journal :
       /\ j.id \in Requests
       /\ j.currency \in Currencies
       /\ j.reverses \in Requests \cup {None}
       /\ \A i \in Leg : j.postings[i].transactionId = j.id /\ PostingOK(j.postings[i])
  /\ DOMAIN idem = Keys
  /\ nextSeq \in Nat \ {0}

RequestsOK ==
  /\ pc \in [Requests -> Stages]
  /\ input \in [Requests -> Inputs \cup {None}]
  /\ DOMAIN draft = Requests
  /\ held \in [Requests -> SUBSET Leg]
  /\ DOMAIN locked = Requests
  /\ seqs \in [Requests -> [Leg -> Nat]]
  /\ DOMAIN answer = Requests
  /\ \A r \in Requests :
       /\ draft[r] # None => DraftOK(draft[r])
       /\ DOMAIN locked[r] = Leg
       /\ \A i \in Leg : locked[r][i].balance \in BalanceInRange
       /\ answer[r] # None => answer[r].code \in Codes

\* Every variable keeps its type.  The part that needs the code: no committed
\* balance ever leaves the range of its bigint column (the INSERT of the
\* postings fails first).
TypeOK == DatabaseOK /\ RequestsOK

-----------------------------------------------------------------------------
(* The money                                                                *)

Postings == {j.postings[i] : j \in journal, i \in Leg}
PostingsOf(a) == {p \in Postings : p.account = a}
Latest(P) == CHOOSE p \in P : \A q \in P : q.seq <= p.seq
Total(P) == MapThenSumSet(LAMBDA p : p.amount, P)

\* Reconciliation (ADR-006, what verifyAccount compares): for every account
\* the materialized balance, the sum of its postings and the balance_after
\* of its last posting agree, and chain_hash is the hash of that posting.  A
\* lost update, a stale read or a posting without its balance breaks it.
Reconciled ==
  \A a \in Accounts :
    LET P == PostingsOf(a) IN
    /\ balance[a].balance = Total(P)
    /\ P = {} => balance[a].chainHash = None
    /\ P # {} => balance[a] = [balance |-> Latest(P).balanceAfter,
                               chainHash |-> Latest(P).hash]

HeadHash(P) == IF P = {} THEN None ELSE Latest(P).hash

\* verifyChain over one account's postings in the order of seq: each posting
\* links to the one before it, and its hash is recomputed from what the table
\* stores.
ChainValid(P) ==
  \A p \in P :
    LET prev == HeadHash({q \in P : q.seq < p.seq}) IN
    /\ p.prevHash = prev
    /\ p.hash = HashPosting(prev, p.transactionId, p.account, p.amount,
                            p.balanceAfter)

\* The order in which postings drew their seq is the order in which the
\* account's balance row was locked: every account's chain verifies at every
\* moment (ADR-008), whatever else was interleaved or rolled back.
ChainsVerify == \A a \in Accounts : ChainValid(PostingsOf(a))

\* A guarded account is never below its floor, neither now nor right after
\* any posting of its history (no overdraft race, ADR-006).
NoOverdraft ==
  /\ \A a \in opened \ SystemAccounts : balance[a].balance >= 0
  /\ \A p \in Postings : p.account \notin SystemAccounts => p.balanceAfter >= 0

\* conservationByCurrency: postings by the currency of their transaction.
CurrencyTotal(c) ==
  Total(UNION {{j.postings[i] : i \in Leg} : j \in {k \in journal : k.currency = c}})

\* verifyConservation at the moment of its only statement.
ConservationReported == \A c \in Currencies : CurrencyTotal(c) = 0

BalanceTotal(c) ==
  MapThenSumSet(LAMBDA a : balance[a].balance, {a \in Accounts : CurrencyOf[a] = c})

\* Money is neither created nor destroyed: the audit reports so of the
\* postings, and in every currency of accounts the materialized balances net to
\* zero, too.
Conserved ==
  ConservationReported /\ \A c \in Currencies : BalanceTotal(c) = 0

-----------------------------------------------------------------------------
(* Requests and what they leave behind                                      *)

ReceiptOf(j) ==
  [id |-> j.id, currency |-> j.currency,
   postings |-> [i \in Leg |->
     [account |-> j.postings[i].account, amount |-> j.postings[i].amount,
      balanceAfter |-> j.postings[i].balanceAfter]]]

\* An idempotency key moves money at most once, and its row and the journal
\* commit or vanish together (ADR-007): the row of a key exists exactly when
\* a transfer under that key is in the journal, and carries that transfer's
\* fingerprint, id and receipt.
KeyExactlyOnce ==
  /\ \A j1, j2 \in journal :
       KeyOf(j1.id) # None /\ KeyOf(j1.id) = KeyOf(j2.id) => j1 = j2
  /\ \A k \in Keys :
       IF \E j \in journal : KeyOf(j.id) = k
       THEN \E j \in journal :
              /\ KeyOf(j.id) = k
              /\ idem[k] = [fingerprint |-> Fingerprint(input[j.id]),
                            transactionId |-> j.id,
                            response |-> ReceiptOf(j)]
       ELSE idem[k] = None

\* What the caller is told is what happened: a success carries the receipt of
\* a committed transaction that does what this caller asked for (its own, or
\* the one its key replays), and a refusal left nothing in the journal.
AnswersTruthful ==
  \A r \in Requests : pc[r] = "done" =>
    /\ answer[r].code = "ok" =>
         \E j \in journal :
           /\ answer[r].receipt = ReceiptOf(j)
           /\ \/ j.id = r
              \/ /\ KeyOf(r) # None
                 /\ KeyOf(j.id) = KeyOf(r)
                 /\ Fingerprint(input[j.id]) = Fingerprint(input[r])
    /\ answer[r].code \notin {"ok", "error"} => \A j \in journal : j.id # r

\* A transaction is reversed at most once, and a reversal undoes exactly what
\* its original did, in the same currency, after it.
ReversedOnce ==
  /\ \A j1, j2 \in journal :
       j1.reverses # None /\ j1.reverses = j2.reverses => j1 = j2
  /\ \A j \in journal : j.reverses # None =>
       \E o \in journal :
         /\ o.id = j.reverses
         /\ o.currency = j.currency
         /\ \A i \in Leg :
              /\ j.postings[i].account = o.postings[i].account
              /\ j.postings[i].amount = -o.postings[i].amount
              /\ j.postings[i].seq > o.postings[i].seq

\* No event without its transaction, no transaction without its event, and
\* the event carries the receipt (ADR-010).
OutboxExact ==
  outbox = {[type |-> IF j.reverses = None THEN "transfer.posted"
                                           ELSE "transfer.reversed",
             payload |-> ReceiptOf(j)] : j \in journal}

-----------------------------------------------------------------------------
(* Waiting                                                                  *)

\* r cannot move before q ends its transaction.
WaitsFor(r, q) ==
  /\ q # r
  /\ \/ /\ pc[r] = "lock"
        /\ \E i \in Leg : NextToLock(r, i) /\ TargetOf(r, i) \in LockedAccounts(q)
     \/ pc[r] = "claim" /\ KeyOf(r) # None /\ ClaimPending(q, KeyOf(r))
     \/ /\ pc[r] = "insert" /\ pc[q] \in Inserted
        /\ draft[r].reverses # None /\ draft[q].reverses = draft[r].reverses

\* No set of requests waits on itself: row locks, key claims and the index on
\* reversals together never close a cycle (ADR-006, "no cyclic wait").
NoWaitCycle ==
  \A S \in (SUBSET Requests) \ {{}} :
    \E r \in S : \A q \in S : ~WaitsFor(r, q)

-----------------------------------------------------------------------------
(* What a step may never do                                                 *)

\* Recorded facts stay recorded: transactions, postings and events are only
\* added, and a committed key row never changes.
HistoryAppendOnly ==
  [][/\ journal \subseteq journal'
     /\ outbox \subseteq outbox'
     /\ \A k \in Keys : idem[k] # None => idem'[k] = idem[k]]_vars

RefusedForFunds(r) ==
  pc'[r] = "done" /\ pc[r] # "done" /\ answer'[r].code = "insufficient_funds"

CannotBear(r) ==
  \E i \in Leg : /\ TargetOf(r, i) \notin SystemAccounts
                 /\ balance[TargetOf(r, i)].balance + AmountOf(r, i) < 0

RefusalsJustified == \A r \in Requests : RefusedForFunds(r) => CannotBear(r)

\* A request is refused for lack of funds only if the balances committed at
\* that very moment cannot bear it: the check never acts on a stale read.
RefusalsCurrent == [][RefusalsJustified]_vars

-----------------------------------------------------------------------------
(* What must happen                                                         *)

\* Every request that reached the server is answered, whoever else holds the
\* locks, the key or the connections it needs.
EveryRequestAnswered ==
  \A r \in Requests : pc[r] # "idle" ~> pc[r] = "done"

-----------------------------------------------------------------------------
(* The abstract ledger                                                      *)

AbstractEntry(j) ==
  [id |-> j.id, key |-> KeyOf(j.id), reverses |-> j.reverses,
   legs |-> [i \in Leg |-> [account |-> j.postings[i].account,
                            amount |-> j.postings[i].amount]]]

Atomic == INSTANCE AtomicLedger WITH
  Ids <- Requests,
  Amounts <- {in.amount : in \in {x \in Inputs : x.kind = "transfer"}},
  balance <- [a \in Accounts |-> balance[a].balance],
  entries <- {AbstractEntry(j) : j \in journal}

\* The concurrent ledger implements the atomic one: each COMMIT is one atomic
\* entry against the balances of that moment, everything else is invisible.
ImplementsAtomicLedger == Atomic!Spec
=============================================================================
