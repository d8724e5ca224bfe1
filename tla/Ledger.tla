------------------------------- MODULE Ledger -------------------------------
(***************************************************************************)
(* The write side of MiniLedger: HTTP requests for transfers and reversals *)
(* served concurrently, each inside one PostgreSQL transaction at the      *)
(* default READ COMMITTED isolation.  A request advances one SQL statement *)
(* at a time; in-memory work between two statements belongs to the step of *)
(* the statement it prepares.  What a transaction wrote becomes visible at *)
(* its COMMIT; its row locks and its claim on unique index entries bind    *)
(* the others from the statement that took them until it ends.             *)
(*                                                                         *)
(* A request r names the journal transaction it creates: the service       *)
(* draws a fresh UUID per request, so r stands for both.                   *)
(***************************************************************************)
EXTENDS Integers, FiniteSets

CONSTANTS
  Requests,           \* the HTTP requests clients may send
  Inputs,             \* the validated, authenticated bodies they may carry
  Accounts,           \* account ids as PostgreSQL prints them (canonical)
  Refs,               \* account ids as clients may spell them
  AccountOf,          \* the account a spelling denotes (text to uuid)
  SystemAccounts,     \* @world accounts: no owner, no overdraft floor
  OwnerOf,            \* the owner of each user account
  CurrencyOf,         \* the currency of each account
  InitiallyOpen,      \* accounts that exist when the server starts
  Owners,             \* authenticated subjects
  Currencies,         \* supported currency codes
  Keys,               \* idempotency keys
  MaxBigint,          \* the largest value of a bigint column
  PoolSize,           \* connections in the pool
  DriverErrorWrapped, \* does the ORM hide the driver's error in its own?
  None                \* SQL NULL, JavaScript undefined

\* Spellings are ordered the way JavaScript sorts strings: numbers stand for
\* them.  A canonical id is a spelling of itself.
ASSUME RefsAssumption ==
  /\ Refs \subseteq Int
  /\ Accounts \subseteq Refs
  /\ AccountOf \in [Refs -> Accounts]
  /\ \A a \in Accounts : AccountOf[a] = a

ASSUME AccountsAssumption ==
  /\ SystemAccounts \subseteq InitiallyOpen
  /\ InitiallyOpen \subseteq Accounts
  /\ OwnerOf \in [Accounts -> Owners \cup {None}]
  /\ CurrencyOf \in [Accounts -> Currencies]

ASSUME LimitsAssumption == MaxBigint \in Nat /\ PoolSize \in Nat \ {0}

TransferInput ==
  [kind : {"transfer"}, from : Refs, to : Refs, amount : Nat,
   currency : STRING, owner : Owners, key : Keys \cup {None}]

ReverseInput == [kind : {"reverse"}, target : Requests]

ASSUME InputsAssumption == Inputs \subseteq TransferInput \cup ReverseInput

Leg == 1..2

\* A completed row of idempotency_keys: what the request was, the transaction
\* it made, and the receipt a retry is given.
ReceiptRow ==
  [id : Requests, currency : Currencies,
   postings : [Leg -> [account : Refs, amount : Int, balanceAfter : Int]]]

KeyRow ==
  [fingerprint : Owners \X Refs \X Refs \X Nat \X STRING,
   transactionId : Requests, response : ReceiptRow]

ASSUME NoneAssumption ==
  /\ None \notin Requests \cup Keys \cup Owners \cup Inputs \cup Int
  /\ None \notin KeyRow

VARIABLES
  opened,    \* committed rows of accounts, each with its balance row
  balance,   \* committed account_balances: balance and chain_hash
  journal,   \* committed journal_transactions, each with its postings
  idem,      \* committed idempotency_keys
  outbox,    \* committed outbox rows
  nextSeq,   \* the identity sequence behind postings.seq
  pc,        \* where each request is
  input,     \* what each request asked for
  draft,     \* the balanced JournalTransaction each request built
  held,      \* the legs whose balance row the request has locked
  locked,    \* what lockForUpdate read for each leg
  seqs,      \* the seq of each posting inserted and not yet committed
  answer     \* what the service returned

database == <<opened, balance, journal, idem, outbox>>
local == <<held, locked, seqs>>
vars == <<opened, balance, journal, idem, outbox, nextSeq,
          pc, input, draft, held, locked, seqs, answer>>

EmptyRow == [balance |-> 0, chainHash |-> None]
NoRows == [i \in Leg |-> EmptyRow]
NoSeqs == [i \in Leg |-> 0]

Init ==
  /\ opened = InitiallyOpen
  /\ balance = [a \in Accounts |-> EmptyRow]
  /\ journal = {}
  /\ idem = [k \in Keys |-> None]
  /\ outbox = {}
  /\ nextSeq = 1
  /\ pc = [r \in Requests |-> "idle"]
  /\ input = [r \in Requests |-> None]
  /\ draft = [r \in Requests |-> None]
  /\ held = [r \in Requests |-> {}]
  /\ locked = [r \in Requests |-> NoRows]
  /\ seqs = [r \in Requests |-> NoSeqs]
  /\ answer = [r \in Requests |-> None]

-----------------------------------------------------------------------------
(* Requests, connections and transactions                                   *)

\* The stages after the postings are in: the writes that follow them, and
\* COMMIT; and the stages since the journal row is in.
Writing == {"update", "publish", "complete", "commit"}
Inserted == {"posting"} \cup Writing

\* The stages in which a request holds a pooled connection with an open
\* transaction.
InTransaction == {"claim", "check", "read", "lock", "insert"} \cup Inserted

ConnectionFree ==
  Cardinality({q \in Requests : pc[q] \in InTransaction}) < PoolSize

Goto(r, stage) == pc' = [pc EXCEPT ![r] = stage]

\* The request is over for the server: the transaction, if any, has ended,
\* its locks are gone and the caller has its answer.
Finish(r, code, receipt) ==
  /\ Goto(r, "done")
  /\ answer' = [answer EXCEPT ![r] = [code |-> code, receipt |-> receipt]]
  /\ held' = [held EXCEPT ![r] = {}]
  /\ locked' = [locked EXCEPT ![r] = NoRows]
  /\ seqs' = [seqs EXCEPT ![r] = NoSeqs]
  /\ UNCHANGED <<database, nextSeq, input, draft>>

Refuse(r, code) == Finish(r, code, None)

Fingerprint(in) == <<in.owner, in.from, in.to, in.amount, in.currency>>

IsTransfer(r) == input[r] # None /\ input[r].kind = "transfer"
KeyOf(r) == IF IsTransfer(r) THEN input[r].key ELSE None

-----------------------------------------------------------------------------
(* Receiving a request                                                      *)

TransferLegs(from, to, amount) ==
  [i \in Leg |-> IF i = 1 THEN [ref |-> from, amount |-> -amount]
                          ELSE [ref |-> to, amount |-> amount]]

\* The checks transfer() makes before it opens a transaction, in its order.
TransferVerdict(in) ==
  IF in.currency \notin Currencies THEN "unknown_currency"
  ELSE IF in.amount <= 0 THEN "non_positive_amount"
  ELSE IF in.from = in.to THEN "same_account"
  ELSE "ok"

AcceptTransfer(r, in) ==
  /\ pc[r] = "idle"
  /\ in.kind = "transfer"
  /\ TransferVerdict(in) = "ok"
  /\ input' = [input EXCEPT ![r] = in]
  /\ draft' = [draft EXCEPT ![r] =
       [currency |-> in.currency, reverses |-> None,
        legs |-> TransferLegs(in.from, in.to, in.amount)]]
  /\ Goto(r, "begin")
  /\ UNCHANGED <<database, nextSeq, local, answer>>

RejectTransfer(r, in) ==
  /\ pc[r] = "idle"
  /\ in.kind = "transfer"
  /\ TransferVerdict(in) # "ok"
  /\ input' = [input EXCEPT ![r] = in]
  /\ answer' = [answer EXCEPT ![r] =
       [code |-> TransferVerdict(in), receipt |-> None]]
  /\ Goto(r, "done")
  /\ UNCHANGED <<database, nextSeq, local, draft>>

AcceptReversal(r, in) ==
  /\ pc[r] = "idle"
  /\ in.kind = "reverse"
  /\ input' = [input EXCEPT ![r] = in]
  /\ Goto(r, "lookup")
  /\ UNCHANGED <<database, nextSeq, local, draft, answer>>

-----------------------------------------------------------------------------
(* A reversal's reads                                                       *)

\* The compensating entry: the committed legs, as stored, negated.
NegatedLegs(j) ==
  [i \in Leg |-> [ref |-> j.postings[i].account,
                  amount |-> -j.postings[i].amount]]

\* findById runs on the pool, before the transaction.
LookupOriginal(r) ==
  /\ pc[r] = "lookup"
  /\ ConnectionFree
  /\ \E j \in journal :
       /\ j.id = input[r].target
       /\ draft' = [draft EXCEPT ![r] =
            [currency |-> j.currency, reverses |-> j.id,
             legs |-> NegatedLegs(j)]]
  /\ Goto(r, "begin")
  /\ UNCHANGED <<database, nextSeq, input, local, answer>>

RefuseUnknownTransaction(r) ==
  /\ pc[r] = "lookup"
  /\ ConnectionFree
  /\ \A j \in journal : j.id # input[r].target
  /\ Refuse(r, "unknown_transaction")

\* BEGIN on a connection of the pool; the first statement differs by kind.
Begin(r) ==
  /\ pc[r] = "begin"
  /\ ConnectionFree
  /\ Goto(r, IF ~IsTransfer(r) THEN "check"
             ELSE IF KeyOf(r) # None THEN "claim" ELSE "read")
  /\ UNCHANGED <<database, nextSeq, input, draft, local, answer>>

ReversalCommitted(t) == \E j \in journal : j.reverses = t

\* hasReversal, inside the transaction and before any lock.
CheckReversal(r) ==
  /\ pc[r] = "check"
  /\ ~ReversalCommitted(input[r].target)
  /\ Goto(r, "read")
  /\ UNCHANGED <<database, nextSeq, input, draft, local, answer>>

RefuseReversed(r) ==
  /\ pc[r] = "check"
  /\ ReversalCommitted(input[r].target)
  /\ Refuse(r, "already_reversed")

-----------------------------------------------------------------------------
(* The idempotency key                                                      *)

\* q has inserted its key row and not yet committed or rolled back.
ClaimPending(q, k) ==
  KeyOf(q) = k /\ pc[q] \in {"read", "lock", "insert"} \cup Inserted

\* Faulty variant: a lookup of the key before the insertion, without waiting.
KeyNeverUndecided(r) == FALSE

\* INSERT ... ON CONFLICT DO NOTHING waits while another transaction's
\* insertion of the same key is undecided.
KeyUndecided(r) == \E q \in Requests \ {r} : ClaimPending(q, KeyOf(r))

ClaimKey(r) ==
  /\ pc[r] = "claim"
  /\ ~KeyUndecided(r)
  /\ idem[KeyOf(r)] = None
  /\ Goto(r, "read")
  /\ UNCHANGED <<database, nextSeq, input, draft, local, answer>>

\* Faulty variant: the fingerprint covers the caller only.
KeyMatchesCaller(r) == idem[KeyOf(r)].fingerprint[1] = input[r].owner

KeyMatches(r) == idem[KeyOf(r)].fingerprint = Fingerprint(input[r])

\* The row exists: the stored response is returned and nothing is posted.
ReplayResponse(r) ==
  /\ pc[r] = "claim"
  /\ idem[KeyOf(r)] # None
  /\ KeyMatches(r)
  /\ Finish(r, "ok", idem[KeyOf(r)].response)

RefuseKeyConflict(r) ==
  /\ pc[r] = "claim"
  /\ idem[KeyOf(r)] # None
  /\ ~KeyMatches(r)
  /\ Refuse(r, "idempotency_conflict")

-----------------------------------------------------------------------------
(* LedgerPoster: accounts, locks, funds                                     *)

RefOf(r, i) == draft[r].legs[i].ref
AmountOf(r, i) == draft[r].legs[i].amount
TargetOf(r, i) == AccountOf[RefOf(r, i)]

AccountProblem(r, i) ==
  IF TargetOf(r, i) \notin opened THEN "unknown_account"
  ELSE IF CurrencyOf[TargetOf(r, i)] # draft[r].currency
  THEN "account_currency_mismatch"
  ELSE "ok"

\* The owner of a debited account must be the caller; the accounts are looked
\* up under their stored ids.
OwnerProblem(r) ==
  /\ IsTransfer(r)
  /\ \E i \in Leg :
       /\ AmountOf(r, i) < 0
       /\ RefOf(r, i) \in Accounts \ SystemAccounts
       /\ OwnerOf[RefOf(r, i)] # input[r].owner

AccountsVerdict(r) ==
  IF AccountProblem(r, 1) # "ok" THEN AccountProblem(r, 1)
  ELSE IF AccountProblem(r, 2) # "ok" THEN AccountProblem(r, 2)
  ELSE IF OwnerProblem(r) THEN "not_account_owner"
  ELSE "ok"

\* Faulty variant: findById without tx takes a second connection of the pool.
ReadAccountsOnPool(r) ==
  /\ pc[r] = "read"
  /\ ConnectionFree
  /\ AccountsVerdict(r) = "ok"
  /\ Goto(r, "lock")
  /\ UNCHANGED <<database, nextSeq, input, draft, local, answer>>

\* The accounts are read on the transaction's own connection.
ReadAccounts(r) ==
  /\ pc[r] = "read"
  /\ AccountsVerdict(r) = "ok"
  /\ Goto(r, "lock")
  /\ UNCHANGED <<database, nextSeq, input, draft, local, answer>>

\* A reversal has no answer for these: reverse() rethrows them.
RefuseAccounts(r) ==
  /\ pc[r] = "read"
  /\ AccountsVerdict(r) # "ok"
  /\ Refuse(r, IF IsTransfer(r) THEN AccountsVerdict(r) ELSE "error")

LockedAccounts(q) == {TargetOf(q, i) : i \in held[q]}

\* Faulty variant: SELECT without FOR UPDATE.
RowAlwaysFree(r, a) == TRUE

RowFree(r, a) == \A q \in Requests \ {r} : a \notin LockedAccounts(q)

\* Faulty variant: the rows are locked in the order of the legs.
NextInLegOrder(r, i) == i \in Leg \ held[r] /\ \A j \in Leg \ held[r] : i <= j

\* lockForUpdate takes the legs' rows one at a time, in the order of the
\* spelled ids.
NextToLock(r, i) ==
  /\ i \in Leg \ held[r]
  /\ \A j \in Leg \ held[r] : RefOf(r, i) <= RefOf(r, j)

\* SELECT ... FOR UPDATE returns the row as last committed, once it is free.
LockAccount(r, i) ==
  /\ pc[r] = "lock"
  /\ NextToLock(r, i)
  /\ RowFree(r, TargetOf(r, i))
  /\ held' = [held EXCEPT ![r] = @ \cup {i}]
  /\ locked' = [locked EXCEPT ![r][i] = balance[TargetOf(r, i)]]
  /\ Goto(r, IF held[r] \cup {i} = Leg THEN "insert" ELSE "lock")
  /\ UNCHANGED <<database, nextSeq, input, draft, seqs, answer>>

\* The floors map has the stored ids as its keys; a missing floor is no floor.
Guarded(ref) == ref \in Accounts \ SystemAccounts

\* SHA-256 over the previous hash and the posting: equal exactly when the
\* arguments are.
HashPosting(prevHash, id, ref, amount, balanceAfter) ==
  [prev |-> prevHash, id |-> id, ref |-> ref, amount |-> amount,
   balanceAfter |-> balanceAfter]

\* What posting i makes of the balance row it finds; the id is hashed as the
\* journal transaction spells it.
PostedTo(row, r, i) ==
  [balance |-> row.balance + AmountOf(r, i),
   chainHash |-> HashPosting(row.chainHash, r, RefOf(r, i), AmountOf(r, i),
                             row.balance + AmountOf(r, i))]

\* The row that posting i finds in the running map: as locked, or, if both legs
\* are spelled alike, as the first posting has left it.
Running(r, i) ==
  IF i = 2 /\ RefOf(r, 1) = RefOf(r, 2) THEN PostedTo(locked[r][1], r, 1)
                                       ELSE locked[r][i]

BalanceAfter(r, i) == PostedTo(Running(r, i), r, i).balance

\* Faulty variant: the balance is compared before the debit is applied.
SufficientBefore(r) ==
  \A i \in Leg : Guarded(RefOf(r, i)) => locked[r][i].balance >= 0

\* Faulty variant: the floor itself is refused.
SufficientStrictly(r) ==
  \A i \in Leg : Guarded(RefOf(r, i)) => BalanceAfter(r, i) > 0

Sufficient(r) ==
  \A i \in Leg : Guarded(RefOf(r, i)) => BalanceAfter(r, i) >= 0

RefuseFunds(r) ==
  /\ pc[r] = "insert"
  /\ ~Sufficient(r)
  /\ Refuse(r, "insufficient_funds")

-----------------------------------------------------------------------------
(* LedgerPoster: the writes                                                 *)

\* Faulty variant: no unique constraint, hasReversal alone.
ReversalNeverTaken(t) == FALSE

\* The unique index on reverses_transaction_id.
ReversalTaken(t) == t # None /\ ReversalCommitted(t)

ReversalUndecided(r) ==
  \E q \in Requests \ {r} :
    /\ pc[q] \in Inserted
    /\ draft[r].reverses # None
    /\ draft[q].reverses = draft[r].reverses

InsertJournal(r) ==
  /\ pc[r] = "insert"
  /\ Sufficient(r)
  /\ ~ReversalUndecided(r)
  /\ ~ReversalTaken(draft[r].reverses)
  /\ Goto(r, "posting")
  /\ UNCHANGED <<database, nextSeq, input, draft, local, answer>>

\* Error 23505 is recognised by the code and constraint of the error object.
RefuseDuplicateReversal(r) ==
  /\ pc[r] = "insert"
  /\ Sufficient(r)
  /\ ReversalTaken(draft[r].reverses)
  /\ Refuse(r, IF DriverErrorWrapped THEN "error" ELSE "already_reversed")

InRange(n) == -MaxBigint - 1 <= n /\ n <= MaxBigint

\* Faulty variant: balance_after in a column without a range.
AmountsFitColumns(r) == \A i \in Leg : InRange(AmountOf(r, i))

FitsColumns(r) ==
  \A i \in Leg : InRange(AmountOf(r, i)) /\ InRange(BalanceAfter(r, i))

\* One INSERT carries both postings; each row draws its seq as it is formed,
\* and another transaction's row may draw in between.
InsertPosting(r, i) ==
  /\ pc[r] = "posting"
  /\ FitsColumns(r)
  /\ seqs[r][i] = 0
  /\ \A j \in 1..(i - 1) : seqs[r][j] # 0
  /\ seqs' = [seqs EXCEPT ![r][i] = nextSeq]
  /\ nextSeq' = nextSeq + 1
  /\ Goto(r, IF i = 2 THEN "update" ELSE "posting")
  /\ UNCHANGED <<database, input, draft, held, locked, answer>>

\* The parameters of the INSERT do not fit bigint: no row is formed.
FailOverflow(r) ==
  /\ pc[r] = "posting"
  /\ ~FitsColumns(r)
  /\ Refuse(r, "error")

\* The poster hashes the id as the journal transaction spells it.
LineHash(r, i) == PostedTo(Running(r, i), r, i).chainHash

\* The rows of journal_transactions and postings that r inserted; the column
\* account_id is a uuid and forgets the spelling.
JournalRow(r) ==
  [id |-> r, currency |-> draft[r].currency, reverses |-> draft[r].reverses,
   postings |-> [i \in Leg |->
     [seq |-> seqs[r][i], transactionId |-> r, account |-> TargetOf(r, i),
      amount |-> AmountOf(r, i), balanceAfter |-> BalanceAfter(r, i),
      prevHash |-> Running(r, i).chainHash, hash |-> LineHash(r, i)]]]

Receipt(r) ==
  [id |-> r, currency |-> draft[r].currency,
   postings |-> [i \in Leg |->
     [account |-> RefOf(r, i), amount |-> AmountOf(r, i),
      balanceAfter |-> BalanceAfter(r, i)]]]

\* Faulty variant: the balance moves, the chain head stays.
UpdatedBalanceOnly(r, i) ==
  [balance |-> BalanceAfter(r, i), chainHash |-> Running(r, i).chainHash]

\* What posting i leaves in the running map.
UpdatedRow(r, i) == PostedTo(Running(r, i), r, i)

\* updateBalance runs once per spelled id, in lock order: the last one stays.
LastUpdate(r, a, i) ==
  /\ TargetOf(r, i) = a
  /\ \A j \in Leg : TargetOf(r, j) = a =>
       RefOf(r, j) < RefOf(r, i) \/ (RefOf(r, j) = RefOf(r, i) /\ j <= i)

\* Faulty variant: only the source account's row is updated.
UpdatedSource(r) ==
  [a \in Accounts |-> IF TargetOf(r, 1) = a THEN UpdatedRow(r, 1) ELSE balance[a]]

UpdatedBalances(r) ==
  [a \in Accounts |->
     IF LastUpdate(r, a, 1) THEN UpdatedRow(r, 1)
     ELSE IF LastUpdate(r, a, 2) THEN UpdatedRow(r, 2)
     ELSE balance[a]]

Event(r) ==
  [type |-> IF IsTransfer(r) THEN "transfer.posted" ELSE "transfer.reversed",
   payload |-> Receipt(r)]

CompletedKey(r) ==
  [fingerprint |-> Fingerprint(input[r]), transactionId |-> r,
   response |-> Receipt(r)]

\* The deferred trigger postings_balanced, evaluated at COMMIT.
Balanced(r) == AmountOf(r, 1) + AmountOf(r, 2) = 0

\* Faulty variant: updateBalance without tx writes past the transaction.
UpdateBalancesOnPool(r) ==
  /\ pc[r] = "update"
  /\ balance' = UpdatedBalances(r)
  /\ Goto(r, "publish")
  /\ UNCHANGED <<opened, journal, idem, outbox, nextSeq, input, draft, local,
                 answer>>

\* The writes of the transaction that follow the postings: each may fail, and
\* until the COMMIT none is there for others.  First the locked balances, ...
UpdateBalances(r) ==
  /\ pc[r] = "update"
  /\ Goto(r, "publish")
  /\ UNCHANGED <<database, nextSeq, input, draft, local, answer>>

\* Faulty variant: append without tx, so the event does not wait for the COMMIT.
AppendEventOnPool(r) ==
  /\ pc[r] = "publish"
  /\ outbox' = outbox \cup {Event(r)}
  /\ Goto(r, IF KeyOf(r) # None THEN "complete" ELSE "commit")
  /\ UNCHANGED <<opened, balance, journal, idem, nextSeq, input, draft, local,
                 answer>>

\* ... the outbox row, ...
AppendEvent(r) ==
  /\ pc[r] = "publish"
  /\ Goto(r, IF KeyOf(r) # None THEN "complete" ELSE "commit")
  /\ UNCHANGED <<database, nextSeq, input, draft, local, answer>>

\* Faulty variant: the key is completed past the transaction.
CompleteKeyOnPool(r) ==
  /\ pc[r] = "complete"
  /\ idem' = [idem EXCEPT ![KeyOf(r)] = CompletedKey(r)]
  /\ Goto(r, "commit")
  /\ UNCHANGED <<opened, balance, journal, outbox, nextSeq, input, draft, local,
                 answer>>

\* ... and the receipt in the row of the key, if there is one.
CompleteKey(r) ==
  /\ pc[r] = "complete"
  /\ Goto(r, "commit")
  /\ UNCHANGED <<database, nextSeq, input, draft, local, answer>>

\* COMMIT publishes what the statements have written.
Commit(r) ==
  /\ pc[r] = "commit"
  /\ Balanced(r)
  /\ journal' = journal \cup {JournalRow(r)}
  /\ balance' = UpdatedBalances(r)
  /\ outbox' = outbox \cup {Event(r)}
  /\ idem' = [k \in Keys |-> IF k = KeyOf(r) THEN CompletedKey(r) ELSE idem[k]]
  /\ answer' = [answer EXCEPT ![r] = [code |-> "ok", receipt |-> Receipt(r)]]
  /\ held' = [held EXCEPT ![r] = {}]
  /\ locked' = [locked EXCEPT ![r] = NoRows]
  /\ seqs' = [seqs EXCEPT ![r] = NoSeqs]
  /\ Goto(r, "respond")
  /\ UNCHANGED <<opened, nextSeq, input, draft>>

Respond(r) ==
  /\ pc[r] = "respond"
  /\ Goto(r, "done")
  /\ UNCHANGED <<database, nextSeq, input, draft, local, answer>>

-----------------------------------------------------------------------------
(* Failures                                                                 *)

\* A statement fails, the connection breaks or the server stops before the
\* COMMIT: PostgreSQL rolls back, the caller sees an error.
Fail(r) ==
  /\ pc[r] \in InTransaction \cup {"begin", "lookup"}
  /\ Refuse(r, "error")

\* The same after the COMMIT: the work stands, the caller sees an error.
LoseAnswer(r) ==
  /\ pc[r] = "respond"
  /\ Goto(r, "done")
  /\ answer' = [answer EXCEPT ![r] = [code |-> "error", receipt |-> None]]
  /\ UNCHANGED <<database, nextSeq, input, draft, local>>

-----------------------------------------------------------------------------
(* Accounts                                                                 *)

\* AccountsService.open: the account and its zero balance row commit together.
OpenAccount(a) ==
  /\ a \notin opened
  /\ ConnectionFree
  /\ opened' = opened \cup {a}
  /\ balance' = [balance EXCEPT ![a] = EmptyRow]
  /\ UNCHANGED <<journal, idem, outbox, nextSeq, pc, input, draft, local,
                 answer>>

-----------------------------------------------------------------------------

Receive(r) ==
  \E in \in Inputs :
    AcceptTransfer(r, in) \/ RejectTransfer(r, in) \/ AcceptReversal(r, in)

\* One step of the server on behalf of r.
Serve(r) ==
  \/ LookupOriginal(r) \/ RefuseUnknownTransaction(r)
  \/ Begin(r)
  \/ CheckReversal(r) \/ RefuseReversed(r)
  \/ ClaimKey(r) \/ ReplayResponse(r) \/ RefuseKeyConflict(r)
  \/ ReadAccounts(r) \/ RefuseAccounts(r)
  \/ \E i \in Leg : LockAccount(r, i)
  \/ RefuseFunds(r)
  \/ InsertJournal(r) \/ RefuseDuplicateReversal(r)
  \/ \E i \in Leg : InsertPosting(r, i)
  \/ FailOverflow(r)
  \/ UpdateBalances(r) \/ AppendEvent(r) \/ CompleteKey(r)
  \/ Commit(r) \/ Respond(r)

\* Every request has been answered: clients may leave it at that.
Quiescent ==
  /\ \A r \in Requests : pc[r] = "done"
  /\ UNCHANGED vars

Next ==
  \/ \E a \in Accounts : OpenAccount(a)
  \/ \E r \in Requests : Receive(r) \/ Serve(r) \/ Fail(r) \/ LoseAnswer(r)
  \/ Quiescent

\* The server and PostgreSQL keep executing; clients and failures owe nothing.
Fairness == \A r \in Requests : WF_vars(Serve(r))

Spec == Init /\ [][Next]_vars
FairSpec == Spec /\ Fairness
=============================================================================
