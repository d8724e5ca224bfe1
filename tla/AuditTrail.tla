----------------------------- MODULE AuditTrail ------------------------------
(***************************************************************************)
(* What the audit can tell of a store whose rows were changed behind the   *)
(* application: by the owner of the tables, a migration or a repair script *)
(* (ADR-008).  Postings and balance rows are the tables as they are;       *)
(* posted is what the poster once wrote.  Transfers take effect in one     *)
(* step (module Ledger shows that they may), and the two statements of an  *)
(* audit read one moment (module LedgerReaders separates them).            *)
(***************************************************************************)
EXTENDS Integers, Sequences, FiniteSetsExt, Functions

CONSTANTS
  Accounts,        \* the accounts that are open
  SystemAccounts,  \* the accounts without an overdraft floor
  Transactions,    \* ids of journal transactions
  Amounts,         \* the amounts a transfer may move
  EditedValues,    \* what an edit may put in place of an amount or a balance
  MaxEdits         \* the number of edits behind the application

ASSUME AmountsAssumption ==
  Amounts \subseteq Nat \ {0} /\ EditedValues \subseteq Int /\ MaxEdits \in Nat

VARIABLES
  rows,      \* postings of each account, in the order of seq
  balance,   \* account_balances of each account: balance and chain_hash
  nextSeq,   \* the identity sequence behind postings.seq
  used,      \* the transactions in the journal
  posted,    \* history: the rows the poster wrote, account by account
  rehashed,  \* history: the accounts with a posting an edit has hashed anew
  reheaded,  \* history: the accounts whose chain_hash an edit has written
  edits      \* history: the number of edits so far

vars == <<rows, balance, nextSeq, used, posted, rehashed, reheaded, edits>>

\* What the hash of a posting covers: neither seq nor created_at is part of it.
Content(p) ==
  [id |-> p.id, account |-> p.account, amount |-> p.amount,
   balanceAfter |-> p.balanceAfter]

\* A digest stands for the contents it covers, one after the other, so that
\* two digests are equal exactly when their arguments are; no hash (SQL NULL)
\* covers nothing.
NoHash == <<>>

\* Faulty variant: the running balance is not part of the hash.
HashAmountOnly(prevHash, p) ==
  Append(prevHash, [Content(p) EXCEPT !.balanceAfter = 0])

HashPosting(prevHash, p) == Append(prevHash, Content(p))

HeadOf(s) == IF s = <<>> THEN NoHash ELSE s[Len(s)].hash

\* The hash before row i.
PrevOf(s, i) == IF i = 1 THEN NoHash ELSE s[i - 1].hash

\* The sum of the amounts of an account's postings.
AmountsOf(s) == [i \in DOMAIN s |-> s[i].amount]

TotalOf(s) == FoldFunction(+, 0, AmountsOf(s))

Init ==
  /\ rows = [a \in Accounts |-> <<>>]
  /\ balance = [a \in Accounts |-> [balance |-> 0, chainHash |-> NoHash]]
  /\ nextSeq = 1
  /\ used = {}
  /\ posted = [a \in Accounts |-> <<>>]
  /\ rehashed = {}
  /\ reheaded = {}
  /\ edits = 0

-----------------------------------------------------------------------------
(* The poster                                                               *)

\* A row whose hash continues from prevHash.
Chained(prevHash, p, seq) ==
  [seq |-> seq, id |-> p.id, account |-> p.account, amount |-> p.amount,
   balanceAfter |-> p.balanceAfter, prevHash |-> prevHash,
   hash |-> HashPosting(prevHash, p)]

Line(id, a, amount) ==
  [id |-> id, account |-> a, amount |-> amount,
   balanceAfter |-> balance[a].balance + amount]

\* Faulty variant: the chain goes on from the last posting that is stored.
RowAfterLast(id, a, amount, seq) ==
  Chained(HeadOf(rows[a]), Line(id, a, amount), seq)

\* The posting of one leg, from what lockForUpdate read of the balance row.
Row(id, a, amount, seq) ==
  Chained(balance[a].chainHash, Line(id, a, amount), seq)

\* The balance row the posting leaves behind.
UpdatedBalance(p) == [balance |-> p.balanceAfter, chainHash |-> p.hash]

\* Faulty variant: one INSERT draws one number.
OneSeqDrawn == 1

\* Each row of the INSERT draws its own seq.
SeqsDrawn == 2

\* A transfer: both legs are appended and both balance rows updated.
Post(id, from, to, amount) ==
  LET new == [a \in {from, to} |->
                IF a = from THEN Row(id, from, -amount, nextSeq)
                            ELSE Row(id, to, amount, nextSeq + 1)]
  IN
  /\ from # to
  /\ id \notin used
  /\ from \notin SystemAccounts => balance[from].balance - amount >= 0
  /\ rows' = [a \in Accounts |->
       IF a \in {from, to} THEN Append(rows[a], new[a]) ELSE rows[a]]
  /\ posted' = [a \in Accounts |->
       IF a \in {from, to} THEN Append(posted[a], new[a]) ELSE posted[a]]
  /\ balance' = [a \in Accounts |->
       IF a \in {from, to} THEN UpdatedBalance(new[a]) ELSE balance[a]]
  /\ nextSeq' = nextSeq + SeqsDrawn
  /\ used' = used \cup {id}
  /\ UNCHANGED <<rehashed, reheaded, edits>>

-----------------------------------------------------------------------------
(* Edits behind the application                                             *)

\* A posting's amount, balance_after, transaction or prev_hash is overwritten;
\* no amount is ever zero (postings_amount_nonzero).
EditField(a, i) ==
  /\ \/ \E v \in EditedValues \ {0} : rows' = [rows EXCEPT ![a][i].amount = v]
     \/ \E v \in EditedValues : rows' = [rows EXCEPT ![a][i].balanceAfter = v]
     \/ \E id \in used : rows' = [rows EXCEPT ![a][i].id = id]
     \/ rows' = [rows EXCEPT ![a][i].prevHash = NoHash]
  /\ UNCHANGED <<balance, nextSeq, rehashed, reheaded>>

DeleteRow(a, i) ==
  /\ rows' = [rows EXCEPT ![a] =
       SubSeq(@, 1, i - 1) \o SubSeq(@, i + 1, Len(@))]
  /\ UNCHANGED <<balance, nextSeq, rehashed, reheaded>>

\* What the trigger postings_balanced adds up for one transaction.  It runs on
\* INSERT only: the other edits never meet it.
TransactionTotal(id) ==
  MapThenSumSet(LAMBDA a : TotalOf(SelectSeq(rows[a], LAMBDA p : p.id = id)),
                Accounts)

\* Two postings that cancel out are stored a second time, under the next seqs.
RepeatRows(a, i, b, j) ==
  /\ a # b
  /\ rows[a][i].id = rows[b][j].id
  /\ rows[a][i].amount + rows[b][j].amount = 0
  /\ TransactionTotal(rows[a][i].id) = 0
  /\ rows' = [rows EXCEPT
       ![a] = Append(@, [@[i] EXCEPT !.seq = nextSeq]),
       ![b] = Append(@, [@[j] EXCEPT !.seq = nextSeq + 1])]
  /\ nextSeq' = nextSeq + 2
  /\ UNCHANGED <<balance, rehashed, reheaded>>

\* Two neighbours exchange everything but their seq, which no UPDATE may set.
SwapRows(a, i) ==
  /\ i < Len(rows[a])
  /\ rows' = [rows EXCEPT
       ![a][i] = [rows[a][i + 1] EXCEPT !.seq = rows[a][i].seq],
       ![a][i + 1] = [rows[a][i] EXCEPT !.seq = rows[a][i + 1].seq]]
  /\ UNCHANGED <<balance, nextSeq, rehashed, reheaded>>

\* The posting is assigned to another account, where its seq places it after
\* the first k.
MoveRow(a, i, b, k) ==
  LET p == [rows[a][i] EXCEPT !.account = b] IN
  /\ a # b
  /\ \A j \in DOMAIN rows[b] : j <= k <=> rows[b][j].seq < p.seq
  /\ rows' = [rows EXCEPT
       ![a] = SubSeq(@, 1, i - 1) \o SubSeq(@, i + 1, Len(@)),
       ![b] = SubSeq(@, 1, k) \o <<p>> \o SubSeq(@, k + 1, Len(@))]
  /\ UNCHANGED <<balance, nextSeq, rehashed, reheaded>>

\* The hash columns of one posting are computed anew from the row before it.
RehashRow(a, i) ==
  /\ rows' = [rows EXCEPT ![a][i] =
       Chained(PrevOf(rows[a], i), rows[a][i], rows[a][i].seq)]
  /\ rehashed' = rehashed \cup {a}
  /\ UNCHANGED <<balance, nextSeq, reheaded>>

EditBalance(a) ==
  /\ \E v \in EditedValues : balance' = [balance EXCEPT ![a].balance = v]
  /\ UNCHANGED <<rows, nextSeq, rehashed, reheaded>>

\* chain_hash is set to the hash of the last posting that is stored.
EditHead(a) ==
  /\ balance' = [balance EXCEPT ![a].chainHash = HeadOf(rows[a])]
  /\ reheaded' = reheaded \cup {a}
  /\ UNCHANGED <<rows, nextSeq, rehashed>>

Edit ==
  /\ edits < MaxEdits
  /\ edits' = edits + 1
  /\ \E a \in Accounts :
       \/ \E i \in DOMAIN rows[a] :
            \/ EditField(a, i) \/ DeleteRow(a, i)
            \/ SwapRows(a, i) \/ RehashRow(a, i)
            \/ \E b \in Accounts :
                 \/ \E k \in 0..Len(rows[b]) : MoveRow(a, i, b, k)
                 \/ \E j \in DOMAIN rows[b] : RepeatRows(a, i, b, j)
       \/ EditBalance(a) \/ EditHead(a)
  /\ UNCHANGED <<used, posted>>

Transfer ==
  \E id \in Transactions, from, to \in Accounts, amount \in Amounts :
    Post(id, from, to, amount)

Next == Transfer \/ Edit

Spec == Init /\ [][Next]_vars

-----------------------------------------------------------------------------
(* The audit                                                                *)

\* The condition under which verifyChain goes on to the next entry.
LinkHolds(s, i) ==
  /\ s[i].prevHash = PrevOf(s, i)
  /\ s[i].hash = HashPosting(PrevOf(s, i), s[i])

BrokenLinks(s) == {i \in DOMAIN s : ~LinkHolds(s, i)}

ChainValid(s) == BrokenLinks(s) = {}

\* Faulty variant: the last broken link.
LastBroken(s) == CHOOSE i \in BrokenLinks(s) : \A j \in BrokenLinks(s) : j <= i

\* brokenAtIndex: verifyChain stops at the first link that does not hold.
FirstBroken(s) == CHOOSE i \in BrokenLinks(s) : \A j \in BrokenLinks(s) : i <= j

NoSeq == 0

BrokenAtSeq(s) == IF ChainValid(s) THEN NoSeq ELSE s[FirstBroken(s)].seq

LastBalance(s) == IF s = <<>> THEN 0 ELSE s[Len(s)].balanceAfter

HeadMatches(a) == HeadOf(rows[a]) = balance[a].chainHash

ReconciledAccount(a) ==
  /\ TotalOf(rows[a]) = balance[a].balance
  /\ balance[a].balance = LastBalance(rows[a])

\* What the integrity page makes of verifyAccount's report.
Intact(a) == ChainValid(rows[a]) /\ HeadMatches(a) /\ ReconciledAccount(a)

\* verifyConservation, for the one currency of these accounts.
LedgerTotal(A) == MapThenSumSet(LAMBDA a : TotalOf(rows[a]), A)

\* Faulty variant: the postings of user accounts only.
UserTotalZero == LedgerTotal(Accounts \ SystemAccounts) = 0

ConservationReported == LedgerTotal(Accounts) = 0

-----------------------------------------------------------------------------
(* Properties                                                               *)

\* The rows agree in everything the audit reads of them but seq.
SameRow(p, q) ==
  Content(p) = Content(q) /\ p.prevHash = q.prevHash /\ p.hash = q.hash

SameRows(s, t) ==
  Len(s) = Len(t) /\ \A i \in 1..Len(s) : SameRow(s[i], t[i])

\* Every table and history keeps its type.
TypeOK ==
  /\ DOMAIN rows = Accounts
  /\ DOMAIN posted = Accounts
  /\ \A a \in Accounts :
       \A i \in DOMAIN rows[a] :
         /\ rows[a][i].account = a
         /\ rows[a][i].seq \in 1..(nextSeq - 1)
         /\ \A j \in 1..(i - 1) : rows[a][j].seq < rows[a][i].seq
  /\ used \in SUBSET Transactions
  /\ rehashed \in SUBSET Accounts
  /\ reheaded \in SUBSET Accounts
  /\ edits \in 0..MaxEdits

\* The chain head pins the history (ADR-008): an account whose chain_hash no
\* edit has written can be reported as intact only with exactly the postings
\* the poster wrote and the balance they add up to, however many rows were
\* overwritten, removed, repeated, reordered, moved or hashed anew, and
\* whatever was posted in between.
IntactIsTrue ==
  \A a \in Accounts \ reheaded :
    Intact(a) =>
      /\ SameRows(rows[a], posted[a])
      /\ balance[a].balance = TotalOf(posted[a])

\* The places where the store departs from what was posted.
Departures(a) ==
  {i \in DOMAIN rows[a] :
     i > Len(posted[a]) \/ ~SameRow(rows[a][i], posted[a][i])}

\* "The verifier flags exactly where the chain diverges" (ADR-008): as long as
\* no edit has written hashes, verifyAccount's brokenAtSeq is the first stored
\* posting that is not the one posted at its place, and there is none only if
\* what is stored is a beginning of what was posted.
BrokenAtFirstDeparture ==
  \A a \in Accounts \ (rehashed \cup reheaded) :
    /\ ChainValid(rows[a]) <=> Departures(a) = {}
    /\ \A i \in Departures(a) :
         (\A j \in Departures(a) : i <= j) => BrokenAtSeq(rows[a]) = rows[a][i].seq

\* Postings never repair what an edit broke: an alarm of the chain or of its
\* head becomes, with the account's next posting, a broken chain for good, and
\* postings never bring a balance and a sum that differ together.
AlarmStays ==
  [][edits' = edits =>
       \A a \in Accounts :
         /\ ~(ChainValid(rows[a]) /\ HeadMatches(a)) =>
              ~(ChainValid(rows[a])' /\ HeadMatches(a)')
         /\ TotalOf(rows[a]) # balance[a].balance =>
              TotalOf(rows[a])' # balance[a].balance']_vars

AllClear == ConservationReported /\ \A a \in Accounts : Intact(a)

\* The three checks overlap (ADR-008, "Three-way self-check"): when the page
\* shows nothing but health although some balance is not what was posted, the
\* chain heads of two accounts at least have been rewritten.  A rewrite of one
\* account's postings, hashes, head and balance that its own verification
\* accepts still shows as money out of nothing.
WrongNeedsTwoRewrites ==
  AllClear /\ (\E a \in Accounts : balance[a].balance # TotalOf(posted[a])) =>
    \E a, b \in reheaded : a # b
=============================================================================
