-------------------------- MODULE LedgerLockProofs --------------------------
(***************************************************************************)
(* Types, row locks, funds and waiting in Ledger, for every value of its   *)
(* constants.  No two requests hold the same balance row, what a request   *)
(* read when it locked a row is that row's committed value for as long as  *)
(* it holds the lock, a refusal for lack of funds is therefore right about *)
(* the balances of its moment, and, for clients that spell account ids     *)
(* canonically, no guarded account is overdrawn and no set of requests     *)
(* waits on itself.                                                        *)
(*                                                                         *)
(* TypeOK is not inductive: that a committed balance fits its column rests *)
(* on what a request has established by the time it commits (StageOK).     *)
(***************************************************************************)
EXTENDS LedgerProperties, SumTheorems

\* The stages in which a request has built its journal transaction.
Drafted == {"begin", "respond"} \cup InTransaction

StageOK ==
  \A r \in Requests :
    /\ pc[r] \in Drafted => DraftOK(draft[r])
    /\ pc[r] \in Writing => FitsColumns(r) /\ \A i \in Leg : seqs[r][i] # 0

TypeInv == TypeOK /\ StageOK

-----------------------------------------------------------------------------

\* Zero is in the range of every column, and rows start with it.
LEMMA ZeroInRange == 0 \in BalanceInRange
  BY LimitsAssumption DEF BalanceInRange, InRange

\* The initial state is well typed: InitiallyOpen accounts hold zero.
LEMMA TypeInit == Init => TypeInv
<1> SUFFICES ASSUME Init PROVE TypeInv
  OBVIOUS
<1> USE DEF Init
<1>1. DatabaseOK
  BY ZeroInRange, AccountsAssumption DEF DatabaseOK, EmptyRow
<1>2. RequestsOK
  BY ZeroInRange DEF RequestsOK, NoRows, EmptyRow, NoSeqs, Stages, Leg
<1>3. StageOK
  BY DEF StageOK, Drafted, InTransaction, Inserted, Writing
<1> QED
  BY <1>1, <1>2, <1>3 DEF TypeInv, TypeOK

-----------------------------------------------------------------------------
(* Steps that share a shape                                                 *)

\* The balances a request is about to write depend on its draft and on what it
\* has locked.
LEMMA SameBalanceAfter ==
  ASSUME NEW r \in Requests, draft'[r] = draft[r], locked'[r] = locked[r]
  PROVE  \A i \in Leg : /\ RefOf(r, i)' = RefOf(r, i)
                        /\ AmountOf(r, i)' = AmountOf(r, i)
                        /\ BalanceAfter(r, i)' = BalanceAfter(r, i)
  BY DEF BalanceAfter, PostedTo, Running, RefOf, AmountOf, Leg

\* So do what fits and what suffices.
LEMMA SamePostings ==
  ASSUME NEW r \in Requests, draft'[r] = draft[r], locked'[r] = locked[r]
  PROVE  (FitsColumns(r)' <=> FitsColumns(r)) /\ (Sufficient(r)' <=> Sufficient(r))
  BY SameBalanceAfter DEF FitsColumns, Sufficient

\* A step that only moves the program counter, within the stages with a draft,
\* and within those after the postings, or to a stage that needs neither.
LEMMA MoveKeepsTypes ==
  ASSUME TypeInv, NEW r \in Requests, NEW stage \in Stages,
         stage \in Drafted => pc[r] \in Drafted,
         stage \in Writing => pc[r] \in Writing,
         Goto(r, stage),
         UNCHANGED <<database, nextSeq, input, draft, local, answer>>
  PROVE  TypeInv'
<1> USE DEF Goto, TypeInv, TypeOK, RequestsOK
<1>1. DatabaseOK'
  BY DEF DatabaseOK, database, PostingOK
<1>2. RequestsOK'
  BY DEF local, DraftOK
<1>3. StageOK'
  BY SamePostings DEF StageOK, local, DraftOK, Drafted
<1> QED
  BY <1>1, <1>2, <1>3

\* The end of a request, whatever it answers: its transaction leaves nothing.
LEMMA FinishKeepsTypes ==
  ASSUME TypeInv, NEW r \in Requests, NEW code \in Codes, NEW receipt,
         Finish(r, code, receipt)
  PROVE  TypeInv'
<1> USE DEF Finish, Goto, TypeInv, TypeOK, RequestsOK
<1>1. DatabaseOK'
  BY DEF DatabaseOK, database, PostingOK
<1>2. RequestsOK'
  BY ZeroInRange DEF Stages, DraftOK, NoRows, EmptyRow, NoSeqs, Leg
<1>3. StageOK'
  BY SamePostings DEF StageOK, DraftOK, Drafted, InTransaction, Inserted, Writing
<1> QED
  BY <1>1, <1>2, <1>3

-----------------------------------------------------------------------------
(* Receiving                                                                *)

\* An accepted transfer builds a well-formed draft.
LEMMA AcceptTransferKeepsTypes ==
  ASSUME TypeInv, NEW r \in Requests, NEW in \in Inputs, AcceptTransfer(r, in)
  PROVE  TypeInv'
<1> USE DEF AcceptTransfer, Goto, TypeInv, TypeOK, RequestsOK
<1>1. in \in TransferInput
  BY InputsAssumption DEF TransferInput, ReverseInput
<1>2. in.currency \in Currencies
  BY DEF TransferVerdict
<1>3. in.from \in Refs /\ in.to \in Refs /\ in.amount \in Nat
  BY <1>1 DEF TransferInput
<1>4. DraftOK(draft'[r])
  BY <1>2, <1>3 DEF DraftOK, TransferLegs, Leg
<1>5. DatabaseOK'
  BY DEF DatabaseOK, database, PostingOK
<1>6. RequestsOK'
  BY <1>4 DEF local, DraftOK, Stages, InTransaction, Inserted, Writing
<1>7. StageOK'
  BY <1>4, SamePostings DEF StageOK, local, DraftOK, Writing
<1> QED
  BY <1>5, <1>6, <1>7

\* A rejected transfer leaves its code, a reversal only its input.
LEMMA ReceiveKeepsTypes ==
  ASSUME TypeInv, NEW r \in Requests, Receive(r)
  PROVE  TypeInv'
<1>1. PICK in \in Inputs :
        AcceptTransfer(r, in) \/ RejectTransfer(r, in) \/ AcceptReversal(r, in)
  BY DEF Receive
<1>2. CASE AcceptTransfer(r, in)
  BY <1>2, AcceptTransferKeepsTypes
<1>3. CASE RejectTransfer(r, in)
  <2> USE <1>3 DEF RejectTransfer, Goto, TypeInv, TypeOK, RequestsOK
  <2>1. TransferVerdict(in) \in Codes
    BY DEF TransferVerdict, Codes
  <2>2. DatabaseOK'
    BY DEF DatabaseOK, database, PostingOK
  <2>3. RequestsOK'
    BY <2>1 DEF local, DraftOK, Stages
  <2>4. StageOK'
    BY SamePostings DEF StageOK, local, DraftOK, Drafted,
           InTransaction, Inserted, Writing
  <2> QED
    BY <2>2, <2>3, <2>4
<1>4. CASE AcceptReversal(r, in)
  <2> USE <1>4 DEF AcceptReversal, Goto, TypeInv, TypeOK, RequestsOK
  <2>1. DatabaseOK'
    BY DEF DatabaseOK, database, PostingOK
  <2>2. RequestsOK'
    BY DEF local, DraftOK, Stages
  <2>3. StageOK'
    BY SamePostings DEF StageOK, local, DraftOK, Drafted,
           InTransaction, Inserted, Writing
  <2> QED
    BY <2>1, <2>2, <2>3
<1> QED
  BY <1>1, <1>2, <1>3, <1>4

-----------------------------------------------------------------------------
(* Serving                                                                  *)

\* A reversal's draft negates stored amounts, which stay integers.
LEMMA LookupOriginalKeepsTypes ==
  ASSUME TypeInv, NEW r \in Requests, LookupOriginal(r)
  PROVE  TypeInv'
<1> USE DEF LookupOriginal, Goto, TypeInv, TypeOK, RequestsOK
<1>1. DraftOK(draft'[r])
  <2>1. PICK j \in journal :
          draft' = [draft EXCEPT ![r] =
            [currency |-> j.currency, reverses |-> j.id, legs |-> NegatedLegs(j)]]
    OBVIOUS
  <2>2. \A i \in Leg : j.postings[i].account \in Refs /\ -j.postings[i].amount \in Int
    <3>1. \A i \in Leg : PostingOK(j.postings[i])
      BY DEF DatabaseOK
    <3>2. ASSUME NEW p, PostingOK(p) PROVE p.account \in Refs /\ -p.amount \in Int
      <4>1. p.account \in Refs /\ p.amount \in Int
        BY <3>2, RefsAssumption DEF PostingOK, BalanceInRange
      <4> QED
        BY <4>1
    <3> QED
      BY <3>1, <3>2
  <2> QED
    BY <2>1, <2>2 DEF DraftOK, NegatedLegs, DatabaseOK
<1>2. DatabaseOK'
  BY DEF DatabaseOK, database, PostingOK
<1>3. RequestsOK'
  BY <1>1 DEF local, DraftOK, Stages, InTransaction, Inserted, Writing
<1>4. StageOK'
  BY <1>1, SamePostings DEF StageOK, local, DraftOK, Writing
<1> QED
  BY <1>2, <1>3, <1>4

\* A locked row is a committed row.
LEMMA LockAccountKeepsTypes ==
  ASSUME TypeInv, NEW r \in Requests, NEW i \in Leg, LockAccount(r, i)
  PROVE  TypeInv'
<1> USE DEF LockAccount, Goto, TypeInv, TypeOK, RequestsOK
<1>1. pc[r] \in Drafted /\ DraftOK(draft[r])
  BY DEF StageOK, Drafted, InTransaction, Inserted, Writing
<1>2. balance[TargetOf(r, i)].balance \in BalanceInRange
  BY <1>1, RefsAssumption DEF TargetOf, RefOf, DraftOK, DatabaseOK
<1>3. DatabaseOK'
  BY DEF DatabaseOK, database, PostingOK
<1>4. RequestsOK'
  BY <1>2 DEF DraftOK, Stages, InTransaction, Inserted, Writing
<1>5. StageOK'
  BY <1>1, SamePostings DEF StageOK, DraftOK, Writing
<1> QED
  BY <1>3, <1>4, <1>5

\* The second posting's insertion establishes what COMMIT relies on.
LEMMA InsertPostingKeepsTypes ==
  ASSUME TypeInv, NEW r \in Requests, NEW i \in Leg, InsertPosting(r, i)
  PROVE  TypeInv'
<1> USE DEF InsertPosting, Goto, TypeInv, TypeOK, RequestsOK
<1>1. pc[r] \in Drafted /\ DraftOK(draft[r])
  BY DEF StageOK, Drafted, InTransaction, Inserted, Writing
<1>2. nextSeq \in Nat \ {0}
  BY DEF DatabaseOK
<1>3. DatabaseOK'
  BY <1>2 DEF DatabaseOK, database, PostingOK
<1>4. RequestsOK'
  BY <1>2 DEF DraftOK, Stages, InTransaction, Inserted, Writing
<1>5. pc'[r] \in Writing => \A k \in Leg : seqs'[r][k] # 0
  BY <1>2 DEF Leg, Writing
<1>6. \A q \in Requests : FitsColumns(q) => FitsColumns(q)'
  <2>1. draft' = draft /\ locked' = locked
    OBVIOUS
  <2> QED
    BY <2>1, SamePostings
<1>7. StageOK'
  <2> SUFFICES ASSUME NEW q \in Requests
               PROVE  /\ pc'[q] \in Drafted => DraftOK(draft[q])
                      /\ pc'[q] \in Writing =>
                           FitsColumns(q)' /\ \A k \in Leg : seqs'[q][k] # 0
    BY DEF StageOK, DraftOK
  <2>1. CASE q = r
    BY <2>1, <1>1, <1>5, <1>6
  <2>2. CASE q # r
    BY <2>2, <1>6 DEF StageOK
  <2> QED
    BY <2>1, <2>2
<1> QED
  BY <1>3, <1>4, <1>7

\* COMMIT publishes balances and postings that fit their columns.
LEMMA CommitKeepsTypes ==
  ASSUME TypeInv, NEW r \in Requests, Commit(r)
  PROVE  TypeInv'
<1> USE DEF Commit, Goto, TypeInv, TypeOK, RequestsOK
<1>1. /\ DraftOK(draft[r])
      /\ FitsColumns(r)
      /\ \A i \in Leg : seqs[r][i] \in Nat \ {0}
  BY DEF StageOK, Drafted, InTransaction, Inserted, Writing
<1>2. \A i \in Leg :
        /\ TargetOf(r, i) \in Accounts
        /\ AmountOf(r, i) \in BalanceInRange
        /\ BalanceAfter(r, i) \in BalanceInRange
  <2>1. \A i \in Leg : RefOf(r, i) \in Refs /\ AmountOf(r, i) \in Int
    BY <1>1 DEF DraftOK, RefOf, AmountOf
  <2>2. \A i \in Leg : locked[r][i].balance \in Int
    BY DEF BalanceInRange
  <2>3. \A i \in Leg : BalanceAfter(r, i) \in Int
    BY <2>1, <2>2 DEF BalanceAfter, PostedTo, Running, Leg
  <2> QED
    BY <1>1, <2>1, <2>3, RefsAssumption DEF TargetOf, FitsColumns, BalanceInRange
<1>3. \A a \in Accounts : UpdatedBalances(r)[a].balance \in BalanceInRange
  BY <1>2 DEF UpdatedBalances, UpdatedRow, BalanceAfter, PostedTo, DatabaseOK, Leg
<1>4. \A i \in Leg : /\ JournalRow(r).postings[i].transactionId = r
                     /\ PostingOK(JournalRow(r).postings[i])
  BY <1>1, <1>2 DEF JournalRow, PostingOK
<1>5. /\ JournalRow(r).id = r
      /\ JournalRow(r).currency \in Currencies
      /\ JournalRow(r).reverses \in Requests \cup {None}
  BY <1>1 DEF JournalRow, DraftOK
<1>6. DatabaseOK'
  <2>1. \A j \in journal' :
          /\ j.id \in Requests
          /\ j.currency \in Currencies
          /\ j.reverses \in Requests \cup {None}
          /\ \A i \in Leg : /\ j.postings[i].transactionId = j.id
                            /\ PostingOK(j.postings[i])
    BY <1>4, <1>5 DEF DatabaseOK
  <2>2. DOMAIN balance' = Accounts
    BY DEF UpdatedBalances
  <2> QED
    BY <2>1, <2>2, <1>3 DEF DatabaseOK, PostingOK
<1>7. RequestsOK'
  BY ZeroInRange DEF DraftOK, Stages, NoRows, EmptyRow, NoSeqs, Codes
<1>8. StageOK'
  BY <1>1, SamePostings DEF StageOK, DraftOK, Drafted, Writing
<1> QED
  BY <1>6, <1>7, <1>8

\* A new account starts with an empty row.
LEMMA OpenAccountKeepsTypes ==
  ASSUME TypeInv, NEW a \in Accounts, OpenAccount(a)
  PROVE  TypeInv'
<1> USE DEF OpenAccount, TypeInv, TypeOK, RequestsOK
<1>1. DatabaseOK'
  BY ZeroInRange DEF DatabaseOK, EmptyRow, PostingOK
<1>2. RequestsOK'
  BY DEF local, DraftOK
<1>3. StageOK'
  BY SamePostings DEF StageOK, local, DraftOK
<1> QED
  BY <1>1, <1>2, <1>3

-----------------------------------------------------------------------------
(* Type correctness                                                         *)

\* Every step of the server on behalf of a request keeps the types.
LEMMA ServeKeepsTypes ==
  ASSUME TypeInv, NEW r \in Requests, Serve(r)
  PROVE  TypeInv'
<1> USE DEF Drafted, InTransaction, Inserted, Writing, Stages
<1>1. CASE LookupOriginal(r)
  BY <1>1, LookupOriginalKeepsTypes
<1>2. CASE RefuseUnknownTransaction(r)
  BY <1>2, FinishKeepsTypes DEF RefuseUnknownTransaction, Refuse, Codes
<1>3. CASE Begin(r)
  <2>1. PICK stage \in {"check", "claim", "read"} : Goto(r, stage)
    BY <1>3 DEF Begin
  <2> QED
    BY <1>3, <2>1, MoveKeepsTypes DEF Begin
<1>4. CASE CheckReversal(r)
  BY <1>4, MoveKeepsTypes DEF CheckReversal
<1>5. CASE RefuseReversed(r)
  BY <1>5, FinishKeepsTypes DEF RefuseReversed, Refuse, Codes
<1>6. CASE ClaimKey(r)
  BY <1>6, MoveKeepsTypes DEF ClaimKey
<1>7. CASE ReplayResponse(r)
  BY <1>7, FinishKeepsTypes DEF ReplayResponse, Codes
<1>8. CASE RefuseKeyConflict(r)
  BY <1>8, FinishKeepsTypes DEF RefuseKeyConflict, Refuse, Codes
<1>9. CASE ReadAccounts(r)
  BY <1>9, MoveKeepsTypes DEF ReadAccounts
<1>10. CASE RefuseAccounts(r)
  <2>1. AccountsVerdict(r) \in Codes
    BY DEF AccountsVerdict, AccountProblem, Codes
  <2> QED
    BY <1>10, <2>1, FinishKeepsTypes DEF RefuseAccounts, Refuse, Codes
<1>11. CASE \E i \in Leg : LockAccount(r, i)
  BY <1>11, LockAccountKeepsTypes
<1>12. CASE RefuseFunds(r)
  BY <1>12, FinishKeepsTypes DEF RefuseFunds, Refuse, Codes
<1>13. CASE InsertJournal(r)
  BY <1>13, MoveKeepsTypes DEF InsertJournal
<1>14. CASE RefuseDuplicateReversal(r)
  BY <1>14, FinishKeepsTypes DEF RefuseDuplicateReversal, Refuse, Codes
<1>15. CASE \E i \in Leg : InsertPosting(r, i)
  BY <1>15, InsertPostingKeepsTypes
<1>16. CASE FailOverflow(r)
  BY <1>16, FinishKeepsTypes DEF FailOverflow, Refuse, Codes
<1>17. CASE Commit(r)
  BY <1>17, CommitKeepsTypes
<1>18. CASE Respond(r)
  BY <1>18, MoveKeepsTypes DEF Respond
<1>19. CASE UpdateBalances(r)
  BY <1>19, MoveKeepsTypes DEF UpdateBalances
<1>20. CASE AppendEvent(r)
  <2>1. PICK stage \in {"complete", "commit"} : Goto(r, stage)
    BY <1>20 DEF AppendEvent
  <2> QED
    BY <1>20, <2>1, MoveKeepsTypes DEF AppendEvent
<1>21. CASE CompleteKey(r)
  BY <1>21, MoveKeepsTypes DEF CompleteKey
<1> QED
  BY <1>1, <1>2, <1>3, <1>4, <1>5, <1>6, <1>7, <1>8, <1>9, <1>10, <1>11, <1>12,
     <1>13, <1>14, <1>15, <1>16, <1>17, <1>18, <1>19, <1>20, <1>21 DEF Serve

\* Every step of the system keeps the types.
LEMMA NextKeepsTypes == TypeInv /\ [Next]_vars => TypeInv'
<1> SUFFICES ASSUME TypeInv, [Next]_vars PROVE TypeInv'
  OBVIOUS
<1>1. CASE UNCHANGED vars
  BY <1>1, SamePostings DEF vars, TypeInv, TypeOK, DatabaseOK, RequestsOK, StageOK,
     PostingOK, DraftOK
<1>2. CASE \E a \in Accounts : OpenAccount(a)
  BY <1>2, OpenAccountKeepsTypes
<1>3. ASSUME NEW r \in Requests, Receive(r) PROVE TypeInv'
  BY <1>3, ReceiveKeepsTypes
<1>4. ASSUME NEW r \in Requests, Serve(r) PROVE TypeInv'
  BY <1>4, ServeKeepsTypes
<1>5. ASSUME NEW r \in Requests, Fail(r) PROVE TypeInv'
  BY <1>5, FinishKeepsTypes DEF Fail, Refuse, Codes
<1>6. ASSUME NEW r \in Requests, LoseAnswer(r) PROVE TypeInv'
  <2> USE <1>6 DEF LoseAnswer, Goto, TypeInv, TypeOK, RequestsOK
  <2>1. DatabaseOK'
    BY DEF DatabaseOK, database, PostingOK
  <2>2. RequestsOK'
    BY DEF local, DraftOK, Stages, Codes
  <2>3. StageOK'
    BY SamePostings DEF StageOK, local, DraftOK, Drafted,
           InTransaction, Inserted, Writing
  <2> QED
    BY <2>1, <2>2, <2>3
<1> QED
  BY <1>1, <1>2, <1>3, <1>4, <1>5, <1>6 DEF Next, Quiescent

\* The strengthened type invariant holds throughout.
THEOREM TypeInvariant == Spec => []TypeInv
  BY TypeInit, NextKeepsTypes, PTL DEF Spec

\* Every variable keeps its type, and no committed balance leaves the range of
\* its bigint column, for any number of requests, accounts and connections.
THEOREM TypeCorrect == Spec => []TypeOK
<1>1. TypeInv => TypeOK
  BY DEF TypeInv
<1> QED
  BY <1>1, TypeInvariant, PTL

-----------------------------------------------------------------------------
(* Locks                                                                    *)

\* The stages in which a request may hold row locks.
Locking == {"lock", "insert"} \cup Inserted

HeldByStage ==
  \A r \in Requests :
    /\ pc[r] \notin Locking => held[r] = {}
    /\ pc[r] \in Locking \ {"lock"} => held[r] = Leg

AccountsOpen ==
  \A r \in Requests : pc[r] \in Locking => \A i \in Leg : TargetOf(r, i) \in opened

LocksExclusive ==
  \A r, q \in Requests : r # q =>
    \A i \in held[r], k \in held[q] : TargetOf(r, i) # TargetOf(q, k)

LockedCurrent ==
  \A r \in Requests : \A i \in held[r] : locked[r][i] = balance[TargetOf(r, i)]

LocksInv == HeldByStage /\ AccountsOpen /\ LocksExclusive /\ LockedCurrent

-----------------------------------------------------------------------------
(* The shapes of a step                                                     *)

\* A step of r leaves the other requests where they are.
Alone(r) ==
  \A q \in Requests \ {r} :
    /\ pc'[q] = pc[q] /\ input'[q] = input[q] /\ draft'[q] = draft[q]
    /\ held'[q] = held[q] /\ locked'[q] = locked[q] /\ seqs'[q] = seqs[q]

\* A step of r into a stage without locks, the tables as they were: r gives
\* up its locks or had none.
LockFreeStep(r) ==
  /\ Alone(r)
  /\ UNCHANGED <<database, nextSeq>>
  /\ pc'[r] \notin Locking
  /\ \/ held'[r] = {}
     \/ pc[r] \notin Locking /\ held'[r] = held[r]
  /\ \/ pc[r] \in {"idle", "lookup"} /\ pc'[r] \in {"lookup", "begin", "done"}
     \/ input'[r] = input[r] /\ draft'[r] = draft[r]

\* One of the writes between the postings and the COMMIT: they stay inside the
\* transaction of r.
WriteStep(r) ==
  /\ pc[r] \in Writing
  /\ \E stage \in Writing : Goto(r, stage)
  /\ UNCHANGED <<database, nextSeq, input, draft, local, answer>>

\* The balances, the event and the receipt of the key are such writes.
LEMMA WritesMove ==
  ASSUME NEW r \in Requests, UpdateBalances(r) \/ AppendEvent(r) \/ CompleteKey(r)
  PROVE  WriteStep(r)
  BY DEF UpdateBalances, AppendEvent, CompleteKey, WriteStep, Writing

\* Every step of r is lock-free or one of six.
LEMMA StepShapes ==
  ASSUME TypeInv, NEW r \in Requests,
         Receive(r) \/ Serve(r) \/ Fail(r) \/ LoseAnswer(r)
  PROVE  \/ LockFreeStep(r)
         \/ ReadAccounts(r)
         \/ \E i \in Leg : LockAccount(r, i)
         \/ InsertJournal(r)
         \/ \E i \in Leg : InsertPosting(r, i)
         \/ WriteStep(r)
         \/ Commit(r)
<1> USE DEF TypeInv, TypeOK, RequestsOK
<1>1. ASSUME NEW code, NEW receipt, Finish(r, code, receipt)
      PROVE  LockFreeStep(r)
  BY <1>1 DEF Finish, Goto, LockFreeStep, Alone, database, Locking, Inserted, Writing
<1>2. ASSUME NEW stage \in {"claim", "check", "read", "done"}, Goto(r, stage),
             pc[r] \notin Locking,
             UNCHANGED <<database, nextSeq, input, draft, local>>
      PROVE  LockFreeStep(r)
  BY <1>2 DEF Goto, LockFreeStep, Alone, database, local, Locking, Inserted, Writing
<1>3. CASE Receive(r)
  BY <1>3 DEF Receive, AcceptTransfer, RejectTransfer, AcceptReversal, Goto,
              LockFreeStep, Alone, database, local, Locking, Inserted, Writing
<1>4. CASE Fail(r)
  BY <1>4, <1>1 DEF Fail, Refuse
<1>5. CASE LoseAnswer(r)
  BY <1>5, <1>2 DEF LoseAnswer, Locking, Inserted, Writing
<1>6. CASE LookupOriginal(r)
  BY <1>6 DEF LookupOriginal, Goto, LockFreeStep, Alone, database, local, Locking,
              Inserted, Writing
<1>7. CASE Begin(r) \/ CheckReversal(r) \/ ClaimKey(r) \/ Respond(r)
  BY <1>7, <1>2 DEF Begin, CheckReversal, ClaimKey, Respond, Locking, Inserted, Writing
<1>8. CASE \/ RefuseUnknownTransaction(r) \/ RefuseReversed(r) \/ ReplayResponse(r)
           \/ RefuseKeyConflict(r) \/ RefuseAccounts(r) \/ RefuseFunds(r)
           \/ RefuseDuplicateReversal(r) \/ FailOverflow(r)
  BY <1>8, <1>1 DEF RefuseUnknownTransaction, RefuseReversed, ReplayResponse,
     RefuseKeyConflict, RefuseAccounts, RefuseFunds, RefuseDuplicateReversal,
     FailOverflow, Refuse
<1> QED
  BY <1>3, <1>4, <1>5, <1>6, <1>7, <1>8, WritesMove DEF Serve

-----------------------------------------------------------------------------
(* The locks are exclusive and what they protect is current                 *)

\* Nobody holds a lock initially.
LEMMA LocksInit == Init => LocksInv
  BY DEF Init, LocksInv, HeldByStage, AccountsOpen, LocksExclusive, LockedCurrent,
         Locking, Inserted, Writing

\* A request that gives up its locks, or had none, leaves those of the others alone.
LEMMA LockFreeStepKeepsLocks ==
  ASSUME TypeInv, LocksInv, NEW r \in Requests, LockFreeStep(r)
  PROVE  LocksInv'
<1> USE DEF LockFreeStep, Alone, database, LocksInv, TargetOf, RefOf
<1>1. HeldByStage'
  BY DEF HeldByStage, Locking, Inserted, Writing
<1>2. AccountsOpen'
  BY DEF AccountsOpen
<1>3. held'[r] = {}
  BY DEF HeldByStage
<1>4. LocksExclusive'
  BY <1>3 DEF LocksExclusive
<1>5. LockedCurrent'
  BY <1>3 DEF LockedCurrent
<1> QED
  BY <1>1, <1>2, <1>4, <1>5

\* The accounts a request goes on to lock exist.
LEMMA ReadAccountsKeepsLocks ==
  ASSUME TypeInv, LocksInv, NEW r \in Requests, ReadAccounts(r)
  PROVE  LocksInv'
<1> USE DEF ReadAccounts, Goto, database, local, LocksInv, TargetOf, RefOf,
            TypeInv, TypeOK, RequestsOK
<1>1. \A i \in Leg : TargetOf(r, i) \in opened
  <2>1. AccountProblem(r, 1) = "ok" /\ AccountProblem(r, 2) = "ok"
    BY DEF AccountsVerdict
  <2> QED
    BY <2>1 DEF AccountProblem, Leg
<1>2. HeldByStage' /\ LocksExclusive' /\ LockedCurrent'
  BY DEF HeldByStage, LocksExclusive, LockedCurrent, Locking, Inserted, Writing
<1>3. AccountsOpen'
  BY <1>1 DEF AccountsOpen
<1> QED
  BY <1>2, <1>3

\* A row is locked only while no other request holds it, and read as committed.
LEMMA LockAccountKeepsLocks ==
  ASSUME TypeInv, LocksInv, NEW r \in Requests, NEW i \in Leg, LockAccount(r, i)
  PROVE  LocksInv'
<1> USE DEF LockAccount, Goto, database, LocksInv, TargetOf, RefOf,
            TypeInv, TypeOK, RequestsOK
<1>1. \A q \in Requests \ {r} : \A k \in held[q] : TargetOf(q, k) # TargetOf(r, i)
  BY DEF RowFree, LockedAccounts
<1>2. HeldByStage'
  BY DEF HeldByStage, Locking, Inserted, Writing
<1>3. AccountsOpen'
  BY DEF AccountsOpen, Locking, Inserted, Writing
<1>4. LocksExclusive'
  BY <1>1 DEF LocksExclusive
<1>5. LockedCurrent'
  BY DEF LockedCurrent
<1> QED
  BY <1>2, <1>3, <1>4, <1>5

\* Insertions and writes change neither locks nor committed balances.
LEMMA InsertsKeepLocks ==
  ASSUME TypeInv, LocksInv, NEW r \in Requests,
         InsertJournal(r) \/ (\E i \in Leg : InsertPosting(r, i)) \/ WriteStep(r)
  PROVE  LocksInv'
<1> USE DEF InsertJournal, InsertPosting, WriteStep, Goto, database, local, LocksInv,
            TargetOf, RefOf, TypeInv, TypeOK, RequestsOK
<1>1. HeldByStage'
  BY DEF HeldByStage, Locking, Inserted, Writing
<1>2. AccountsOpen'
  BY DEF AccountsOpen, Locking, Inserted, Writing
<1>3. LocksExclusive' /\ LockedCurrent'
  BY DEF LocksExclusive, LockedCurrent
<1> QED
  BY <1>1, <1>2, <1>3

\* COMMIT writes only rows its request has locked.
LEMMA CommitTouchesLockedRows ==
  ASSUME NEW r \in Requests, NEW a \in Accounts, \A i \in Leg : TargetOf(r, i) # a
  PROVE  UpdatedBalances(r)[a] = balance[a]
  BY DEF UpdatedBalances, LastUpdate, Leg

\* A COMMIT writes only rows that its request holds, and gives them up.
LEMMA CommitKeepsLocks ==
  ASSUME TypeInv, LocksInv, NEW r \in Requests, Commit(r)
  PROVE  LocksInv'
<1> USE DEF Commit, Goto, LocksInv, TypeInv, TypeOK, RequestsOK
<1>1. held[r] = Leg
  BY DEF HeldByStage, Locking, Inserted, Writing
<1>2. \A q \in Requests : \A k \in Leg : TargetOf(q, k)' = TargetOf(q, k)
  BY DEF TargetOf, RefOf
<1>3. HeldByStage' /\ AccountsOpen'
  BY <1>2 DEF HeldByStage, AccountsOpen, Locking, Inserted, Writing
<1>4. LocksExclusive'
  BY <1>2 DEF LocksExclusive
<1>5. LockedCurrent'
  <2> SUFFICES ASSUME NEW q \in Requests \ {r}, NEW k \in held[q]
               PROVE  locked[q][k] = balance'[TargetOf(q, k)]
    BY <1>2 DEF LockedCurrent
  <2>1. TargetOf(q, k) \in Accounts
    <3>1. pc[q] \in Locking
      BY DEF HeldByStage
    <3> QED
      BY <3>1 DEF AccountsOpen, DatabaseOK
  <2>2. \A i \in Leg : TargetOf(r, i) # TargetOf(q, k)
    BY <1>1 DEF LocksExclusive
  <2>3. balance'[TargetOf(q, k)] = balance[TargetOf(q, k)]
    BY <2>1, <2>2, CommitTouchesLockedRows
  <2> QED
    BY <2>3 DEF LockedCurrent
<1> QED
  BY <1>3, <1>4, <1>5

\* A new account is nobody's locked account.
LEMMA OpenAccountKeepsLocks ==
  ASSUME TypeInv, LocksInv, NEW a \in Accounts, OpenAccount(a)
  PROVE  LocksInv'
<1> USE DEF OpenAccount, local, LocksInv, TargetOf, RefOf, TypeInv, TypeOK, RequestsOK
<1>1. HeldByStage' /\ AccountsOpen' /\ LocksExclusive'
  BY DEF HeldByStage, AccountsOpen, LocksExclusive
<1>2. LockedCurrent'
  <2> SUFFICES ASSUME NEW q \in Requests, NEW k \in held[q]
               PROVE  locked[q][k] = balance'[TargetOf(q, k)]
    BY DEF LockedCurrent
  <2>1. TargetOf(q, k) \in opened
    BY DEF HeldByStage, AccountsOpen
  <2> QED
    BY <2>1 DEF LockedCurrent, DatabaseOK
<1> QED
  BY <1>1, <1>2

\* Every step keeps the locks exclusive and the locked rows current.
LEMMA NextKeepsLocks == TypeInv /\ LocksInv /\ [Next]_vars => LocksInv'
<1> SUFFICES ASSUME TypeInv, LocksInv, [Next]_vars PROVE LocksInv'
  OBVIOUS
<1>1. CASE UNCHANGED vars
  BY <1>1 DEF vars, LocksInv, HeldByStage, AccountsOpen, LocksExclusive,
              LockedCurrent, TargetOf, RefOf
<1>2. CASE \E a \in Accounts : OpenAccount(a)
  BY <1>2, OpenAccountKeepsLocks
<1>3. ASSUME NEW r \in Requests, Receive(r) \/ Serve(r) \/ Fail(r) \/ LoseAnswer(r)
      PROVE  LocksInv'
  BY <1>3, StepShapes, LockFreeStepKeepsLocks, ReadAccountsKeepsLocks,
     LockAccountKeepsLocks, InsertsKeepLocks, CommitKeepsLocks
<1> QED
  BY <1>1, <1>2, <1>3 DEF Next, Quiescent

\* Types and locks together.
THEOREM LockInvariant == Spec => [](TypeInv /\ LocksInv)
<1>1. Init => TypeInv /\ LocksInv
  BY TypeInit, LocksInit
<1>2. TypeInv /\ LocksInv /\ [Next]_vars => (TypeInv /\ LocksInv)'
  BY NextKeepsTypes, NextKeepsLocks
<1> QED
  BY <1>1, <1>2, PTL DEF Spec

-----------------------------------------------------------------------------
(* Entries balance                                                          *)

\* Drafts are made in two places; elsewhere they stay as they are.
LEMMA DraftsMade ==
  ASSUME TypeInv, NEW r \in Requests,
         Receive(r) \/ Serve(r) \/ Fail(r) \/ LoseAnswer(r)
  PROVE  \/ draft' = draft /\ (pc'[r] \in Drafted => pc[r] \in Drafted)
         \/ \E in \in Inputs : AcceptTransfer(r, in)
         \/ LookupOriginal(r)
<1> USE DEF TypeInv, TypeOK, RequestsOK, Drafted, InTransaction, Inserted, Writing, Goto
<1>1. CASE Receive(r)
  BY <1>1 DEF Receive, RejectTransfer, AcceptReversal
<1>2. ASSUME NEW code, NEW receipt, Finish(r, code, receipt)
      PROVE  draft' = draft /\ pc'[r] \notin Drafted
  BY <1>2 DEF Finish
<1>3. CASE \/ Fail(r) \/ RefuseUnknownTransaction(r) \/ RefuseReversed(r)
           \/ ReplayResponse(r) \/ RefuseKeyConflict(r) \/ RefuseFunds(r)
           \/ RefuseDuplicateReversal(r) \/ FailOverflow(r) \/ RefuseAccounts(r)
  BY <1>3, <1>2 DEF Fail, RefuseUnknownTransaction, RefuseReversed, ReplayResponse,
     RefuseKeyConflict, RefuseFunds, RefuseDuplicateReversal, FailOverflow,
     RefuseAccounts, Refuse
<1>4. CASE \/ Begin(r) \/ CheckReversal(r) \/ ClaimKey(r)
           \/ ReadAccounts(r) \/ InsertJournal(r) \/ Respond(r)
  BY <1>4 DEF Begin, CheckReversal, ClaimKey, ReadAccounts, InsertJournal, Respond
<1>5. CASE \/ \E i \in Leg : LockAccount(r, i) \/ InsertPosting(r, i)
           \/ Commit(r) \/ LoseAnswer(r)
  BY <1>5 DEF LockAccount, InsertPosting, Commit, LoseAnswer
<1>6. CASE LookupOriginal(r)
  BY <1>6
<1>7. CASE UpdateBalances(r) \/ AppendEvent(r) \/ CompleteKey(r)
  BY <1>7, WritesMove DEF WriteStep
<1> QED
  BY <1>1, <1>3, <1>4, <1>5, <1>6, <1>7 DEF Serve

\* Only COMMIT writes the journal, and only COMMIT and a new account balances.
LEMMA OnlyCommitWrites ==
  ASSUME TypeInv, NEW r \in Requests,
         Receive(r) \/ Serve(r) \/ Fail(r) \/ LoseAnswer(r)
  PROVE  Commit(r) \/ UNCHANGED <<opened, balance, journal>>
  BY StepShapes DEF LockFreeStep, ReadAccounts, LockAccount, InsertJournal,
     InsertPosting, WriteStep, database

\* The legs of every draft, and of every committed entry, sum to zero.
EntriesBalanced ==
  /\ \A r \in Requests : pc[r] \in Drafted => Balanced(r)
  /\ \A j \in journal : j.postings[1].amount + j.postings[2].amount = 0

\* What negates a balanced pair is balanced.
LEMMA NegationsCancel == \A m, n \in Int : m + n = 0 => (-m) + (-n) = 0
  OBVIOUS

\* A transfer is built balanced, a reversal negates a balanced entry.
LEMMA StepKeepsBalance ==
  ASSUME TypeInv, EntriesBalanced, NEW r \in Requests,
         Receive(r) \/ Serve(r) \/ Fail(r) \/ LoseAnswer(r)
  PROVE  EntriesBalanced'
<1> USE DEF TypeInv, TypeOK, RequestsOK
<1>1. Alone(r)
  BY StepShapes DEF LockFreeStep, ReadAccounts, LockAccount, InsertJournal,
     InsertPosting, WriteStep, Commit, Goto, Alone, local
<1>2. 1 \in Leg /\ 2 \in Leg
  BY DEF Leg
<1>3. \A j \in journal' : j.postings[1].amount + j.postings[2].amount = 0
  <2>1. CASE Commit(r)
    <3>1. /\ JournalRow(r).postings[1].amount = AmountOf(r, 1)
          /\ JournalRow(r).postings[2].amount = AmountOf(r, 2)
      BY <1>2 DEF JournalRow
    <3> QED
      BY <2>1, <3>1 DEF Commit, Balanced, EntriesBalanced
  <2> QED
    BY <2>1, OnlyCommitWrites DEF EntriesBalanced
<1>4. pc'[r] \in Drafted => Balanced(r)'
  <2>1. CASE draft' = draft /\ (pc'[r] \in Drafted => pc[r] \in Drafted)
    BY <2>1 DEF EntriesBalanced, Balanced, AmountOf
  <2>2. ASSUME NEW in \in Inputs, AcceptTransfer(r, in) PROVE Balanced(r)'
    <3>1. draft'[r].legs = TransferLegs(in.from, in.to, in.amount) /\ in.amount \in Nat
      BY <2>2, InputsAssumption DEF AcceptTransfer, TransferInput, ReverseInput
    <3>2. AmountOf(r, 1)' = -in.amount /\ AmountOf(r, 2)' = in.amount
      BY <1>2, <3>1 DEF AmountOf, TransferLegs
    <3> QED
      BY <3>1, <3>2 DEF Balanced
  <2>3. CASE LookupOriginal(r)
    <3>1. PICK j \in journal : draft'[r].legs = NegatedLegs(j)
      BY <2>3 DEF LookupOriginal
    <3>2. j.postings[1].amount \in Int /\ j.postings[2].amount \in Int
      BY <1>2 DEF DatabaseOK, PostingOK, BalanceInRange
    <3>3. /\ AmountOf(r, 1)' = -j.postings[1].amount
          /\ AmountOf(r, 2)' = -j.postings[2].amount
      BY <1>2, <3>1 DEF AmountOf, NegatedLegs
    <3>4. j.postings[1].amount + j.postings[2].amount = 0
      BY DEF EntriesBalanced
    <3>5. (-j.postings[1].amount) + (-j.postings[2].amount) = 0
      BY <3>2, <3>4, NegationsCancel
    <3> QED
      BY <3>3, <3>5 DEF Balanced
  <2> QED
    BY <2>1, <2>2, <2>3, DraftsMade
<1>5. \A q \in Requests \ {r} : pc'[q] = pc[q] /\ draft'[q] = draft[q]
  BY <1>1 DEF Alone
<1> QED
  BY <1>3, <1>4, <1>5 DEF EntriesBalanced, Balanced, AmountOf

\* Every draft and every committed entry sums to zero, however ids are spelled.
LEMMA BalancedInvariant == Spec => []EntriesBalanced
<1>1. Init => EntriesBalanced
  BY DEF Init, EntriesBalanced, Drafted, InTransaction, Inserted, Writing
<1>2. TypeInv /\ EntriesBalanced /\ [Next]_vars => EntriesBalanced'
  <2> SUFFICES ASSUME TypeInv, EntriesBalanced, [Next]_vars PROVE EntriesBalanced'
    OBVIOUS
  <2>1. CASE UNCHANGED vars \/ \E a \in Accounts : OpenAccount(a)
    <3>1. pc' = pc /\ draft' = draft /\ journal' = journal
      BY <2>1 DEF vars, OpenAccount
    <3> QED
      BY <3>1 DEF EntriesBalanced, Balanced, AmountOf
  <2>2. ASSUME NEW r \in Requests, Receive(r) \/ Serve(r) \/ Fail(r) \/ LoseAnswer(r)
        PROVE  EntriesBalanced'
    BY <2>2, StepKeepsBalance
  <2> QED
    BY <2>1, <2>2 DEF Next, Quiescent
<1> QED
  BY <1>1, <1>2, TypeInvariant, PTL DEF Spec

-----------------------------------------------------------------------------
(* Refusals                                                                 *)

\* A committed request is about to say so.
CommittedAnswersOk == \A r \in Requests : pc[r] = "respond" => answer[r].code = "ok"

RefusalsInv == TypeInv /\ LocksInv /\ EntriesBalanced /\ CommittedAnswersOk

\* Finish touches the answer and the stage of one request.
LEMMA FinishAnswers ==
  ASSUME TypeInv, NEW r \in Requests, NEW code, NEW receipt, Finish(r, code, receipt)
  PROVE  /\ pc'[r] = "done" /\ answer'[r].code = code
         /\ \A q \in Requests \ {r} : pc'[q] = pc[q] /\ answer'[q] = answer[q]
  BY DEF Finish, Goto, TypeInv, TypeOK, RequestsOK

\* Moving on leaves the answers alone.
LEMMA MoveAnswers ==
  ASSUME TypeInv, NEW r \in Requests, NEW stage, Goto(r, stage), UNCHANGED answer
  PROVE  /\ pc'[r] = stage /\ answer' = answer
         /\ \A q \in Requests \ {r} : pc'[q] = pc[q]
  BY DEF Goto, TypeInv, TypeOK, RequestsOK

\* Only RefuseFunds refuses for lack of funds, and only its own request.
LEMMA OnlyRefuseFunds ==
  ASSUME RefusalsInv, NEW r \in Requests,
         Receive(r) \/ Serve(r) \/ Fail(r) \/ LoseAnswer(r)
  PROVE  /\ CommittedAnswersOk'
         /\ \A q \in Requests : RefusedForFunds(q) => q = r /\ RefuseFunds(r)
<1> USE DEF RefusalsInv, CommittedAnswersOk, RefusedForFunds
<1>1. ASSUME NEW code, NEW receipt, Finish(r, code, receipt),
             code # "insufficient_funds"
      PROVE  CommittedAnswersOk' /\ \A q \in Requests : ~RefusedForFunds(q)
  BY <1>1, FinishAnswers
<1>2. ASSUME NEW stage, Goto(r, stage), UNCHANGED answer, stage # "respond",
             stage # "done" \/ pc[r] = "respond"
      PROVE  CommittedAnswersOk' /\ \A q \in Requests : ~RefusedForFunds(q)
  BY <1>2, MoveAnswers
<1>3. CASE Receive(r)
  <2>1. PICK in \in Inputs :
          AcceptTransfer(r, in) \/ RejectTransfer(r, in) \/ AcceptReversal(r, in)
    BY <1>3 DEF Receive
  <2>2. CASE AcceptTransfer(r, in) \/ AcceptReversal(r, in)
    BY <2>2, <1>2 DEF AcceptTransfer, AcceptReversal
  <2>3. CASE RejectTransfer(r, in)
    <3>1. TransferVerdict(in) # "insufficient_funds"
      BY DEF TransferVerdict
    <3> QED
      BY <2>3, <3>1 DEF RejectTransfer, Goto, TypeInv, TypeOK, RequestsOK
  <2> QED
    BY <2>1, <2>2, <2>3
<1>4. CASE LoseAnswer(r)
  BY <1>4 DEF LoseAnswer, Goto, TypeInv, TypeOK, RequestsOK
<1>5. CASE Commit(r)
  BY <1>5 DEF Commit, Goto, TypeInv, TypeOK, RequestsOK
<1>6. CASE RefuseFunds(r)
  BY <1>6, FinishAnswers DEF RefuseFunds, Refuse
<1>7. CASE RefuseAccounts(r)
  <2>1. AccountsVerdict(r) # "insufficient_funds"
    BY DEF AccountsVerdict, AccountProblem
  <2> QED
    BY <1>7, <2>1, <1>1 DEF RefuseAccounts, Refuse
<1>8. CASE \/ Fail(r) \/ RefuseUnknownTransaction(r) \/ RefuseReversed(r)
           \/ ReplayResponse(r) \/ RefuseKeyConflict(r)
           \/ RefuseDuplicateReversal(r) \/ FailOverflow(r)
  BY <1>8, <1>1 DEF Fail, RefuseUnknownTransaction, RefuseReversed, ReplayResponse,
     RefuseKeyConflict, RefuseDuplicateReversal, FailOverflow, Refuse
<1>9. CASE \/ LookupOriginal(r) \/ Begin(r) \/ CheckReversal(r) \/ ClaimKey(r)
           \/ ReadAccounts(r) \/ InsertJournal(r) \/ UpdateBalances(r)
           \/ AppendEvent(r) \/ CompleteKey(r) \/ Respond(r)
  BY <1>9, <1>2 DEF LookupOriginal, Begin, CheckReversal, ClaimKey, ReadAccounts,
     InsertJournal, UpdateBalances, AppendEvent, CompleteKey, Respond
<1>10. CASE \E i \in Leg : LockAccount(r, i) \/ InsertPosting(r, i)
  BY <1>10, <1>2 DEF LockAccount, InsertPosting
<1> QED
  BY <1>3, <1>4, <1>5, <1>6, <1>7, <1>8, <1>9, <1>10 DEF Serve

\* The balances that do not suffice are the committed ones: they are locked.
LEMMA RefuseFundsCurrent ==
  ASSUME TypeInv, LocksInv, EntriesBalanced, NEW r \in Requests, RefuseFunds(r)
  PROVE  CannotBear(r)
<1>1. DraftOK(draft[r]) /\ held[r] = Leg /\ Balanced(r)
  BY DEF RefuseFunds, TypeInv, StageOK, Drafted, InTransaction, Inserted, LocksInv,
         HeldByStage, Locking, EntriesBalanced
<1>2. PICK i \in Leg : Guarded(RefOf(r, i)) /\ ~(BalanceAfter(r, i) >= 0)
  BY DEF RefuseFunds, Sufficient
<1>3. TargetOf(r, i) = RefOf(r, i) /\ TargetOf(r, i) \notin SystemAccounts
  BY <1>2, RefsAssumption DEF Guarded, TargetOf
<1>4. \A k \in Leg : /\ locked[r][k] = balance[TargetOf(r, k)]
                     /\ AmountOf(r, k) \in Int /\ locked[r][k].balance \in Int
  BY <1>1 DEF LocksInv, LockedCurrent, DraftOK, AmountOf, TypeInv, TypeOK, RequestsOK,
     BalanceInRange
<1>5. CASE Running(r, i) = locked[r][i]
  BY <1>2, <1>3, <1>4, <1>5 DEF BalanceAfter, PostedTo, CannotBear
\* Both legs name the account alike: one of the two takes from it.
<1>6. CASE Running(r, i) # locked[r][i]
  <2>1. i = 2 /\ RefOf(r, 1) = RefOf(r, 2) /\ Running(r, i) = PostedTo(locked[r][1], r, 1)
    BY <1>6 DEF Running
  <2>2. TargetOf(r, 1) = TargetOf(r, 2) /\ 1 \in Leg /\ 2 \in Leg
    BY <2>1 DEF TargetOf, Leg
  <2>3. locked[r][1].balance + AmountOf(r, 1) + AmountOf(r, 2) < 0
    BY <1>2, <1>4, <2>1, <2>2 DEF BalanceAfter, PostedTo
  <2>4. \/ locked[r][1].balance + AmountOf(r, 1) < 0
        \/ locked[r][1].balance + AmountOf(r, 2) < 0
    BY <1>1, <1>4, <2>2, <2>3 DEF Balanced
  <2> QED
    BY <1>3, <1>4, <2>1, <2>2, <2>4 DEF CannotBear
<1> QED
  BY <1>5, <1>6

\* A request is refused for lack of funds only if the balances committed at
\* that moment cannot bear it (ledger-poster.ts checks what it has locked).
THEOREM RefusalsAreCurrent == Spec => RefusalsCurrent
<1>1. Init => CommittedAnswersOk
  BY DEF Init, CommittedAnswersOk
<1>2. RefusalsInv /\ [Next]_vars => CommittedAnswersOk' /\ RefusalsJustified
  <2> SUFFICES ASSUME RefusalsInv, [Next]_vars
               PROVE  /\ CommittedAnswersOk'
                      /\ \A r \in Requests : RefusedForFunds(r) => RefuseFunds(r)
    BY RefuseFundsCurrent DEF RefusalsInv, RefusalsJustified
  <2>1. CASE UNCHANGED vars \/ \E a \in Accounts : OpenAccount(a)
    BY <2>1 DEF vars, OpenAccount, CommittedAnswersOk, RefusalsInv, RefusedForFunds
  <2>2. ASSUME NEW r \in Requests, Receive(r) \/ Serve(r) \/ Fail(r) \/ LoseAnswer(r)
        PROVE  /\ CommittedAnswersOk'
               /\ \A q \in Requests : RefusedForFunds(q) => RefuseFunds(q)
    BY <2>2, OnlyRefuseFunds
  <2> QED
    BY <2>1, <2>2 DEF Next, Quiescent
<1> QED
  BY <1>1, <1>2, LockInvariant, BalancedInvariant, PTL DEF Spec, RefusalsInv,
     RefusalsCurrent

-----------------------------------------------------------------------------
(* Overdraft                                                                *)

RefsCanonical ==
  \A r \in Requests : pc[r] \in Drafted => \A i \in Leg : RefOf(r, i) \in Accounts

FundsChecked == \A r \in Requests : pc[r] \in Inserted => Sufficient(r)

FundsInv == RefsCanonical /\ FundsChecked /\ NoOverdraft

\* Canonical bodies make canonical drafts, and stored ids are canonical.
LEMMA RefsStayCanonical ==
  ASSUME CanonicalIds, TypeInv, RefsCanonical, NEW r \in Requests,
         Receive(r) \/ Serve(r) \/ Fail(r) \/ LoseAnswer(r), Alone(r)
  PROVE  RefsCanonical'
<1> USE DEF RefsCanonical, RefOf, Alone
<1>1. CASE draft' = draft /\ (pc'[r] \in Drafted => pc[r] \in Drafted)
  BY <1>1
<1>2. ASSUME NEW in \in Inputs, AcceptTransfer(r, in) PROVE RefsCanonical'
  <2>1. in.from \in Accounts /\ in.to \in Accounts
    BY <1>2 DEF CanonicalIds, AcceptTransfer
  <2>2. draft'[r].legs = TransferLegs(in.from, in.to, in.amount)
    BY <1>2 DEF AcceptTransfer, TypeInv, TypeOK, RequestsOK
  <2> QED
    BY <2>1, <2>2 DEF TransferLegs
<1>3. CASE LookupOriginal(r)
  <2>1. PICK j \in journal : draft'[r].legs = NegatedLegs(j)
    BY <1>3 DEF LookupOriginal, TypeInv, TypeOK, RequestsOK
  <2>2. \A i \in Leg : j.postings[i].account \in Accounts
    BY DEF TypeInv, TypeOK, DatabaseOK, PostingOK
  <2> QED
    BY <2>1, <2>2 DEF NegatedLegs
<1> QED
  BY <1>1, <1>2, <1>3, DraftsMade

\* COMMIT publishes balances that were checked against their floors.
LEMMA CommitKeepsFloors ==
  ASSUME TypeInv, FundsInv, NEW r \in Requests, Commit(r)
  PROVE  NoOverdraft'
<1> USE DEF FundsInv
<1>1. \A i \in Leg : RefOf(r, i) \in Accounts /\ TargetOf(r, i) = RefOf(r, i)
  BY RefsAssumption DEF RefsCanonical, Drafted, InTransaction, Inserted, Writing,
     Commit, TargetOf
<1>2. \A i \in Leg : TargetOf(r, i) \notin SystemAccounts => BalanceAfter(r, i) >= 0
  BY <1>1 DEF FundsChecked, Commit, Sufficient, Guarded, Inserted, Writing
<1>3. \A a \in opened' \ SystemAccounts : balance'[a].balance >= 0
  <2> SUFFICES ASSUME NEW a \in opened \ SystemAccounts
               PROVE  UpdatedBalances(r)[a].balance >= 0
    BY DEF Commit
  <2>1. a \in Accounts /\ balance[a].balance >= 0
    BY DEF TypeInv, TypeOK, DatabaseOK, NoOverdraft
  <2> QED
    BY <2>1, <1>2 DEF UpdatedBalances, LastUpdate, UpdatedRow, BalanceAfter, Leg
<1>4. \A p \in Postings' : p.account \notin SystemAccounts => p.balanceAfter >= 0
  <2> SUFFICES ASSUME NEW j \in journal', NEW i \in Leg,
                      j.postings[i].account \notin SystemAccounts
               PROVE  j.postings[i].balanceAfter >= 0
    BY DEF Postings
  <2>1. CASE j \in journal
    BY <2>1 DEF NoOverdraft, Postings
  <2>2. CASE j = JournalRow(r)
    BY <2>2, <1>2 DEF JournalRow
  <2> QED
    BY <2>1, <2>2 DEF Commit
<1> QED
  BY <1>3, <1>4 DEF NoOverdraft

\* Funds are checked before the journal row is inserted and stay checked.
LEMMA StepKeepsFunds ==
  ASSUME CanonicalIds, TypeInv, LocksInv, FundsInv, NEW r \in Requests,
         Receive(r) \/ Serve(r) \/ Fail(r) \/ LoseAnswer(r)
  PROVE  FundsInv'
<1> USE DEF FundsInv, TypeInv, TypeOK, RequestsOK
<1>1. CASE LockFreeStep(r)
  <2>1. FundsChecked'
    BY <1>1, SamePostings DEF LockFreeStep, Alone, Locking, Inserted, Writing,
       FundsChecked
  <2>2. NoOverdraft'
    BY <1>1 DEF LockFreeStep, database, NoOverdraft, Postings
  <2> QED
    BY <1>1, <2>1, <2>2, RefsStayCanonical DEF LockFreeStep
<1>2. ASSUME UNCHANGED <<opened, balance, journal, draft>>, Alone(r),
             pc'[r] \in Inserted =>
               Sufficient(r) /\ locked'[r] = locked[r]
      PROVE  FundsInv'
  <2>1. FundsChecked'
    BY <1>2, SamePostings DEF Alone, FundsChecked
  <2>2. NoOverdraft'
    BY <1>2 DEF NoOverdraft, Postings
  <2> QED
    BY <1>2, <2>1, <2>2, RefsStayCanonical
<1>3. CASE ReadAccounts(r)
  BY <1>3, <1>2 DEF ReadAccounts, Goto, Alone, database, local, Inserted, Writing
<1>4. CASE \E i \in Leg : LockAccount(r, i)
  BY <1>4, <1>2 DEF LockAccount, Goto, Alone, database, Inserted, Writing
<1>5. CASE InsertJournal(r)
  BY <1>5, <1>2 DEF InsertJournal, Goto, Alone, database, local
<1>6. CASE \E i \in Leg : InsertPosting(r, i)
  BY <1>6, <1>2 DEF InsertPosting, Goto, Alone, database, FundsChecked, Inserted
<1>8. CASE WriteStep(r)
  BY <1>8, <1>2 DEF WriteStep, Goto, Alone, database, local, FundsChecked, Inserted,
     Writing
<1>7. CASE Commit(r)
  <2>1. Alone(r)
    BY <1>7 DEF Commit, Goto, Alone
  <2>2. FundsChecked'
    BY <1>7, SamePostings DEF Commit, Goto, FundsChecked, Inserted, Writing
  <2> QED
    BY <1>7, <2>1, <2>2, CommitKeepsFloors, RefsStayCanonical
<1> QED
  BY <1>1, <1>3, <1>4, <1>5, <1>6, <1>7, <1>8, StepShapes

\* Drafts stay canonical, funds checked and balances at or above their floors.
LEMMA FundsInvariant == ASSUME CanonicalIds PROVE Spec => []FundsInv
<1>1. Init => FundsInv
  <2> SUFFICES ASSUME Init PROVE FundsInv
    OBVIOUS
  <2>1. RefsCanonical /\ FundsChecked
    BY DEF Init, RefsCanonical, FundsChecked, Drafted, InTransaction, Inserted, Writing
  <2>2. NoOverdraft
    BY AccountsAssumption DEF Init, NoOverdraft, Postings, EmptyRow
  <2> QED
    BY <2>1, <2>2 DEF FundsInv
<1>2. TypeInv /\ LocksInv /\ FundsInv /\ [Next]_vars => FundsInv'
  <2> SUFFICES ASSUME TypeInv, LocksInv, FundsInv, [Next]_vars PROVE FundsInv'
    OBVIOUS
  <2>1. CASE UNCHANGED vars
    <3>1. FundsChecked'
      BY <2>1, SamePostings DEF vars, FundsInv, FundsChecked
    <3> QED
      BY <2>1, <3>1 DEF vars, FundsInv, RefsCanonical, RefOf, NoOverdraft, Postings
  <2>2. ASSUME NEW a \in Accounts, OpenAccount(a) PROVE FundsInv'
    <3>1. RefsCanonical' /\ FundsChecked'
      BY <2>2, SamePostings DEF OpenAccount, local, FundsInv, RefsCanonical, RefOf,
                                FundsChecked
    <3>2. NoOverdraft'
      BY <2>2 DEF OpenAccount, FundsInv, NoOverdraft, Postings, EmptyRow, TypeInv,
                  TypeOK, DatabaseOK
    <3> QED
      BY <3>1, <3>2 DEF FundsInv
  <2>3. ASSUME NEW r \in Requests, Receive(r) \/ Serve(r) \/ Fail(r) \/ LoseAnswer(r)
        PROVE  FundsInv'
    BY <2>3, StepKeepsFunds
  <2> QED
    BY <2>1, <2>2, <2>3 DEF Next, Quiescent
<1> QED
  BY <1>1, <1>2, LockInvariant, PTL DEF Spec

\* No guarded account is ever below its floor, now or after any posting of its
\* history (ADR-006), whenever clients spell account ids canonically.
THEOREM NoOverdraftEver == ASSUME CanonicalIds PROVE Spec => []NoOverdraft
<1>1. FundsInv => NoOverdraft
  BY DEF FundsInv
<1> QED
  BY <1>1, FundsInvariant, PTL

-----------------------------------------------------------------------------
(* What COMMIT writes                                                       *)

\* The posting of leg i that r commits.
NewPosting(r, i) == JournalRow(r).postings[i]

\* What a posting that COMMIT publishes consists of.
LEMMA NewPostingFields ==
  ASSUME NEW r \in Requests, NEW i \in Leg
  PROVE  /\ NewPosting(r, i).seq = seqs[r][i]
         /\ NewPosting(r, i).transactionId = r
         /\ NewPosting(r, i).account = TargetOf(r, i)
         /\ NewPosting(r, i).amount = AmountOf(r, i)
         /\ NewPosting(r, i).balanceAfter = BalanceAfter(r, i)
         /\ NewPosting(r, i).prevHash = Running(r, i).chainHash
         /\ NewPosting(r, i).hash = LineHash(r, i)
  BY DEF NewPosting, JournalRow

\* COMMIT adds two postings.
LEMMA CommitAddsPostings ==
  ASSUME NEW r \in Requests, Commit(r)
  PROVE  Postings' = Postings \cup {NewPosting(r, 1), NewPosting(r, 2)}
<1>1. journal' = journal \cup {JournalRow(r)}
  BY DEF Commit
<1>2. \A p : p \in Postings' <=> \E j \in journal', i \in Leg : p = j.postings[i]
  BY DEF Postings
<1>3. \A p : p \in Postings <=> \E j \in journal, i \in Leg : p = j.postings[i]
  BY DEF Postings
<1>4. \A p : (\E i \in Leg : p = JournalRow(r).postings[i]) <=>
             p \in {NewPosting(r, 1), NewPosting(r, 2)}
  BY DEF Leg, NewPosting
<1> QED
  BY <1>1, <1>2, <1>3, <1>4

-----------------------------------------------------------------------------
(* Drafts                                                                   *)

\* The two legs of an entry are at different accounts.
LegsApart ==
  /\ \A r \in Requests : pc[r] \in Drafted => TargetOf(r, 1) # TargetOf(r, 2)
  /\ \A j \in journal : j.postings[1].account # j.postings[2].account

CurrencyMatches ==
  \A r \in Requests : pc[r] \in Locking =>
    \A i \in Leg : CurrencyOf[TargetOf(r, i)] = draft[r].currency

\* The two legs of a draft stay on two accounts.
LEMMA StepKeepsLegsApart ==
  ASSUME CanonicalIds, TypeInv, RefsCanonical, LegsApart,
         NEW r \in Requests, Receive(r) \/ Serve(r) \/ Fail(r) \/ LoseAnswer(r)
  PROVE  LegsApart'
<1> USE DEF TypeInv, TypeOK, RequestsOK
<1>1. Alone(r)
  BY StepShapes DEF LockFreeStep, ReadAccounts, LockAccount, InsertJournal,
     InsertPosting, WriteStep, Commit, Goto, Alone, local
<1>2. 1 \in Leg /\ 2 \in Leg
  BY DEF Leg
<1>3. \A j \in journal' : j.postings[1].account # j.postings[2].account
  <2>1. CASE Commit(r)
    <3>1. TargetOf(r, 1) # TargetOf(r, 2)
      BY <2>1 DEF LegsApart, Commit, Drafted, InTransaction, Inserted, Writing
    <3>2. JournalRow(r).postings[1].account # JournalRow(r).postings[2].account
      BY <1>2, <3>1, NewPostingFields DEF NewPosting
    <3> QED
      BY <2>1, <3>2 DEF Commit, LegsApart
  <2> QED
    BY <2>1, OnlyCommitWrites DEF LegsApart
<1>4. pc'[r] \in Drafted => TargetOf(r, 1)' # TargetOf(r, 2)'
  <2>1. CASE draft' = draft /\ (pc'[r] \in Drafted => pc[r] \in Drafted)
    BY <2>1 DEF LegsApart, TargetOf, RefOf
  <2>2. ASSUME NEW in \in Inputs, AcceptTransfer(r, in)
        PROVE  TargetOf(r, 1)' # TargetOf(r, 2)'
    <3>1. draft'[r].legs = TransferLegs(in.from, in.to, in.amount)
      BY <2>2 DEF AcceptTransfer
    <3>2. in.from # in.to
      BY <2>2 DEF AcceptTransfer, TransferVerdict
    <3>3. in.from \in Accounts /\ in.to \in Accounts
      BY <2>2 DEF AcceptTransfer, CanonicalIds
    <3>4. RefOf(r, 1)' = in.from /\ RefOf(r, 2)' = in.to
      BY <1>2, <3>1 DEF RefOf, TransferLegs
    <3> QED
      BY <3>2, <3>3, <3>4, RefsAssumption DEF TargetOf
  <2>3. CASE LookupOriginal(r)
    <3>1. PICK j \in journal : draft'[r].legs = NegatedLegs(j)
      BY <2>3 DEF LookupOriginal
    <3>2. j.postings[1].account # j.postings[2].account
      BY DEF LegsApart
    <3>3. j.postings[1].account \in Accounts /\ j.postings[2].account \in Accounts
      BY <1>2 DEF DatabaseOK, PostingOK
    <3>4. RefOf(r, 1)' = j.postings[1].account /\ RefOf(r, 2)' = j.postings[2].account
      BY <1>2, <3>1 DEF RefOf, NegatedLegs
    <3> QED
      BY <3>2, <3>3, <3>4, RefsAssumption DEF TargetOf
  <2> QED
    BY <2>1, <2>2, <2>3, DraftsMade
<1>5. \A q \in Requests \ {r} : pc'[q] = pc[q] /\ draft'[q] = draft[q]
  BY <1>1 DEF Alone
<1> QED
  BY <1>3, <1>4, <1>5 DEF LegsApart, TargetOf, RefOf

\* Then a posting goes on from the row its request has locked, and leaves it at
\* the sum.
LEMMA RunningIsLocked ==
  ASSUME LegsApart, NEW r \in Requests, pc[r] \in Drafted
  PROVE  \A i \in Leg :
           /\ Running(r, i) = locked[r][i]
           /\ BalanceAfter(r, i) = locked[r][i].balance + AmountOf(r, i)
<1>1. RefOf(r, 1) # RefOf(r, 2)
  BY DEF LegsApart, TargetOf
<1>2. \A i \in Leg : Running(r, i) = locked[r][i]
  BY <1>1 DEF Running
<1> QED
  BY <1>2 DEF BalanceAfter, PostedTo

\* Whoever goes on to lock has compared the currencies.
LEMMA StepKeepsCurrency ==
  ASSUME TypeInv, LocksInv, CurrencyMatches, NEW r \in Requests,
         Receive(r) \/ Serve(r) \/ Fail(r) \/ LoseAnswer(r)
  PROVE  CurrencyMatches'
<1> USE DEF TypeInv, TypeOK, RequestsOK
<1>1. CASE LockFreeStep(r)
  BY <1>1 DEF LockFreeStep, Alone, CurrencyMatches, TargetOf, RefOf
<1>2. ASSUME draft' = draft, \A q \in Requests : pc'[q] \in Locking => pc[q] \in Locking
      PROVE  CurrencyMatches'
  BY <1>2 DEF CurrencyMatches, TargetOf, RefOf
<1>3. CASE ReadAccounts(r)
  <2>1. \A i \in Leg : CurrencyOf[TargetOf(r, i)] = draft[r].currency
    BY <1>3 DEF ReadAccounts, AccountsVerdict, AccountProblem, Leg
  <2> QED
    BY <1>3, <2>1 DEF ReadAccounts, Goto, CurrencyMatches, TargetOf, RefOf
<1>4. CASE \E i \in Leg : LockAccount(r, i)
  BY <1>2, <1>4 DEF LockAccount, Goto, Locking, Inserted, Writing
<1>5. CASE InsertJournal(r)
  BY <1>2, <1>5 DEF InsertJournal, Goto, Locking, Inserted, Writing
<1>6. CASE \E i \in Leg : InsertPosting(r, i)
  BY <1>2, <1>6 DEF InsertPosting, Goto, Locking, Inserted, Writing
<1>7. CASE WriteStep(r)
  BY <1>2, <1>7 DEF WriteStep, Goto, Locking, Inserted, Writing
<1>8. CASE Commit(r)
  BY <1>2, <1>8 DEF Commit, Goto, Locking, Inserted, Writing
<1> QED
  BY <1>1, <1>3, <1>4, <1>5, <1>6, <1>7, <1>8, StepShapes

LegsInv == LegsApart /\ CurrencyMatches

\* Legs stay apart and in their currency, for clients that spell ids canonically.
LEMMA LegsInvariant == ASSUME CanonicalIds PROVE Spec => []LegsInv
<1>1. Init => LegsInv
  BY DEF Init, LegsInv, LegsApart, CurrencyMatches, Drafted, Locking, InTransaction,
     Inserted, Writing
<1>2. TypeInv /\ LocksInv /\ FundsInv /\ LegsInv /\ [Next]_vars => LegsInv'
  <2> SUFFICES ASSUME TypeInv, LocksInv, FundsInv, LegsInv, [Next]_vars PROVE LegsInv'
    OBVIOUS
  <2>1. CASE UNCHANGED vars \/ \E a \in Accounts : OpenAccount(a)
    <3>1. pc' = pc /\ draft' = draft /\ journal' = journal
      BY <2>1 DEF vars, OpenAccount
    <3> QED
      BY <3>1 DEF LegsInv, LegsApart, CurrencyMatches, TargetOf, RefOf
  <2>2. ASSUME NEW r \in Requests, Receive(r) \/ Serve(r) \/ Fail(r) \/ LoseAnswer(r)
        PROVE  LegsInv'
    BY <2>2, StepKeepsLegsApart, StepKeepsCurrency DEF LegsInv, FundsInv
  <2> QED
    BY <2>1, <2>2 DEF Next, Quiescent
<1> QED
  BY <1>1, <1>2, LockInvariant, FundsInvariant, PTL DEF Spec

-----------------------------------------------------------------------------
(* Waiting                                                                  *)

\* Rows are locked in the order of the spelled ids.
LockedInOrder ==
  \A r \in Requests : pc[r] \in Locking =>
    \A i \in held[r], k \in Leg \ held[r] : RefOf(r, i) <= RefOf(r, k)

\* Every transaction has begun: there are finitely many at a time.
TransactionsFinite == IsFiniteSet({q \in Requests : pc[q] \in InTransaction})

OrderInv == LockedInOrder /\ TransactionsFinite

\* One request moves at a time.
LEMMA OneMoves ==
  ASSUME TypeInv, NEW r \in Requests, \A q \in Requests \ {r} : pc'[q] = pc[q],
         TransactionsFinite
  PROVE  TransactionsFinite'
<1> DEFINE T == {q \in Requests : pc[q] \in InTransaction}
<1>1. IsFiniteSet(T \cup {r})
  BY FS_AddElement DEF TransactionsFinite
<1>2. T' \subseteq T \cup {r}
  OBVIOUS
<1> QED
  BY <1>1, <1>2, FS_Subset DEF TransactionsFinite

\* A request takes the rows of its accounts in ascending order.
LEMMA StepKeepsOrder ==
  ASSUME TypeInv, LocksInv, OrderInv, NEW r \in Requests,
         Receive(r) \/ Serve(r) \/ Fail(r) \/ LoseAnswer(r)
  PROVE  OrderInv'
<1> USE DEF TypeInv, TypeOK, RequestsOK
<1>1. Alone(r)
  BY StepShapes DEF LockFreeStep, ReadAccounts, LockAccount, InsertJournal,
     InsertPosting, WriteStep, Commit, Goto, Alone, local
<1>2. TransactionsFinite'
  BY <1>1, OneMoves DEF Alone, OrderInv
<1>3. LockedInOrder'
  <2>1. CASE LockFreeStep(r)
    BY <2>1 DEF LockFreeStep, Alone, OrderInv, LockedInOrder, RefOf
  <2>2. ASSUME draft' = draft, held' = held, pc[r] \in Locking
        PROVE  LockedInOrder'
    BY <1>1, <2>2 DEF Alone, OrderInv, LockedInOrder, RefOf
  <2>9. ASSUME draft' = draft, held'[r] = {}
        PROVE  LockedInOrder'
    BY <1>1, <2>9 DEF Alone, OrderInv, LockedInOrder, RefOf
  <2>3. CASE ReadAccounts(r)
    <3>1. draft' = draft /\ held' = held /\ pc[r] \notin Locking
      BY <2>3 DEF ReadAccounts, local, Locking, Inserted, Writing
    <3>2. held[r] = {}
      BY <3>1 DEF LocksInv, HeldByStage
    <3> QED
      BY <2>9, <3>1, <3>2
  <2>4. ASSUME NEW i \in Leg, LockAccount(r, i) PROVE LockedInOrder'
    <3>1. /\ pc[r] = "lock" /\ i \notin held[r] /\ held'[r] = held[r] \cup {i}
          /\ draft' = draft
          /\ \A k \in Leg \ held[r] : RefOf(r, i) <= RefOf(r, k)
      BY <2>4 DEF LockAccount, NextToLock
    <3> QED
      BY <1>1, <3>1 DEF Alone, OrderInv, LockedInOrder, RefOf, Locking, Inserted,
         Writing
  <2>5. CASE InsertJournal(r)
    BY <2>2, <2>5 DEF InsertJournal, local, Locking, Inserted, Writing
  <2>6. CASE \E i \in Leg : InsertPosting(r, i)
    BY <2>2, <2>6 DEF InsertPosting, Locking, Inserted, Writing
  <2>7. CASE WriteStep(r)
    BY <2>2, <2>7 DEF WriteStep, local, Locking, Inserted, Writing
  <2>8. CASE Commit(r)
    <3>1. draft' = draft /\ held'[r] = {}
      BY <2>8 DEF Commit
    <3> QED
      BY <2>9, <3>1
  <2> QED
    BY <2>1, <2>3, <2>4, <2>5, <2>6, <2>7, <2>8, StepShapes
<1> QED
  BY <1>2, <1>3 DEF OrderInv

\* Rows are taken in ascending order in every reachable state.
LEMMA OrderInvariant == Spec => []OrderInv
<1>1. Init => OrderInv
  <2> SUFFICES ASSUME Init PROVE OrderInv
    OBVIOUS
  <2>1. {q \in Requests : pc[q] \in InTransaction} = {}
    BY DEF Init, InTransaction, Inserted, Writing
  <2> QED
    BY <2>1, FS_EmptySet DEF Init, OrderInv, LockedInOrder, TransactionsFinite,
       Locking, Inserted, Writing
<1>2. TypeInv /\ LocksInv /\ OrderInv /\ [Next]_vars => OrderInv'
  <2> SUFFICES ASSUME TypeInv, LocksInv, OrderInv, [Next]_vars PROVE OrderInv'
    OBVIOUS
  <2>1. CASE UNCHANGED vars \/ \E a \in Accounts : OpenAccount(a)
    <3>1. pc' = pc /\ draft' = draft /\ held' = held
      BY <2>1 DEF vars, OpenAccount, local
    <3> QED
      BY <3>1 DEF OrderInv, LockedInOrder, TransactionsFinite, RefOf
  <2>2. ASSUME NEW r \in Requests, Receive(r) \/ Serve(r) \/ Fail(r) \/ LoseAnswer(r)
        PROVE  OrderInv'
    BY <2>2, StepKeepsOrder
  <2> QED
    BY <2>1, <2>2 DEF Next, Quiescent
<1> QED
  BY <1>1, <1>2, LockInvariant, PTL DEF Spec

\* Who waits for a row wants a smaller one than the holder of it does.
LEMMA HolderWantsMore ==
  ASSUME TypeInv, RefsCanonical, LegsApart, LockedInOrder,
         NEW r \in Requests, NEW i \in Leg, pc[r] = "lock", NextToLock(r, i),
         NEW q \in Requests, NEW m \in Leg, pc[q] = "lock", NextToLock(q, m),
         TargetOf(r, i) \in LockedAccounts(q)
  PROVE  RefOf(r, i) < RefOf(q, m)
<1>1. PICK k \in held[q] : TargetOf(q, k) = TargetOf(r, i)
  BY DEF LockedAccounts
<1>2. k \in Leg /\ m \in Leg \ held[q]
  BY DEF TypeInv, TypeOK, RequestsOK, NextToLock
<1>3. /\ TargetOf(q, k) = RefOf(q, k) /\ TargetOf(r, i) = RefOf(r, i)
      /\ TargetOf(q, m) = RefOf(q, m)
  BY <1>2, RefsAssumption DEF RefsCanonical, Drafted, InTransaction, Inserted,
     Writing, TargetOf
<1>4. RefOf(q, k) <= RefOf(q, m)
  BY <1>1, <1>2 DEF LockedInOrder, Locking, Inserted, Writing
<1>5. TargetOf(q, k) # TargetOf(q, m)
  <2>1. TargetOf(q, 1) # TargetOf(q, 2)
    BY DEF LegsApart, Drafted, InTransaction, Inserted, Writing
  <2>2. k # m /\ k \in {1, 2} /\ m \in {1, 2}
    BY <1>1, <1>2 DEF Leg
  <2> QED
    BY <2>1, <2>2
<1>6. RefOf(q, k) \in Int /\ RefOf(q, m) \in Int
  <2>1. RefOf(q, k) \in Accounts /\ RefOf(q, m) \in Accounts
    BY <1>2 DEF RefsCanonical, Drafted, InTransaction, Inserted, Writing
  <2> QED
    BY <2>1, RefsAssumption
<1>7. RefOf(q, k) # RefOf(q, m)
  BY <1>3, <1>5
<1>8. RefOf(r, i) = RefOf(q, k)
  BY <1>1, <1>3
<1> HIDE DEF RefOf
<1> QED
  BY <1>4, <1>6, <1>7, <1>8

\* So in every set of requests one waits for none of them.
LEMMA NoCycle ==
  ASSUME TypeInv, LocksInv, RefsCanonical, LegsApart, OrderInv
  PROVE  NoWaitCycle
<1> SUFFICES ASSUME NEW S \in (SUBSET Requests) \ {{}},
                    \A r \in S : \E q \in S : WaitsFor(r, q)
             PROVE  FALSE
  BY DEF NoWaitCycle
<1> DEFINE T == {r \in S : pc[r] = "lock"}
           Wanted == [r \in T |-> RefOf(r, CHOOSE i \in Leg : NextToLock(r, i))]
<1>1. \A r \in S : pc[r] \in {"lock", "claim", "insert"}
  BY DEF WaitsFor
<1>2. \A r \in S : pc[r] # "insert"
  BY <1>1 DEF WaitsFor, Inserted, Writing
<1>3. ASSUME NEW r \in T
      PROVE  \E q \in T : \E i \in Leg : /\ NextToLock(r, i)
                                       /\ TargetOf(r, i) \in LockedAccounts(q)
  <2>1. PICK q \in S : WaitsFor(r, q)
    OBVIOUS
  <2>2. PICK i \in Leg : NextToLock(r, i) /\ TargetOf(r, i) \in LockedAccounts(q)
    BY <2>1 DEF WaitsFor
  <2>3. pc[q] \in Locking
    BY <2>2 DEF LockedAccounts, LocksInv, HeldByStage
  <2>4. q \in T
    BY <1>1, <1>2, <2>3 DEF Locking, Inserted, Writing
  <2> QED
    BY <2>2, <2>4
<1>4. T # {}
  <2>1. PICK r \in S : TRUE
    OBVIOUS
  <2>2. CASE pc[r] = "claim"
    BY <1>1, <1>2, <2>2 DEF WaitsFor, ClaimPending, Inserted, Writing
  <2> QED
    BY <1>1, <1>2, <2>1, <2>2
<1>5. ASSUME NEW r \in T, NEW i \in Leg, NextToLock(r, i)
      PROVE  Wanted[r] = RefOf(r, i) /\ RefOf(r, i) \in Int
  <2> DEFINE k == CHOOSE k \in Leg : NextToLock(r, k)
  <2>1. k \in Leg /\ NextToLock(r, k)
    BY <1>5
  <2> HIDE DEF k
  <2>2. RefOf(r, k) <= RefOf(r, i) /\ RefOf(r, i) <= RefOf(r, k)
    BY <1>5, <2>1 DEF NextToLock
  <2>3. RefOf(r, k) \in Int /\ RefOf(r, i) \in Int
    BY <2>1, RefsAssumption DEF RefsCanonical, Drafted, InTransaction, Inserted, Writing
  <2>4. Wanted[r] = RefOf(r, k)
    BY DEF k
  <2> QED
    BY <2>2, <2>3, <2>4
<1>6. ASSUME NEW r \in T PROVE Wanted[r] \in Int /\ \E q \in T : Wanted[r] < Wanted[q]
  <2>1. PICK q \in T : \E i \in Leg : NextToLock(r, i) /\ TargetOf(r, i) \in LockedAccounts(q)
    BY <1>3
  <2>2. PICK i \in Leg : NextToLock(r, i) /\ TargetOf(r, i) \in LockedAccounts(q)
    BY <2>1
  <2>3. PICK m \in Leg : NextToLock(q, m)
    BY <1>3
  <2>4. RefOf(r, i) < RefOf(q, m)
    BY <2>2, <2>3, HolderWantsMore DEF OrderInv
  <2>5. Wanted[r] = RefOf(r, i) /\ RefOf(r, i) \in Int /\ Wanted[q] = RefOf(q, m)
    BY <1>5, <2>2, <2>3
  <2> HIDE DEF Wanted
  <2> QED
    BY <2>4, <2>5
<1>7. IsFiniteSet(T)
  <2>1. T \subseteq {q \in Requests : pc[q] \in InTransaction}
    BY DEF InTransaction, Inserted, Writing
  <2> QED
    BY <2>1, FS_Subset DEF OrderInv, TransactionsFinite
<1> HIDE DEF T, Wanted
<1>8. PICK r \in T : \A q \in T : Wanted[q] <= Wanted[r]
  BY <1>4, <1>6, <1>7, GreatestMember
<1>9. PICK q \in T : Wanted[r] < Wanted[q]
  BY <1>6
<1> QED
  BY <1>6, <1>8, <1>9

\* Row locks, key claims and the index on reversals together never close a cycle
\* of waiting requests (ADR-006), whenever clients spell ids canonically.
THEOREM NobodyWaitsInCircles == ASSUME CanonicalIds PROVE Spec => []NoWaitCycle
<1>1. TypeInv /\ LocksInv /\ FundsInv /\ LegsInv /\ OrderInv => NoWaitCycle
  BY NoCycle DEF FundsInv, LegsInv
<1> QED
  BY <1>1, LockInvariant, FundsInvariant, LegsInvariant, OrderInvariant, PTL
=============================================================================
