-------------------------- MODULE LedgerKeyProofs ---------------------------
(***************************************************************************)
(* What is recorded once, in Ledger and for every value of its constants:  *)
(* recorded facts never change, a key moves money at most once, every      *)
(* answer to a request is the truth about what was committed, and a        *)
(* transaction is reversed at most once, exactly, and after it was posted. *)
(* What carries the last is the unique index, not the hasReversal check.   *)
(***************************************************************************)
EXTENDS LedgerLockProofs

\* The stages in which a request with a key owns its uncommitted row.
Claiming == {"read", "lock", "insert"} \cup Inserted

Answered == {"respond", "done"}

\* Only a request past its COMMIT has a transaction in the journal.
JournalFromAnswered == \A j \in journal : pc[j.id] \in Answered

\* hasReversal is asked by reversals only, and reversals have no key.
CheckedHasNoKey == \A r \in Requests : pc[r] = "check" => KeyOf(r) = None

\* Whoever is past its claim is alone with it, and the key has no row yet.
ClaimsOwned ==
  \A r \in Requests : pc[r] \in Claiming /\ KeyOf(r) # None =>
    /\ idem[KeyOf(r)] = None
    /\ \A q \in Requests \ {r} : ~ClaimPending(q, KeyOf(r))

ClaimsInv == JournalFromAnswered /\ CheckedHasNoKey /\ ClaimsOwned

-----------------------------------------------------------------------------
(* The shapes of a step                                                     *)

\* A step of r that records nothing.
SilentStep(r) ==
  /\ UNCHANGED <<journal, idem, outbox>>
  /\ pc[r] # "idle" => input'[r] = input[r]
  /\ pc[r] \in Answered => pc'[r] \in Answered
  /\ pc'[r] = "check" => ~IsTransfer(r)
  /\ pc'[r] = "lookup" => input'[r].kind = "reverse"
  /\ pc'[r] \in Claiming =>
       pc[r] \in Claiming \/ ClaimKey(r) \/ KeyOf(r) = None
  /\ pc[r] = "idle" => pc'[r] \notin Claiming \cup {"check"}

\* Every step of r records nothing or is its COMMIT.
LEMMA RecordingSteps ==
  ASSUME TypeInv, CheckedHasNoKey, NEW r \in Requests,
         Receive(r) \/ Serve(r) \/ Fail(r) \/ LoseAnswer(r)
  PROVE  Alone(r) /\ (SilentStep(r) \/ Commit(r))
<1> USE DEF TypeInv, TypeOK, RequestsOK
<1>1. ASSUME NEW code, NEW receipt, Finish(r, code, receipt), pc[r] # "idle"
      PROVE  Alone(r) /\ SilentStep(r)
  BY <1>1 DEF Finish, Goto, Alone, SilentStep, database, Answered, Claiming,
   Inserted, Writing
<1>2. CASE Receive(r)
  BY <1>2 DEF Receive, AcceptTransfer, RejectTransfer, AcceptReversal, Goto, Alone,
   SilentStep, database, local, Answered, Claiming, Inserted, Writing
<1>3. CASE \/ RefuseUnknownTransaction(r) \/ RefuseReversed(r) \/ ReplayResponse(r)
           \/ RefuseKeyConflict(r) \/ RefuseAccounts(r) \/ RefuseFunds(r)
           \/ RefuseDuplicateReversal(r) \/ FailOverflow(r) \/ Fail(r)
  BY <1>3, <1>1 DEF RefuseUnknownTransaction, RefuseReversed, ReplayResponse,
   RefuseKeyConflict, RefuseAccounts, RefuseFunds, RefuseDuplicateReversal,
   FailOverflow, Fail, Refuse, InTransaction, Inserted, Writing
<1>4. CASE LookupOriginal(r) \/ Begin(r)
  BY <1>4 DEF LookupOriginal, Begin, Goto, Alone, SilentStep, database, local,
   Answered, Claiming, Inserted, Writing
<1>5. CASE CheckReversal(r) \/ ClaimKey(r)
  BY <1>5 DEF CheckReversal, ClaimKey, CheckedHasNoKey, Goto, Alone, SilentStep,
   database, local, Answered, Claiming, Inserted, Writing
<1>9. CASE UpdateBalances(r) \/ AppendEvent(r) \/ CompleteKey(r)
  BY <1>9, WritesMove DEF WriteStep, Goto, Alone, SilentStep, database, local,
                          Answered, Claiming, Inserted, Writing
<1>6. CASE ReadAccounts(r) \/ InsertJournal(r) \/ Respond(r) \/ LoseAnswer(r)
  BY <1>6 DEF ReadAccounts, InsertJournal, Respond, LoseAnswer, Goto, Alone,
   SilentStep, database, local, Answered, Claiming, Inserted, Writing
<1>7. CASE \E i \in Leg : LockAccount(r, i) \/ InsertPosting(r, i)
  BY <1>7 DEF LockAccount, InsertPosting, Goto, Alone, SilentStep, database,
   Answered, Claiming, Inserted, Writing
<1>8. CASE Commit(r)
  BY <1>8 DEF Commit, Goto, Alone
<1> QED
  BY <1>2, <1>3, <1>4, <1>5, <1>6, <1>7, <1>8, <1>9 DEF Serve

-----------------------------------------------------------------------------
(* Claims                                                                   *)

\* Keys are keys.
LEMMA KeyTyped ==
  ASSUME TypeInv, NEW r \in Requests
  PROVE  KeyOf(r) \in Keys \cup {None}
<1>1. input[r] # None => input[r] \in TransferInput \cup ReverseInput
  BY InputsAssumption DEF TypeInv, TypeOK, RequestsOK
<1> QED
  BY <1>1 DEF KeyOf, IsTransfer, TransferInput, ReverseInput

\* A step that records nothing leaves the claims in order.
LEMMA SilentStepKeepsClaims ==
  ASSUME TypeInv, ClaimsInv, NEW r \in Requests, Alone(r), SilentStep(r)
  PROVE  ClaimsInv'
<1> USE DEF ClaimsInv, Alone, SilentStep, KeyOf, IsTransfer
<1>1. JournalFromAnswered'
  BY DEF JournalFromAnswered, TypeInv, TypeOK, DatabaseOK
<1>2. CheckedHasNoKey'
  BY DEF CheckedHasNoKey
<1>3. ASSUME NEW q \in Requests, pc'[q] \in Claiming, pc[q] # "idle"
      PROVE  KeyOf(q)' = KeyOf(q)
  BY <1>3
<1>4. \A q \in Requests : pc'[q] \in Claiming => pc[q] # "idle"
  BY DEF Claiming, Inserted, Writing
<1>5. ClaimsOwned'
  <2> SUFFICES ASSUME NEW q \in Requests, pc'[q] \in Claiming, KeyOf(q) # None
               PROVE  /\ idem[KeyOf(q)] = None
                      /\ \A p \in Requests \ {q} :
                           ~(KeyOf(p) = KeyOf(q) /\ pc'[p] \in Claiming)
    BY <1>3, <1>4 DEF ClaimsOwned, ClaimPending, Claiming, Inserted, Writing
  <2>1. ASSUME NEW p \in Requests, pc'[p] \in Claiming, KeyOf(p) # None
        PROVE  pc[p] \in Claiming \/ (p = r /\ ClaimKey(r))
    BY <2>1
  <2>2. CASE pc[q] \in Claiming
    BY <2>1, <2>2 DEF ClaimsOwned, ClaimPending, Claiming, ClaimKey, KeyUndecided,
   Inserted, Writing
  <2>3. CASE q = r /\ ClaimKey(r)
    BY <2>1, <2>3 DEF ClaimPending, Claiming, ClaimKey, KeyUndecided, Inserted, Writing
  <2> QED
    BY <2>1, <2>2, <2>3
<1> QED
  BY <1>1, <1>2, <1>5

\* COMMIT records one key, and nobody else was waiting behind its claim.
LEMMA CommitKeepsClaims ==
  ASSUME TypeInv, ClaimsInv, NEW r \in Requests, Commit(r)
  PROVE  ClaimsInv'
<1> USE DEF Commit, Goto, ClaimsInv, TypeInv, TypeOK, RequestsOK
<1>1. \A q \in Requests : KeyOf(q)' = KeyOf(q)
  BY DEF KeyOf, IsTransfer
<1>2. JournalFromAnswered'
  BY DEF JournalFromAnswered, JournalRow, Answered, DatabaseOK
<1>3. CheckedHasNoKey'
  BY <1>1 DEF CheckedHasNoKey
<1>4. ClaimsOwned'
  <2> SUFFICES ASSUME NEW q \in Requests \ {r}, pc[q] \in Claiming, KeyOf(q) # None
               PROVE  /\ idem'[KeyOf(q)] = None
                      /\ \A p \in Requests \ {q} :
                           ~(KeyOf(p) = KeyOf(q) /\ pc'[p] \in Claiming)
    BY <1>1 DEF ClaimsOwned, ClaimPending, Claiming, Inserted, Writing
  <2>1. KeyOf(r) # KeyOf(q)
    BY DEF ClaimsOwned, ClaimPending, Claiming, Inserted, Writing
  <2>2. KeyOf(q) \in Keys
    BY KeyTyped
  <2> QED
    BY <2>1, <2>2 DEF ClaimsOwned, ClaimPending, Claiming, Inserted, Writing
<1> QED
  BY <1>2, <1>3, <1>4

\* Claims stay in order.
LEMMA NextKeepsClaims == TypeInv /\ ClaimsInv /\ [Next]_vars => ClaimsInv'
<1> SUFFICES ASSUME TypeInv, ClaimsInv, [Next]_vars PROVE ClaimsInv'
  OBVIOUS
<1>1. CASE UNCHANGED vars \/ \E a \in Accounts : OpenAccount(a)
  BY <1>1 DEF vars, OpenAccount, ClaimsInv, JournalFromAnswered, CheckedHasNoKey,
              ClaimsOwned, ClaimPending, KeyOf, IsTransfer
<1>2. ASSUME NEW r \in Requests, Receive(r) \/ Serve(r) \/ Fail(r) \/ LoseAnswer(r)
      PROVE  ClaimsInv'
  BY <1>2, RecordingSteps, SilentStepKeepsClaims, CommitKeepsClaims DEF ClaimsInv
<1> QED
  BY <1>1, <1>2 DEF Next, Quiescent

\* Claims are in order throughout.
LEMMA ClaimsInvariant == Spec => [](TypeInv /\ ClaimsInv)
<1>1. Init => ClaimsInv
  BY DEF Init, ClaimsInv, JournalFromAnswered, CheckedHasNoKey, ClaimsOwned,
   Claiming, Inserted, Writing
<1> QED
  BY <1>1, NextKeepsClaims, TypeInvariant, PTL DEF Spec

-----------------------------------------------------------------------------
(* Recorded facts                                                           *)

\* Transactions, postings and events are only added, and a committed key row
\* never changes (ADR-005, ADR-007): COMMIT adds to the sets, and writes a key
\* row only if it owns the claim.
THEOREM FactsStay == Spec => HistoryAppendOnly
<1> DEFINE Kept == /\ journal \subseteq journal'
                   /\ outbox \subseteq outbox'
                   /\ \A k \in Keys : idem[k] # None => idem'[k] = idem[k]
<1>1. TypeInv /\ ClaimsInv /\ [Next]_vars => Kept
  <2> SUFFICES ASSUME TypeInv, ClaimsInv, [Next]_vars PROVE Kept
    OBVIOUS
  <2>1. CASE UNCHANGED vars \/ \E a \in Accounts : OpenAccount(a)
    BY <2>1 DEF vars, OpenAccount
  <2>2. ASSUME NEW r \in Requests, Receive(r) \/ Serve(r) \/ Fail(r) \/ LoseAnswer(r)
        PROVE  Kept
    <3>1. CASE SilentStep(r)
      BY <3>1 DEF SilentStep
    <3>2. CASE Commit(r)
      <4>1. \A k \in Keys : k = KeyOf(r) => idem[k] = None
        BY <3>2, NoneAssumption DEF Commit, ClaimsInv, ClaimsOwned, Claiming, Inserted,
   Writing
      <4> QED
        BY <3>2, <4>1 DEF Commit
    <3> QED
      BY <2>2, <3>1, <3>2, RecordingSteps DEF ClaimsInv
  <2> QED
    BY <2>1, <2>2 DEF Next, Quiescent
<1> QED
  BY <1>1, ClaimsInvariant, PTL DEF Spec, HistoryAppendOnly

-----------------------------------------------------------------------------
(* One key, one transfer                                                    *)

\* What the caller is told is what the tables hold, for canonical ids.
LEMMA ReceiptStored ==
  ASSUME RefsCanonical, NEW r \in Requests, pc[r] = "commit"
  PROVE  ReceiptOf(JournalRow(r)) = Receipt(r)
<1>1. \A i \in Leg : TargetOf(r, i) = RefOf(r, i)
  BY RefsAssumption DEF RefsCanonical, Drafted, InTransaction, TargetOf, Inserted,
   Writing
<1> QED
  BY <1>1 DEF ReceiptOf, JournalRow, Receipt

\* A completed row is a row.
LEMMA CompletedKeyTyped ==
  ASSUME TypeInv, NEW r \in Requests, pc[r] = "commit", KeyOf(r) # None
  PROVE  CompletedKey(r) \in KeyRow
<1> USE DEF TypeInv, TypeOK, RequestsOK
<1>1. DraftOK(draft[r])
  BY DEF StageOK, Drafted, InTransaction, Inserted, Writing
<1>2. input[r] \in TransferInput
  BY InputsAssumption DEF KeyOf, IsTransfer, TransferInput, ReverseInput
<1>3. Fingerprint(input[r]) \in Owners \X Refs \X Refs \X Nat \X STRING
  BY <1>2 DEF Fingerprint, TransferInput
<1>4. \A i \in Leg :
        /\ RefOf(r, i) \in Refs
        /\ AmountOf(r, i) \in Int
        /\ BalanceAfter(r, i) \in Int
  <2>1. \A i \in Leg : RefOf(r, i) \in Refs /\ AmountOf(r, i) \in Int
    BY <1>1 DEF DraftOK, RefOf, AmountOf
  <2>2. \A i \in Leg : locked[r][i].balance \in Int
    BY DEF BalanceInRange
  <2> QED
    BY <2>1, <2>2 DEF BalanceAfter, PostedTo, Running, Leg
<1>5. Receipt(r) \in ReceiptRow
  BY <1>1, <1>4 DEF Receipt, ReceiptRow, DraftOK
<1> QED
  BY <1>3, <1>5 DEF CompletedKey, KeyRow

\* The row of key k is that of the transfer j.
Records(k, j) ==
  idem[k] = [fingerprint |-> Fingerprint(input[j.id]), transactionId |-> j.id,
             response |-> ReceiptOf(j)]

\* A key with a transfer in the journal has its row, which is not NULL.
KeysRecorded ==
  /\ KeyExactlyOnce
  /\ \A j \in journal : KeyOf(j.id) # None => idem[KeyOf(j.id)] # None

\* COMMIT brings the only transfer under its key, and its row.
LEMMA CommitKeepsKeys ==
  ASSUME TypeInv, ClaimsInv, RefsCanonical, KeysRecorded,
         NEW r \in Requests, Commit(r)
  PROVE  KeysRecorded'
<1> USE DEF Commit
<1>1. \A q \in Requests : KeyOf(q)' = KeyOf(q)
  BY DEF KeyOf, IsTransfer
<1> PICK row : row = JournalRow(r)
  OBVIOUS
<1>2. /\ row.id = r
      /\ \A j \in journal : j.id \in Requests
      /\ journal' = journal \cup {row}
  BY DEF JournalRow, TypeInv, TypeOK, DatabaseOK
<1>3. KeyOf(r) # None => KeyOf(r) \in Keys /\ idem[KeyOf(r)] = None
  BY KeyTyped DEF ClaimsInv, ClaimsOwned, Claiming, Inserted, Writing
<1>4. KeyOf(r) # None => \A j \in journal : KeyOf(j.id) # KeyOf(r)
  BY <1>3 DEF KeysRecorded
<1>5. KeyOf(r) # None => idem'[KeyOf(r)] # None
  BY <1>3, CompletedKeyTyped, NoneAssumption
<1>6. \A j \in journal' : KeyOf(j.id) # None => idem'[KeyOf(j.id)] # None
  <2> SUFFICES ASSUME NEW j \in journal, KeyOf(j.id) # None
               PROVE  idem'[KeyOf(j.id)] # None
    BY <1>2, <1>5
  <2>1. KeyOf(j.id) \in Keys
    BY <1>2, KeyTyped
  <2> QED
    BY <2>1, <1>4 DEF KeysRecorded
<1>7. \A j1, j2 \in journal' :
        KeyOf(j1.id) # None /\ KeyOf(j1.id) = KeyOf(j2.id) => j1 = j2
  BY <1>2, <1>4 DEF KeysRecorded, KeyExactlyOnce
<1>8. ASSUME NEW k \in Keys
      PROVE  IF \E j \in journal' : KeyOf(j.id) = k
             THEN \E j \in journal' : KeyOf(j.id) = k /\ Records(k, j)'
             ELSE idem'[k] = None
  <2>1. CASE k = KeyOf(r)
    <3>1. idem'[k] = CompletedKey(r) /\ ReceiptOf(row) = Receipt(r)
      BY <2>1, ReceiptStored
    <3>2. Records(k, row)'
      BY <3>1, <1>2 DEF Records, CompletedKey
    <3> QED
      BY <2>1, <3>2, <1>2
  <2>2. CASE k # KeyOf(r)
    <3>1. idem'[k] = idem[k] /\ \A j \in journal : Records(k, j) => Records(k, j)'
      BY <2>2 DEF Records, Fingerprint
    <3>2. (\E j \in journal' : KeyOf(j.id) = k) <=> \E j \in journal : KeyOf(j.id) = k
      BY <2>2, <1>2
    <3>3. IF \E j \in journal : KeyOf(j.id) = k
          THEN \E j \in journal : KeyOf(j.id) = k /\ Records(k, j)
          ELSE idem[k] = None
      BY DEF KeysRecorded, KeyExactlyOnce, Records
    <3> QED
      BY <3>1, <3>2, <3>3, <1>2
  <2> QED
    BY <2>1, <2>2
<1>9. KeyExactlyOnce'
  <2>1. \A j \in journal' : j.id \in Requests
    BY <1>2
  <2>2. \A j \in journal' : KeyOf(j.id)' = KeyOf(j.id)
    BY <1>1, <2>1
  <2>3. \A k \in Keys :
          IF \E j \in journal' : KeyOf(j.id)' = k
          THEN \E j \in journal' : KeyOf(j.id)' = k /\ Records(k, j)'
          ELSE idem'[k] = None
    BY <1>8, <2>2
  <2>4. \A j1, j2 \in journal' :
          KeyOf(j1.id)' # None /\ KeyOf(j1.id)' = KeyOf(j2.id)' => j1 = j2
    BY <1>7, <2>2
  <2> QED
    BY <2>3, <2>4 DEF KeyExactlyOnce, Records
<1> QED
  BY <1>1, <1>2, <1>6, <1>9 DEF KeysRecorded

\* A step that records nothing leaves rows and transactions as they are, and
\* the bodies of the requests behind them.
LEMMA SilenceKeepsKeys ==
  ASSUME KeysRecorded, UNCHANGED <<journal, idem>>,
         \A j \in journal : input'[j.id] = input[j.id]
  PROVE  KeysRecorded'
<1>1. journal' = journal /\ idem' = idem /\ \A j \in journal : input'[j.id] = input[j.id]
  OBVIOUS
<1>2. \A j \in journal : KeyOf(j.id)' = KeyOf(j.id)
  BY <1>1 DEF KeyOf, IsTransfer
<1>3. \A k \in Keys : \A j \in journal : Records(k, j) => Records(k, j)'
  BY <1>1 DEF Records, Fingerprint
<1>4. \A k \in Keys :
        IF \E j \in journal' : KeyOf(j.id)' = k
        THEN \E j \in journal' : KeyOf(j.id)' = k /\ Records(k, j)'
        ELSE idem'[k] = None
  <2>1. \A k \in Keys :
          IF \E j \in journal : KeyOf(j.id) = k
          THEN \E j \in journal : KeyOf(j.id) = k /\ Records(k, j)
          ELSE idem[k] = None
    BY DEF KeysRecorded, KeyExactlyOnce, Records
  <2> QED
    BY <1>1, <1>2, <1>3, <2>1
<1>5. KeyExactlyOnce'
  <2>1. \A j1, j2 \in journal' :
          KeyOf(j1.id)' # None /\ KeyOf(j1.id)' = KeyOf(j2.id)' => j1 = j2
    BY <1>1, <1>2 DEF KeysRecorded, KeyExactlyOnce
  <2> QED
    BY <1>4, <2>1 DEF KeyExactlyOnce, Records
<1> QED
  BY <1>1, <1>2, <1>5 DEF KeysRecorded

\* The rows of the keys and the transfers under them agree throughout.
LEMMA KeysInvariant == ASSUME CanonicalIds PROVE Spec => []KeysRecorded
<1>1. Init => KeysRecorded
  BY DEF Init, KeysRecorded, KeyExactlyOnce
<1>2. TypeInv /\ ClaimsInv /\ FundsInv /\ KeysRecorded /\ [Next]_vars => KeysRecorded'
  <2> SUFFICES ASSUME TypeInv, ClaimsInv, FundsInv, KeysRecorded, [Next]_vars
               PROVE  KeysRecorded'
    OBVIOUS
  <2>1. CASE UNCHANGED vars \/ \E a \in Accounts : OpenAccount(a)
    BY <2>1, SilenceKeepsKeys DEF vars, OpenAccount
  <2>2. ASSUME NEW r \in Requests, Receive(r) \/ Serve(r) \/ Fail(r) \/ LoseAnswer(r)
        PROVE  KeysRecorded'
    <3>1. CASE Alone(r) /\ SilentStep(r)
      <4>1. \A j \in journal : input'[j.id] = input[j.id]
        BY <3>1 DEF Alone, SilentStep, ClaimsInv, JournalFromAnswered, Answered,
                    TypeInv, TypeOK, DatabaseOK
      <4> QED
        BY <3>1, <4>1, SilenceKeepsKeys DEF SilentStep
    <3> QED
      BY <2>2, <3>1, RecordingSteps, CommitKeepsKeys DEF ClaimsInv, FundsInv
  <2> QED
    BY <2>1, <2>2 DEF Next, Quiescent
<1> QED
  BY <1>1, <1>2, ClaimsInvariant, FundsInvariant, PTL DEF Spec

\* An idempotency key moves money at most once, and its row is the truth about
\* the transfer that did (ADR-007), whenever clients spell ids canonically.
THEOREM OneTransferPerKey == ASSUME CanonicalIds PROVE Spec => []KeyExactlyOnce
<1>1. KeysRecorded => KeyExactlyOnce
  BY DEF KeysRecorded
<1> QED
  BY <1>1, KeysInvariant, PTL

-----------------------------------------------------------------------------
(* Events                                                                   *)

\* Transfers compensate nothing, reversals something.
DraftsKnowKind ==
  \A r \in Requests :
    /\ pc[r] = "lookup" => ~IsTransfer(r)
    /\ pc[r] \in Drafted => (IsTransfer(r) <=> draft[r].reverses = None)

EventsInv == DraftsKnowKind /\ OutboxExact

\* Drafts and events are of one kind throughout.
LEMMA EventsInvariant == ASSUME CanonicalIds PROVE Spec => []EventsInv
<1> USE DEF EventsInv
<1>1. Init => EventsInv
  BY DEF Init, DraftsKnowKind, OutboxExact, Drafted, InTransaction, Inserted, Writing
<1>2. TypeInv /\ ClaimsInv /\ FundsInv /\ EventsInv /\ [Next]_vars => EventsInv'
  <2> SUFFICES ASSUME TypeInv, ClaimsInv, FundsInv, EventsInv, [Next]_vars
               PROVE  EventsInv'
    OBVIOUS
  <2>1. CASE UNCHANGED vars \/ \E a \in Accounts : OpenAccount(a)
    BY <2>1 DEF vars, OpenAccount, DraftsKnowKind, OutboxExact, IsTransfer, ReceiptOf
  <2>2. ASSUME NEW r \in Requests, Receive(r) \/ Serve(r) \/ Fail(r) \/ LoseAnswer(r)
        PROVE  EventsInv'
    <3>1. Alone(r) /\ (SilentStep(r) \/ Commit(r))
      BY <2>2, RecordingSteps DEF ClaimsInv
    <3>2. DraftsKnowKind'
      <4>0. \A q \in Requests \ {r} : /\ pc'[q] = pc[q] /\ input'[q] = input[q]
                                       /\ draft'[q] = draft[q]
        BY <3>1 DEF Alone
      <4> SUFFICES /\ pc'[r] = "lookup" => ~IsTransfer(r)'
                   /\ pc'[r] \in Drafted => (IsTransfer(r)' <=> draft'[r].reverses = None)
        BY <4>0 DEF DraftsKnowKind, IsTransfer
      <4>1. CASE draft' = draft /\ (pc'[r] \in Drafted => pc[r] \in Drafted)
        <5>1. pc'[r] = "lookup" => ~IsTransfer(r)'
          BY <3>1 DEF SilentStep, IsTransfer, Commit, Goto, TypeInv, TypeOK, RequestsOK
        <5>2. pc[r] \in Drafted => input'[r] = input[r]
          BY <3>1 DEF SilentStep, Commit, Drafted, InTransaction, Inserted, Writing
        <5> QED
          BY <4>1, <5>1, <5>2 DEF DraftsKnowKind, IsTransfer
      <4>2. ASSUME NEW in \in Inputs, AcceptTransfer(r, in)
            PROVE  /\ pc'[r] = "begin" /\ IsTransfer(r)' /\ draft'[r].reverses = None
        <5>1. in # None
          BY NoneAssumption
        <5> QED
          BY <4>2, <5>1 DEF AcceptTransfer, Goto, IsTransfer, TypeInv, TypeOK,
             RequestsOK
      <4>3. CASE LookupOriginal(r)
        <5>1. PICK j \in journal : draft'[r].reverses = j.id
          BY <4>3 DEF LookupOriginal, TypeInv, TypeOK, RequestsOK
        <5>2. draft'[r].reverses # None
          BY <5>1, NoneAssumption DEF TypeInv, TypeOK, DatabaseOK
        <5>3. ~IsTransfer(r)' /\ pc'[r] # "lookup"
          BY <4>3 DEF LookupOriginal, DraftsKnowKind, IsTransfer, Goto, TypeInv,
                      TypeOK, RequestsOK
        <5> QED
          BY <5>2, <5>3
      <4> QED
        BY <2>2, <4>1, <4>2, <4>3, DraftsMade
    <3>3. OutboxExact'
      <4>1. CASE SilentStep(r)
        BY <4>1 DEF SilentStep, OutboxExact, ReceiptOf
      <4>2. CASE Commit(r)
        <5> PICK row : row = JournalRow(r)
          OBVIOUS
        <5>1. /\ ReceiptOf(row) = Receipt(r)
              /\ row.reverses = None <=> IsTransfer(r)
          BY <4>2, ReceiptStored DEF Commit, FundsInv, JournalRow, DraftsKnowKind,
             Drafted, InTransaction, Inserted, Writing
        <5>2. Event(r) = [type |-> IF row.reverses = None THEN "transfer.posted"
                                   ELSE "transfer.reversed",
                          payload |-> ReceiptOf(row)]
          BY <5>1 DEF Event
        <5>3. journal' = journal \cup {row} /\ outbox' = outbox \cup {Event(r)}
          BY <4>2 DEF Commit
        <5> QED
          BY <5>2, <5>3, SMTT(30) DEF OutboxExact, ReceiptOf
      <4> QED
        BY <3>1, <4>1, <4>2
    <3> QED
      BY <3>2, <3>3
  <2> QED
    BY <2>1, <2>2 DEF Next, Quiescent
<1> QED
  BY <1>1, <1>2, ClaimsInvariant, FundsInvariant, PTL DEF Spec

\* No event without its transaction and no transaction without its event, and
\* the event carries the receipt (ADR-010), for canonical ids.
THEOREM OneEventPerTransaction == ASSUME CanonicalIds PROVE Spec => []OutboxExact
<1>1. EventsInv => OutboxExact
  BY DEF EventsInv
<1> QED
  BY <1>1, EventsInvariant, PTL

-----------------------------------------------------------------------------
(* Answers                                                                  *)

\* A request that inserts its key has one.
ClaimsHaveKeys == \A r \in Requests : pc[r] = "claim" => KeyOf(r) # None

\* What r is told is what happened.
AnswerTrue(r) ==
  /\ answer[r].code = "ok" =>
       \E j \in journal :
         /\ answer[r].receipt = ReceiptOf(j)
         /\ \/ j.id = r
            \/ /\ KeyOf(r) # None
               /\ KeyOf(j.id) = KeyOf(r)
               /\ Fingerprint(input[j.id]) = Fingerprint(input[r])
  /\ answer[r].code \notin {"ok", "error"} => \A j \in journal : j.id # r

AnswersInv == ClaimsHaveKeys /\ \A r \in Requests : pc[r] \in Answered => AnswerTrue(r)

\* A step that gives no answer.
Unanswered(r) ==
  /\ pc'[r] \notin Answered
  /\ pc'[r] = "claim" => input'[r] = input[r] /\ KeyOf(r) # None

\* A step that refuses: whoever is refused is not in the journal.
Refused(r) ==
  /\ pc[r] \notin Answered
  /\ pc'[r] = "done"
  /\ answer'[r].code # "ok"

\* Every step of r gives no answer, or refuses, or replays, commits, delivers or
\* loses one.
LEMMA AnsweringSteps ==
  ASSUME TypeInv, NEW r \in Requests,
         Receive(r) \/ Serve(r) \/ Fail(r) \/ LoseAnswer(r)
  PROVE  /\ \A q \in Requests \ {r} : answer'[q] = answer[q]
         /\ \/ Unanswered(r) \/ Refused(r)
            \/ ReplayResponse(r) \/ Commit(r) \/ Respond(r) \/ LoseAnswer(r)
<1> USE DEF TypeInv, TypeOK, RequestsOK
<1> DEFINE Shapes ==
      /\ \A q \in Requests \ {r} : answer'[q] = answer[q]
      /\ \/ Unanswered(r) \/ Refused(r)
         \/ ReplayResponse(r) \/ Commit(r) \/ Respond(r) \/ LoseAnswer(r)
<1>1. ASSUME NEW code, NEW receipt, Finish(r, code, receipt)
      PROVE  /\ \A q \in Requests \ {r} : answer'[q] = answer[q]
             /\ pc'[r] = "done" /\ answer'[r].code = code
  BY <1>1 DEF Finish, Goto
<1>2. ASSUME NEW code, Refuse(r, code), code # "ok", pc[r] \notin Answered
      PROVE  Shapes
  BY <1>1, <1>2 DEF Refuse, Refused
<1>3. CASE Receive(r)
  <2>1. PICK in \in Inputs :
          AcceptTransfer(r, in) \/ RejectTransfer(r, in) \/ AcceptReversal(r, in)
    BY <1>3 DEF Receive
  <2>2. CASE AcceptTransfer(r, in) \/ AcceptReversal(r, in)
    BY <2>2 DEF AcceptTransfer, AcceptReversal, Goto, Unanswered, Answered
  <2>3. CASE RejectTransfer(r, in)
    BY <2>3 DEF RejectTransfer, Goto, Refused, Answered
  <2> QED
    BY <2>1, <2>2, <2>3
<1>4. CASE \/ RefuseUnknownTransaction(r) \/ RefuseReversed(r) \/ RefuseKeyConflict(r)
           \/ RefuseFunds(r) \/ RefuseDuplicateReversal(r) \/ FailOverflow(r) \/ Fail(r)
  BY <1>2, <1>4 DEF RefuseUnknownTransaction, RefuseReversed, RefuseKeyConflict,
   RefuseFunds, RefuseDuplicateReversal, FailOverflow, Fail, Answered,
   InTransaction, Inserted, Writing
<1>5. CASE RefuseAccounts(r)
  BY <1>2, <1>5 DEF RefuseAccounts, Answered
<1>6. CASE ReplayResponse(r)
  BY <1>1, <1>6 DEF ReplayResponse
<1>7. CASE \/ LookupOriginal(r) \/ CheckReversal(r) \/ ClaimKey(r)
           \/ ReadAccounts(r) \/ InsertJournal(r) \/ UpdateBalances(r)
           \/ AppendEvent(r) \/ CompleteKey(r)
  BY <1>7 DEF LookupOriginal, CheckReversal, ClaimKey, ReadAccounts, InsertJournal,
     UpdateBalances, AppendEvent, CompleteKey, Goto, Unanswered, Answered
<1>8. CASE Begin(r)
  BY <1>8 DEF Begin, Goto, Unanswered, Answered
<1>9. CASE \E i \in Leg : LockAccount(r, i) \/ InsertPosting(r, i)
  BY <1>9 DEF LockAccount, InsertPosting, Goto, Unanswered, Answered
<1>10. CASE Commit(r) \/ Respond(r) \/ LoseAnswer(r)
  BY <1>10 DEF Commit, Respond, LoseAnswer
<1> QED
  BY <1>3, <1>4, <1>5, <1>6, <1>7, <1>8, <1>9, <1>10 DEF Serve

\* A true answer stays true.
LEMMA AnswersStayTrue ==
  ASSUME TypeInv, ClaimsInv, NEW r \in Requests, Alone(r), SilentStep(r) \/ Commit(r),
         NEW q \in Requests, pc[q] \in Answered, answer'[q] = answer[q], AnswerTrue(q)
  PROVE  AnswerTrue(q)'
<1>1. \A j \in journal : j.id \in Requests /\ pc[j.id] \in Answered
  BY DEF TypeInv, TypeOK, DatabaseOK, ClaimsInv, JournalFromAnswered
<1>2. \A p \in Requests : pc[p] \in Answered => input'[p] = input[p]
  BY DEF Alone, SilentStep, Commit, Answered
<1>3. \A p \in Requests : pc[p] \in Answered => KeyOf(p)' = KeyOf(p)
  BY <1>2 DEF KeyOf, IsTransfer
<1>4. \A j \in journal' : j \in journal \/ (j.id = r /\ r # q)
  BY DEF SilentStep, Commit, JournalRow, Answered
<1>5. journal \subseteq journal'
  BY DEF SilentStep, Commit
<1>6. \A j \in journal : /\ KeyOf(j.id)' = KeyOf(j.id) /\ input'[j.id] = input[j.id]
                        /\ ReceiptOf(j)' = ReceiptOf(j)
  BY <1>1, <1>2, <1>3 DEF ReceiptOf
<1>7. KeyOf(q)' = KeyOf(q) /\ input'[q] = input[q]
  BY <1>2, <1>3
<1>8. answer'[q].code = "ok" =>
        \E j \in journal' :
          /\ answer'[q].receipt = ReceiptOf(j)'
          /\ \/ j.id = q
             \/ /\ KeyOf(q)' # None
                /\ KeyOf(j.id)' = KeyOf(q)'
                /\ Fingerprint(input'[j.id]) = Fingerprint(input'[q])
  BY <1>5, <1>6, <1>7 DEF AnswerTrue
<1>9. answer'[q].code \notin {"ok", "error"} => \A j \in journal' : j.id # q
  BY <1>4 DEF AnswerTrue
<1> QED
  BY <1>8, <1>9 DEF AnswerTrue, ReceiptOf

\* Answers are true when they are given, and stay so.
LEMMA StepKeepsAnswers ==
  ASSUME TypeInv, ClaimsInv, RefsCanonical, KeysRecorded, AnswersInv,
         NEW r \in Requests, Receive(r) \/ Serve(r) \/ Fail(r) \/ LoseAnswer(r)
  PROVE  AnswersInv'
<1> USE DEF TypeInv, TypeOK, RequestsOK
<1>1. Alone(r) /\ (SilentStep(r) \/ Commit(r))
  BY RecordingSteps DEF ClaimsInv
<1>2. /\ \A q \in Requests \ {r} : answer'[q] = answer[q]
      /\ \/ Unanswered(r) \/ Refused(r)
         \/ ReplayResponse(r) \/ Commit(r) \/ Respond(r) \/ LoseAnswer(r)
  BY AnsweringSteps
<1>3. \A q \in Requests \ {r} : pc'[q] = pc[q] /\ input'[q] = input[q]
  BY <1>1 DEF Alone
<1>4. \A q \in Requests \ {r} : pc'[q] \in Answered => AnswerTrue(q)'
  BY <1>1, <1>2, <1>3, AnswersStayTrue DEF AnswersInv
<1>5. ClaimsHaveKeys'
  <2>1. pc'[r] = "claim" => KeyOf(r)' # None
    BY <1>2 DEF Unanswered, Refused, ReplayResponse, Finish, Commit, Respond,
       LoseAnswer, Goto, KeyOf, IsTransfer
  <2> QED
    BY <1>3, <2>1 DEF AnswersInv, ClaimsHaveKeys, KeyOf, IsTransfer
<1>6. pc[r] \notin Answered => \A j \in journal : j.id # r
  BY DEF ClaimsInv, JournalFromAnswered
<1>7. pc'[r] \in Answered => AnswerTrue(r)'
  <2>1. CASE Unanswered(r)
    BY <2>1 DEF Unanswered
  <2>2. CASE Refused(r)
    <3>1. SilentStep(r)
      BY <1>1, <2>2 DEF Refused, Commit, Goto
    <3> QED
      BY <1>6, <2>2, <3>1 DEF Refused, SilentStep, AnswerTrue
  <2>3. CASE ReplayResponse(r)
    <3>1. /\ journal' = journal /\ input' = input
          /\ answer'[r] = [code |-> "ok", receipt |-> idem[KeyOf(r)].response]
      BY <2>3 DEF ReplayResponse, Finish, database
    <3>2. KeyOf(r) \in Keys /\ KeyOf(r) # None
      BY <2>3, KeyTyped DEF ReplayResponse, AnswersInv, ClaimsHaveKeys
    <3>3. PICK j \in journal :
            /\ KeyOf(j.id) = KeyOf(r)
            /\ idem[KeyOf(r)] = [fingerprint |-> Fingerprint(input[j.id]),
                                 transactionId |-> j.id, response |-> ReceiptOf(j)]
      BY <2>3, <3>2 DEF ReplayResponse, KeysRecorded, KeyExactlyOnce
    <3>4. Fingerprint(input[j.id]) = Fingerprint(input[r])
      BY <2>3, <3>3 DEF ReplayResponse, KeyMatches
    <3>5. \A q \in Requests : KeyOf(q)' = KeyOf(q)
      BY <3>1 DEF KeyOf, IsTransfer
    <3>6. j \in journal' /\ j.id \in Requests /\ ReceiptOf(j)' = ReceiptOf(j)
      BY <3>1 DEF DatabaseOK, ReceiptOf
    <3>7. /\ answer'[r].code = "ok" /\ answer'[r].receipt = ReceiptOf(j)'
          /\ KeyOf(r)' # None /\ KeyOf(j.id)' = KeyOf(r)'
          /\ Fingerprint(input'[j.id]) = Fingerprint(input'[r])
      BY <3>1, <3>2, <3>3, <3>4, <3>5, <3>6
    <3> QED
      BY <3>6, <3>7 DEF AnswerTrue, ReceiptOf
  <2>4. CASE Commit(r)
    <3>1. ReceiptOf(JournalRow(r)) = Receipt(r) /\ JournalRow(r).id = r
      BY <2>4, ReceiptStored DEF Commit, JournalRow
    <3> PICK row : row = JournalRow(r)
      OBVIOUS
    <3>2. /\ row \in journal' /\ row.id = r
          /\ answer'[r] = [code |-> "ok", receipt |-> ReceiptOf(row)]
      BY <2>4, <3>1 DEF Commit
    <3>3. answer'[r].code = "ok" /\ answer'[r].receipt = ReceiptOf(row)
      BY <3>2
    <3> QED
      BY <3>2, <3>3 DEF AnswerTrue, ReceiptOf
  <2>5. CASE Respond(r)
    BY <1>1, <2>5, AnswersStayTrue DEF Respond, AnswersInv, Answered
  <2>6. CASE LoseAnswer(r)
    BY <2>6 DEF LoseAnswer, AnswerTrue
  <2> QED
    BY <1>2, <2>1, <2>2, <2>3, <2>4, <2>5, <2>6
<1> QED
  BY <1>4, <1>5, <1>7 DEF AnswersInv

\* Answers agree with what was committed in every reachable state.
LEMMA AnswersInvariant == ASSUME CanonicalIds PROVE Spec => []AnswersInv
<1>1. Init => AnswersInv
  BY DEF Init, AnswersInv, ClaimsHaveKeys, Answered
<1>2. TypeInv /\ ClaimsInv /\ FundsInv /\ KeysRecorded /\ AnswersInv /\ [Next]_vars
      => AnswersInv'
  <2> SUFFICES ASSUME TypeInv, ClaimsInv, FundsInv, KeysRecorded, AnswersInv, [Next]_vars
               PROVE  AnswersInv'
    OBVIOUS
  <2>1. CASE UNCHANGED vars \/ \E a \in Accounts : OpenAccount(a)
    <3>1. journal' = journal /\ input' = input /\ answer' = answer /\ pc' = pc
      BY <2>1 DEF vars, OpenAccount
    <3> QED
      BY <3>1, ZenonT(60) DEF AnswersInv, ClaimsHaveKeys, AnswerTrue, KeyOf,
         IsTransfer, ReceiptOf, Fingerprint
  <2>2. ASSUME NEW r \in Requests, Receive(r) \/ Serve(r) \/ Fail(r) \/ LoseAnswer(r)
        PROVE  AnswersInv'
    BY <2>2, StepKeepsAnswers DEF FundsInv
  <2> QED
    BY <2>1, <2>2 DEF Next, Quiescent
<1> QED
  BY <1>1, <1>2, ClaimsInvariant, FundsInvariant, KeysInvariant, PTL DEF Spec

\* What the caller is told is what happened (transfer.service.ts, reverse.service.ts):
\* a success is the receipt of a committed transaction that does what was asked,
\* a refusal left nothing in the journal, whenever clients spell ids canonically.
THEOREM AnswersAlwaysTruthful == ASSUME CanonicalIds PROVE Spec => []AnswersTruthful
<1>1. AnswersInv => AnswersTruthful
  BY DEF AnswersInv, AnswerTrue, AnswersTruthful, Answered
<1> QED
  BY <1>1, AnswersInvariant, PTL

-----------------------------------------------------------------------------
(* Reversals                                                                *)

\* Sequence numbers in use have been drawn, and only a request that
\* inserts postings has drawn some.
SeqsDrawn ==
  /\ \A j \in journal : \A i \in Leg : j.postings[i].seq < nextSeq
  /\ \A r \in Requests : \A i \in Leg : seqs[r][i] < nextSeq

SeqsByStage == \A r \in Requests : pc[r] \notin Inserted => seqs[r] = NoSeqs

\* The draft of r negates o, and its postings come after those of o.
Undoes(r, o) ==
  /\ o.id = draft[r].reverses
  /\ o.currency = draft[r].currency
  /\ \A i \in Leg :
       /\ RefOf(r, i) = o.postings[i].account
       /\ AmountOf(r, i) = -o.postings[i].amount
       /\ seqs[r][i] = 0 \/ seqs[r][i] > o.postings[i].seq

DraftsUndo ==
  \A r \in Requests : pc[r] \in Drafted /\ draft[r].reverses # None =>
    \E o \in journal : Undoes(r, o)

\* An uncommitted entry of the unique index is alone.
IndexOwned ==
  \A r \in Requests : pc[r] \in Inserted /\ draft[r].reverses # None =>
    /\ ~ReversalCommitted(draft[r].reverses)
    /\ \A q \in Requests \ {r} :
         pc[q] \in Inserted => draft[q].reverses # draft[r].reverses

ReversalsInv == SeqsDrawn /\ SeqsByStage /\ DraftsUndo /\ IndexOwned /\ ReversedOnce

-----------------------------------------------------------------------------
(* The shapes of a step                                                     *)

\* A step of r that has no uncommitted journal row afterwards and commits none.
PlainStep(r) ==
  /\ UNCHANGED <<journal, nextSeq>>
  /\ pc'[r] \notin Inserted
  /\ seqs'[r] = NoSeqs

\* Every step of r is plain, an insertion or the COMMIT.
LEMMA InsertingSteps ==
  ASSUME TypeInv, SeqsByStage, NEW r \in Requests,
         Receive(r) \/ Serve(r) \/ Fail(r) \/ LoseAnswer(r)
  PROVE  /\ Alone(r)
         /\ \/ PlainStep(r)
            \/ InsertJournal(r)
            \/ \E i \in Leg : InsertPosting(r, i)
            \/ WriteStep(r)
            \/ Commit(r)
<1> USE DEF TypeInv, TypeOK, RequestsOK
<1>1. ASSUME NEW code, NEW receipt, Finish(r, code, receipt)
      PROVE  Alone(r) /\ PlainStep(r)
  BY <1>1 DEF Finish, Goto, Alone, PlainStep, database, Inserted, Writing
<1>2. ASSUME NEW stage, stage \notin Inserted, Goto(r, stage), pc[r] \notin Inserted,
             \A q \in Requests \ {r} :
               input'[q] = input[q] /\ draft'[q] = draft[q] /\ locked'[q] = locked[q]
               /\ held'[q] = held[q],
             UNCHANGED <<journal, nextSeq, seqs>>
      PROVE  Alone(r) /\ PlainStep(r)
  BY <1>2 DEF Goto, Alone, PlainStep, SeqsByStage
<1>3. CASE Receive(r)
  BY <1>3, <1>2 DEF Receive, AcceptTransfer, RejectTransfer, AcceptReversal,
   database, local, Inserted, Writing
<1>4. CASE \/ RefuseUnknownTransaction(r) \/ RefuseReversed(r) \/ ReplayResponse(r)
           \/ RefuseKeyConflict(r) \/ RefuseAccounts(r) \/ RefuseFunds(r)
           \/ RefuseDuplicateReversal(r) \/ FailOverflow(r) \/ Fail(r)
  BY <1>4, <1>1 DEF RefuseUnknownTransaction, RefuseReversed, ReplayResponse,
     RefuseKeyConflict, RefuseAccounts, RefuseFunds, RefuseDuplicateReversal,
     FailOverflow, Fail, Refuse
<1>5. CASE LookupOriginal(r)
  BY <1>5, <1>2 DEF LookupOriginal, database, local, Inserted, Writing
<1>6. CASE \/ Begin(r) \/ CheckReversal(r) \/ ClaimKey(r) \/ ReadAccounts(r)
           \/ Respond(r) \/ LoseAnswer(r)
  BY <1>6, <1>2 DEF Begin, CheckReversal, ClaimKey, ReadAccounts, Respond,
   LoseAnswer, database, local, Inserted, Writing
<1>7. CASE \E i \in Leg : LockAccount(r, i)
  BY <1>7, <1>2 DEF LockAccount, database, Inserted, Writing
<1>8. CASE InsertJournal(r)
  BY <1>8 DEF InsertJournal, Goto, Alone, local
<1>9. CASE \E i \in Leg : InsertPosting(r, i)
  BY <1>9 DEF InsertPosting, Goto, Alone
<1>10. CASE Commit(r)
  BY <1>10 DEF Commit, Goto, Alone
<1>11. CASE WriteStep(r)
  BY <1>11 DEF WriteStep, Goto, Alone, local
<1> QED
  BY <1>3, <1>4, <1>5, <1>6, <1>7, <1>8, <1>9, <1>10, <1>11, WritesMove DEF Serve

-----------------------------------------------------------------------------
(* Steps                                                                    *)

\* The sequence only grows, and committed numbers were drawn before.
LEMMA StepKeepsSeqs ==
  ASSUME TypeInv, ReversalsInv, NEW r \in Requests,
         Receive(r) \/ Serve(r) \/ Fail(r) \/ LoseAnswer(r)
  PROVE  SeqsDrawn' /\ SeqsByStage'
<1> USE DEF ReversalsInv, TypeInv, TypeOK, RequestsOK
<1>1. SeqsByStage'
  BY InsertingSteps DEF Alone, SeqsByStage, PlainStep, InsertJournal, InsertPosting,
     WriteStep, Commit, Goto, local, Inserted, Writing
<1> SUFFICES SeqsDrawn'
  BY <1>1
<1>2. nextSeq \in Nat \ {0}
  BY DEF DatabaseOK
<1>3. CASE PlainStep(r)
  BY <1>2, <1>3, InsertingSteps DEF PlainStep, Alone, SeqsDrawn, NoSeqs
<1>4. CASE InsertJournal(r) \/ WriteStep(r)
  BY <1>4 DEF InsertJournal, WriteStep, database, local, SeqsDrawn
<1>5. ASSUME NEW i \in Leg, InsertPosting(r, i) PROVE SeqsDrawn'
  <2>1. \A j \in journal : \A k \in Leg : j.postings[k].seq \in Nat
    BY DEF DatabaseOK, PostingOK
  <2>2. \A q \in Requests : \A k \in Leg :
          seqs'[q][k] = seqs[q][k] \/ seqs'[q][k] = nextSeq
    BY <1>5 DEF InsertPosting
  <2> QED
    BY <1>2, <1>5, <2>1, <2>2 DEF InsertPosting, database, SeqsDrawn
<1>6. CASE Commit(r)
  <2>1. \A q \in Requests : \A i \in Leg : seqs'[q][i] < nextSeq
    BY <1>2, <1>6 DEF Commit, SeqsDrawn, NoSeqs
  <2>2. \A i \in Leg : JournalRow(r).postings[i].seq = seqs[r][i]
    BY DEF JournalRow
  <2> QED
    BY <1>6, <2>1, <2>2 DEF Commit, SeqsDrawn
<1> QED
  BY <1>3, <1>4, <1>5, <1>6, InsertingSteps

\* A compensating draft keeps its original, which stays in the journal.
LEMMA StepKeepsDraftsUndo ==
  ASSUME TypeInv, ReversalsInv, NEW r \in Requests,
         Receive(r) \/ Serve(r) \/ Fail(r) \/ LoseAnswer(r)
  PROVE  DraftsUndo'
<1> USE DEF ReversalsInv, TypeInv, TypeOK, RequestsOK
<1>1. Alone(r) /\ journal \subseteq journal'
  BY InsertingSteps DEF PlainStep, InsertJournal, InsertPosting, WriteStep, Commit,
     database
<1>2. \A q \in Requests \ {r} : \A o \in journal : Undoes(q, o) => Undoes(q, o)'
  BY <1>1 DEF Alone, Undoes, RefOf, AmountOf
<1>3. \A i \in Leg : \/ seqs'[r][i] = 0
                     \/ seqs'[r][i] = seqs[r][i]
                     \/ seqs'[r][i] = nextSeq
  <2>1. CASE PlainStep(r) \/ Commit(r)
    BY <2>1 DEF PlainStep, Commit, NoSeqs
  <2>2. CASE InsertJournal(r) \/ WriteStep(r)
    BY <2>2 DEF InsertJournal, WriteStep, local
  <2>3. ASSUME NEW k \in Leg, InsertPosting(r, k)
        PROVE  \A i \in Leg : seqs'[r][i] \in {seqs[r][i], nextSeq}
    BY <2>3 DEF InsertPosting
  <2> QED
    BY <2>1, <2>2, <2>3, InsertingSteps
<1>4. \A o \in journal : \A i \in Leg : o.postings[i].seq \in Nat
  BY DEF DatabaseOK, PostingOK
<1>5. \A o \in journal : Undoes(r, o) /\ draft' = draft => Undoes(r, o)'
  BY <1>3, <1>4, SMTT(30) DEF Undoes, RefOf, AmountOf, SeqsDrawn, DatabaseOK
<1> SUFFICES ASSUME pc'[r] \in Drafted, draft'[r].reverses # None
             PROVE  \E o \in journal : Undoes(r, o)'
  <2> SUFFICES ASSUME NEW q \in Requests, pc'[q] \in Drafted, draft'[q].reverses # None
               PROVE  \E o \in journal' : Undoes(q, o)'
    BY DEF DraftsUndo
  <2>1. CASE q = r
    BY <2>1, <1>1
  <2>2. CASE q # r
    BY <2>2, <1>1, <1>2 DEF Alone, DraftsUndo
  <2> QED
    BY <2>1, <2>2
<1>6. CASE draft' = draft /\ (pc'[r] \in Drafted => pc[r] \in Drafted)
  BY <1>5, <1>6 DEF DraftsUndo
<1>7. ASSUME NEW in \in Inputs, AcceptTransfer(r, in) PROVE FALSE
  BY <1>7 DEF AcceptTransfer
<1>8. CASE LookupOriginal(r)
  <2>1. PICK o \in journal :
          draft' = [draft EXCEPT ![r] =
            [currency |-> o.currency, reverses |-> o.id, legs |-> NegatedLegs(o)]]
    BY <1>8 DEF LookupOriginal
  <2>2. seqs'[r] = NoSeqs
    BY <1>8 DEF LookupOriginal, local, SeqsByStage, Inserted, Writing
  <2>3. Undoes(r, o)'
    BY <2>1, <2>2 DEF Undoes, RefOf, AmountOf, NegatedLegs, NoSeqs
  <2> QED
    BY <2>3
<1> QED
  BY <1>6, <1>7, <1>8, DraftsMade

\* The index admits one entry per transaction, undecided or committed.
LEMMA StepKeepsIndex ==
  ASSUME TypeInv, ReversalsInv, NEW r \in Requests,
         Receive(r) \/ Serve(r) \/ Fail(r) \/ LoseAnswer(r)
  PROVE  IndexOwned'
<1> USE DEF ReversalsInv, TypeInv, TypeOK, RequestsOK
<1>1. Alone(r)
  BY InsertingSteps
<1>2. CASE PlainStep(r)
  <2>1. \A q \in Requests : pc'[q] \in Inserted =>
          /\ q # r /\ pc[q] \in Inserted /\ draft'[q] = draft[q]
    BY <1>1, <1>2 DEF Alone, PlainStep
  <2>2. journal' = journal
    BY <1>2 DEF PlainStep
  <2> QED
    BY <2>1, <2>2 DEF IndexOwned, ReversalCommitted
<1>3. CASE InsertJournal(r)
  BY <1>3 DEF InsertJournal, ReversalUndecided, ReversalTaken, IndexOwned, Inserted,
   ReversalCommitted, Goto, database, Writing
<1>4. CASE \E i \in Leg : InsertPosting(r, i)
  BY <1>4 DEF InsertPosting, IndexOwned, Inserted, ReversalCommitted, Goto, database,
   Writing
<1>6. CASE WriteStep(r)
  BY <1>6 DEF WriteStep, IndexOwned, Inserted, Writing, ReversalCommitted, Goto,
     database
<1>5. CASE Commit(r)
  <2>1. JournalRow(r).reverses = draft[r].reverses
    BY DEF JournalRow
  <2> QED
    BY <1>5, <2>1 DEF Commit, IndexOwned, Inserted, ReversalCommitted, Goto, Writing
<1> QED
  BY <1>2, <1>3, <1>4, <1>5, <1>6, InsertingSteps

\* COMMIT adds a reversal nobody committed before, of what it undoes.
LEMMA CommitKeepsReversed ==
  ASSUME TypeInv, ReversalsInv, NEW r \in Requests, Commit(r)
  PROVE  ReversedOnce'
<1> USE DEF Commit, ReversalsInv, TypeInv, TypeOK, RequestsOK
<1> PICK row : row = JournalRow(r)
  OBVIOUS
<1>1. /\ journal' = journal \cup {row}
      /\ row.reverses = draft[r].reverses
      /\ row.currency = draft[r].currency
      /\ \A i \in Leg : /\ row.postings[i].account = TargetOf(r, i)
                        /\ row.postings[i].amount = AmountOf(r, i)
                        /\ row.postings[i].seq = seqs[r][i]
  BY DEF JournalRow
<1>2. row.reverses # None => \A j \in journal : j.reverses # row.reverses
  BY <1>1 DEF IndexOwned, Inserted, ReversalCommitted, Writing
<1>3. ASSUME row.reverses # None
      PROVE  \E o \in journal :
               /\ o.id = row.reverses
               /\ o.currency = row.currency
               /\ \A i \in Leg :
                    /\ row.postings[i].account = o.postings[i].account
                    /\ row.postings[i].amount = -o.postings[i].amount
                    /\ row.postings[i].seq > o.postings[i].seq
  <2>1. PICK o \in journal : Undoes(r, o)
    BY <1>1, <1>3 DEF DraftsUndo, Drafted, InTransaction, Inserted, Writing
  <2>2. \A i \in Leg : TargetOf(r, i) = o.postings[i].account
    BY <2>1, RefsAssumption DEF Undoes, TargetOf, DatabaseOK, PostingOK
  <2>3. \A i \in Leg : seqs[r][i] # 0
    BY DEF StageOK, Writing
  <2> QED
    BY <1>1, <2>1, <2>2, <2>3, ZenonT(60) DEF Undoes
<1>4. \A j1, j2 \in journal' :
        j1.reverses # None /\ j1.reverses = j2.reverses => j1 = j2
  BY <1>1, <1>2 DEF ReversedOnce
<1>5. \A j \in journal' : j.reverses # None =>
        \E o \in journal' :
          /\ o.id = j.reverses
          /\ o.currency = j.currency
          /\ \A i \in Leg :
               /\ j.postings[i].account = o.postings[i].account
               /\ j.postings[i].amount = -o.postings[i].amount
               /\ j.postings[i].seq > o.postings[i].seq
  <2> SUFFICES ASSUME NEW j \in journal', j.reverses # None
               PROVE  \E o \in journal :
                        /\ o.id = j.reverses
                        /\ o.currency = j.currency
                        /\ \A i \in Leg :
                             /\ j.postings[i].account = o.postings[i].account
                             /\ j.postings[i].amount = -o.postings[i].amount
                             /\ j.postings[i].seq > o.postings[i].seq
    BY <1>1
  <2>1. CASE j \in journal
    BY <2>1 DEF ReversedOnce
  <2>2. CASE j = row
    BY <2>2, <1>3
  <2> QED
    BY <1>1, <2>1, <2>2
<1> QED
  BY <1>4, <1>5 DEF ReversedOnce

\* Sequence numbers, compensating drafts and the index are in order throughout.
LEMMA ReversalsInvariant == Spec => []ReversalsInv
<1>1. Init => ReversalsInv
  BY DEF Init, ReversalsInv, SeqsDrawn, SeqsByStage, DraftsUndo, IndexOwned,
   ReversedOnce, NoSeqs, Drafted, InTransaction, Inserted, Writing
<1>2. TypeInv /\ ReversalsInv /\ [Next]_vars => ReversalsInv'
  <2> SUFFICES ASSUME TypeInv, ReversalsInv, [Next]_vars PROVE ReversalsInv'
    OBVIOUS
  <2>1. CASE UNCHANGED vars \/ \E a \in Accounts : OpenAccount(a)
    BY <2>1 DEF vars, OpenAccount, local, ReversalsInv, SeqsDrawn, SeqsByStage,
       DraftsUndo, Undoes, RefOf, AmountOf, IndexOwned, ReversalCommitted, ReversedOnce
  <2>2. ASSUME NEW r \in Requests, Receive(r) \/ Serve(r) \/ Fail(r) \/ LoseAnswer(r)
        PROVE  ReversalsInv'
    <3>1. ReversedOnce'
      <4>1. CASE Commit(r)
        BY <4>1, CommitKeepsReversed
      <4>2. CASE journal' = journal
        BY <4>2 DEF ReversalsInv, ReversedOnce
      <4> QED
        BY <2>2, <4>1, <4>2, InsertingSteps DEF ReversalsInv, PlainStep,
           InsertJournal, InsertPosting, WriteStep, database
    <3> QED
      BY <2>2, <3>1, StepKeepsSeqs, StepKeepsDraftsUndo, StepKeepsIndex DEF ReversalsInv
  <2> QED
    BY <2>1, <2>2 DEF Next, Quiescent
<1> QED
  BY <1>1, <1>2, TypeInvariant, PTL DEF Spec

\* A transaction is reversed at most once, and a reversal undoes exactly what
\* its original did, in its currency and after it (ADR-005), even though
\* hasReversal is asked before any lock is held.
THEOREM EachReversedOnce == Spec => []ReversedOnce
<1>1. ReversalsInv => ReversedOnce
  BY DEF ReversalsInv
<1> QED
  BY <1>1, ReversalsInvariant, PTL
=============================================================================
