-------------------------- MODULE LedgerMoneyProofs --------------------------
(***************************************************************************)
(* Money in Ledger, for every value of its constants: postings net to zero *)
(* in every currency, balances agree with them, the hash chain of every    *)
(* account verifies, and every COMMIT is one step of AtomicLedger.         *)
(*                                                                         *)
(* The argument about chains goes by sequence numbers. A request draws the *)
(* seq of a posting while it holds the account's row, so whatever the      *)
(* account has in the table has a smaller one: the posting goes to the end *)
(* of the chain, and its hash and its balance_after continue from the row  *)
(* that is last there.                                                     *)
(***************************************************************************)
EXTENDS LedgerKeyProofs

-----------------------------------------------------------------------------
(* Totals                                                                   *)

\* A total of postings is a sum.
LEMMA TotalIsSum ==
  ASSUME NEW P, IsFiniteSet(P)
  PROVE  Total(P) = SumOf([p \in P |-> p.amount], P)
<1> DEFINE f == [p \in P |-> p.amount]
           Folds(g) == g = [s \in SUBSET P |->
             IF s = {} THEN 0 ELSE Pick(s).amount + g[s \ {Pick(s)}]]
<1>1. \A s \in SUBSET P : s # {} => f[Pick(s)] = Pick(s).amount
  BY Picked
<1>2. \A g : Folds(g) <=> Adds(g, f, P)
  BY <1>1 DEF Adds
<1>3. PICK g : Adds(g, f, P) /\ SumOf(f, P) = g[P]
  BY SumAdds
<1>4. \E h : Folds(h)
  BY <1>2, <1>3
<1>5. \E h : Folds(h) /\ Total(P) = h[P]
  BY <1>4 DEF Total, MapThenSumSet, MapThenFoldSet, Pick
<1>6. PICK h : Adds(h, f, P) /\ Total(P) = h[P]
  BY <1>2, <1>5
<1>7. P \in SUBSET P /\ \A x \in P : f[x] = f[x]
  OBVIOUS
<1> HIDE DEF f
<1>8. g[P] = h[P]
  BY <1>3, <1>6, <1>7, AddsAgree
<1>9. Total(P) = SumOf(f, P)
  BY <1>3, <1>6, <1>8
<1> QED
  BY <1>9 DEF f

\* The materialized balances of a currency add up to a sum.
LEMMA BalanceTotalIsSum ==
  ASSUME NEW c, IsFiniteSet({a \in Accounts : CurrencyOf[a] = c})
  PROVE  LET A == {a \in Accounts : CurrencyOf[a] = c}
         IN  BalanceTotal(c) = SumOf([a \in A |-> balance[a].balance], A)
<1> DEFINE A == {a \in Accounts : CurrencyOf[a] = c}
           f == [a \in A |-> balance[a].balance]
           Folds(g) == g = [s \in SUBSET A |->
             IF s = {} THEN 0 ELSE balance[Pick(s)].balance + g[s \ {Pick(s)}]]
<1>0. IsFiniteSet(A)
  OBVIOUS
<1>1. \A s \in SUBSET A : s # {} => f[Pick(s)] = balance[Pick(s)].balance
  <2> HIDE DEF A
  <2> QED
    BY Picked
<1>2. \A g : Folds(g) <=> Adds(g, f, A)
  <2> HIDE DEF A
  <2> QED
    BY <1>1 DEF Adds
<1>3. PICK g : Adds(g, f, A) /\ SumOf(f, A) = g[A]
  BY <1>0, SumAdds
<1>4. \E h : Folds(h)
  BY <1>2, <1>3
<1>5. \E h : Folds(h) /\ BalanceTotal(c) = h[A]
  BY <1>4 DEF BalanceTotal, MapThenSumSet, MapThenFoldSet, Pick
<1>6. PICK h : Adds(h, f, A) /\ BalanceTotal(c) = h[A]
  BY <1>2, <1>5
<1>7. A \in SUBSET A /\ \A x \in A : f[x] = f[x]
  OBVIOUS
<1> HIDE DEF f, A
<1>8. g[A] = h[A]
  BY <1>0, <1>3, <1>6, <1>7, AddsAgree
<1>9. BalanceTotal(c) = SumOf(f, A)
  BY <1>3, <1>6, <1>8
<1> QED
  BY <1>9 DEF f, A

\* One more posting adds its amount.
LEMMA TotalGrows ==
  ASSUME NEW P, IsFiniteSet(P), \A p \in P : p.amount \in Int,
         NEW n, n \notin P, n.amount \in Int
  PROVE  /\ Total(P) \in Int
         /\ Total(P \cup {n}) = Total(P) + n.amount
<1> DEFINE Q == P \cup {n}
           f == [p \in P |-> p.amount]
           e == [p \in Q |-> p.amount]
<1>1. IsFiniteSet(Q) /\ n \in Q /\ Q \ {n} = P
  BY FS_AddElement
<1>2. \A x \in Q : e[x] \in Int
  OBVIOUS
<1>3. \A x \in P : f[x] = e[x] /\ f[x] \in Int
  OBVIOUS
<1>4. e[n] = n.amount
  OBVIOUS
<1>5. Total(Q) = SumOf(e, Q) /\ Total(P) = SumOf(f, P)
  BY <1>1, TotalIsSum
<1> HIDE DEF Q, f, e
<1>6. SumOf(e, Q) = e[n] + SumOf(e, Q \ {n})
  BY <1>1, <1>2, SumSplit
<1>7. SumOf(f, P) = SumOf(e, P)
  BY <1>3, SumSame
<1>8. SumOf(f, P) \in Int
  BY <1>3, SumInt
<1>9. SumOf(e, Q) = n.amount + SumOf(e, P)
  BY <1>1, <1>4, <1>6
<1>10. Total(P) \in Int /\ Total(Q) = Total(P) + n.amount
  BY <1>5, <1>7, <1>8, <1>9
<1> QED
  BY <1>10 DEF Q

\* Nothing adds up to nothing.
LEMMA TotalOfNothing == Total({}) = 0
  BY FS_EmptySet, TotalIsSum, SumEmpty

-----------------------------------------------------------------------------
(* Sequence numbers in flight                                               *)

SeqsInOrder ==
  \A r \in Requests : seqs[r][2] # 0 => seqs[r][1] # 0 /\ seqs[r][1] < seqs[r][2]

\* A posting that is not yet committed comes after every committed one of its
\* account: its request holds the lock.
InFlightLater ==
  \A r \in Requests : \A i \in Leg : seqs[r][i] # 0 =>
    \A p \in PostingsOf(TargetOf(r, i)) : p.seq < seqs[r][i]

InFlightInv == SeqsInOrder /\ InFlightLater

\* What a step leaves of the sequence numbers that are drawn but not committed.
LEMMA StepKeepsInFlight ==
  ASSUME TypeInv, LocksInv, ReversalsInv, InFlightInv, NEW r \in Requests,
         Receive(r) \/ Serve(r) \/ Fail(r) \/ LoseAnswer(r)
  PROVE  InFlightInv'
<1> USE DEF InFlightInv, TypeInv, TypeOK, RequestsOK
<1>1. nextSeq \in Nat \ {0} /\ seqs \in [Requests -> [Leg -> Nat]]
  BY DEF DatabaseOK
<1>2. \A q \in Requests \ {r} : seqs'[q] = seqs[q] /\ draft'[q] = draft[q]
  BY InsertingSteps DEF ReversalsInv, Alone
<1>3. CASE PlainStep(r)
  <2>1. SeqsInOrder'
    BY <1>2, <1>3 DEF PlainStep, SeqsInOrder, NoSeqs, Leg
  <2>2. \A q \in Requests \ {r}, k \in Leg :
          PostingsOf(TargetOf(q, k))' = PostingsOf(TargetOf(q, k))
    BY <1>2, <1>3 DEF PlainStep, PostingsOf, Postings, TargetOf, RefOf
  <2>3. InFlightLater'
    BY <1>2, <1>3, <2>2 DEF PlainStep, InFlightLater, NoSeqs
  <2> QED
    BY <2>1, <2>3
<1>4. CASE InsertJournal(r) \/ WriteStep(r)
  BY <1>4 DEF InsertJournal, WriteStep, database, local, SeqsInOrder, InFlightLater,
     PostingsOf, Postings, TargetOf, RefOf
<1>5. ASSUME NEW i \in Leg, InsertPosting(r, i) PROVE InFlightInv'
  <2>1. /\ draft' = draft /\ journal' = journal
        /\ seqs[r][i] = 0 /\ \A j \in 1..(i - 1) : seqs[r][j] # 0
        /\ seqs'[r][i] = nextSeq
        /\ \A k \in Leg \ {i} : seqs'[r][k] = seqs[r][k]
    BY <1>5 DEF InsertPosting, database
  <2>2. SeqsInOrder'
    <3>1. seqs[r][1] < nextSeq
      BY DEF ReversalsInv, SeqsDrawn, Leg
    <3>2. i = 1 => seqs'[r][2] = seqs[r][2] /\ seqs[r][1] = 0
      BY <2>1 DEF Leg
    <3>3. i = 2 => seqs'[r][2] = nextSeq /\ seqs'[r][1] = seqs[r][1] /\ seqs[r][1] # 0
      BY <2>1 DEF Leg
    <3>4. seqs'[r][2] # 0 => seqs'[r][1] # 0 /\ seqs'[r][1] < seqs'[r][2]
      BY <1>1, <3>1, <3>2, <3>3 DEF SeqsInOrder, Leg
    <3> QED
      BY <1>2, <3>4 DEF SeqsInOrder
  <2>3. InFlightLater'
    <3>1. \A p \in Postings : p.seq < nextSeq
      BY DEF ReversalsInv, SeqsDrawn, Postings
    <3>2. \A q \in Requests, k \in Leg :
            PostingsOf(TargetOf(q, k))' = PostingsOf(TargetOf(q, k))
      BY <2>1 DEF PostingsOf, Postings, TargetOf, RefOf
    <3>3. \A k \in Leg : seqs'[r][k] # 0 =>
            \A p \in PostingsOf(TargetOf(r, k)) : p.seq < seqs'[r][k]
      BY <2>1, <3>1 DEF InFlightLater, PostingsOf
    <3> QED
      BY <1>2, <3>2, <3>3 DEF InFlightLater
  <2> QED
    BY <2>2, <2>3
<1>6. CASE Commit(r)
  <2>1. seqs'[r] = NoSeqs /\ draft' = draft
    BY <1>6 DEF Commit
  <2>2. SeqsInOrder'
    BY <1>2, <2>1 DEF SeqsInOrder, NoSeqs, Leg
  <2>3. InFlightLater'
    <3> SUFFICES ASSUME NEW q \in Requests, NEW k \in Leg, seqs'[q][k] # 0,
                        NEW p \in Postings', p.account = TargetOf(q, k)
                 PROVE  p.seq < seqs'[q][k]
      BY <2>1 DEF InFlightLater, PostingsOf, TargetOf, RefOf
    <3>1. q # r /\ seqs[q][k] # 0
      BY <1>2, <2>1 DEF NoSeqs
    <3>2. pc[q] \in Inserted
      BY <3>1 DEF ReversalsInv, SeqsByStage, NoSeqs
    <3>3. held[q] = Leg /\ held[r] = Leg
      BY <1>6, <3>2 DEF LocksInv, HeldByStage, Locking, Inserted, Commit, Writing
    <3>4. \A i \in Leg : NewPosting(r, i).account # TargetOf(q, k)
      BY <3>1, <3>3, NewPostingFields DEF LocksInv, LocksExclusive
    <3>5. p \in Postings
      BY <1>6, <3>4, CommitAddsPostings DEF Leg
    <3> QED
      BY <1>2, <3>1, <3>5 DEF InFlightLater, PostingsOf
  <2> QED
    BY <2>2, <2>3
<1> QED
  BY <1>3, <1>4, <1>5, <1>6, InsertingSteps DEF ReversalsInv

\* What is invariant whatever clients spell.
LedgerInv == TypeInv /\ LocksInv /\ ClaimsInv /\ ReversalsInv /\ InFlightInv

\* Types, locks and sequence numbers are right in every reachable state.
LEMMA LedgerInvariant == Spec => []LedgerInv
<1>1. Init => InFlightInv
  BY DEF Init, InFlightInv, SeqsInOrder, InFlightLater, NoSeqs, Leg
<1>2. TypeInv /\ LocksInv /\ ReversalsInv /\ InFlightInv /\ [Next]_vars => InFlightInv'
  <2> SUFFICES ASSUME TypeInv, LocksInv, ReversalsInv, InFlightInv, [Next]_vars
               PROVE  InFlightInv'
    OBVIOUS
  <2>1. CASE UNCHANGED vars \/ \E a \in Accounts : OpenAccount(a)
    <3>1. journal' = journal /\ draft' = draft /\ seqs' = seqs
      BY <2>1 DEF vars, OpenAccount, local
    <3> QED
      BY <3>1 DEF InFlightInv, SeqsInOrder, InFlightLater, PostingsOf, Postings,
         TargetOf, RefOf
  <2>2. ASSUME NEW r \in Requests, Receive(r) \/ Serve(r) \/ Fail(r) \/ LoseAnswer(r)
        PROVE  InFlightInv'
    BY <2>2, StepKeepsInFlight
  <2> QED
    BY <2>1, <2>2 DEF Next, Quiescent
<1> QED
  BY <1>1, <1>2, LockInvariant, ClaimsInvariant, ReversalsInvariant, PTL
     DEF Spec, LedgerInv

-----------------------------------------------------------------------------
(* Conservation                                                             *)

CurrencyPostings(c) ==
  UNION {{j.postings[i] : i \in Leg} : j \in {k \in journal : k.currency = c}}

\* The report adds up the currency's postings, now and after the step.
LEMMA CurrencyTotals ==
  ASSUME NEW c
  PROVE  /\ CurrencyTotal(c) = Total(CurrencyPostings(c))
         /\ CurrencyTotal(c)' = Total(CurrencyPostings(c)')
  BY DEF CurrencyTotal, CurrencyPostings, Total, MapThenSumSet, MapThenFoldSet

\* What COMMIT adds to the totals: two postings nobody had, which cancel out.
LEMMA NewPostingsCancel ==
  ASSUME LedgerInv, NEW r \in Requests, Commit(r)
  PROVE  /\ NewPosting(r, 1) \notin Postings
         /\ NewPosting(r, 2) \notin Postings
         /\ NewPosting(r, 1) # NewPosting(r, 2)
         /\ NewPosting(r, 1).amount \in Int
         /\ NewPosting(r, 2).amount \in Int
         /\ NewPosting(r, 1).amount + NewPosting(r, 2).amount = 0
<1> USE DEF LedgerInv, TypeInv, TypeOK
<1>1. 1 \in Leg /\ 2 \in Leg
  BY DEF Leg
<1>2. \A p \in Postings : p.transactionId # r
  BY DEF Postings, DatabaseOK, ClaimsInv, JournalFromAnswered, Answered, Commit
<1>3. \A i \in Leg : /\ NewPosting(r, i).transactionId = r
                     /\ NewPosting(r, i).seq = seqs[r][i]
                     /\ NewPosting(r, i).amount = AmountOf(r, i)
  BY NewPostingFields
<1>4. seqs[r][1] # seqs[r][2]
  <2>1. seqs[r][1] \in Nat /\ seqs[r][2] \in Nat /\ seqs[r][2] # 0
    BY <1>1 DEF RequestsOK, StageOK, Commit, Writing
  <2> QED
    BY <2>1 DEF InFlightInv, SeqsInOrder
<1>5. \A i \in Leg : AmountOf(r, i) \in Int
  BY DEF StageOK, Commit, Drafted, InTransaction, DraftOK, AmountOf, Inserted,
     Writing
<1>6. AmountOf(r, 1) + AmountOf(r, 2) = 0
  BY DEF Commit, Balanced
<1> QED
  BY <1>1, <1>2, <1>3, <1>4, <1>5, <1>6

\* There are finitely many postings.
PostingsFinite == IsFiniteSet(Postings)

ConservedInv == PostingsFinite /\ ConservationReported

\* Postings are well-formed.
LEMMA PostingsTyped ==
  ASSUME TypeInv, NEW p \in Postings
  PROVE  /\ p.seq \in Nat \ {0}
         /\ p.account \in Accounts
         /\ p.amount \in Int
         /\ p.balanceAfter \in Int
  BY DEF Postings, TypeInv, TypeOK, DatabaseOK, PostingOK, BalanceInRange

\* The postings of an entry balance, so those of its currency still do.
LEMMA CommitConserves ==
  ASSUME LedgerInv, ConservedInv, NEW r \in Requests, Commit(r)
  PROVE  ConservedInv'
<1> DEFINE n1 == NewPosting(r, 1)
           n2 == NewPosting(r, 2)
<1>1. /\ n1 \notin Postings /\ n2 \notin Postings /\ n1 # n2
      /\ n1.amount \in Int /\ n2.amount \in Int /\ n1.amount + n2.amount = 0
  BY NewPostingsCancel
<1>2. journal' = journal \cup {JournalRow(r)}
  BY DEF Commit
<1>3. \A i \in Leg : JournalRow(r).postings[i] \in {n1, n2}
  BY DEF NewPosting, Leg
<1>4. n1 = JournalRow(r).postings[1] /\ n2 = JournalRow(r).postings[2]
  BY DEF NewPosting
<1> HIDE DEF n1, n2
<1>5. PostingsFinite'
  <2>1. Postings' = (Postings \cup {n1}) \cup {n2}
    BY CommitAddsPostings DEF n1, n2
  <2>2. IsFiniteSet(Postings)
    BY DEF ConservedInv, PostingsFinite
  <2>3. IsFiniteSet(Postings \cup {n1})
    BY <2>2, FS_AddElement
  <2>4. IsFiniteSet((Postings \cup {n1}) \cup {n2})
    BY <2>3, FS_AddElement
  <2> QED
    BY <2>1, <2>4 DEF PostingsFinite
<1>6. ASSUME NEW c \in Currencies PROVE CurrencyTotal(c)' = 0
  <2> DEFINE P == CurrencyPostings(c)
  <2>1. Total(P) = 0 /\ CurrencyTotal(c)' = Total(P')
    BY CurrencyTotals DEF ConservedInv, ConservationReported
  <2>2. P \subseteq Postings
    BY DEF CurrencyPostings, Postings
  <2>3. IsFiniteSet(P) /\ \A p \in P : p.amount \in Int
    BY <2>2, PostingsTyped, FS_Subset DEF ConservedInv, PostingsFinite, LedgerInv
  <2>4. CASE JournalRow(r).currency = c
    <3>1. P' = (P \cup {n1}) \cup {n2}
      <4>1. \A p : p \in P' <=>
              \E j \in journal' : j.currency = c /\ \E i \in Leg : p = j.postings[i]
        BY DEF CurrencyPostings
      <4>2. \A p : p \in P <=>
              \E j \in journal : j.currency = c /\ \E i \in Leg : p = j.postings[i]
        BY DEF CurrencyPostings
      <4>3. \A p : (\E i \in Leg : p = JournalRow(r).postings[i]) <=> p \in {n1, n2}
        BY <1>3, <1>4 DEF Leg
      <4> HIDE DEF P
      <4> QED
        BY <1>2, <2>4, <4>1, <4>2, <4>3
    <3> HIDE DEF P
    <3>2. n1 \notin P /\ n2 \notin P \cup {n1}
      BY <1>1, <2>2
    <3>3. Total(P \cup {n1}) = Total(P) + n1.amount
      BY <1>1, <2>3, <3>2, TotalGrows
    <3>4. IsFiniteSet(P \cup {n1}) /\ \A p \in P \cup {n1} : p.amount \in Int
      BY <1>1, <2>3, FS_AddElement
    <3>5. Total((P \cup {n1}) \cup {n2}) = Total(P \cup {n1}) + n2.amount
      BY <1>1, <3>2, <3>4, TotalGrows
    <3> QED
      BY <1>1, <2>1, <3>1, <3>3, <3>5
  <2>5. CASE JournalRow(r).currency # c
    <3>1. {k \in journal' : k.currency = c} = {k \in journal : k.currency = c}
      BY <1>2, <2>5
    <3>2. P' = P
      BY <3>1 DEF CurrencyPostings
    <3> QED
      BY <2>1, <3>2
  <2> QED
    BY <2>4, <2>5
<1> QED
  BY <1>5, <1>6 DEF ConservedInv, ConservationReported

\* Totals are total at all times.
LEMMA ConservedInvariant == Spec => []ConservedInv
<1>1. Init => ConservedInv
  <2> SUFFICES ASSUME Init PROVE ConservedInv
    OBVIOUS
  <2>1. Postings = {} /\ \A c \in Currencies : CurrencyPostings(c) = {}
    BY DEF Init, Postings, CurrencyPostings
  <2> QED
    BY <2>1, CurrencyTotals, FS_EmptySet, TotalOfNothing
       DEF ConservedInv, PostingsFinite, ConservationReported
<1>2. LedgerInv /\ ConservedInv /\ [Next]_vars => ConservedInv'
  <2> SUFFICES ASSUME LedgerInv, ConservedInv, [Next]_vars PROVE ConservedInv'
    OBVIOUS
  <2>1. CASE journal' = journal
    <3>1. PostingsFinite' /\ \A c \in Currencies : CurrencyPostings(c)' = CurrencyPostings(c)
      BY <2>1 DEF ConservedInv, PostingsFinite, Postings, CurrencyPostings
    <3>2. \A c \in Currencies : CurrencyTotal(c)' = CurrencyTotal(c)
      BY <3>1, CurrencyTotals
    <3> QED
      BY <3>1, <3>2 DEF ConservedInv, ConservationReported
  <2>2. CASE UNCHANGED vars \/ \E a \in Accounts : OpenAccount(a)
    BY <2>1, <2>2 DEF vars, OpenAccount
  <2>3. ASSUME NEW r \in Requests, Receive(r) \/ Serve(r) \/ Fail(r) \/ LoseAnswer(r)
        PROVE  ConservedInv'
    BY <2>1, <2>3, OnlyCommitWrites, CommitConserves DEF LedgerInv
  <2> QED
    BY <2>2, <2>3 DEF Next, Quiescent
<1> QED
  BY <1>1, <1>2, LedgerInvariant, PTL DEF Spec

\* The audit's conservation report is clean at every moment and in every
\* currency, however account ids are spelled: what COMMIT publishes has passed
\* the trigger postings_balanced, and no posting is ever counted twice.
THEOREM MoneyReportedConserved == Spec => []ConservationReported
<1>1. ConservedInv => ConservationReported
  BY DEF ConservedInv
<1> QED
  BY <1>1, ConservedInvariant, PTL

-----------------------------------------------------------------------------
(* Chains and balances                                                      *)

\* The posting with the highest seq is the latest.
LEMMA LatestNew ==
  ASSUME NEW P, NEW n, n.seq \in Nat,
         \A p \in P : p.seq \in Nat /\ p.seq < n.seq
  PROVE  Latest(P \cup {n}) = n
<1> DEFINE IsLatest(x) == x \in P \cup {n} /\ \A q \in P \cup {n} : q.seq <= x.seq
<1>1. IsLatest(n)
  BY Z3
<1>2. \A x : IsLatest(x) => x = n
  BY Z3
<1>3. Latest(P \cup {n}) = CHOOSE x : IsLatest(x)
  BY DEF Latest
<1> HIDE DEF IsLatest
<1> QED
  BY <1>1, <1>2, <1>3

\* A chain grows at its head.
LEMMA ChainGrows ==
  ASSUME NEW P, NEW n, n.seq \in Nat,
         \A p \in P : p.seq \in Nat /\ p.seq < n.seq,
         ChainValid(P),
         n.prevHash = HeadHash(P),
         n.hash = HashPosting(HeadHash(P), n.transactionId, n.account, n.amount,
                              n.balanceAfter)
  PROVE  ChainValid(P \cup {n})
<1> DEFINE Q == P \cup {n}
           Valid(p, prev) == /\ p.prevHash = prev
                             /\ p.hash = HashPosting(prev, p.transactionId, p.account,
                                                     p.amount, p.balanceAfter)
<1>1. {q \in Q : q.seq < n.seq} = P
  OBVIOUS
<1>2. \A p \in P : {q \in Q : q.seq < p.seq} = {q \in P : q.seq < p.seq}
  OBVIOUS
<1>3. \A p \in P : Valid(p, HeadHash({q \in P : q.seq < p.seq}))
  BY DEF ChainValid
<1>4. \A p \in Q : Valid(p, HeadHash({q \in Q : q.seq < p.seq}))
  BY <1>1, <1>2, <1>3
<1> QED
  BY <1>4 DEF ChainValid

\* The balance row of a, the sum of its postings and the last of them agree.
ReconciledAt(a) ==
  /\ balance[a].balance = Total(PostingsOf(a))
  /\ PostingsOf(a) = {} => balance[a].chainHash = None
  /\ PostingsOf(a) # {} => balance[a] = [balance |-> Latest(PostingsOf(a)).balanceAfter,
                                        chainHash |-> Latest(PostingsOf(a)).hash]

\* Postings are at accounts that exist.
PostedOpen == \A p \in Postings : p.account \in opened

ChainsInv == ChainsVerify /\ PostedOpen /\ \A a \in Accounts : ReconciledAt(a)

\* Totals of an account's postings after the step.
LEMMA TotalPrimed ==
  ASSUME NEW a
  PROVE  Total(PostingsOf(a))' = Total(PostingsOf(a)')
  BY DEF PostingsOf, Postings, Total, MapThenSumSet, MapThenFoldSet

\* COMMIT adds one posting to each account it locked, after all others.
LEMMA CommitAtAccount ==
  ASSUME LedgerInv, LegsApart, NEW r \in Requests, Commit(r), NEW a \in Accounts
  PROVE  \/ /\ \A i \in Leg : TargetOf(r, i) # a
            /\ PostingsOf(a)' = PostingsOf(a) /\ balance'[a] = balance[a]
         \/ \E i \in Leg :
              /\ a = TargetOf(r, i)
              /\ PostingsOf(a)' = PostingsOf(a) \cup {NewPosting(r, i)}
              /\ seqs[r][i] \in Nat
              /\ \A p \in PostingsOf(a) : p.seq \in Nat /\ p.seq < seqs[r][i]
              /\ Running(r, i) = balance[a]
              /\ BalanceAfter(r, i) = balance[a].balance + AmountOf(r, i)
              /\ balance'[a] = [balance |-> BalanceAfter(r, i),
                                chainHash |-> LineHash(r, i)]
<1> USE DEF LedgerInv, TypeInv, TypeOK
<1>1. 1 \in Leg /\ 2 \in Leg /\ \A i \in Leg : i = 1 \/ i = 2
  BY DEF Leg
<1>2. TargetOf(r, 1) # TargetOf(r, 2)
  BY DEF LegsApart, Commit, Drafted, InTransaction, Inserted, Writing
<1>3. \A i \in Leg : NewPosting(r, i).account = TargetOf(r, i)
  BY NewPostingFields
<1>4. Postings' = Postings \cup {NewPosting(r, 1), NewPosting(r, 2)}
  BY CommitAddsPostings
<1>5. CASE \A i \in Leg : TargetOf(r, i) # a
  <2>1. PostingsOf(a)' = PostingsOf(a)
    BY <1>1, <1>3, <1>4, <1>5 DEF PostingsOf
  <2> QED
    BY <1>5, <2>1, CommitTouchesLockedRows DEF Commit
<1>6. ASSUME NEW i \in Leg, TargetOf(r, i) = a
      PROVE  /\ PostingsOf(a)' = PostingsOf(a) \cup {NewPosting(r, i)}
             /\ seqs[r][i] \in Nat
             /\ \A p \in PostingsOf(a) : p.seq \in Nat /\ p.seq < seqs[r][i]
             /\ Running(r, i) = balance[a]
             /\ BalanceAfter(r, i) = balance[a].balance + AmountOf(r, i)
             /\ balance'[a] = [balance |-> BalanceAfter(r, i),
                               chainHash |-> LineHash(r, i)]
  <2>1. \A k \in Leg : k # i => TargetOf(r, k) # a
    BY <1>1, <1>2, <1>6
  <2>2. PostingsOf(a)' = PostingsOf(a) \cup {NewPosting(r, i)}
    BY <1>1, <1>3, <1>4, <1>6, <2>1 DEF PostingsOf
  <2>3. seqs[r][i] \in Nat /\ seqs[r][i] # 0
    BY DEF RequestsOK, StageOK, Commit, Writing
  <2>4. \A p \in PostingsOf(a) : p.seq \in Nat /\ p.seq < seqs[r][i]
    BY <1>6, <2>3, PostingsTyped DEF InFlightInv, InFlightLater, PostingsOf
  <2>5. /\ Running(r, i) = balance[a]
        /\ BalanceAfter(r, i) = balance[a].balance + AmountOf(r, i)
    <3>1. locked[r][i] = balance[a] /\ pc[r] \in Drafted
      BY <1>6 DEF LocksInv, HeldByStage, LockedCurrent, Locking, Commit, Drafted,
         InTransaction, Inserted, Writing
    <3> QED
      BY <3>1, RunningIsLocked
  <2>6. balance'[a] = UpdatedRow(r, i)
    <3>1. balance' = UpdatedBalances(r)
      BY DEF Commit
    <3>2. RefOf(r, i) <= RefOf(r, i)
      <4>1. RefOf(r, i) \in Int
        BY RefsAssumption DEF StageOK, Commit, Drafted, InTransaction, DraftOK,
           RefOf, Inserted, Writing
      <4> QED
        BY <4>1
    <3>3. LastUpdate(r, a, i) /\ \A k \in Leg : k # i => ~LastUpdate(r, a, k)
      BY <1>6, <2>1, <3>2 DEF LastUpdate, Leg
    <3> QED
      BY <1>1, <3>1, <3>3 DEF UpdatedBalances
  <2> QED
    BY <2>2, <2>3, <2>4, <2>5, <2>6 DEF UpdatedRow, BalanceAfter, LineHash, PostedTo
<1> QED
  BY <1>5, <1>6

\* So every chain goes on where it ended, and every balance by what was posted.
LEMMA CommitKeepsChains ==
  ASSUME LedgerInv, RefsCanonical, LegsApart, PostingsFinite, ChainsInv,
         NEW r \in Requests, Commit(r)
  PROVE  ChainsInv'
<1>0. PostedOpen'
  <2>1. \A i \in Leg : NewPosting(r, i).account \in opened
    BY NewPostingFields DEF LedgerInv, LocksInv, AccountsOpen, Locking, Commit,
       Inserted, Writing
  <2>2. Postings' = Postings \cup {NewPosting(r, 1), NewPosting(r, 2)} /\ opened' = opened
    BY CommitAddsPostings DEF Commit
  <2> QED
    BY <2>1, <2>2 DEF ChainsInv, PostedOpen, Leg
<1> SUFFICES ASSUME NEW a \in Accounts
             PROVE  ChainValid(PostingsOf(a)') /\ ReconciledAt(a)'
  BY <1>0 DEF ChainsInv, ChainsVerify, ChainValid, HeadHash, Latest
<1> DEFINE P == PostingsOf(a)
<1>1. ChainValid(P) /\ ReconciledAt(a)
  BY DEF ChainsInv, ChainsVerify
<1>2. Total(P)' = Total(P')
  BY TotalPrimed
<1>3. CASE P' = P /\ balance'[a] = balance[a]
  <2>1. Latest(P)' = Latest(P)
    BY <1>3 DEF Latest
  <2> QED
    BY <1>1, <1>2, <1>3, <2>1 DEF ReconciledAt
<1>4. ASSUME NEW i \in Leg,
             a = TargetOf(r, i),
             P' = P \cup {NewPosting(r, i)},
             seqs[r][i] \in Nat,
             \A p \in P : p.seq \in Nat /\ p.seq < seqs[r][i],
             Running(r, i) = balance[a],
             BalanceAfter(r, i) = balance[a].balance + AmountOf(r, i),
             balance'[a] = [balance |-> BalanceAfter(r, i), chainHash |-> LineHash(r, i)]
      PROVE  ChainValid(P') /\ ReconciledAt(a)'
  <2> DEFINE n == NewPosting(r, i)
  <2>1. /\ n.seq = seqs[r][i] /\ n.transactionId = r /\ n.account = a
        /\ n.amount = AmountOf(r, i) /\ n.balanceAfter = BalanceAfter(r, i)
        /\ n.prevHash = Running(r, i).chainHash /\ n.hash = LineHash(r, i)
    BY <1>4, NewPostingFields
  <2>2. RefOf(r, i) = a
    BY <1>4, RefsAssumption DEF RefsCanonical, Drafted, InTransaction, Commit,
       TargetOf, Inserted, Writing
  <2>3. balance[a].chainHash = HeadHash(P)
    BY <1>1 DEF ReconciledAt, HeadHash
  <2>4. n.hash = HashPosting(HeadHash(P), n.transactionId, n.account, n.amount,
                             n.balanceAfter)
    BY <1>4, <2>1, <2>2, <2>3 DEF LineHash, PostedTo
  <2>5. P \subseteq Postings /\ IsFiniteSet(P) /\ \A p \in P : p.amount \in Int
    BY FS_Subset, PostingsTyped DEF PostingsFinite, PostingsOf, LedgerInv
  <2>6. n.amount \in Int /\ balance[a].balance \in Int
    BY <2>1 DEF LedgerInv, TypeInv, TypeOK, DatabaseOK, BalanceInRange, StageOK,
       Commit, Drafted, InTransaction, DraftOK, AmountOf, Inserted, Writing
  <2> HIDE DEF n
  <2> HIDE DEF P
  <2>7. n \notin P
    BY <1>4, <2>1
  <2>8. ChainValid(P \cup {n})
    BY <1>1, <1>4, <2>1, <2>3, <2>4, ChainGrows
  <2>9. Latest(P \cup {n}) = n
    BY <1>4, <2>1, LatestNew
  <2>10. Total(P \cup {n}) = Total(P) + n.amount
    BY <2>5, <2>6, <2>7, TotalGrows
  <2>11. P' = P \cup {n} /\ balance'[a] = [balance |-> n.balanceAfter, chainHash |-> n.hash]
    BY <1>4, <2>1 DEF n
  <2>12. n.balanceAfter = Total(P) + n.amount
    BY <1>1, <1>4, <2>1 DEF ReconciledAt, P
  <2>13. Latest(P)' = n
    <3>1. Latest(P)' = Latest(P')
      BY DEF Latest, P
    <3> QED
      BY <3>1, <2>9, <2>11
  <2>14. /\ P' # {} /\ balance'[a].balance = Total(P')
         /\ balance'[a].balance = Latest(P)'.balanceAfter
    BY <2>9, <2>10, <2>11, <2>12, <2>13
  <2> QED
    BY <1>2, <2>8, <2>11, <2>13, <2>14 DEF ReconciledAt, P
<1> QED
  BY <1>3, <1>4, CommitAtAccount

\* A new account has no postings and an empty row.
LEMMA OpenAccountKeepsChains ==
  ASSUME LedgerInv, ChainsInv, NEW b \in Accounts, OpenAccount(b)
  PROVE  ChainsInv' /\ balance[b].balance = 0 /\ balance'[b].balance = 0
<1>1. /\ b \notin opened /\ opened' = opened \cup {b} /\ journal' = journal
      /\ balance'[b] = EmptyRow
      /\ \A a \in Accounts \ {b} : balance'[a] = balance[a]
  BY DEF OpenAccount, LedgerInv, TypeInv, TypeOK, DatabaseOK
<1>2. Postings' = Postings /\ \A a : PostingsOf(a)' = PostingsOf(a)
  BY <1>1 DEF PostingsOf, Postings
<1>3. PostingsOf(b) = {}
  BY <1>1 DEF ChainsInv, PostedOpen, PostingsOf
<1>4. \A a : Total(PostingsOf(a))' = Total(PostingsOf(a))
  BY <1>2, TotalPrimed
<1>5. \A a : Latest(PostingsOf(a))' = Latest(PostingsOf(a))
  BY <1>2 DEF Latest
<1>6. \A a \in Accounts : ReconciledAt(a)'
  <2> SUFFICES ASSUME NEW a \in Accounts PROVE ReconciledAt(a)'
    OBVIOUS
  <2>1. CASE a = b
    BY <2>1, <1>1, <1>2, <1>3, <1>4, TotalOfNothing DEF ReconciledAt, EmptyRow
  <2>2. CASE a # b
    BY <2>2, <1>1, <1>2, <1>4, <1>5 DEF ChainsInv, ReconciledAt
  <2> QED
    BY <2>1, <2>2
<1>7. ChainsVerify'
  BY <1>2, SMTT(30) DEF ChainsInv, ChainsVerify, ChainValid, HeadHash, Latest
<1>8. PostedOpen'
  BY <1>1, <1>2 DEF ChainsInv, PostedOpen
<1>9. balance[b].balance = 0
  BY <1>3, TotalOfNothing DEF ChainsInv, ReconciledAt
<1> QED
  BY <1>1, <1>6, <1>7, <1>8, <1>9 DEF ChainsInv, EmptyRow

\* What is invariant for clients that spell account ids canonically.
CanonicalInv ==
  /\ LedgerInv /\ FundsInv /\ KeysRecorded /\ EventsInv /\ LegsInv
  /\ ConservedInv

\* Drafts spell ids canonically in every reachable state.
LEMMA CanonicalInvariant == ASSUME CanonicalIds PROVE Spec => []CanonicalInv
  BY LedgerInvariant, FundsInvariant, KeysInvariant, EventsInvariant, LegsInvariant,
     ConservedInvariant, PTL DEF CanonicalInv

\* Nothing but COMMIT and a new account touches chains and balances.
LEMMA NextKeepsChains ==
  ASSUME CanonicalInv, ChainsInv, [Next]_vars
  PROVE  ChainsInv'
<1> USE DEF CanonicalInv
<1>1. CASE UNCHANGED <<opened, balance, journal>>
  <2>1. Postings' = Postings /\ \A a : PostingsOf(a)' = PostingsOf(a)
    BY <1>1 DEF PostingsOf, Postings
  <2>2. \A a : Total(PostingsOf(a))' = Total(PostingsOf(a))
    BY <2>1, TotalPrimed
  <2>3. \A a : Latest(PostingsOf(a))' = Latest(PostingsOf(a))
    BY <2>1 DEF Latest
  <2>4. ChainsVerify'
    BY <2>1 DEF ChainsInv, ChainsVerify, ChainValid, HeadHash, Latest
  <2>5. PostedOpen' /\ \A a \in Accounts : ReconciledAt(a)'
    BY <1>1, <2>1, <2>2, <2>3 DEF ChainsInv, PostedOpen, ReconciledAt
  <2> QED
    BY <2>4, <2>5 DEF ChainsInv
<1>2. ASSUME NEW a \in Accounts, OpenAccount(a) PROVE ChainsInv'
  BY <1>2, OpenAccountKeepsChains
<1>3. ASSUME NEW r \in Requests, Receive(r) \/ Serve(r) \/ Fail(r) \/ LoseAnswer(r)
      PROVE  ChainsInv'
  BY <1>1, <1>3, OnlyCommitWrites, CommitKeepsChains
     DEF LedgerInv, FundsInv, LegsInv, ConservedInv
<1>4. CASE UNCHANGED vars
  BY <1>1, <1>4 DEF vars
<1> QED
  BY <1>2, <1>3, <1>4 DEF Next, Quiescent

\* Chains end at their balance rows in every reachable state.
LEMMA ChainsInvariant == ASSUME CanonicalIds PROVE Spec => []ChainsInv
<1>1. Init => ChainsInv
  <2> SUFFICES ASSUME Init PROVE ChainsInv
    OBVIOUS
  <2>1. Postings = {} /\ \A a : PostingsOf(a) = {}
    BY DEF Init, PostingsOf, Postings
  <2>2. ChainsVerify /\ PostedOpen
    BY <2>1 DEF ChainsVerify, ChainValid, PostedOpen
  <2>3. \A a \in Accounts : ReconciledAt(a)
    BY <2>1, TotalOfNothing DEF Init, ReconciledAt, EmptyRow
  <2> QED
    BY <2>2, <2>3 DEF ChainsInv
<1>2. CanonicalInv /\ ChainsInv /\ [Next]_vars => ChainsInv'
  BY NextKeepsChains
<1> QED
  BY <1>1, <1>2, CanonicalInvariant, PTL DEF Spec

\* Every account's hash chain verifies at every moment (ADR-008): postings
\* become visible in the order of seq, each hashed over the one before it as
\* the table stores it, whatever else is interleaved or rolled back.
THEOREM ChainsAlwaysVerify == ASSUME CanonicalIds PROVE Spec => []ChainsVerify
<1>1. ChainsInv => ChainsVerify
  BY DEF ChainsInv
<1> QED
  BY <1>1, ChainsInvariant, PTL

\* Materialized balance, sum of postings and last balance_after agree for every
\* account at every moment (ADR-006): no update is lost.
THEOREM AlwaysReconciled == ASSUME CanonicalIds PROVE Spec => []Reconciled
<1>1. ChainsInv => Reconciled
  BY DEF ChainsInv, Reconciled, ReconciledAt
<1> QED
  BY <1>1, ChainsInvariant, PTL

-----------------------------------------------------------------------------
(* Balances net to zero                                                     *)

OfCurrency(c) == {a \in Accounts : CurrencyOf[a] = c}

Balances(c) == [a \in OfCurrency(c) |-> balance[a].balance]

BalancesNet == \A c \in Currencies : SumOf(Balances(c), OfCurrency(c)) = 0

\* A transfer moves money between two accounts of its currency; a new account
\* brings none.
LEMMA NextKeepsBalancesNet ==
  ASSUME IsFiniteSet(Accounts), CanonicalInv, ChainsInv, BalancesNet, [Next]_vars
  PROVE  BalancesNet'
<1> USE DEF CanonicalInv, LedgerInv, TypeInv, TypeOK
<1> SUFFICES ASSUME NEW c \in Currencies
             PROVE  SumOf(Balances(c)', OfCurrency(c)) = 0
  BY DEF BalancesNet, OfCurrency, SumOf, Adds
<1> DEFINE S == OfCurrency(c)
           f == Balances(c)
           e == Balances(c)'
<1>1. /\ S \subseteq Accounts /\ IsFiniteSet(S)
      /\ \A a \in S : f[a] = balance[a].balance /\ f[a] \in Int
      /\ \A a \in S : e[a] = balance'[a].balance
  BY FS_Subset DEF OfCurrency, Balances, DatabaseOK, BalanceInRange
<1>2. SumOf(f, S) = 0
  BY DEF BalancesNet
<1>3. CASE \A a \in Accounts : balance'[a].balance = balance[a].balance
  <2>1. \A a \in S : e[a] = f[a]
    BY <1>1, <1>3
  <2> HIDE DEF e, f, S
  <2> QED
    BY <1>1, <1>2, <2>1, SumSame DEF e, S
<1>4. ASSUME NEW r \in Requests, Commit(r) PROVE SumOf(e, S) = 0
  <2> DEFINE x == TargetOf(r, 1)
             y == TargetOf(r, 2)
  <2>1. 1 \in Leg /\ 2 \in Leg /\ \A i \in Leg : i = 1 \/ i = 2
    BY DEF Leg
  <2>2. x # y /\ x \in Accounts /\ y \in Accounts
    BY <1>4, <2>1 DEF LegsInv, LegsApart, Commit, Drafted, InTransaction, LocksInv,
       AccountsOpen, Locking, DatabaseOK, Inserted, Writing
  <2>3. CurrencyOf[x] = draft[r].currency /\ CurrencyOf[y] = draft[r].currency
    BY <1>4, <2>1 DEF LegsInv, CurrencyMatches, Commit, Locking, Inserted, Writing
  <2>4. \A a \in Accounts :
          IF a = x THEN balance'[a].balance = balance[a].balance + AmountOf(r, 1)
          ELSE IF a = y THEN balance'[a].balance = balance[a].balance + AmountOf(r, 2)
          ELSE balance'[a] = balance[a]
    <3> SUFFICES ASSUME NEW a \in Accounts
                 PROVE  IF a = x THEN balance'[a].balance = balance[a].balance + AmountOf(r, 1)
                        ELSE IF a = y
                        THEN balance'[a].balance = balance[a].balance + AmountOf(r, 2)
                        ELSE balance'[a] = balance[a]
      OBVIOUS
    <3>1. CASE \A i \in Leg : TargetOf(r, i) # a /\ balance'[a] = balance[a]
      BY <2>1, <3>1
    <3>2. ASSUME NEW i \in Leg, a = TargetOf(r, i),
                 BalanceAfter(r, i) = balance[a].balance + AmountOf(r, i),
                 balance'[a] = [balance |-> BalanceAfter(r, i),
                                chainHash |-> LineHash(r, i)]
          PROVE  /\ i = 1 \/ i = 2
                 /\ balance'[a].balance = balance[a].balance + AmountOf(r, i)
      BY <2>1, <3>2
    <3>3. LegsApart
      BY DEF LegsInv
    <3>4. \/ \A i \in Leg : TargetOf(r, i) # a /\ balance'[a] = balance[a]
          \/ \E i \in Leg :
               /\ a = TargetOf(r, i)
               /\ BalanceAfter(r, i) = balance[a].balance + AmountOf(r, i)
               /\ balance'[a] = [balance |-> BalanceAfter(r, i),
                                 chainHash |-> LineHash(r, i)]
      BY <1>4, <3>3, CommitAtAccount
    <3> HIDE DEF x, y
    <3>5. CASE \E i \in Leg :
                 /\ a = TargetOf(r, i)
                 /\ i = 1 \/ i = 2
                 /\ balance'[a].balance = balance[a].balance + AmountOf(r, i)
      BY <2>2, <3>5 DEF x, y
    <3> QED
      BY <3>1, <3>2, <3>4, <3>5
  <2>5. AmountOf(r, 1) \in Int /\ AmountOf(r, 2) \in Int
        /\ AmountOf(r, 1) + AmountOf(r, 2) = 0
    BY <1>4, <2>1 DEF Commit, Balanced, StageOK, Drafted, InTransaction, DraftOK,
       AmountOf, Inserted, Writing
  <2> HIDE DEF x, y
  <2>6. CASE draft[r].currency = c
    <3>1. x \in S /\ y \in S
      BY <2>2, <2>3, <2>6 DEF OfCurrency
    <3>2. /\ e[x] = f[x] + AmountOf(r, 1)
          /\ e[y] = f[y] + AmountOf(r, 2)
          /\ \A z \in S \ {x, y} : f[z] = e[z]
      BY <1>1, <2>2, <2>4, <3>1
    <3>3. \A z \in S : e[z] \in Int
      BY <1>1, <2>5, <3>1, <3>2
    <3>4. f[x] + f[y] = e[x] + e[y]
      BY <1>1, <2>5, <3>1, <3>2
    <3>5. \A z \in S : f[z] \in Int /\ e[z] \in Int
      BY <1>1, <3>3
    <3> HIDE DEF e, f, S
    <3>6. SumOf(f, S) = SumOf(e, S)
      BY <1>1, <2>2, <3>1, <3>2, <3>4, <3>5, SumMoved
    <3> QED
      BY <1>2, <3>6
  <2>7. CASE draft[r].currency # c
    <3>1. x \notin S /\ y \notin S
      BY <2>3, <2>7 DEF OfCurrency
    <3>2. \A a \in S : e[a] = f[a]
      BY <1>1, <2>4, <3>1
    <3> HIDE DEF e, f, S
    <3> QED
      BY <1>1, <1>2, <3>2, SumSame
  <2> QED
    BY <2>6, <2>7
<1>5. ASSUME NEW b \in Accounts, OpenAccount(b) PROVE SumOf(e, S) = 0
  <2>1. balance[b].balance = 0 /\ balance'[b].balance = 0
    BY <1>5, OpenAccountKeepsChains
  <2>2. \A a \in Accounts : a # b => balance'[a] = balance[a]
    BY <1>5 DEF OpenAccount, DatabaseOK
  <2> QED
    BY <1>3, <2>1, <2>2
<1>6. ASSUME NEW r \in Requests, Receive(r) \/ Serve(r) \/ Fail(r) \/ LoseAnswer(r)
      PROVE  SumOf(e, S) = 0
  BY <1>3, <1>4, <1>6, OnlyCommitWrites
<1>7. CASE UNCHANGED vars
  BY <1>3, <1>7 DEF vars
<1> QED
  BY <1>5, <1>6, <1>7 DEF Next, Quiescent

\* The balances of each currency net to zero in every reachable state.
LEMMA BalancesInvariant ==
  ASSUME CanonicalIds, IsFiniteSet(Accounts) PROVE Spec => []BalancesNet
<1>1. Init => BalancesNet
  <2> SUFFICES ASSUME Init, NEW c \in Currencies
               PROVE  SumOf(Balances(c), OfCurrency(c)) = 0
    BY DEF BalancesNet
  <2>1. IsFiniteSet(OfCurrency(c)) /\ \A a \in OfCurrency(c) : Balances(c)[a] = 0
    BY FS_Subset DEF OfCurrency, Balances, Init, EmptyRow
  <2> QED
    BY <2>1, SumOfZeros
<1>2. CanonicalInv /\ ChainsInv /\ BalancesNet /\ [Next]_vars => BalancesNet'
  BY NextKeepsBalancesNet
<1> QED
  BY <1>1, <1>2, CanonicalInvariant, ChainsInvariant, PTL DEF Spec

\* Money is neither created nor destroyed: the audit reports so of the postings,
\* and the materialized balances of each currency net to zero (ADR-005).
THEOREM MoneyConserved ==
  ASSUME CanonicalIds, IsFiniteSet(Accounts) PROVE Spec => []Conserved
<1>1. TypeInv /\ ConservedInv /\ BalancesNet => Conserved
  <2> SUFFICES ASSUME BalancesNet, NEW c \in Currencies PROVE BalanceTotal(c) = 0
    BY DEF Conserved, ConservedInv
  <2>1. IsFiniteSet({a \in Accounts : CurrencyOf[a] = c})
    BY FS_Subset
  <2> QED
    BY <2>1, BalanceTotalIsSum DEF BalancesNet, Balances, OfCurrency
<1> QED
  BY <1>1, TypeInvariant, ConservedInvariant, BalancesInvariant, PTL

-----------------------------------------------------------------------------
(* The atomic ledger                                                        *)

\* The draft of a transfer is what its body asked for.
TransferDrafts ==
  \A r \in Requests : pc[r] \in Drafted /\ IsTransfer(r) =>
    /\ TransferVerdict(input[r]) = "ok"
    /\ draft[r].currency = input[r].currency
    /\ draft[r].legs = TransferLegs(input[r].from, input[r].to, input[r].amount)

\* Nothing changes a transfer's draft.
LEMMA StepKeepsTransferDrafts ==
  ASSUME TypeInv, CheckedHasNoKey, DraftsKnowKind, TransferDrafts, NEW r \in Requests,
         Receive(r) \/ Serve(r) \/ Fail(r) \/ LoseAnswer(r)
  PROVE  TransferDrafts'
<1> USE DEF TypeInv, TypeOK, RequestsOK
<1>1. Alone(r) /\ (SilentStep(r) \/ Commit(r))
  BY RecordingSteps
<1>2. \A q \in Requests \ {r} : /\ pc'[q] = pc[q] /\ input'[q] = input[q]
                                /\ draft'[q] = draft[q]
  BY <1>1 DEF Alone
<1>3. pc[r] \in Drafted => input'[r] = input[r]
  BY <1>1 DEF SilentStep, Commit, Drafted, InTransaction, Inserted, Writing
<1> SUFFICES ASSUME pc'[r] \in Drafted, IsTransfer(r)'
             PROVE  /\ TransferVerdict(input'[r]) = "ok"
                    /\ draft'[r].currency = input'[r].currency
                    /\ draft'[r].legs = TransferLegs(input'[r].from, input'[r].to,
                                                     input'[r].amount)
  BY <1>2 DEF TransferDrafts, IsTransfer
<1>4. CASE draft' = draft /\ (pc'[r] \in Drafted => pc[r] \in Drafted)
  BY <1>3, <1>4 DEF TransferDrafts, IsTransfer
<1>5. ASSUME NEW in \in Inputs, AcceptTransfer(r, in)
      PROVE  /\ TransferVerdict(input'[r]) = "ok"
             /\ draft'[r].currency = input'[r].currency
             /\ draft'[r].legs = TransferLegs(input'[r].from, input'[r].to,
                                              input'[r].amount)
  BY <1>5 DEF AcceptTransfer
<1>6. CASE LookupOriginal(r)
  <2>1. ~IsTransfer(r) /\ input' = input
    BY <1>6 DEF LookupOriginal, DraftsKnowKind
  <2> QED
    BY <2>1 DEF IsTransfer
<1> QED
  BY <1>4, <1>5, <1>6, DraftsMade

\* The draft of a transfer is the one its body asks for.
LEMMA TransferDraftsInvariant == ASSUME CanonicalIds PROVE Spec => []TransferDrafts
<1>1. Init => TransferDrafts
  BY DEF Init, TransferDrafts, Drafted, InTransaction, Inserted, Writing
<1>2. CanonicalInv /\ TransferDrafts /\ [Next]_vars => TransferDrafts'
  <2> SUFFICES ASSUME CanonicalInv, TransferDrafts, [Next]_vars PROVE TransferDrafts'
    OBVIOUS
  <2>1. CASE UNCHANGED vars \/ \E a \in Accounts : OpenAccount(a)
    <3>1. pc' = pc /\ draft' = draft /\ input' = input
      BY <2>1 DEF vars, OpenAccount
    <3> QED
      BY <3>1 DEF TransferDrafts, IsTransfer
  <2>2. ASSUME NEW r \in Requests, Receive(r) \/ Serve(r) \/ Fail(r) \/ LoseAnswer(r)
        PROVE  TransferDrafts'
    BY <2>2, StepKeepsTransferDrafts DEF CanonicalInv, LedgerInv, ClaimsInv, EventsInv
  <2> QED
    BY <2>1, <2>2 DEF Next, Quiescent
<1> QED
  BY <1>1, <1>2, CanonicalInvariant, PTL DEF Spec

\* The legs a request is about to record, as the atomic ledger sees them.
AbstractLegs(r) ==
  [i \in Leg |-> [account |-> TargetOf(r, i), amount |-> AmountOf(r, i)]]

\* A COMMIT adds its entry and nothing else to the abstract journal.
LEMMA CommitAddsEntry ==
  ASSUME LedgerInv, NEW r \in Requests, Commit(r)
  PROVE  {AbstractEntry(j) : j \in journal}' =
           {AbstractEntry(j) : j \in journal} \cup
           {[id |-> r, legs |-> AbstractLegs(r), key |-> KeyOf(r),
             reverses |-> draft[r].reverses]}
<1>1. journal' = journal \cup {JournalRow(r)} /\ input' = input
  BY DEF Commit
<1>2. \A j : AbstractEntry(j)' = AbstractEntry(j)
  BY <1>1 DEF AbstractEntry, KeyOf, IsTransfer
<1>3. \A i \in Leg : /\ JournalRow(r).postings[i].account = TargetOf(r, i)
                     /\ JournalRow(r).postings[i].amount = AmountOf(r, i)
  BY DEF JournalRow
<1>4. AbstractEntry(JournalRow(r)) =
        [id |-> r, legs |-> AbstractLegs(r), key |-> KeyOf(r),
         reverses |-> draft[r].reverses]
  <2>1. JournalRow(r).id = r /\ JournalRow(r).reverses = draft[r].reverses
    BY DEF JournalRow
  <2>2. [i \in Leg |-> [account |-> JournalRow(r).postings[i].account,
                        amount |-> JournalRow(r).postings[i].amount]] = AbstractLegs(r)
    BY <1>3 DEF AbstractLegs
  <2> QED
    BY <2>1, <2>2 DEF AbstractEntry
<1>5. {AbstractEntry(j) : j \in journal}' =
        {AbstractEntry(j) : j \in journal \cup {JournalRow(r)}}
  BY <1>1, <1>2
<1> HIDE DEF AbstractEntry, AbstractLegs, JournalRow
<1> QED
  BY <1>4, <1>5

\* A COMMIT moves the committed balances by what its legs say.
LEMMA CommitMovesBalances ==
  ASSUME LedgerInv, LegsApart, NEW r \in Requests, Commit(r), NEW a \in Accounts
  PROVE  balance'[a].balance = balance[a].balance + Atomic!Delta(AbstractLegs(r), a)
<1>1. TargetOf(r, 1) # TargetOf(r, 2)
  BY DEF Commit, LegsApart, Drafted, InTransaction, Inserted, Writing
<1>2. \A i \in Leg : AbstractLegs(r)[i].account = TargetOf(r, i)
                     /\ AbstractLegs(r)[i].amount = AmountOf(r, i)
  BY DEF AbstractLegs
<1>3. balance[a].balance \in Int
  BY DEF LedgerInv, TypeInv, TypeOK, DatabaseOK, BalanceInRange
<1>4. \A i \in Leg : AmountOf(r, i) \in Int
  BY DEF LedgerInv, TypeInv, StageOK, DraftOK, AmountOf, Commit, Drafted,
     InTransaction, Inserted, Writing
<1>5. 1 \in Leg /\ 2 \in Leg /\ \A i \in Leg : i = 1 \/ i = 2
  BY DEF Leg
<1>6. CASE \A i \in Leg : TargetOf(r, i) # a
  <2>1. Atomic!Delta(AbstractLegs(r), a) = 0
    BY <1>2, <1>5, <1>6 DEF Atomic!Delta
  <2>2. balance'[a] = balance[a]
    BY <1>6, CommitAtAccount
  <2> QED
    BY <1>3, <2>1, <2>2
<1>7. ASSUME NEW i \in Leg, a = TargetOf(r, i)
      PROVE  balance'[a].balance = balance[a].balance + Atomic!Delta(AbstractLegs(r), a)
  <2>1. \A k \in Leg : a = TargetOf(r, k) => k = i
    BY <1>1, <1>5, <1>7
  <2>2. /\ BalanceAfter(r, i) = balance[a].balance + AmountOf(r, i)
        /\ balance'[a].balance = BalanceAfter(r, i)
    <3>1. PICK k \in Leg : /\ a = TargetOf(r, k)
                           /\ BalanceAfter(r, k) = balance[a].balance + AmountOf(r, k)
                           /\ balance'[a] = [balance |-> BalanceAfter(r, k),
                                             chainHash |-> LineHash(r, k)]
      BY <1>7, CommitAtAccount
    <3> QED
      BY <2>1, <3>1
  <2>3. Atomic!Delta(AbstractLegs(r), a) = AmountOf(r, i)
    BY <1>1, <1>2, <1>4, <1>5, <1>7 DEF Atomic!Delta
  <2> QED
    BY <2>2, <2>3
<1> QED
  BY <1>6, <1>7

\* A COMMIT is the atomic ledger's posting of one entry.
LEMMA CommitPosts ==
  ASSUME CanonicalInv, NEW r \in Requests, Commit(r)
  PROVE  Atomic!Post(r, AbstractLegs(r), KeyOf(r), draft[r].reverses)
<1> USE DEF CanonicalInv
<1>1. \A e \in {AbstractEntry(j) : j \in journal} : e.id # r
  <2>1. \A j \in journal : j.id # r
    BY DEF Commit, LedgerInv, ClaimsInv, JournalFromAnswered, Answered
  <2>2. \A j : AbstractEntry(j).id = j.id
    BY DEF AbstractEntry
  <2> QED
    BY <2>1, <2>2
<1>2. ASSUME NEW i \in Atomic!Leg, AbstractLegs(r)[i].account \notin SystemAccounts
      PROVE  [a \in Accounts |-> balance[a].balance][AbstractLegs(r)[i].account]
             + Atomic!Delta(AbstractLegs(r), AbstractLegs(r)[i].account) >= 0
  <2>1. i \in Leg
    BY DEF Atomic!Leg, Leg
  <2>2. /\ AbstractLegs(r)[i].account = TargetOf(r, i)
        /\ RefOf(r, i) \in Accounts /\ TargetOf(r, i) = RefOf(r, i)
    <3>1. RefOf(r, i) \in Accounts
      BY <2>1 DEF FundsInv, RefsCanonical, Commit, Drafted, InTransaction, Inserted,
         Writing
    <3> QED
      BY <2>1, <3>1, RefsAssumption DEF AbstractLegs, TargetOf
  <2>3. BalanceAfter(r, i) >= 0
    BY <1>2, <2>1, <2>2 DEF FundsInv, FundsChecked, Commit, Sufficient, Guarded,
       Inserted, Writing
  <2>4. locked[r][i] = balance[TargetOf(r, i)]
    BY <2>1 DEF LedgerInv, LocksInv, HeldByStage, LockedCurrent, Commit, Locking,
       Inserted, Writing
  <2>5. balance'[TargetOf(r, i)].balance =
          balance[TargetOf(r, i)].balance + Atomic!Delta(AbstractLegs(r), TargetOf(r, i))
    BY <2>2, CommitMovesBalances DEF LegsInv
  <2>6. balance'[TargetOf(r, i)].balance = BalanceAfter(r, i)
    <3> DEFINE a == TargetOf(r, i)
    <3>1. PICK k \in Leg : /\ a = TargetOf(r, k)
                           /\ balance'[a] = [balance |-> BalanceAfter(r, k),
                                             chainHash |-> LineHash(r, k)]
      <4>1. a \in Accounts
        BY <2>2
      <4> HIDE DEF a
      <4>2. a = TargetOf(r, i)
        BY DEF a
      <4> QED
        BY <2>1, <4>1, <4>2, CommitAtAccount DEF LegsInv
    <3>2. TargetOf(r, 1) # TargetOf(r, 2)
      BY DEF Commit, LegsInv, LegsApart, Drafted, InTransaction, Inserted, Writing
    <3>3. k = i
      BY <2>1, <3>1, <3>2 DEF Leg
    <3> QED
      BY <3>1, <3>3
  <2> QED
    BY <2>2, <2>3, <2>5, <2>6
<1>3. [a \in Accounts |-> balance[a].balance]' =
        [a \in Accounts |-> [b \in Accounts |-> balance[b].balance][a]
                            + Atomic!Delta(AbstractLegs(r), a)]
  <2>1. \A a \in Accounts : balance'[a].balance =
          balance[a].balance + Atomic!Delta(AbstractLegs(r), a)
    BY CommitMovesBalances DEF LegsInv
  <2> QED
    BY <2>1
<1>4. opened' = opened
  BY DEF Commit
<1> QED
  BY <1>1, <1>2, <1>3, <1>4, CommitAddsEntry DEF Atomic!Post

\* The COMMIT of a transfer is a transfer of the atomic ledger.
LEMMA TransferCommits ==
  ASSUME CanonicalInv, TransferDrafts, NEW r \in Requests, Commit(r), IsTransfer(r)
  PROVE  Atomic!Next
<1> DEFINE in == input[r]
<1> USE DEF CanonicalInv
<1>1. in \in Inputs /\ in.kind = "transfer"
  BY DEF LedgerInv, TypeInv, TypeOK, RequestsOK, IsTransfer
<1>2. /\ TransferVerdict(in) = "ok"
      /\ draft[r].currency = in.currency
      /\ draft[r].legs = TransferLegs(in.from, in.to, in.amount)
  BY DEF TransferDrafts, Commit, Drafted, InTransaction, Inserted, Writing
<1>3. draft[r].reverses = None
  BY DEF EventsInv, DraftsKnowKind, Commit, Drafted, InTransaction, Inserted,
     Writing
<1>4. /\ RefOf(r, 1) = in.from /\ AmountOf(r, 1) = -in.amount
      /\ RefOf(r, 2) = in.to /\ AmountOf(r, 2) = in.amount
  BY <1>2 DEF TransferLegs, RefOf, AmountOf, Leg
<1>5. /\ in.from \in Accounts /\ TargetOf(r, 1) = in.from
      /\ in.to \in Accounts /\ TargetOf(r, 2) = in.to
  <2>1. RefOf(r, 1) \in Accounts /\ RefOf(r, 2) \in Accounts
    BY DEF FundsInv, RefsCanonical, Commit, Drafted, InTransaction, Leg, Inserted,
       Writing
  <2> QED
    BY <1>4, <2>1, RefsAssumption DEF TargetOf
<1>6. AbstractLegs(r) = Atomic!TransferLegs(in.from, in.to, in.amount)
  BY <1>4, <1>5 DEF AbstractLegs, Atomic!TransferLegs, Leg, Atomic!Leg
<1>7. {in.from, in.to} \subseteq opened
  BY <1>5 DEF LedgerInv, LocksInv, AccountsOpen, Commit, Locking, Leg, Inserted,
     Writing
<1>8. in.from # in.to
  BY <1>2 DEF TransferVerdict
<1>9. CurrencyOf[in.from] = CurrencyOf[in.to]
  BY <1>5 DEF LegsInv, CurrencyMatches, Commit, Locking, Leg, Inserted, Writing
<1>10. KeyOf(r) \in Keys \cup {None}
  BY KeyTyped DEF LedgerInv
<1>11. KeyOf(r) # None => \A e \in {AbstractEntry(j) : j \in journal} : e.key # KeyOf(r)
  <2> SUFFICES ASSUME KeyOf(r) # None, NEW j \in journal, KeyOf(j.id) = KeyOf(r)
               PROVE  FALSE
    BY DEF AbstractEntry
  <2>1. idem[KeyOf(r)] # None
    BY DEF KeysRecorded
  <2>2. idem[KeyOf(r)] = None
    BY DEF LedgerInv, ClaimsInv, ClaimsOwned, Commit, Claiming, Inserted, Writing
  <2> QED
    BY <2>1, <2>2
<1>12. in.amount \in {x.amount : x \in {y \in Inputs : y.kind = "transfer"}}
  BY <1>1
<1>13. Atomic!Transfer(r, in.from, in.to, in.amount, KeyOf(r))
  <2>1. Atomic!Post(r, Atomic!TransferLegs(in.from, in.to, in.amount), KeyOf(r), None)
    BY <1>3, <1>6, CommitPosts DEF Atomic!Post
  <2> QED
    BY <1>7, <1>8, <1>9, <1>11, <2>1 DEF Atomic!Transfer
<1> QED
  BY <1>5, <1>10, <1>12, <1>13 DEF Atomic!Next

\* The COMMIT of a reversal compensates an entry nobody compensated.
LEMMA ReversalCommits ==
  ASSUME CanonicalInv, NEW r \in Requests, Commit(r), ~IsTransfer(r)
  PROVE  Atomic!Next
<1> USE DEF CanonicalInv
<1>1. draft[r].reverses # None
  BY DEF EventsInv, DraftsKnowKind, Commit, Drafted, InTransaction, Inserted,
     Writing
<1>2. PICK o \in journal : Undoes(r, o)
  BY <1>1 DEF LedgerInv, ReversalsInv, DraftsUndo, Commit, Drafted, InTransaction,
     Inserted, Writing
<1>3. o.id = draft[r].reverses /\ AbstractEntry(o).id = o.id
  BY <1>2 DEF Undoes, AbstractEntry
<1>4. \A e \in {AbstractEntry(j) : j \in journal} : e.reverses # AbstractEntry(o).id
  <2>1. ~ReversalCommitted(draft[r].reverses)
    BY <1>1 DEF LedgerInv, ReversalsInv, IndexOwned, Commit, Inserted, Writing
  <2> QED
    BY <1>3, <2>1 DEF ReversalCommitted, AbstractEntry
<1>5. AbstractLegs(r) = Atomic!NegatedLegs(AbstractEntry(o).legs)
  <2>1. ASSUME NEW i \in Leg
        PROVE  /\ TargetOf(r, i) = AbstractEntry(o).legs[i].account
               /\ AmountOf(r, i) = -AbstractEntry(o).legs[i].amount
    <3>1. RefOf(r, i) = o.postings[i].account /\ AmountOf(r, i) = -o.postings[i].amount
      BY <1>2 DEF Undoes
    <3>2. RefOf(r, i) \in Accounts
      BY DEF FundsInv, RefsCanonical, Commit, Drafted, InTransaction, Inserted,
         Writing
    <3>3. TargetOf(r, i) = RefOf(r, i)
      BY <3>2, RefsAssumption DEF TargetOf
    <3>4. /\ AbstractEntry(o).legs[i].account = o.postings[i].account
          /\ AbstractEntry(o).legs[i].amount = o.postings[i].amount
      BY DEF AbstractEntry
    <3> QED
      BY <3>1, <3>3, <3>4
  <2> QED
    BY <2>1 DEF AbstractLegs, Atomic!NegatedLegs, Leg, Atomic!Leg
<1>6. KeyOf(r) = None
  BY DEF KeyOf
<1>7. Atomic!Reverse(r, AbstractEntry(o))
  <2>1. Atomic!Post(r, Atomic!NegatedLegs(AbstractEntry(o).legs), None,
                    AbstractEntry(o).id)
    BY <1>3, <1>5, <1>6, CommitPosts DEF Atomic!Post
  <2> QED
    BY <1>4, <2>1 DEF Atomic!Reverse
<1> QED
  BY <1>7 DEF Atomic!Next

\* Every other step is invisible to the atomic ledger.
LEMMA StepImplements ==
  ASSUME CanonicalInv, ChainsInv, TransferDrafts, [Next]_vars
  PROVE  Atomic!Next \/ UNCHANGED Atomic!vars
<1>1. ASSUME UNCHANGED <<opened, balance, journal>>,
             \A j \in journal : KeyOf(j.id)' = KeyOf(j.id)
      PROVE  UNCHANGED Atomic!vars
  <2>1. \A j \in journal : AbstractEntry(j)' = AbstractEntry(j)
    BY <1>1 DEF AbstractEntry
  <2>2. {AbstractEntry(j) : j \in journal}' = {AbstractEntry(j) : j \in journal}
    BY <1>1, <2>1
  <2>3. [a \in Accounts |-> balance[a].balance]' = [a \in Accounts |-> balance[a].balance]
    BY <1>1
  <2> QED
    BY <1>1, <2>2, <2>3 DEF Atomic!vars
<1>2. CASE UNCHANGED vars
  BY <1>1, <1>2 DEF vars, KeyOf, IsTransfer
<1>3. ASSUME NEW b \in Accounts, OpenAccount(b) PROVE Atomic!Next
  <2>1. /\ b \notin opened /\ opened' = opened \cup {b} /\ journal' = journal
        /\ input' = input
        /\ \A a \in Accounts \ {b} : balance'[a] = balance[a]
    BY <1>3 DEF OpenAccount, CanonicalInv, LedgerInv, TypeInv, TypeOK, DatabaseOK
  <2>2. balance[b].balance = 0 /\ balance'[b].balance = 0
    BY <1>3, OpenAccountKeepsChains DEF CanonicalInv
  <2>3. [a \in Accounts |-> balance[a].balance]' = [a \in Accounts |-> balance[a].balance]
    <3>1. \A a \in Accounts : balance'[a].balance = balance[a].balance
      BY <2>1, <2>2
    <3> QED
      BY <3>1
  <2>4. {AbstractEntry(j) : j \in journal}' = {AbstractEntry(j) : j \in journal}
    BY <2>1 DEF AbstractEntry, KeyOf, IsTransfer
  <2>5. Atomic!Open(b)
    BY <2>1, <2>3, <2>4 DEF Atomic!Open
  <2> QED
    BY <2>5 DEF Atomic!Next
<1>4. ASSUME NEW r \in Requests, Receive(r) \/ Serve(r) \/ Fail(r) \/ LoseAnswer(r)
      PROVE  Atomic!Next \/ UNCHANGED Atomic!vars
  <2>1. CASE Commit(r)
    BY <2>1, TransferCommits, ReversalCommits
  <2>2. CASE UNCHANGED <<opened, balance, journal>>
    <3>1. Alone(r) /\ (SilentStep(r) \/ Commit(r))
      BY <1>4, RecordingSteps DEF CanonicalInv, LedgerInv, ClaimsInv
    <3>2. CASE SilentStep(r)
      <4>1. \A j \in journal : j.id \in Requests /\ pc[j.id] \in Answered
        BY DEF CanonicalInv, LedgerInv, TypeInv, TypeOK, DatabaseOK, ClaimsInv,
           JournalFromAnswered
      <4>2. \A q \in Requests : pc[q] \in Answered => input'[q] = input[q]
        BY <3>1, <3>2 DEF Alone, SilentStep, Answered
      <4> QED
        BY <1>1, <2>2, <4>1, <4>2 DEF KeyOf, IsTransfer
    <3> QED
      BY <2>1, <3>1, <3>2
  <2> QED
    BY <1>4, <2>1, <2>2, OnlyCommitWrites DEF CanonicalInv, LedgerInv
<1> QED
  BY <1>2, <1>3, <1>4 DEF Next, Quiescent

\* The concurrent ledger implements the atomic one (ADR-006): each COMMIT is
\* one atomic entry against the balances of that moment, each account opened
\* is an account opened, and no other step is visible.
THEOREM LedgerImplementsAtomic ==
  ASSUME CanonicalIds PROVE Spec => ImplementsAtomicLedger
<1>1. Init => Atomic!Init
  <2> SUFFICES ASSUME Init PROVE Atomic!Init
    OBVIOUS
  <2>1. opened \in SUBSET Accounts
    BY AccountsAssumption DEF Init
  <2>2. [a \in Accounts |-> balance[a].balance] = [a \in Accounts |-> 0]
    BY DEF Init, EmptyRow
  <2>3. {AbstractEntry(j) : j \in journal} = {}
    BY DEF Init
  <2> QED
    BY <2>1, <2>2, <2>3 DEF Atomic!Init
<1>2. CanonicalInv /\ ChainsInv /\ TransferDrafts /\ [Next]_vars =>
        [Atomic!Next]_(Atomic!vars)
  BY StepImplements
<1> QED
  BY <1>1, <1>2, CanonicalInvariant, ChainsInvariant, TransferDraftsInvariant, PTL
     DEF Spec, ImplementsAtomicLedger, Atomic!Spec
=============================================================================
