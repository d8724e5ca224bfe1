---------------------------- MODULE ReadersProofs ----------------------------
(***************************************************************************)
(* The readers of the ledger, for every value of the constants: the        *)
(* integrity page, the statement page and the accounts page beside any     *)
(* number of requests. They write nothing, so what was proved of Ledger    *)
(* holds around them; what is left is that the parts of a report, which    *)
(* come from statements of different moments, fit together.                *)
(*                                                                         *)
(* Postings are paged by their place among the postings of the account:    *)
(* the rank of a posting never changes, since every later one has a        *)
(* greater seq.                                                            *)
(***************************************************************************)
EXTENDS AccountsPage, LedgerMoneyProofs

-----------------------------------------------------------------------------
(* Beside the write side                                                    *)

\* The readers change nothing of the ledger.
LEMMA ReadersLeaveLedger == ReadersSpec => Spec
<1>1. ReadersInit => Init
  BY DEF ReadersInit
<1>2. [ReadersNext]_allVars => [Next]_vars
  BY DEF ReadersNext, allVars, Write, Browse, Render, ReadBalance, ReadStatement,
     LoadMore, ShowPage, LosePage, Refresh, Close, Verify, ReadConservation,
     ReadPostings, ReadState, Reverify
<1> QED
  BY <1>1, <1>2, PTL DEF ReadersSpec, Spec

-----------------------------------------------------------------------------
(* The integrity page                                                       *)

AuditTyped ==
  /\ audit = [stage |-> audit.stage, conserved |-> audit.conserved,
              postings |-> audit.postings, quiet |-> audit.quiet,
              report |-> audit.report]
  /\ audit.quiet \in BOOLEAN

\* The page has a report only at its end; what it read so far is healthy.
AuditHealthy ==
  /\ AuditTyped
  /\ audit.conserved = TRUE
  /\ audit.stage = "postings" => ChainValid(audit.postings)
  /\ audit.report.chainValid = TRUE

\* The steps of the page and of the write side, as the page sees them.
LEMMA AuditSteps ==
  ASSUME AuditTyped, [ReadersNext]_allVars
  PROVE  \/ /\ audit' = [audit EXCEPT !.quiet = audit'.quiet]
            /\ audit'.quiet \in BOOLEAN
            /\ audit'.quiet =>
                 audit.quiet /\ (audit.stage = "postings" => journal' = journal)
            /\ [Next]_vars
         \/ Verify /\ UNCHANGED vars
<1>1. CASE UNCHANGED <<vars, audit>>
  BY <1>1 DEF AuditTyped, vars
<1>2. CASE Write
  BY <1>2 DEF AuditTyped, Write
<1>3. CASE Browse
  BY <1>1, <1>3 DEF Browse, Render, ReadBalance, ReadStatement, LoadMore, ShowPage,
     LosePage, Refresh, Close
<1>4. CASE Verify
  BY <1>4 DEF Verify, ReadConservation, ReadPostings, ReadState, Reverify
<1>5. CASE UNCHANGED allVars
  BY <1>1, <1>5 DEF allVars, readers
<1> QED
  BY <1>2, <1>3, <1>4, <1>5 DEF ReadersNext

\* A report is made of a conservation and a chain that were right when they were read.
LEMMA NextKeepsHealthy ==
  ASSUME ConservationReported, ChainsVerify, AuditHealthy, [ReadersNext]_allVars
  PROVE  AuditHealthy'
<1> USE DEF AuditHealthy
<1>1. CASE audit' = [audit EXCEPT !.quiet = audit'.quiet] /\ audit'.quiet \in BOOLEAN
  <2>1. /\ audit'.stage = audit.stage /\ audit'.conserved = audit.conserved
        /\ audit'.postings = audit.postings /\ audit'.report = audit.report
    BY <1>1 DEF AuditTyped
  <2> QED
    BY <1>1, <2>1 DEF AuditTyped, ChainValid, HeadHash, Latest
<1>2. CASE ReadConservation
  BY <1>2 DEF ReadConservation, AuditTyped
<1>3. CASE ReadPostings
  <2>1. /\ audit'.postings = PostingsOf(Watched) /\ audit'.report = audit.report
        /\ audit'.conserved = audit.conserved /\ AuditTyped'
    BY <1>3 DEF ReadPostings, AuditTyped
  <2>2. ChainValid(PostingsOf(Watched))
    BY ReadersAssumption DEF ChainsVerify
  <2>3. ChainValid(audit.postings)'
    BY <2>1, <2>2 DEF ChainValid, HeadHash, Latest
  <2> QED
    BY <2>1, <2>3
<1>4. CASE ReadState
  BY <1>4 DEF ReadState, AuditTyped, Report
<1>5. CASE Reverify
  BY <1>5 DEF Reverify, AuditTyped, NoAudit, NoReport
<1> QED
  BY <1>1, <1>2, <1>3, <1>4, <1>5, AuditSteps DEF Verify

\* The page never shows a broken chain or money out of nothing, whatever
\* commits around its reads (audit.service.ts, chainValid and conserved).
THEOREM AuditSaysTheTruth ==
  ASSUME CanonicalIds PROVE ReadersSpec => []AuditNeverBroken
<1>1. ReadersInit => AuditHealthy
  BY DEF ReadersInit, AuditHealthy, AuditTyped, NoAudit, NoReport
<1>2. ConservationReported /\ ChainsVerify /\ AuditHealthy /\ [ReadersNext]_allVars
        => AuditHealthy'
  BY NextKeepsHealthy
<1>3. AuditHealthy => AuditNeverBroken
  BY DEF AuditHealthy, AuditNeverBroken
<1> QED
  BY <1>1, <1>2, <1>3, ReadersLeaveLedger, MoneyReportedConserved, ChainsAlwaysVerify,
     PTL DEF ReadersSpec

\* As long as no transaction has committed since the page read the postings,
\* they are the account's postings.
AuditFresh ==
  /\ AuditTyped
  /\ audit.quiet /\ audit.stage = "postings" => audit.postings = PostingsOf(Watched)
  /\ audit.quiet \/ audit.stage # "reported" => Intact(audit.report)

\* As long as nothing commits, what the audit has read is what the tables hold.
LEMMA NextKeepsFresh ==
  ASSUME ChainsInv, AuditFresh, [ReadersNext]_allVars
  PROVE  AuditFresh'
<1> USE DEF AuditFresh
<1>1. CASE /\ audit' = [audit EXCEPT !.quiet = audit'.quiet]
           /\ audit'.quiet \in BOOLEAN
           /\ audit'.quiet =>
                audit.quiet /\ (audit.stage = "postings" => journal' = journal)
  <2>1. /\ audit'.stage = audit.stage /\ audit'.postings = audit.postings
        /\ audit'.report = audit.report /\ AuditTyped'
    BY <1>1 DEF AuditTyped
  <2>2. journal' = journal => PostingsOf(Watched)' = PostingsOf(Watched)
    BY DEF PostingsOf, Postings
  <2>3. Intact(audit.report)' <=> Intact(audit.report)
    BY <2>1 DEF Intact
  <2>4. (audit.quiet /\ audit.stage = "postings" => audit.postings = PostingsOf(Watched))'
    BY <1>1, <2>1, <2>2
  <2>5. (audit.quiet \/ audit.stage # "reported" => Intact(audit.report))'
    BY <1>1, <2>1, <2>3
  <2> QED
    BY <2>1, <2>4, <2>5
<1>2. CASE ReadConservation
  <2>1. /\ audit.stage = "idle" /\ audit'.stage = "listed"
        /\ audit'.quiet = audit.quiet /\ audit'.report = audit.report /\ AuditTyped'
    BY <1>2 DEF ReadConservation, AuditTyped
  <2> QED
    BY <2>1 DEF Intact
<1>3. CASE ReadPostings /\ UNCHANGED vars
  <2>1. /\ audit'.postings = PostingsOf(Watched) /\ audit'.report = audit.report
        /\ audit.stage = "listed" /\ AuditTyped'
    BY <1>3 DEF ReadPostings, AuditTyped
  <2>2. PostingsOf(Watched)' = PostingsOf(Watched)
    BY <1>3 DEF vars, PostingsOf, Postings
  <2>3. Intact(audit.report)
    BY <2>1
  <2> QED
    BY <2>1, <2>2, <2>3 DEF Intact
<1>4. CASE ReadState /\ UNCHANGED vars
  <2>1. /\ audit.stage = "postings" /\ audit'.stage = "reported"
        /\ audit'.quiet = audit.quiet /\ AuditTyped'
        /\ audit'.report = Report(audit.postings, balance[Watched])
    BY <1>4 DEF ReadState, AuditTyped
  <2>2. ASSUME audit.quiet
        PROVE  Intact(Report(PostingsOf(Watched), balance[Watched]))
    <3>1. ReconciledAt(Watched) /\ ChainValid(PostingsOf(Watched))
      BY ReadersAssumption DEF ChainsInv, ChainsVerify
    <3>2. CASE PostingsOf(Watched) = {}
      BY <3>1, <3>2, TotalOfNothing
         DEF ReconciledAt, Intact, Report, LastBalance, HeadHash
    <3>3. CASE PostingsOf(Watched) # {}
      <4> DEFINE P == PostingsOf(Watched)
                 row == balance[Watched]
      <4>1. row.balance = Total(P) /\ row = [balance |-> Latest(P).balanceAfter,
                                             chainHash |-> Latest(P).hash]
        BY <3>1, <3>3 DEF ReconciledAt
      <4>2. P # {} /\ ChainValid(P)
        BY <3>1, <3>3
      <4> HIDE DEF P, row
      <4>3. row.balance = Latest(P).balanceAfter /\ row.chainHash = Latest(P).hash
        BY <4>1
      <4>4. Intact(Report(P, row))
        BY <4>1, <4>2, <4>3 DEF Intact, Report, LastBalance, HeadHash
      <4> QED
        BY <4>4 DEF P, row
    <3> QED
      BY <3>2, <3>3
  <2>3. (audit.quiet => Intact(audit.report))'
    <3> SUFFICES ASSUME audit.quiet PROVE Intact(audit.report)'
      BY <2>1
    <3>1. audit.postings = PostingsOf(Watched)
      BY <2>1
    <3> QED
      BY <2>1, <2>2, <3>1 DEF Intact
  <2> QED
    BY <2>1, <2>3
<1>5. CASE Reverify
  BY <1>5 DEF Reverify, AuditTyped, NoAudit, NoReport, Intact
<1> QED
  BY <1>1, <1>2, <1>3, <1>4, <1>5, AuditSteps DEF Verify

\* The audit has no false alarm as long as no transaction commits between its
\* two reads: the page shows the account as intact (integrity/page.tsx), with
\* other transactions half-way through.
THEOREM AuditIsCleanAtRest ==
  ASSUME CanonicalIds PROVE ReadersSpec => []AuditCleanAtRest
<1>1. ReadersInit => AuditFresh
  BY DEF ReadersInit, AuditFresh, AuditTyped, NoAudit, NoReport, Intact
<1>2. ChainsInv /\ AuditFresh /\ [ReadersNext]_allVars => AuditFresh'
  BY NextKeepsFresh
<1>3. AuditFresh => AuditCleanAtRest
  BY DEF AuditFresh, AuditCleanAtRest
<1> QED
  BY <1>1, <1>2, <1>3, ReadersLeaveLedger, ChainsInvariant, PTL DEF ReadersSpec

-----------------------------------------------------------------------------
(* The accounts page                                                        *)

ViewTyped ==
  /\ view = [stage |-> view.stage, balance |-> view.balance, entries |-> view.entries,
             cursor |-> view.cursor, answer |-> view.answer, quiet |-> view.quiet,
             reread |-> view.reread]
  /\ view.quiet \in BOOLEAN

ReadersTyped == AuditTyped /\ ViewTyped

LEMMA ReadersInitTyped == ReadersInit => ReadersTyped
  BY DEF ReadersInit, ReadersTyped, AuditTyped, ViewTyped, NoAudit, Closed

LEMMA ReadersNextTyped ==
  ASSUME ReadersTyped, [ReadersNext]_allVars
  PROVE  ReadersTyped'
<1> USE DEF ReadersTyped
<1>1. AuditTyped'
  <2>1. CASE audit' = [audit EXCEPT !.quiet = audit'.quiet] /\ audit'.quiet \in BOOLEAN
    BY <2>1 DEF AuditTyped
  <2>2. CASE ReadConservation
    BY <2>2 DEF ReadConservation, AuditTyped
  <2>3. CASE ReadPostings
    BY <2>3 DEF ReadPostings, AuditTyped
  <2>4. CASE ReadState
    BY <2>4 DEF ReadState, AuditTyped
  <2>5. CASE Reverify
    BY <2>5 DEF Reverify, AuditTyped, NoAudit
  <2> QED
    BY <2>1, <2>2, <2>3, <2>4, <2>5, AuditSteps DEF Verify
<1>2. ViewTyped'
  <2>1. CASE UNCHANGED view
    BY <2>1 DEF ViewTyped
  <2>2. CASE Write
    BY <2>2 DEF Write, ViewTyped
  <2>3. CASE ReadBalance \/ ReadStatement \/ LoadMore
    BY <2>3 DEF ReadBalance, ReadStatement, LoadMore, ViewTyped, Closed
  <2>4. CASE ShowPage
    BY <2>4 DEF ShowPage, ViewTyped
  <2>6. CASE LosePage
    BY <2>6 DEF LosePage, ViewTyped
  <2>7. CASE Refresh
    BY <2>7 DEF Refresh, ViewTyped
  <2>8. CASE Close
    BY <2>8 DEF Close, ViewTyped, Closed
  <2>5. CASE Verify
    BY <2>1, <2>5 DEF Verify, ReadConservation, ReadPostings, ReadState, Reverify
  <2> QED
    BY <2>1, <2>2, <2>3, <2>4, <2>5, <2>6, <2>7, <2>8
       DEF ReadersNext, Browse, Render, allVars, readers
<1> QED
  BY <1>1, <1>2

\* What the pages beside the accounts page and the server do, and its own steps.
LEMMA PageSteps ==
  ASSUME ReadersTyped, [PageNext]_dashboard
  PROVE  [ReadersNext]_allVars
<1>1. CASE OtherSteps
  BY <1>1 DEF OtherSteps, ReadersNext
<1>2. CASE UNCHANGED allVars
  BY <1>2
<1>3. CASE ListSteps
  BY <1>2, <1>3 DEF ListSteps, ListAccounts, ShowList, FailList, Leave,
     ReadListedBalance
<1>4. ASSUME NEW c \in Openings, NEW a \in Accounts, OpenFor(c, a) PROVE ReadersNext
  <2>1. Next /\ journal' = journal /\ audit' = audit /\ view' = view
    BY <1>4 DEF OpenFor, OpenAccount, Next, readers
  <2>2. audit = [audit EXCEPT !.quiet =
                   @ /\ (audit.stage = "postings" => journal' = journal)]
    BY <2>1 DEF ReadersTyped, AuditTyped
  <2>3. view = [view EXCEPT !.quiet =
                  @ /\ (view.stage # "closed" => journal' = journal)]
    BY <2>1 DEF ReadersTyped, ViewTyped
  <2> QED
    BY <2>1, <2>2, <2>3 DEF Write, ReadersNext
<1>5. CASE FormSteps
  BY <1>2, <1>4, <1>5 DEF FormSteps, Submit, AnswerOpening, DeclineOpening, Hear,
     LoseOpening
<1>6. CASE UNCHANGED dashboard
  BY <1>2, <1>6 DEF dashboard
<1> QED
  BY <1>1, <1>3, <1>5, <1>6 DEF PageNext

\* The accounts page leaves the other pages as they are: what holds of them holds
\* beside it.
LEMMA PageKeepsReaders == PageSpec => ReadersSpec /\ []ReadersTyped
<1>1. PageInit => ReadersInit /\ ReadersTyped
  BY ReadersInitTyped DEF PageInit
<1>2. ReadersTyped /\ [PageNext]_dashboard => ReadersTyped' /\ [ReadersNext]_allVars
  BY PageSteps, ReadersNextTyped
<1> QED
  BY <1>1, <1>2, PTL DEF PageSpec, ReadersSpec

ListTyped ==
  /\ list = [shown |-> list.shown, screen |-> list.screen,
             rendering |-> list.rendering, next |-> list.next, todo |-> list.todo,
             due |-> list.due, quiet |-> list.quiet]
  /\ {list.shown, list.rendering, list.due, list.quiet} \subseteq BOOLEAN

FormTyped ==
  /\ opening = [waiting |-> opening.waiting, error |-> opening.error,
                told |-> opening.told]
  /\ calls = [c \in Openings |-> [at |-> calls[c].at, account |-> calls[c].account]]

PageTyped == ListTyped /\ FormTyped

\* Accounts stay open.
LEMMA OpenedGrows ==
  ASSUME TypeInv, [Next]_vars
  PROVE  opened \subseteq opened'
<1>1. ASSUME NEW r \in Requests, Receive(r) \/ Serve(r) \/ Fail(r) \/ LoseAnswer(r)
      PROVE  opened' = opened
  BY <1>1, OnlyCommitWrites DEF Commit
<1> QED
  BY <1>1 DEF Next, Quiescent, vars, OpenAccount

\* What each step does to the list and to the form.
LEMMA ListMoves ==
  ASSUME PageTyped, [PageNext]_dashboard
  PROVE  \/ /\ list' = [list EXCEPT !.quiet = list'.quiet]
            /\ list'.quiet \in BOOLEAN
            /\ list'.quiet => list.quiet /\ (InUse => journal' = journal)
            /\ [Next]_vars
            /\ UNCHANGED opening
            /\ \/ UNCHANGED calls
               \/ \E c \in Openings, a \in Accounts : OpenFor(c, a)
         \/ UNCHANGED vars /\ ListSteps
         \/ UNCHANGED vars /\ \E c \in Openings :
              Submit(c) \/ AnswerOpening(c) \/ DeclineOpening(c) \/ Hear(c)
              \/ LoseOpening(c)
<1> USE DEF PageTyped, ListTyped
<1>1. CASE UNCHANGED dashboard
  BY <1>1 DEF dashboard, pageVars, allVars, vars
<1>2. CASE OtherSteps
  <2>1. [Next]_vars
    BY <1>2 DEF OtherSteps, Write, Browse, Render, ReadBalance, ReadStatement, LoadMore,
       ShowPage, LosePage, Refresh, Close, Verify, ReadConservation, ReadPostings,
       ReadState, Reverify
  <2>2. list'.quiet = (list.quiet /\ (InUse => journal' = journal))
    BY <1>2 DEF OtherSteps
  <2> QED
    BY <1>2, <2>1, <2>2 DEF OtherSteps
<1>3. CASE ListSteps
  <2>1. UNCHANGED allVars
    BY <1>3 DEF ListSteps, ListAccounts, ShowList, FailList, Leave, ReadListedBalance
  <2> QED
    BY <1>3, <2>1 DEF allVars
<1>4. ASSUME NEW c \in Openings, NEW a \in Accounts, OpenFor(c, a)
      PROVE  /\ UNCHANGED <<list, opening>> /\ [Next]_vars
             /\ journal' = journal
  BY <1>4 DEF OpenFor, OpenAccount, Next
<1>5. CASE FormSteps
  <2>1. CASE \E c \in Openings, a \in Accounts : OpenFor(c, a)
    BY <1>4, <2>1
  <2>2. ASSUME NEW c \in Openings,
               Submit(c) \/ AnswerOpening(c) \/ DeclineOpening(c) \/ Hear(c)
               \/ LoseOpening(c)
        PROVE  UNCHANGED vars
    <3>1. UNCHANGED allVars
      BY <2>2 DEF Submit, AnswerOpening, DeclineOpening, Hear, LoseOpening
    <3> QED
      BY <3>1 DEF allVars
  <2> QED
    BY <1>5, <2>1, <2>2 DEF FormSteps
<1> QED
  BY <1>1, <1>2, <1>3, <1>5 DEF PageNext

LEMMA PageNextTyped ==
  ASSUME PageTyped, [PageNext]_dashboard
  PROVE  PageTyped'
<1> USE DEF PageTyped
<1>1. ListTyped'
  <2>1. CASE UNCHANGED list
    BY <2>1 DEF ListTyped
  <2>2. CASE list' = [list EXCEPT !.quiet = list'.quiet] /\ list'.quiet \in BOOLEAN
    BY <2>2 DEF ListTyped
  <2>3. CASE ListAccounts
    BY <2>3 DEF ListAccounts, ListTyped
  <2>4. ASSUME NEW a \in Accounts, ReadListedBalance(a) PROVE ListTyped'
    BY <2>4 DEF ReadListedBalance, ListTyped
  <2>5. CASE ShowList
    BY <2>5 DEF ShowList, ListTyped
  <2>6. CASE FailList
    BY <2>6 DEF FailList, ListTyped
  <2>7. CASE LeavePage
    BY <2>7 DEF LeavePage, ListClosed, ListTyped
  <2>8. ASSUME NEW c \in Openings, Told(c) PROVE ListTyped'
    BY <2>8 DEF Told, ListTyped
  <2>9. CASE ListSteps
    BY <2>3, <2>4, <2>5, <2>6, <2>7, <2>9 DEF ListSteps, Leave
  <2>10. ASSUME NEW c \in Openings,
                Submit(c) \/ AnswerOpening(c) \/ DeclineOpening(c) \/ Hear(c)
                \/ LoseOpening(c)
         PROVE  ListTyped'
    BY <2>1, <2>7, <2>8, <2>10 DEF Submit, AnswerOpening, DeclineOpening, Hear, Failed,
       LoseOpening
  <2> QED
    BY <2>2, <2>9, <2>10, ListMoves
<1>2. FormTyped'
  <2>1. CASE UNCHANGED <<opening, calls>>
    BY <2>1 DEF FormTyped
  <2>2. ASSUME NEW c \in Openings, NEW a \in Accounts, OpenFor(c, a) PROVE FormTyped'
    BY <2>2 DEF OpenFor, FormTyped
  <2>3. CASE ListSteps
    <3>1. CASE Leave
      BY <3>1 DEF Leave, LeavePage, FormIdle, FormTyped
    <3> QED
      BY <2>1, <2>3, <3>1 DEF ListSteps, ListAccounts, ReadListedBalance, ShowList,
         FailList
  <2>4. ASSUME NEW c \in Openings, Submit(c) PROVE FormTyped'
    <3>1. opening' = [waiting |-> opening'.waiting, error |-> opening'.error,
                      told |-> opening'.told]
      BY <2>4 DEF Submit, FormTyped
    <3>2. calls' = [d \in Openings |-> [at |-> calls'[d].at, account |-> calls'[d].account]]
      BY <2>4 DEF Submit, FormTyped
    <3> QED
      BY <3>1, <3>2 DEF FormTyped
  <2>5. ASSUME NEW c \in Openings, AnswerOpening(c) \/ DeclineOpening(c)
        PROVE FormTyped'
    BY <2>5 DEF AnswerOpening, DeclineOpening, FormTyped
  <2>6. ASSUME NEW c \in Openings, Told(c) \/ Failed \/ LeavePage, UNCHANGED calls
        PROVE FormTyped'
    BY <2>6 DEF Told, Failed, LeavePage, FormIdle, FormTyped
  <2>7. ASSUME NEW c \in Openings, Hear(c) \/ LoseOpening(c) PROVE FormTyped'
    BY <2>6, <2>7 DEF Hear, LoseOpening
  <2>8. CASE UNCHANGED opening /\ UNCHANGED calls
    BY <2>1, <2>8
  <2> QED
    BY <2>2, <2>3, <2>4, <2>5, <2>7, <2>8, ListMoves
<1> QED
  BY <1>1, <1>2

\* The accounts the user was told of are there, are the user's, and are on the
\* list that is on the screen or being rendered, unless a refresh is due.
ToldInv ==
  /\ PageTyped
  /\ opening.told \subseteq {a \in opened : OwnerOf[a] = User}
  /\ \A c \in Openings : calls[c].at \in {"opened", "created"} =>
       calls[c].account \in opened /\ OwnerOf[calls[c].account] = User
  /\ ~list.due /\ list.rendering => opening.told \subseteq DOMAIN list.next \cup list.todo
  /\ ToldIsListed

\* A list that was begun after the account was there has it.
LEMMA NextKeepsTold ==
  ASSUME TypeInv, ToldInv, [PageNext]_dashboard
  PROVE  ToldInv'
<1>1. PageTyped'
  BY PageNextTyped DEF ToldInv
<1>2. CASE /\ list' = [list EXCEPT !.quiet = list'.quiet]
           /\ [Next]_vars
           /\ UNCHANGED opening
           /\ \/ UNCHANGED calls
              \/ \E c \in Openings, a \in Accounts : OpenFor(c, a)
  <2>1. opened \subseteq opened'
    BY <1>2, OpenedGrows
  <2>2. /\ list'.screen = list.screen /\ list'.next = list.next
        /\ list'.todo = list.todo /\ list'.due = list.due
        /\ list'.rendering = list.rendering
    BY <1>2 DEF ToldInv, PageTyped, ListTyped
  <2>3. (\A c \in Openings : calls[c].at \in {"opened", "created"} =>
           calls[c].account \in opened /\ OwnerOf[calls[c].account] = User)'
    <3>1. ASSUME NEW c \in Openings, NEW a \in Accounts, OpenFor(c, a)
          PROVE  \A d \in Openings : calls'[d].at \in {"opened", "created"} =>
                   calls'[d].account \in opened' /\ OwnerOf[calls'[d].account] = User
      <4>1. /\ OwnerOf[a] = User /\ a \in opened'
            /\ \A d \in Openings \ {c} : calls'[d] = calls[d]
            /\ calls'[c] = [at |-> "opened", account |-> a]
        BY <3>1 DEF OpenFor, OpenAccount, ToldInv, PageTyped, FormTyped
      <4> QED
        BY <2>1, <4>1 DEF ToldInv
    <3> QED
      BY <1>2, <2>1, <3>1 DEF ToldInv
  <2> QED
    BY <1>1, <1>2, <2>1, <2>2, <2>3 DEF ToldInv, ToldIsListed
<1>3. CASE UNCHANGED vars /\ ListSteps
  <2>1. opened' = opened
    BY <1>3 DEF vars
  <2>2. CASE ListAccounts
    <3>1. /\ list'.rendering = TRUE /\ list'.todo = Visible /\ UNCHANGED <<opening, calls>>
      BY <2>2 DEF ListAccounts, ToldInv, PageTyped, ListTyped
    <3>2. opening.told \subseteq Visible
      BY DEF ToldInv, Visible
    <3> QED
      BY <1>1, <2>1, <3>1, <3>2 DEF ToldInv, ToldIsListed
  <2>3. ASSUME NEW a \in Accounts, ReadListedBalance(a) PROVE ToldInv'
    <3>1. /\ UNCHANGED <<opening, calls>>
          /\ list'.rendering = list.rendering /\ list'.due = list.due
          /\ list'.screen = list.screen
          /\ list'.todo = list.todo \ {a}
          /\ DOMAIN list'.next = DOMAIN list.next \cup {a}
      BY <2>3 DEF ReadListedBalance, ToldInv, PageTyped, ListTyped
    <3> QED
      BY <1>1, <2>1, <3>1 DEF ToldInv, ToldIsListed
  <2>4. CASE ShowList
    <3>1. /\ UNCHANGED <<opening, calls>>
          /\ list.rendering /\ list.todo = {}
          /\ list'.rendering = FALSE /\ list'.due = list.due
          /\ list'.screen = list.next
      BY <2>4 DEF ShowList, ToldInv, PageTyped, ListTyped
    <3> QED
      BY <1>1, <2>1, <3>1 DEF ToldInv, ToldIsListed
  <2>5. CASE FailList
    <3>1. /\ UNCHANGED <<opening, calls>>
          /\ list'.rendering = FALSE /\ list'.screen = NoList
      BY <2>5 DEF FailList, ToldInv, PageTyped, ListTyped
    <3> QED
      BY <1>1, <2>1, <3>1 DEF ToldInv, ToldIsListed
  <2>6. CASE Leave
    BY <1>1, <2>1, <2>6 DEF Leave, LeavePage, ListClosed, FormIdle, ToldInv,
       ToldIsListed
  <2> QED
    BY <1>3, <2>2, <2>3, <2>4, <2>5, <2>6 DEF ListSteps
<1>4. ASSUME UNCHANGED vars, NEW c \in Openings,
             Submit(c) \/ AnswerOpening(c) \/ DeclineOpening(c) \/ Hear(c)
             \/ LoseOpening(c)
      PROVE  ToldInv'
  <2>1. opened' = opened
    BY <1>4 DEF vars
  <2>2. CASE Submit(c) \/ AnswerOpening(c) \/ DeclineOpening(c)
    <3>1. /\ list' = list /\ opening'.told = opening.told
          /\ \A d \in Openings \ {c} : calls'[d] = calls[d]
          /\ calls'[c].account = calls[c].account
          /\ calls'[c].at = "created" => calls[c].at = "opened"
          /\ calls'[c].at # "opened"
      <4>1. CASE Submit(c)
        BY <4>1 DEF Submit, ToldInv, PageTyped, FormTyped
      <4>2. CASE AnswerOpening(c)
        BY <4>2 DEF AnswerOpening, ToldInv, PageTyped, FormTyped
      <4>3. CASE DeclineOpening(c)
        BY <4>3 DEF DeclineOpening, ToldInv, PageTyped, FormTyped
      <4> QED
        BY <2>2, <4>1, <4>2, <4>3
    <3> QED
      BY <1>1, <2>1, <3>1 DEF ToldInv, ToldIsListed
  <2>3. CASE UNCHANGED calls /\ Failed
    <3>1. list' = list /\ opening'.told = opening.told
      BY <2>3 DEF Failed, ToldInv, PageTyped, FormTyped
    <3> QED
      BY <1>1, <2>1, <2>3, <3>1 DEF ToldInv, ToldIsListed
  <2>4. CASE UNCHANGED calls /\ Told(c) /\ calls[c].at = "created"
    <3>1. /\ list'.due = TRUE
          /\ opening'.told = opening.told \cup {calls[c].account}
      BY <2>4 DEF Told, ToldInv, PageTyped, FormTyped, ListTyped
    <3> QED
      BY <1>1, <2>1, <2>4, <3>1 DEF ToldInv, ToldIsListed
  <2>5. CASE UNCHANGED calls /\ LeavePage
    BY <1>1, <2>1, <2>5 DEF LeavePage, ListClosed, FormIdle, ToldInv, ToldIsListed
  <2> QED
    BY <1>4, <2>2, <2>3, <2>4, <2>5 DEF Hear, LoseOpening
<1> QED
  BY <1>2, <1>3, <1>4, ListMoves DEF ToldInv

\* An account the user was told of is on the list once the refresh that follows
\* has been rendered (open-account-form.tsx), even if that rendering had to
\* wait for an older one that began before the account was there.
THEOREM ToldAreListed == PageSpec => []ToldIsListed
<1>1. PageInit => ToldInv
  BY DEF PageInit, ToldInv, PageTyped, ListTyped, FormTyped, ListClosed, FormIdle,
         ToldIsListed
<1>2. TypeInv /\ ToldInv /\ [PageNext]_dashboard => ToldInv'
  BY NextKeepsTold
<1>3. ToldInv => ToldIsListed
  BY DEF ToldInv
<1> QED
  BY <1>1, <1>2, <1>3, PageKeepsReaders, ReadersLeaveLedger, TypeInvariant, PTL
     DEF PageSpec

\* The row of an account and its statement agree at any time.
LEMMA BalanceIsLast ==
  ASSUME ChainsInv, NEW a \in Accounts
  PROVE  balance[a].balance = LastBalance(PostingsOf(a))
<1>1. ReconciledAt(a)
  BY DEF ChainsInv
<1>2. CASE PostingsOf(a) = {}
  BY <1>1, <1>2, TotalOfNothing DEF ReconciledAt, LastBalance
<1>3. CASE PostingsOf(a) # {}
  <2>1. balance[a].balance = Latest(PostingsOf(a)).balanceAfter
    BY <1>1, <1>3 DEF ReconciledAt
  <2> QED
    BY <1>3, <2>1 DEF LastBalance
<1> QED
  BY <1>2, <1>3

\* As long as no transaction has committed since the accounts were read, every
\* balance read is the one the account's statement ends at.
AtRest(rows) ==
  \A a \in DOMAIN rows : a \in Accounts /\ rows[a] = LastBalance(PostingsOf(a))

RestInv ==
  /\ PageTyped
  /\ ~list.shown => DOMAIN list.screen = {}
  /\ ~list.rendering => list.todo = {} /\ DOMAIN list.next = {}
  /\ list.quiet => AtRest(list.next)
  /\ list.quiet /\ ~list.rendering => AtRest(list.screen)

\* At rest every balance that was read is still the balance.
LEMMA NextKeepsRest ==
  ASSUME ChainsInv, RestInv, [PageNext]_dashboard
  PROVE  RestInv'
<1>1. PageTyped'
  BY PageNextTyped DEF RestInv
<1>2. journal' = journal =>
        \A a : LastBalance(PostingsOf(a))' = LastBalance(PostingsOf(a))
  BY DEF LastBalance, PostingsOf, Postings, Latest
<1>3. /\ journal' = journal /\ list'.next = list.next /\ AtRest(list.next)
           => AtRest(list.next)'
      /\ journal' = journal /\ list'.screen = list.screen /\ AtRest(list.screen)
           => AtRest(list.screen)'
      /\ journal' = journal /\ list'.screen = list.next /\ AtRest(list.next)
           => AtRest(list.screen)'
  BY <1>2 DEF AtRest
<1>4. CASE /\ list' = [list EXCEPT !.quiet = list'.quiet]
           /\ list'.quiet => list.quiet /\ (InUse => journal' = journal)
  <2>1. /\ list'.screen = list.screen /\ list'.next = list.next
        /\ list'.shown = list.shown /\ list'.rendering = list.rendering
        /\ list'.todo = list.todo
    BY <1>4 DEF RestInv, PageTyped, ListTyped
  <2>2. (~list.shown => DOMAIN list.screen = {})'
        /\ (~list.rendering => list.todo = {} /\ DOMAIN list.next = {})'
    BY <2>1 DEF RestInv
  <2>3. CASE InUse
    <3>1. list'.quiet => list.quiet /\ journal' = journal
      BY <1>4, <2>3
    <3>2. (list.quiet => AtRest(list.next))'
      BY <1>3, <2>1, <3>1 DEF RestInv
    <3>3. (list.quiet /\ ~list.rendering => AtRest(list.screen))'
      BY <1>3, <2>1, <3>1 DEF RestInv
    <3> QED
      BY <1>1, <2>2, <3>2, <3>3 DEF RestInv
  <2>4. CASE ~InUse
    <3>1. DOMAIN list'.screen = {} /\ DOMAIN list'.next = {}
      BY <2>1, <2>4 DEF InUse, RestInv
    <3> QED
      BY <1>1, <2>2, <3>1 DEF RestInv, AtRest
  <2> QED
    BY <2>3, <2>4
<1>5. CASE UNCHANGED vars /\ ListSteps
  <2>1. journal' = journal
    BY <1>5 DEF vars
  <2>2. CASE ListAccounts
    <3>1. /\ list'.rendering = TRUE /\ DOMAIN list'.next = {}
          /\ list'.shown = list.shown /\ list'.screen = list.screen
      BY <2>2 DEF ListAccounts, RestInv, PageTyped, ListTyped, NoList
    <3> QED
      BY <1>1, <3>1 DEF RestInv, AtRest
  <2>3. ASSUME NEW a \in Accounts, ReadListedBalance(a) PROVE RestInv'
    <3>1. /\ list'.rendering = list.rendering /\ list'.quiet = list.quiet
          /\ list'.shown = list.shown /\ list'.screen = list.screen
          /\ list'.next = [b \in DOMAIN list.next \cup {a} |->
                             IF b = a THEN balance[a].balance ELSE list.next[b]]
          /\ a \in list.todo
      BY <2>3 DEF ReadListedBalance, RestInv, PageTyped, ListTyped
    <3>2. list.quiet => AtRest(list.next)'
      BY <1>2, <2>1, <3>1, BalanceIsLast DEF RestInv, AtRest
    <3>3. list.rendering
      BY <3>1 DEF RestInv, PageTyped, ListTyped
    <3> QED
      BY <1>1, <1>3, <2>1, <3>1, <3>2, <3>3 DEF RestInv
  <2>4. CASE ShowList
    <3>1. /\ list'.rendering = FALSE /\ DOMAIN list'.next = {} /\ list'.shown = TRUE
          /\ list'.todo = {}
          /\ list'.screen = list.next /\ list'.quiet = list.quiet
      BY <2>4 DEF ShowList, RestInv, PageTyped, ListTyped, NoList
    <3> QED
      BY <1>1, <1>3, <2>1, <3>1 DEF RestInv, AtRest
  <2>5. CASE FailList
    <3>1. /\ DOMAIN list'.next = {} /\ DOMAIN list'.screen = {} /\ list'.todo = {}
      BY <2>5 DEF FailList, RestInv, PageTyped, ListTyped, NoList
    <3> QED
      BY <1>1, <3>1 DEF RestInv, AtRest
  <2>6. CASE Leave
    <3>1. DOMAIN list'.next = {} /\ DOMAIN list'.screen = {} /\ list'.todo = {}
      BY <2>6 DEF Leave, LeavePage, ListClosed, NoList
    <3> QED
      BY <1>1, <3>1 DEF RestInv, AtRest
  <2> QED
    BY <1>5, <2>2, <2>3, <2>4, <2>5, <2>6 DEF ListSteps
<1>6. ASSUME UNCHANGED vars, NEW c \in Openings,
             Submit(c) \/ AnswerOpening(c) \/ DeclineOpening(c) \/ Hear(c)
             \/ LoseOpening(c)
      PROVE  RestInv'
  <2>1. journal' = journal
    BY <1>6 DEF vars
  <2>2. CASE LeavePage
    <3>1. DOMAIN list'.next = {} /\ DOMAIN list'.screen = {} /\ list'.todo = {}
      BY <2>2 DEF LeavePage, ListClosed, NoList
    <3> QED
      BY <1>1, <3>1 DEF RestInv, AtRest
  <2>3. ASSUME /\ list'.rendering = list.rendering /\ list'.quiet = list.quiet
               /\ list'.shown = list.shown /\ list'.screen = list.screen
               /\ list'.next = list.next /\ list'.todo = list.todo
        PROVE  RestInv'
    BY <1>1, <1>3, <2>1, <2>3 DEF RestInv
  <2>4. CASE Told(c)
    BY <2>3, <2>4 DEF Told, RestInv, PageTyped, ListTyped
  <2> QED
    BY <1>6, <2>2, <2>3, <2>4 DEF Submit, AnswerOpening, DeclineOpening, Hear,
       LoseOpening, Failed
<1> QED
  BY <1>4, <1>5, <1>6, ListMoves DEF RestInv

\* The balances of the list come from as many statements as there are accounts;
\* as long as no transaction has committed since the first of them, together
\* they are the balances the statements of the accounts end at, half-done
\* transfers notwithstanding (accounts.controller.ts, list).
THEOREM ListIsAtRest == ASSUME CanonicalIds PROVE PageSpec => []ListedAtRest
<1>1. PageInit => RestInv
  BY DEF PageInit, RestInv, PageTyped, ListTyped, FormTyped, ListClosed, FormIdle,
         NoList, AtRest
<1>2. ChainsInv /\ RestInv /\ [PageNext]_dashboard => RestInv'
  BY NextKeepsRest
<1>3. RestInv => ListedAtRest
  BY DEF RestInv, ListedAtRest, AtRest
<1> QED
  BY <1>1, <1>2, <1>3, PageKeepsReaders, ReadersLeaveLedger, ChainsInvariant, PTL
     DEF PageSpec
-----------------------------------------------------------------------------
(* Rows in order                                                            *)

\* Rows that seq puts in one order.
Ordered(P) ==
  /\ IsFiniteSet(P)
  /\ \A p \in P : p.seq \in Int
  /\ \A p, q \in P : p.seq = q.seq => p = q

\* Postings stay in order when some are left out.
LEMMA OrderedSubset ==
  ASSUME NEW P, Ordered(P), NEW Q \in SUBSET P PROVE Ordered(Q)
  BY FS_Subset DEF Ordered

\* A posting has fewer postings before it than there are.
LEMMA RankBound ==
  ASSUME NEW P, Ordered(P), NEW p \in P
  PROVE  Rank(P, p) \in Nat /\ Cardinality(P) \in Nat /\ Rank(P, p) < Cardinality(P)
<1> DEFINE B == {q \in P : q.seq < p.seq}
<1>1. B \in SUBSET (P \ {p})
  BY DEF Ordered
<1>2. IsFiniteSet(P \ {p}) /\ Cardinality(P \ {p}) = Cardinality(P) - 1
  BY FS_RemoveElement DEF Ordered
<1>3. IsFiniteSet(B) /\ Cardinality(B) <= Cardinality(P \ {p})
  BY <1>1, <1>2, FS_Subset
<1>4. Cardinality(B) \in Nat /\ Cardinality(P) \in Nat
  BY <1>3, FS_CardinalityType DEF Ordered
<1> QED
  BY <1>2, <1>3, <1>4 DEF Rank

\* Of two postings the later one has the greater rank.
LEMMA RankGrows ==
  ASSUME NEW P, Ordered(P), NEW p \in P, NEW q \in P, p.seq < q.seq
  PROVE  Rank(P, p) < Rank(P, q)
<1> DEFINE B == {x \in P : x.seq < p.seq}
           C == {x \in P : x.seq < q.seq}
<1>1. p \notin B /\ B \cup {p} \in SUBSET C
  BY DEF Ordered
<1>2. IsFiniteSet(B) /\ IsFiniteSet(C)
  BY FS_Subset DEF Ordered
<1>3. Cardinality(B \cup {p}) = Cardinality(B) + 1
  BY <1>1, <1>2, FS_AddElement
<1>4. Cardinality(B \cup {p}) <= Cardinality(C)
  BY <1>1, <1>2, FS_Subset
<1>5. Cardinality(B) \in Nat /\ Cardinality(C) \in Nat
  BY <1>2, FS_CardinalityType
<1> QED
  BY <1>3, <1>4, <1>5 DEF Rank

\* No two postings have the same rank.
LEMMA RankUnique ==
  ASSUME NEW P, Ordered(P), NEW p \in P, NEW q \in P, Rank(P, p) = Rank(P, q)
  PROVE  p = q
<1>1. Rank(P, p) \in Nat
  BY RankBound
<1>2. ~(p.seq < q.seq) /\ ~(q.seq < p.seq)
  BY <1>1, RankGrows
<1> QED
  BY <1>2 DEF Ordered

\* Every place up to the number of postings is the rank of one.
LEMMA RankOnto ==
  ASSUME NEW P, Ordered(P), NEW i \in 0..(Cardinality(P) - 1)
  PROVE  \E p \in P : Rank(P, p) = i
<1> DEFINE R == 0..(Cardinality(P) - 1)
           f == [p \in P |-> Rank(P, p)]
<1>1. Cardinality(P) \in Nat
  BY FS_CardinalityType DEF Ordered
<1>2. IsFiniteSet(R) /\ Cardinality(R) = Cardinality(P)
  BY <1>1, FS_Interval
<1>3. f \in [P -> R]
  BY <1>1, RankBound
<1>4. f \in Injection(P, R)
  BY <1>3, RankUnique DEF Injection, IsInjective
<1>5. f \in Surjection(P, R)
  BY <1>2, <1>4, FS_Injection
<1>6. \E p \in P : f[p] = i
  BY <1>5 DEF Surjection
<1> QED
  BY <1>6

\* A first part of the rows ranks them as the whole does.
LEMMA FirstRowsRank ==
  ASSUME NEW P, Ordered(P), NEW n \in Nat
  PROVE  /\ Ordered(FirstRows(P, n))
         /\ \A p \in FirstRows(P, n) : Rank(FirstRows(P, n), p) = Rank(P, p)
<1> DEFINE F == FirstRows(P, n)
<1>1. F \in SUBSET P
  BY DEF FirstRows
<1>2. ASSUME NEW p \in F PROVE {q \in F : q.seq < p.seq} = {q \in P : q.seq < p.seq}
  <2> SUFFICES ASSUME NEW q \in P, q.seq < p.seq PROVE q \in F
    BY <1>1
  <2>1. Rank(P, q) < Rank(P, p) /\ Rank(P, p) < n
    BY <1>2, RankGrows DEF FirstRows
  <2>2. Rank(P, q) \in Nat /\ Rank(P, p) \in Nat
    BY <1>1, RankBound
  <2> QED
    BY <2>1, <2>2 DEF FirstRows
<1> QED
  BY <1>1, <1>2, OrderedSubset DEF Rank

\* The rows of InOrder are the postings by rank.
LEMMA InOrderRows ==
  ASSUME NEW P, Ordered(P)
  PROVE  /\ InOrder(P) \in Seq(P) /\ Len(InOrder(P)) = Cardinality(P)
         /\ \A i \in 1..Cardinality(P) : Rank(P, InOrder(P)[i]) = i - 1
<1>1. Cardinality(P) \in Nat
  BY FS_CardinalityType DEF Ordered
<1>2. ASSUME NEW i \in 1..Cardinality(P)
      PROVE  InOrder(P)[i] \in P /\ Rank(P, InOrder(P)[i]) = i - 1
  <2>1. \E p \in P : Rank(P, p) = i - 1
    <3>1. i - 1 \in 0..(Cardinality(P) - 1)
      BY <1>1
    <3> QED
      BY <3>1, RankOnto
  <2>2. InOrder(P)[i] = CHOOSE p \in P : Rank(P, p) = i - 1
    BY DEF InOrder
  <2> QED
    BY <2>1, <2>2
<1>3. InOrder(P) \in [1..Cardinality(P) -> P]
  BY <1>2 DEF InOrder
<1>4. InOrder(P) \in Seq(P) /\ Len(InOrder(P)) = Cardinality(P)
  BY <1>1, <1>3
<1> QED
  BY <1>2, <1>4

\* The rows of e are those from the k-th on, in order.
RowsFrom(P, k, e) ==
  e \in Seq(P) /\ \A i \in 1..Len(e) : Rank(P, e[i]) = k + i - 1

\* The first rows and the rows after them are all the rows.
LEMMA RowsConcat ==
  ASSUME NEW P, NEW k \in Nat, NEW e, NEW f, RowsFrom(P, k, e), RowsFrom(P, k + Len(e), f)
  PROVE  RowsFrom(P, k, e \o f)
<1>1. e \in Seq(P) /\ f \in Seq(P)
  BY DEF RowsFrom
<1>2. e \o f \in Seq(P) /\ Len(e \o f) = Len(e) + Len(f) /\ Len(e) \in Nat /\ Len(f) \in Nat
  BY <1>1
<1>3. ASSUME NEW i \in 1..Len(e \o f) PROVE Rank(P, (e \o f)[i]) = k + i - 1
  <2>1. CASE i <= Len(e)
    <3>1. (e \o f)[i] = e[i] /\ i \in 1..Len(e)
      BY <1>1, <1>2, <2>1
    <3> QED
      BY <3>1 DEF RowsFrom
  <2>2. CASE i > Len(e)
    <3>1. (e \o f)[i] = f[i - Len(e)] /\ i - Len(e) \in 1..Len(f)
      BY <1>1, <1>2, <2>2
    <3>2. Rank(P, f[i - Len(e)]) = (k + Len(e)) + (i - Len(e)) - 1
      BY <3>1 DEF RowsFrom
    <3> QED
      BY <1>2, <3>1, <3>2
  <2> QED
    BY <1>2, <2>1, <2>2
<1> QED
  BY <1>2, <1>3 DEF RowsFrom

\* Rows from the first on are the first rows.
LEMMA RowsAreFirst ==
  ASSUME NEW P, Ordered(P), NEW e, RowsFrom(P, 0, e)
  PROVE  e = InOrder(FirstRows(P, Len(e)))
<1> DEFINE n == Len(e)
           F == FirstRows(P, n)
<1>1. e \in Seq(P) /\ n \in Nat /\ e \in [1..n -> P]
  BY DEF RowsFrom
<1>2. ASSUME NEW i \in 1..n PROVE e[i] \in F /\ Rank(P, e[i]) = i - 1
  <2>1. e[i] \in P /\ Rank(P, e[i]) = 0 + i - 1
    BY <1>1 DEF RowsFrom
  <2> QED
    BY <1>1, <2>1 DEF FirstRows
<1>3. ASSUME NEW p \in F PROVE \E i \in 1..n : e[i] = p
  <2>1. p \in P /\ Rank(P, p) < n /\ Rank(P, p) \in Nat
    BY RankBound DEF FirstRows
  <2>2. Rank(P, p) + 1 \in 1..n
    BY <1>1, <2>1
  <2>3. e[Rank(P, p) + 1] \in P /\ Rank(P, e[Rank(P, p) + 1]) = Rank(P, p)
    BY <1>1, <1>2, <2>1, <2>2
  <2>4. e[Rank(P, p) + 1] = p
    BY <2>1, <2>3, RankUnique
  <2> QED
    BY <2>2, <2>4
<1>4. e \in Bijection(1..n, F)
  <2>1. e \in [1..n -> F]
    BY <1>1, <1>2
  <2>2. ASSUME NEW i \in 1..n, NEW k \in 1..n, e[i] = e[k] PROVE i = k
    BY <1>1, <1>2, <2>2
  <2> QED
    BY <1>3, <2>1, <2>2 DEF Bijection, Injection, Surjection, IsInjective
<1>5. Cardinality(F) = n
  BY <1>1, <1>4, FS_CountingElements DEF ExistsBijection
<1>6. Ordered(F) /\ \A p \in F : Rank(F, p) = Rank(P, p)
  BY <1>1, FirstRowsRank
<1>7. /\ InOrder(F) \in Seq(F) /\ Len(InOrder(F)) = n
      /\ \A i \in 1..n : Rank(F, InOrder(F)[i]) = i - 1
  BY <1>5, <1>6, InOrderRows
<1>8. InOrder(F) \in [1..n -> F]
  BY <1>7
<1>9. ASSUME NEW i \in 1..n PROVE e[i] = InOrder(F)[i]
  <2>1. InOrder(F)[i] \in F /\ e[i] \in F
    BY <1>2, <1>8
  <2>2. Rank(F, InOrder(F)[i]) = Rank(F, e[i])
    BY <1>2, <1>6, <1>7, <2>1
  <2> QED
    BY <1>6, <2>1, <2>2, RankUnique
<1> HIDE DEF n, F
<1>10. e = InOrder(F)
  BY <1>1, <1>8, <1>9
<1> QED
  BY <1>10 DEF n, F

\* Rows stay where they are when later ones come.
LEMMA RowsStay ==
  ASSUME NEW P, NEW Q, P \subseteq Q, Ordered(P), Ordered(Q),
         \A p \in P, q \in Q \ P : p.seq < q.seq,
         NEW k, NEW e, RowsFrom(P, k, e)
  PROVE  RowsFrom(Q, k, e)
<1>1. ASSUME NEW p \in P PROVE Rank(Q, p) = Rank(P, p)
  <2>1. {q \in Q : q.seq < p.seq} = {q \in P : q.seq < p.seq}
    BY DEF Ordered
  <2> QED
    BY <2>1 DEF Rank
<1>2. e \in Seq(P) /\ \A i \in 1..Len(e) : e[i] \in P
  BY DEF RowsFrom
<1>3. e \in Seq(Q)
  BY <1>2
<1> QED
  BY <1>1, <1>2, <1>3 DEF RowsFrom

\* The rows after a row begin where that row ends.
LEMMA RowsAfter ==
  ASSUME NEW P, Ordered(P), NEW c \in P, NEW e,
         RowsFrom({p \in P : p.seq > c.seq}, 0, e)
  PROVE  RowsFrom(P, Rank(P, c) + 1, e)
<1> DEFINE T == {p \in P : p.seq > c.seq}
<1>1. ASSUME NEW p \in T PROVE Rank(P, p) = Rank(P, c) + 1 + Rank(T, p)
  <2> DEFINE B == {q \in P : q.seq < c.seq}
             C == {q \in T : q.seq < p.seq}
  <2>1. {q \in P : q.seq < p.seq} = (B \cup {c}) \cup C
    BY DEF Ordered
  <2>2. IsFiniteSet(B) /\ IsFiniteSet(C)
    BY FS_Subset DEF Ordered
  <2>3. c \notin B /\ (B \cup {c}) \cap C = {}
    BY DEF Ordered
  <2>4. IsFiniteSet(B \cup {c}) /\ Cardinality(B \cup {c}) = Cardinality(B) + 1
    BY <2>2, <2>3, FS_AddElement
  <2>5. Cardinality((B \cup {c}) \cup C) =
          Cardinality(B \cup {c}) + Cardinality(C) - Cardinality((B \cup {c}) \cap C)
    BY <2>2, <2>4, FS_Union
  <2>6. Cardinality((B \cup {c}) \cap C) = 0
    BY <2>3, FS_EmptySet
  <2>7. Cardinality(B) \in Nat /\ Cardinality(C) \in Nat
    BY <2>2, FS_CardinalityType
  <2> HIDE DEF B, C
  <2>8. Cardinality((B \cup {c}) \cup C) = Cardinality(B) + 1 + Cardinality(C)
    BY <2>4, <2>5, <2>6, <2>7
  <2> QED
    BY <2>1, <2>8 DEF B, C, Rank
<1>2. e \in Seq(T) /\ Len(e) \in Nat /\ \A i \in 1..Len(e) : e[i] \in T
  BY DEF RowsFrom
<1>3. e \in Seq(P)
  BY <1>2
<1>4. Rank(P, c) \in Nat
  BY RankBound
<1>5. ASSUME NEW i \in 1..Len(e) PROVE Rank(P, e[i]) = (Rank(P, c) + 1) + i - 1
  <2>1. Rank(T, e[i]) = 0 + i - 1
    BY DEF RowsFrom
  <2>2. Rank(P, e[i]) = Rank(P, c) + 1 + Rank(T, e[i])
    BY <1>1, <1>2
  <2> QED
    BY <1>2, <1>4, <2>1, <2>2
<1> QED
  BY <1>3, <1>5 DEF RowsFrom

\* Where a page stops: the seq of its last row, or at the end.
StopsAt(e, cursor) == cursor # None => Len(e) > 0 /\ cursor = e[Len(e)].seq

\* A page of rows: the first of them, up to its cursor, and all of them if it has
\* none.
LEMMA PageOfRows ==
  ASSUME NEW T, Ordered(T), NEW size \in Nat \ {0}, NEW rows, NEW e, NEW c,
         rows = FirstRows(T, size + 1),
         e = InOrder(FirstRows(rows, size)),
         c = IF Cardinality(rows) > size THEN Latest(FirstRows(rows, size)).seq ELSE None
  PROVE  /\ RowsFrom(T, 0, e)
         /\ StopsAt(e, c)
         /\ c = None => \A p \in T : \E i \in 1..Len(e) : e[i] = p
<1> DEFINE E == FirstRows(rows, size)
<1>1. Ordered(rows) /\ \A p \in rows : p \in T /\ Rank(rows, p) = Rank(T, p)
  BY FirstRowsRank DEF FirstRows
<1>2. Ordered(E) /\ \A p \in E : p \in rows /\ Rank(E, p) = Rank(rows, p)
  BY <1>1, FirstRowsRank, SMTT(30) DEF FirstRows
<1>3. /\ e \in Seq(E) /\ Len(e) = Cardinality(E)
      /\ \A i \in 1..Cardinality(E) : Rank(E, e[i]) = i - 1
  BY <1>2, InOrderRows
<1>4. Cardinality(E) \in Nat
  BY <1>2, FS_CardinalityType DEF Ordered
<1>5. RowsFrom(T, 0, e)
  <2>1. e \in Seq(T)
    BY <1>1, <1>2, <1>3
  <2>2. ASSUME NEW i \in 1..Len(e) PROVE Rank(T, e[i]) = 0 + i - 1
    <3>1. e[i] \in E
      BY <1>3
    <3> QED
      BY <1>1, <1>2, <1>3, <3>1
  <2> QED
    BY <2>1, <2>2 DEF RowsFrom
<1>6. ASSUME Cardinality(rows) > size
      PROVE  Len(e) > 0 /\ Latest(E) = e[Len(e)]
  <2>1. PICK p \in rows : Rank(rows, p) = 0
    <3>1. Cardinality(rows) \in Nat
      BY <1>1, FS_CardinalityType DEF Ordered
    <3>2. 0 \in 0..(Cardinality(rows) - 1)
      BY <1>6, <3>1
    <3> QED
      BY <1>1, <3>2, RankOnto
  <2>2. p \in E
    BY <2>1 DEF FirstRows
  <2>3. Cardinality(E) > 0
    BY <1>2, <1>4, <2>2, FS_EmptySet DEF Ordered
  <2> DEFINE l == e[Len(e)]
  <2>4. l \in E /\ Rank(E, l) = Cardinality(E) - 1
    BY <1>3, <1>4, <2>3
  <2>5. ASSUME NEW q \in E PROVE q.seq <= l.seq
    <3>1. ~(l.seq < q.seq)
      <4> SUFFICES ASSUME l.seq < q.seq PROVE FALSE
        OBVIOUS
      <4>1. Rank(E, l) < Rank(E, q)
        BY <1>2, <2>4, RankGrows
      <4>2. Rank(E, q) \in Nat /\ Rank(E, q) < Cardinality(E)
        BY <1>2, RankBound
      <4> QED
        BY <1>4, <2>4, <4>1, <4>2
    <3> QED
      BY <1>2, <2>4, <3>1 DEF Ordered
  <2>6. \A x \in E : (\A q \in E : q.seq <= x.seq) => x = l
    <3> SUFFICES ASSUME NEW x \in E, \A q \in E : q.seq <= x.seq PROVE x = l
      OBVIOUS
    <3>1. x.seq <= l.seq /\ l.seq <= x.seq
      BY <2>4, <2>5
    <3> QED
      BY <1>2, <2>4, <3>1 DEF Ordered
  <2>7. Latest(E) = l
    BY <2>4, <2>5, <2>6 DEF Latest
  <2> QED
    BY <1>3, <2>3, <2>7
<1>7. StopsAt(e, c)
  BY <1>6 DEF StopsAt
<1>8. ASSUME c = None PROVE \A p \in T : \E i \in 1..Len(e) : e[i] = p
  <2>1. Cardinality(rows) <= size
    <3> SUFFICES ASSUME Cardinality(rows) > size PROVE FALSE
      BY <1>1, FS_CardinalityType DEF Ordered
    <3>1. c = e[Len(e)].seq /\ e[Len(e)] \in E
      BY <1>3, <1>6
    <3>2. c \in Int
      BY <1>2, <3>1 DEF Ordered
    <3> QED
      BY <1>8, <3>2, NoneAssumption
  <2>2. ASSUME NEW p \in T PROVE p \in rows
    <3> SUFFICES ASSUME p \notin rows PROVE FALSE
      OBVIOUS
    <3>1. Rank(T, p) >= size + 1 /\ Rank(T, p) \in Nat /\ Cardinality(T) \in Nat
          /\ Rank(T, p) < Cardinality(T)
      BY RankBound DEF FirstRows
    <3>2. size \in 0..(Cardinality(T) - 1)
      BY <3>1
    <3>3. PICK q \in T : Rank(T, q) = size
      BY <3>2, RankOnto
    <3>4. q \in rows
      BY <3>3 DEF FirstRows
    <3>5. Rank(rows, q) = size /\ Rank(rows, q) < Cardinality(rows)
          /\ Cardinality(rows) \in Nat
      BY <1>1, <3>3, <3>4, RankBound
    <3> QED
      BY <2>1, <3>5
  <2>3. ASSUME NEW p \in T PROVE p \in E
    <3>1. p \in rows
      BY <2>2
    <3>2. Rank(rows, p) < Cardinality(rows) /\ Cardinality(rows) \in Nat
          /\ Rank(rows, p) \in Nat
      BY <1>1, <3>1, RankBound
    <3> QED
      BY <2>1, <3>1, <3>2 DEF FirstRows
  <2>4. ASSUME NEW p \in E PROVE \E i \in 1..Len(e) : e[i] = p
    <3>1. Rank(E, p) \in Nat /\ Rank(E, p) < Cardinality(E)
      BY <1>2, RankBound
    <3>2. Rank(E, p) + 1 \in 1..Len(e)
      BY <1>3, <1>4, <3>1
    <3>3. e[Rank(E, p) + 1] \in E /\ Rank(E, e[Rank(E, p) + 1]) = Rank(E, p)
      BY <1>3, <3>1, <3>2
    <3>4. e[Rank(E, p) + 1] = p
      BY <1>2, <3>3, RankUnique
    <3> QED
      BY <3>2, <3>4
  <2> QED
    BY <2>3, <2>4
<1> QED
  BY <1>5, <1>7, <1>8

\* The same of the page the API makes.
LEMMA PageMade ==
  ASSUME NEW cursor, Ordered(PostingsOf(Watched))
  PROVE  LET T == {p \in PostingsOf(Watched) : cursor = None \/ p.seq > cursor}
             e == Page(cursor).entries
             c == Page(cursor).nextCursor
         IN  /\ RowsFrom(T, 0, e)
             /\ StopsAt(e, c)
             /\ c = None => \A p \in T : \E i \in 1..Len(e) : e[i] = p
<1> DEFINE T == {p \in PostingsOf(Watched) : cursor = None \/ p.seq > cursor}
           rows == FirstRows(T, PageSize + 1)
           e == InOrder(FirstRows(rows, PageSize))
           c == IF Cardinality(rows) > PageSize THEN Latest(FirstRows(rows, PageSize)).seq
                                               ELSE None
<1>1. Page(cursor).entries = e /\ Page(cursor).nextCursor = c
  BY DEF Page, PageRows, NextCursor
<1>2. Ordered(T)
  BY OrderedSubset
<1>3. PageSize \in Nat \ {0}
  BY ReadersAssumption
<1> HIDE DEF T
<1>4. /\ RowsFrom(T, 0, e)
      /\ StopsAt(e, c)
      /\ c = None => \A p \in T : \E i \in 1..Len(e) : e[i] = p
  <2> DEFINE x == rows
             y == e
             z == c
  <2>1. /\ x = FirstRows(T, PageSize + 1) /\ y = InOrder(FirstRows(x, PageSize))
        /\ z = IF Cardinality(x) > PageSize THEN Latest(FirstRows(x, PageSize)).seq
                                            ELSE None
    OBVIOUS
  <2> HIDE DEF x, y, z
  <2>2. /\ RowsFrom(T, 0, y)
        /\ StopsAt(y, z)
        /\ z = None => \A p \in T : \E i \in 1..Len(y) : y[i] = p
    BY <1>2, <1>3, <2>1, PageOfRows
  <2> QED
    BY <2>2 DEF x, y, z
<1> QED
  BY <1>1, <1>4 DEF T

-----------------------------------------------------------------------------
(* The statement                                                            *)

\* No two postings of an account share a seq, and none comes before an older one.
SeqsDistinct ==
  \A a \in Accounts : \A p, q \in PostingsOf(a) : p.seq = q.seq => p = q

\* Postings of an account become visible after all that are visible already.
LEMMA PostingsGrow ==
  ASSUME LedgerInv, SeqsDistinct, [Next]_vars
  PROVE  /\ SeqsDistinct'
         /\ \A a \in Accounts :
              /\ PostingsOf(a) \subseteq PostingsOf(a)'
              /\ \A p \in PostingsOf(a), q \in PostingsOf(a)' \ PostingsOf(a) :
                   p.seq < q.seq
<1>1. CASE journal' = journal
  <2>1. \A a : PostingsOf(a)' = PostingsOf(a)
    BY <1>1 DEF PostingsOf, Postings
  <2> QED
    BY <2>1 DEF SeqsDistinct
<1>2. ASSUME NEW r \in Requests, Commit(r)
      PROVE  /\ SeqsDistinct'
             /\ \A a \in Accounts :
                  /\ PostingsOf(a) \subseteq PostingsOf(a)'
                  /\ \A p \in PostingsOf(a), q \in PostingsOf(a)' \ PostingsOf(a) :
                       p.seq < q.seq
  <2> DEFINE n1 == NewPosting(r, 1)
             n2 == NewPosting(r, 2)
  <2>1. Postings' = Postings \cup {n1, n2}
    BY <1>2, CommitAddsPostings
  <2>2. \A i \in Leg : seqs[r][i] # 0 /\ seqs[r][i] \in Nat
    BY <1>2 DEF LedgerInv, TypeInv, StageOK, TypeOK, RequestsOK, Commit, Writing
  <2>3. 1 \in Leg /\ 2 \in Leg
    BY DEF Leg
  <2>4. /\ n1.seq = seqs[r][1] /\ n1.account = TargetOf(r, 1)
        /\ n2.seq = seqs[r][2] /\ n2.account = TargetOf(r, 2)
    BY <2>3, NewPostingFields
  <2>5. n1.seq \in Nat /\ n2.seq \in Nat /\ n1.seq < n2.seq
    BY <2>2, <2>3, <2>4 DEF LedgerInv, InFlightInv, SeqsInOrder
  <2>6. /\ \A p \in PostingsOf(n1.account) : p.seq < n1.seq
        /\ \A p \in PostingsOf(n2.account) : p.seq < n2.seq
    BY <2>2, <2>3, <2>4 DEF LedgerInv, InFlightInv, InFlightLater
  <2>7. \A p \in Postings : p.seq \in Nat
    BY PostingsTyped DEF LedgerInv
  <2> HIDE DEF n1, n2
  <2> SUFFICES ASSUME NEW a \in Accounts
               PROVE  /\ \A p, q \in PostingsOf(a)' : p.seq = q.seq => p = q
                      /\ PostingsOf(a) \subseteq PostingsOf(a)'
                      /\ \A p \in PostingsOf(a), q \in PostingsOf(a)' \ PostingsOf(a) :
                           p.seq < q.seq
    BY DEF SeqsDistinct
  <2>8. PostingsOf(a)' = PostingsOf(a) \cup {n \in {n1, n2} : n.account = a}
    BY <2>1 DEF PostingsOf
  <2>9. \A p \in PostingsOf(a) : p \in Postings /\ p.account = a
    BY DEF PostingsOf
  <2>10. \A p \in PostingsOf(a), n \in {n1, n2} : n.account = a => p.seq < n.seq
    BY <2>6, <2>9
  <2>11. ASSUME NEW p \in PostingsOf(a)', NEW q \in PostingsOf(a)', p.seq = q.seq
         PROVE  p = q
    <3>1. CASE p \in PostingsOf(a) /\ q \in PostingsOf(a)
      BY <2>11, <3>1 DEF SeqsDistinct
    <3>2. CASE p \in {n1, n2} /\ q \in {n1, n2}
      BY <2>5, <2>11, <3>2
    <3>3. CASE p \in PostingsOf(a) /\ q \in {n1, n2} /\ q.account = a
      BY <2>5, <2>7, <2>9, <2>10, <2>11, <3>3
    <3>4. CASE q \in PostingsOf(a) /\ p \in {n1, n2} /\ p.account = a
      BY <2>5, <2>7, <2>9, <2>10, <2>11, <3>4
    <3> QED
      BY <2>8, <3>1, <3>2, <3>3, <3>4
  <2> QED
    BY <2>8, <2>10, <2>11
<1>3. ASSUME NEW r \in Requests, Receive(r) \/ Serve(r) \/ Fail(r) \/ LoseAnswer(r)
      PROVE  Commit(r) \/ journal' = journal
  BY <1>3, OnlyCommitWrites DEF LedgerInv
<1> QED
  BY <1>1, <1>2, <1>3 DEF Next, Quiescent, vars, OpenAccount

\* Committed postings are finitely many and have a seq of their own.
LEMMA SeqsInvariant == Spec => [](LedgerInv /\ PostingsFinite /\ SeqsDistinct)
<1>1. Init => SeqsDistinct
  BY DEF Init, SeqsDistinct, PostingsOf, Postings
<1>2. LedgerInv /\ SeqsDistinct /\ [Next]_vars => SeqsDistinct'
  BY PostingsGrow
<1>3. ConservedInv => PostingsFinite
  BY DEF ConservedInv
<1> QED
  BY <1>1, <1>2, <1>3, LedgerInvariant, ConservedInvariant, PTL DEF Spec

\* Of two postings of the account on the page one comes first.
LEMMA WatchedOrdered == Spec => []Ordered(PostingsOf(Watched))
<1>1. LedgerInv /\ PostingsFinite /\ SeqsDistinct => Ordered(PostingsOf(Watched))
  <2> SUFFICES ASSUME LedgerInv, PostingsFinite, SeqsDistinct
               PROVE  Ordered(PostingsOf(Watched))
    OBVIOUS
  <2>1. PostingsOf(Watched) \in SUBSET Postings
    BY DEF PostingsOf
  <2>2. \A p \in PostingsOf(Watched) : p.seq \in Int
    BY <2>1, PostingsTyped DEF LedgerInv
  <2>3. IsFiniteSet(PostingsOf(Watched))
    BY <2>1, FS_Subset DEF PostingsFinite
  <2> QED
    BY <2>2, <2>3, ReadersAssumption DEF SeqsDistinct, Ordered
<1> QED
  BY <1>1, SeqsInvariant, PTL

\* The screen has the first rows up to its cursor, an answer on its way the rows
\* after it.
ViewInv ==
  /\ ViewTyped
  /\ Shown => /\ RowsFrom(PostingsOf(Watched), 0, view.entries)
              /\ StopsAt(view.entries, view.cursor)
  /\ view.stage = "loading" =>
       /\ view.cursor # None
       /\ RowsFrom(PostingsOf(Watched), Len(view.entries), view.answer.entries)
       /\ StopsAt(view.answer.entries, view.answer.nextCursor)

\* How the statement moves.
LEMMA ViewSteps ==
  ASSUME ViewTyped, [ReadersNext]_allVars
  PROVE  \/ /\ view' = [view EXCEPT !.quiet = view'.quiet]
            /\ view'.quiet \in BOOLEAN
            /\ view'.quiet =>
                 view.quiet /\ (view.stage # "closed" => journal' = journal)
            /\ [Next]_vars
         \/ Browse /\ UNCHANGED vars
<1>1. CASE UNCHANGED <<vars, view>>
  BY <1>1 DEF ViewTyped, vars
<1>2. CASE Write
  BY <1>2 DEF ViewTyped, Write
<1>3. CASE Browse
  BY <1>3 DEF Browse, Render, ReadBalance, ReadStatement, LoadMore, ShowPage,
     LosePage, Refresh, Close
<1>4. CASE Verify
  BY <1>1, <1>4 DEF Verify, ReadConservation, ReadPostings, ReadState, Reverify
<1>5. CASE UNCHANGED allVars
  BY <1>1, <1>5 DEF allVars, readers
<1> QED
  BY <1>2, <1>3, <1>4, <1>5 DEF ReadersNext

\* Each page goes on where the rows on the screen end.
LEMMA NextKeepsView ==
  ASSUME LedgerInv, SeqsDistinct, Ordered(PostingsOf(Watched)),
         Ordered(PostingsOf(Watched))', ReadersTyped, ViewInv, [ReadersNext]_allVars
  PROVE  ViewInv'
<1> DEFINE P == PostingsOf(Watched)
<1>1. ViewTyped'
  BY ReadersNextTyped DEF ReadersTyped
<1>2. Ordered(P) /\ Ordered(P')
  OBVIOUS
<1>3. CASE view' = [view EXCEPT !.quiet = view'.quiet] /\ [Next]_vars
  <2>1. /\ view'.stage = view.stage /\ view'.entries = view.entries
        /\ view'.cursor = view.cursor /\ view'.answer = view.answer
    BY <1>3 DEF ViewInv, ViewTyped
  <2>2. P \subseteq P' /\ \A p \in P, q \in P' \ P : p.seq < q.seq
    BY <1>3, PostingsGrow, ReadersAssumption
  <2>3. \A k, e : RowsFrom(P, k, e) => RowsFrom(P', k, e)
    <3> DEFINE Q == P'
    <3>1. P \subseteq Q /\ Ordered(Q) /\ \A p \in P, q \in Q \ P : p.seq < q.seq
      BY <1>2, <2>2
    <3> HIDE DEF P, Q
    <3>2. \A k, e : RowsFrom(P, k, e) => RowsFrom(Q, k, e)
      BY <1>2, <3>1, RowsStay
    <3> QED
      BY <3>2 DEF Q
  <2> QED
    BY <1>1, <2>1, <2>3 DEF ViewInv, Shown
<1>4. CASE UNCHANGED vars /\ (ReadBalance \/ Close)
  <2>1. CASE ReadBalance
    <3>1. view' = [stage |-> "balance", balance |-> BalanceOf, entries |-> <<>>,
                   cursor |-> None, answer |-> NoPage, quiet |-> TRUE,
                   reread |-> FALSE]
      BY <2>1 DEF ReadBalance, Closed
    <3> QED
      BY <1>1, <3>1 DEF ViewInv, Shown
  <2>2. CASE Close
    <3>1. view'.stage = "closed"
      BY <2>2 DEF Close, Closed
    <3> QED
      BY <1>1, <3>1 DEF ViewInv, Shown
  <2> QED
    BY <1>4, <2>1, <2>2
<1>5. UNCHANGED vars => P' = P
  BY DEF vars, PostingsOf, Postings
<1>6. CASE UNCHANGED vars /\ ReadStatement
  <2>1. /\ view'.stage = "ready" /\ view'.entries = Page(None).entries
        /\ view'.cursor = Page(None).nextCursor
    BY <1>6 DEF ReadStatement, ViewInv, ViewTyped
  <2>2. {p \in P : None = None \/ p.seq > None} = P
    OBVIOUS
  <2>3. /\ RowsFrom(P, 0, Page(None).entries)
        /\ StopsAt(Page(None).entries, Page(None).nextCursor)
    BY <1>2, <2>2, PageMade
  <2> QED
    BY <1>1, <1>5, <1>6, <2>1, <2>3 DEF ViewInv
<1>7. CASE UNCHANGED vars /\ LoadMore
  <2>1. /\ view.stage = "ready" /\ view.cursor # None
        /\ view'.stage = "loading" /\ view'.entries = view.entries
        /\ view'.cursor = view.cursor /\ view'.answer = Page(view.cursor)
    BY <1>7 DEF LoadMore, ViewInv, ViewTyped
  <2>2. RowsFrom(P, 0, view.entries) /\ StopsAt(view.entries, view.cursor)
    BY <2>1 DEF ViewInv, Shown
  <2> DEFINE last == view.entries[Len(view.entries)]
             T == {p \in P : view.cursor = None \/ p.seq > view.cursor}
             e == Page(view.cursor).entries
  <2>3. view.cursor = last.seq /\ last \in P /\ Len(view.entries) \in Nat
        /\ Rank(P, last) + 1 = Len(view.entries)
    BY <2>1, <2>2 DEF StopsAt, RowsFrom
  <2>4. T = {p \in P : p.seq > last.seq}
    BY <2>1, <2>3
  <2>5. RowsFrom(T, 0, e) /\ StopsAt(e, Page(view.cursor).nextCursor)
    BY <1>2, PageMade
  <2>6. RowsFrom(P, Len(view.entries), e)
    <3> HIDE DEF T, e, P, last
    <3>1. RowsFrom({p \in P : p.seq > last.seq}, 0, e)
      BY <2>4, <2>5
    <3>2. RowsFrom(P, Rank(P, last) + 1, e)
      BY <1>2, <2>3, <3>1, RowsAfter
    <3> QED
      BY <2>3, <3>2
  <2> QED
    BY <1>1, <1>5, <1>7, <2>1, <2>2, <2>5, <2>6 DEF ViewInv, Shown
<1>8. CASE UNCHANGED vars /\ ShowPage
  <2> DEFINE e == view.entries
             f == view.answer.entries
             c == view.answer.nextCursor
  <2>1. /\ view.stage = "loading" /\ view'.stage = "ready"
        /\ view'.entries = e \o f /\ view'.cursor = c
    BY <1>8 DEF ShowPage, ViewInv, ViewTyped
  <2>2. RowsFrom(P, 0, e) /\ RowsFrom(P, Len(e), f) /\ StopsAt(f, c)
    BY <2>1 DEF ViewInv, Shown
  <2> HIDE DEF P, e, f, c
  <2>3. e \in Seq(P) /\ f \in Seq(P)
    BY <2>2 DEF RowsFrom
  <2>4. RowsFrom(P, 0, e \o f)
    BY <2>2, <2>3, RowsConcat
  <2>5. StopsAt(e \o f, c)
    <3> SUFFICES ASSUME c # None PROVE Len(e \o f) > 0 /\ c = (e \o f)[Len(e \o f)].seq
      BY DEF StopsAt
    <3>1. Len(f) > 0 /\ c = f[Len(f)].seq
      BY <2>2 DEF StopsAt
    <3>2. Len(e \o f) = Len(e) + Len(f) /\ (e \o f)[Len(e) + Len(f)] = f[Len(f)]
      BY <2>3, <3>1
    <3> QED
      BY <2>3, <3>1, <3>2
  <2> QED
    BY <1>1, <1>5, <1>8, <2>1, <2>4, <2>5 DEF ViewInv, P
<1>9. CASE UNCHANGED vars /\ LosePage
  <2>1. /\ view.stage = "loading" /\ view'.stage = "ready"
        /\ view'.entries = view.entries /\ view'.cursor = view.cursor
    BY <1>9 DEF LosePage, ViewInv, ViewTyped
  <2> QED
    BY <1>1, <1>5, <1>9, <2>1 DEF ViewInv, Shown
<1>10. CASE UNCHANGED vars /\ Refresh
  <2>1. /\ view'.stage = view.stage /\ view'.answer = view.answer
        /\ view'.entries = view.entries /\ view'.cursor = view.cursor
    BY <1>10 DEF Refresh, ViewInv, ViewTyped
  <2> QED
    BY <1>1, <1>5, <1>10, <2>1 DEF ViewInv, Shown
<1> QED
  BY <1>3, <1>4, <1>6, <1>7, <1>8, <1>9, <1>10, ViewSteps DEF Browse, Render, ViewInv

\* The screen shows the first postings in every reachable state.
LEMMA ViewInvariant == ReadersSpec => [](ReadersTyped /\ ViewInv)
<1>1. ReadersInit => ReadersTyped /\ ViewInv
  BY ReadersInitTyped DEF ReadersInit, ReadersTyped, ViewInv, Closed, Shown
<1>2. LedgerInv /\ SeqsDistinct /\ Ordered(PostingsOf(Watched))
      /\ Ordered(PostingsOf(Watched))' /\ ReadersTyped /\ ViewInv /\ [ReadersNext]_allVars
        => ReadersTyped' /\ ViewInv'
  <2> SUFFICES ASSUME LedgerInv, SeqsDistinct, Ordered(PostingsOf(Watched)),
                      Ordered(PostingsOf(Watched))', ReadersTyped, ViewInv,
                      [ReadersNext]_allVars
               PROVE  ReadersTyped' /\ ViewInv'
    OBVIOUS
  <2>1. ReadersTyped'
    BY ReadersNextTyped
  <2>2. ViewInv'
    BY NextKeepsView
  <2> QED
    BY <2>1, <2>2
<1> QED
  BY <1>1, <1>2, ReadersLeaveLedger, SeqsInvariant, WatchedOrdered, PTL DEF ReadersSpec

\* The rows on the screen are the account's first postings, each once and in
\* order, whatever commits between two pages and whichever answers are lost
\* (statement.service.ts, statement-view.tsx): seq is drawn under the account's
\* lock, so postings become visible in its order, all after the cursor.
THEOREM StatementHasNoGap == ReadersSpec => []StatementGapFree
<1>1. Ordered(PostingsOf(Watched)) /\ ViewInv => StatementGapFree
  BY RowsAreFirst DEF ViewInv, StatementGapFree
<1> QED
  BY <1>1, ViewInvariant, ReadersLeaveLedger, WatchedOrdered, PTL

\* The row is on the page.
Has(e, p) == \E i \in 1..Len(e) : e[i] = p

\* Nothing of Q is missing in e.
Covers(e, Q) == \A p \in Q : Has(e, p)

\* While nothing commits the balance stays current, and a page without a cursor
\* is the last one.
EndInv ==
  LET P == PostingsOf(Watched)
  IN  view.quiet =>
        /\ view.stage # "closed" => view.balance = LastBalance(P)
        /\ Shown /\ view.cursor = None => Covers(view.entries, P)
        /\ view.stage = "loading" /\ view.answer.nextCursor = None =>
             Covers(view.answer.entries, {p \in P : p.seq > view.cursor})

\* Every row comes before a cursor or after it.
LEMMA RowHeld ==
  ASSUME NEW P, Ordered(P), NEW e, NEW f, NEW c, RowsFrom(P, 0, e), StopsAt(e, c),
         c # None, f \in Seq(P), NEW p \in P, p.seq > c => Has(f, p)
  PROVE  Has(e \o f, p)
<1>1. e \in Seq(P) /\ Len(e) \in Nat /\ Len(f) \in Nat
  BY DEF RowsFrom
<1>2. /\ Len(e \o f) = Len(e) + Len(f)
      /\ \A i \in 1..Len(e) : (e \o f)[i] = e[i]
      /\ \A i \in 1..Len(f) : (e \o f)[Len(e) + i] = f[i]
  BY <1>1
<1>3. CASE p.seq > c
  <2>1. PICK i \in 1..Len(f) : f[i] = p
    BY <1>3 DEF Has
  <2>2. Len(e) + i \in 1..Len(e \o f)
    BY <1>1, <1>2
  <2> QED
    BY <1>2, <2>1, <2>2 DEF Has
<1>4. CASE ~(p.seq > c)
  <2> DEFINE last == e[Len(e)]
  <2>1. Len(e) > 0 /\ c = last.seq
    BY DEF StopsAt
  <2>2. last \in P /\ Rank(P, last) = Len(e) - 1
    BY <1>1, <2>1 DEF RowsFrom
  <2>3. p.seq < last.seq \/ p = last
    BY <1>4, <2>1, <2>2 DEF Ordered
  <2>4. Rank(P, p) <= Rank(P, last) /\ Rank(P, p) \in Nat
    BY <2>2, <2>3, RankGrows, RankBound
  <2> DEFINE i == Rank(P, p) + 1
  <2>5. i \in 1..Len(e) /\ i - 1 = Rank(P, p)
    BY <1>1, <2>1, <2>2, <2>4
  <2> HIDE DEF i
  <2>6. e[i] \in P /\ Rank(P, e[i]) = 0 + i - 1
    BY <1>1, <2>5 DEF RowsFrom
  <2>7. Rank(P, e[i]) = Rank(P, p)
    BY <2>4, <2>5, <2>6
  <2>8. e[i] = p
    BY <2>6, <2>7, RankUnique
  <2>9. i \in 1..Len(e \o f)
    BY <1>1, <1>2, <2>5
  <2> QED
    BY <1>2, <2>5, <2>8, <2>9 DEF Has
<1> QED
  BY <1>3, <1>4

\* The rows before a cursor and the rows after it are all rows.
LEMMA CoversConcat ==
  ASSUME NEW P, Ordered(P), NEW e, NEW f, NEW c, RowsFrom(P, 0, e), StopsAt(e, c),
         c # None, f \in Seq(P), Covers(f, {p \in P : p.seq > c})
  PROVE  Covers(e \o f, P)
<1> SUFFICES ASSUME NEW p \in P PROVE Has(e \o f, p)
  BY DEF Covers
<1>1. p.seq > c => Has(f, p)
  BY DEF Covers
<1> QED
  BY <1>1, RowHeld

\* At rest the last row of a complete statement holds the balance.
LEMMA NextKeepsEnd ==
  ASSUME ChainsInv, Ordered(PostingsOf(Watched)), ReadersTyped, ViewInv, EndInv,
         ChainsInv', [ReadersNext]_allVars
  PROVE  EndInv'
<1> DEFINE P == PostingsOf(Watched)
<1>1. journal' = journal => P' = P /\ LastBalance(P)' = LastBalance(P)
  BY DEF PostingsOf, Postings, LastBalance, Latest
<1>2. UNCHANGED vars => journal' = journal
  BY DEF vars
<1>3. BalanceOf = LastBalance(P)
  BY BalanceIsLast, ReadersAssumption DEF BalanceOf
<1>4. CASE /\ view' = [view EXCEPT !.quiet = view'.quiet]
           /\ view'.quiet \in BOOLEAN
           /\ view'.quiet =>
                view.quiet /\ (view.stage # "closed" => journal' = journal)
  <2>1. /\ view'.stage = view.stage /\ view'.entries = view.entries
        /\ view'.cursor = view.cursor /\ view'.answer = view.answer
        /\ view'.balance = view.balance
    BY <1>4 DEF ViewInv, ViewTyped
  <2>2. CASE view.stage = "closed"
    BY <2>1, <2>2 DEF EndInv, Shown
  <2>3. CASE view.stage # "closed"
    BY <1>1, <1>4, <2>1, <2>3 DEF EndInv, Shown
  <2> QED
    BY <2>2, <2>3
<1>5. CASE UNCHANGED vars /\ ReadBalance
  <2>1. view' = [stage |-> "balance", balance |-> BalanceOf, entries |-> <<>>,
                 cursor |-> None, answer |-> NoPage, quiet |-> TRUE,
                 reread |-> FALSE]
    BY <1>5 DEF ReadBalance, Closed
  <2> QED
    BY <1>1, <1>2, <1>3, <1>5, <2>1 DEF EndInv, Shown
<1>6. CASE Close
  <2>1. view'.stage = "closed"
    BY <1>6 DEF Close, Closed
  <2> QED
    BY <2>1 DEF EndInv, Shown
<1>7. CASE UNCHANGED vars /\ ReadStatement
  <2>1. /\ view.stage = "balance" /\ view'.stage = "ready"
        /\ view'.entries = Page(None).entries /\ view'.cursor = Page(None).nextCursor
        /\ view'.balance = view.balance /\ view'.quiet = view.quiet
    BY <1>7 DEF ReadStatement, ViewInv, ViewTyped
  <2>2. {p \in P : None = None \/ p.seq > None} = P
    OBVIOUS
  <2>3. Page(None).nextCursor = None => Covers(Page(None).entries, P)
    BY <2>2, PageMade DEF Covers, Has
  <2> QED
    BY <1>1, <1>2, <1>7, <2>1, <2>3 DEF EndInv, Shown
<1>8. CASE UNCHANGED vars /\ LoadMore
  <2>1. /\ view.stage = "ready" /\ view.cursor # None
        /\ view'.stage = "loading" /\ view'.balance = view.balance
        /\ view'.cursor = view.cursor /\ view'.answer = Page(view.cursor)
        /\ view'.quiet = view.quiet
    BY <1>8 DEF LoadMore, ViewInv, ViewTyped
  <2>2. {p \in P : view.cursor = None \/ p.seq > view.cursor}
          = {p \in P : p.seq > view.cursor}
    BY <2>1
  <2>3. Page(view.cursor).nextCursor = None =>
          Covers(Page(view.cursor).entries, {p \in P : p.seq > view.cursor})
    BY <2>2, PageMade DEF Covers, Has
  <2> QED
    BY <1>1, <1>2, <1>8, <2>1, <2>3 DEF EndInv, Shown
<1>9. CASE UNCHANGED vars /\ ShowPage
  <2>1. /\ view.stage = "loading" /\ view'.stage = "ready"
        /\ view'.entries = view.entries \o view.answer.entries
        /\ view'.cursor = view.answer.nextCursor
        /\ view'.balance = view.balance /\ view'.quiet = view.quiet
    BY <1>9 DEF ShowPage, ViewInv, ViewTyped
  <2>2. /\ RowsFrom(P, 0, view.entries) /\ StopsAt(view.entries, view.cursor)
        /\ view.cursor # None /\ view.answer.entries \in Seq(P)
    BY <2>1 DEF ViewInv, Shown, RowsFrom
  <2>3. Covers(view.answer.entries, {p \in P : p.seq > view.cursor}) =>
          Covers(view.entries \o view.answer.entries, P)
    BY <2>2, CoversConcat
  <2> QED
    BY <1>1, <1>2, <1>9, <2>1, <2>3 DEF EndInv, Shown
<1>10. CASE UNCHANGED vars /\ LosePage
  <2>1. /\ view.stage = "loading" /\ view'.stage = "ready"
        /\ view'.entries = view.entries /\ view'.cursor = view.cursor
        /\ view'.balance = view.balance /\ view'.quiet = view.quiet
    BY <1>10 DEF LosePage, ViewInv, ViewTyped
  <2> QED
    BY <1>1, <1>2, <1>10, <2>1 DEF EndInv, Shown
<1>11. CASE UNCHANGED vars /\ Refresh
  <2>1. /\ view'.stage = view.stage /\ view'.answer = view.answer
        /\ view'.entries = view.entries /\ view'.cursor = view.cursor
        /\ view'.balance = BalanceOf /\ view'.quiet = view.quiet
    BY <1>11 DEF Refresh, ViewInv, ViewTyped
  <2> QED
    BY <1>1, <1>2, <1>3, <1>11, <2>1 DEF EndInv, Shown
<1> QED
  BY <1>4, <1>5, <1>6, <1>7, <1>8, <1>9, <1>10, <1>11, ViewSteps DEF Browse, Render,
     ViewInv

\* A statement that has been loaded to its end while nothing committed ends at
\* the balance above it (web/e2e/ledger.spec.ts, "ends a statement at the
\* balance the account reports").
THEOREM StatementEndsAtBalance ==
  ASSUME CanonicalIds PROVE ReadersSpec => []StatementEndsAtRest
<1>1. ReadersInit => EndInv
  BY DEF ReadersInit, EndInv, Closed, Shown
<1>2. ChainsInv /\ Ordered(PostingsOf(Watched)) /\ ReadersTyped /\ ViewInv /\ EndInv
      /\ ChainsInv' /\ [ReadersNext]_allVars => EndInv'
  BY NextKeepsEnd
<1>3. ViewInv /\ EndInv => StatementEndsAtRest
  <2> SUFFICES ASSUME ViewInv, EndInv, Shown, view.cursor = None, view.quiet
               PROVE  view.balance = LastBalance(ToSet(view.entries))
    BY DEF StatementEndsAtRest
  <2>1. /\ view.entries \in Seq(PostingsOf(Watched))
        /\ Covers(view.entries, PostingsOf(Watched))
        /\ view.balance = LastBalance(PostingsOf(Watched))
    BY DEF ViewInv, EndInv, Shown, RowsFrom
  <2>2. ToSet(view.entries) = PostingsOf(Watched)
    BY <2>1 DEF ToSet, Covers, Has
  <2> QED
    BY <2>1, <2>2
<1> QED
  BY <1>1, <1>2, <1>3, ViewInvariant, ReadersLeaveLedger, ChainsInvariant,
     WatchedOrdered, PTL DEF ReadersSpec

\* The last of some postings is one of them.
LEMMA LatestIsOne ==
  ASSUME NEW P, Ordered(P), P # {} PROVE Latest(P) \in P
<1>1. Cardinality(P) \in Nat /\ Cardinality(P) # 0
  BY FS_CardinalityType, FS_EmptySet DEF Ordered
<1>2. Cardinality(P) - 1 \in 0..(Cardinality(P) - 1)
  BY <1>1
<1>3. PICK l \in P : Rank(P, l) = Cardinality(P) - 1
  BY <1>2, RankOnto
<1>4. ASSUME NEW q \in P PROVE q.seq <= l.seq
  <2>1. Rank(P, q) < Cardinality(P) /\ Rank(P, q) \in Nat
    BY RankBound
  <2>2. ~(l.seq < q.seq)
    BY <1>1, <1>3, <2>1, RankGrows
  <2> QED
    BY <2>2 DEF Ordered
<1> QED
  BY <1>4 DEF Latest

\* The row at which a balance was reached is the last of the rows up to it.
LEMMA RowIsLatest ==
  ASSUME NEW P, Ordered(P), NEW e, RowsFrom(P, 0, e), NEW n \in 1..Len(e)
  PROVE  LastBalance(ToSet(SubSeq(e, 1, n))) = e[n].balanceAfter
<1> DEFINE s == SubSeq(e, 1, n)
           S == ToSet(s)
<1>1. e \in Seq(P) /\ Len(e) \in Nat
  BY DEF RowsFrom
<1>2. DOMAIN s = 1..n /\ \A i \in 1..n : s[i] = e[i]
  BY <1>1
<1>3. S = {e[i] : i \in 1..n}
  <2>1. S = {s[i] : i \in DOMAIN s}
    BY DEF ToSet
  <2> HIDE DEF s, S
  <2> QED
    BY <1>2, <2>1
<1>4. e[n] \in S /\ \A i \in 1..n : e[i] \in P
  BY <1>1, <1>3
<1>5. ASSUME NEW i \in 1..n PROVE e[i].seq <= e[n].seq
  <2>1. Rank(P, e[i]) = i - 1 /\ Rank(P, e[n]) = n - 1
    BY <1>1 DEF RowsFrom
  <2>2. ~(e[n].seq < e[i].seq)
    BY <1>4, <2>1, RankGrows
  <2> QED
    BY <1>4, <2>2 DEF Ordered
<1> HIDE DEF s, S
<1>6. \A x \in S : (\A q \in S : q.seq <= x.seq) => x = e[n]
  <2> SUFFICES ASSUME NEW x \in S, \A q \in S : q.seq <= x.seq PROVE x = e[n]
    OBVIOUS
  <2>1. x.seq <= e[n].seq /\ e[n].seq <= x.seq /\ x \in P
    BY <1>3, <1>4, <1>5
  <2> QED
    BY <1>4, <2>1 DEF Ordered
<1>7. \A q \in S : q.seq <= e[n].seq
  BY <1>3, <1>5
<1>8. Latest(S) = e[n]
  BY <1>4, <1>6, <1>7 DEF Latest
<1>9. LastBalance(S) = e[n].balanceAfter
  BY <1>4, <1>8 DEF LastBalance
<1> QED
  BY <1>9 DEF S, s

\* The balance above the rows was reached at t, and t is among the rows as far as
\* they have been loaded.
ReachedAt(t) ==
  /\ view.balance = t.balanceAfter
  /\ Shown /\ view.cursor = None => Has(view.entries, t)
  /\ view.stage = "loading" /\ view.answer.nextCursor = None /\ t.seq > view.cursor =>
       Has(view.answer.entries, t)

\* The balance was read before the rows: its row had been committed by then.
ReachInv ==
  view.stage # "closed" /\ ~view.reread =>
    view.balance = 0 \/ \E t \in PostingsOf(Watched) : ReachedAt(t)

\* A row that was committed before the balance was read is on one of the pages.
LEMMA NextKeepsReach ==
  ASSUME ChainsInv, LedgerInv, SeqsDistinct, Ordered(PostingsOf(Watched)), ReadersTyped,
         ViewInv, EndInv, ReachInv, [ReadersNext]_allVars
  PROVE  ReachInv'
<1> DEFINE P == PostingsOf(Watched)
<1> SUFFICES ASSUME (view.stage # "closed" /\ ~view.reread)'
             PROVE  (view.balance = 0 \/ \E t \in P : ReachedAt(t))'
  BY DEF ReachInv
<1>1. BalanceOf = LastBalance(P)
  BY BalanceIsLast, ReadersAssumption DEF BalanceOf
<1>2. UNCHANGED vars => P' = P
  BY DEF vars, PostingsOf, Postings
<1>3. CASE view' = [view EXCEPT !.quiet = view'.quiet] /\ [Next]_vars
  <2>1. /\ view'.stage = view.stage /\ view'.entries = view.entries
        /\ view'.cursor = view.cursor /\ view'.answer = view.answer
        /\ view'.balance = view.balance /\ view'.reread = view.reread
    BY <1>3 DEF ViewInv, ViewTyped
  <2>2. P \subseteq P'
    BY <1>3, PostingsGrow, ReadersAssumption
  <2>3. view.balance = 0 \/ \E t \in P : ReachedAt(t)
    BY <2>1 DEF ReachInv
  <2>4. \A t \in P : ReachedAt(t) => ReachedAt(t)'
    BY <2>1 DEF ReachedAt, Shown
  <2> QED
    BY <2>1, <2>2, <2>3, <2>4
<1>4. CASE UNCHANGED vars /\ ReadBalance
  <2>1. view' = [stage |-> "balance", balance |-> BalanceOf, entries |-> <<>>,
                 cursor |-> None, answer |-> NoPage, quiet |-> TRUE,
                 reread |-> FALSE]
    BY <1>4 DEF ReadBalance, Closed
  <2>2. P # {} => Latest(P) \in P
    BY LatestIsOne
  <2>3. P # {} => ReachedAt(Latest(P))'
    BY <1>1, <1>2, <1>4, <2>1 DEF ReachedAt, Shown, LastBalance, Latest
  <2>4. P = {} => view'.balance = 0
    BY <1>1, <2>1 DEF LastBalance
  <2> QED
    BY <1>2, <1>4, <2>2, <2>3, <2>4
<1>5. CASE Close
  BY <1>5 DEF Close, Closed
<1>6. CASE UNCHANGED vars /\ ReadStatement
  <2>1. /\ view.stage = "balance" /\ view'.stage = "ready"
        /\ view'.entries = Page(None).entries /\ view'.cursor = Page(None).nextCursor
        /\ view'.balance = view.balance /\ view'.reread = view.reread
    BY <1>6 DEF ReadStatement, ViewInv, ViewTyped
  <2>2. {p \in P : None = None \/ p.seq > None} = P
    OBVIOUS
  <2>3. Page(None).nextCursor = None => \A t \in P : Has(Page(None).entries, t)
    BY <2>2, PageMade DEF Has
  <2>4. view.balance = 0 \/ \E t \in P : ReachedAt(t)
    BY <2>1 DEF ReachInv
  <2>5. \A t \in P : ReachedAt(t) => ReachedAt(t)'
    BY <2>1, <2>3 DEF ReachedAt, Shown
  <2> QED
    BY <1>2, <1>6, <2>1, <2>4, <2>5
<1>7. CASE UNCHANGED vars /\ LoadMore
  <2>1. /\ view.stage = "ready" /\ view.cursor # None
        /\ view'.stage = "loading" /\ view'.balance = view.balance
        /\ view'.cursor = view.cursor /\ view'.answer = Page(view.cursor)
        /\ view'.reread = view.reread
    BY <1>7 DEF LoadMore, ViewInv, ViewTyped
  <2>2. {p \in P : view.cursor = None \/ p.seq > view.cursor}
          = {p \in P : p.seq > view.cursor}
    BY <2>1
  <2>3. Page(view.cursor).nextCursor = None =>
          \A t \in P : t.seq > view.cursor => Has(Page(view.cursor).entries, t)
    BY <2>2, PageMade DEF Has
  <2>4. view.balance = 0 \/ \E t \in P : ReachedAt(t)
    BY <2>1 DEF ReachInv
  <2>5. \A t \in P : ReachedAt(t) => ReachedAt(t)'
    BY <2>1, <2>3 DEF ReachedAt, Shown
  <2> QED
    BY <1>2, <1>7, <2>1, <2>4, <2>5
<1>8. CASE UNCHANGED vars /\ ShowPage
  <2>1. /\ view.stage = "loading" /\ view'.stage = "ready"
        /\ view'.entries = view.entries \o view.answer.entries
        /\ view'.cursor = view.answer.nextCursor
        /\ view'.balance = view.balance /\ view'.reread = view.reread
    BY <1>8 DEF ShowPage, ViewInv, ViewTyped
  <2>2. /\ RowsFrom(P, 0, view.entries) /\ StopsAt(view.entries, view.cursor)
        /\ view.cursor # None /\ view.answer.entries \in Seq(P)
    BY <2>1 DEF ViewInv, Shown, RowsFrom
  <2>3. ASSUME NEW t \in P, ReachedAt(t), view.answer.nextCursor = None
        PROVE  Has(view.entries \o view.answer.entries, t)
    <3>1. t.seq > view.cursor => Has(view.answer.entries, t)
      BY <2>1, <2>3 DEF ReachedAt
    <3> QED
      BY <2>2, <3>1, RowHeld
  <2>4. view.balance = 0 \/ \E t \in P : ReachedAt(t)
    BY <2>1 DEF ReachInv
  <2>5. \A t \in P : ReachedAt(t) => ReachedAt(t)'
    BY <2>1, <2>3 DEF ReachedAt, Shown
  <2> QED
    BY <1>2, <1>8, <2>1, <2>4, <2>5
<1>9. CASE UNCHANGED vars /\ LosePage
  <2>1. /\ view.stage = "loading" /\ view'.stage = "ready"
        /\ view'.entries = view.entries /\ view'.cursor = view.cursor
        /\ view'.balance = view.balance /\ view'.reread = view.reread
        /\ view.cursor # None
    BY <1>9 DEF LosePage, ViewInv, ViewTyped
  <2>2. view.balance = 0 \/ \E t \in P : ReachedAt(t)
    BY <2>1 DEF ReachInv
  <2>3. \A t \in P : ReachedAt(t) => ReachedAt(t)'
    BY <2>1 DEF ReachedAt, Shown
  <2> QED
    BY <1>2, <1>9, <2>1, <2>2, <2>3
<1>10. CASE UNCHANGED vars /\ Refresh
  <2>1. /\ view'.stage = view.stage /\ view'.answer = view.answer
        /\ view'.entries = view.entries /\ view'.cursor = view.cursor
        /\ view'.balance = BalanceOf /\ view'.reread = (view.reread \/ ~view.quiet)
    BY <1>10 DEF Refresh, ViewInv, ViewTyped
  <2>2. view.quiet /\ ~view.reread /\ view.stage # "closed"
    BY <2>1
  <2>3. view'.balance = view.balance
    BY <1>1, <2>1, <2>2 DEF EndInv
  <2>4. view.balance = 0 \/ \E t \in P : ReachedAt(t)
    BY <2>2 DEF ReachInv
  <2>5. \A t \in P : ReachedAt(t) => ReachedAt(t)'
    BY <2>1, <2>3 DEF ReachedAt, Shown
  <2> QED
    BY <1>2, <1>10, <2>3, <2>4, <2>5
<1> QED
  BY <1>3, <1>4, <1>5, <1>6, <1>7, <1>8, <1>9, <1>10, ViewSteps
     DEF Browse, Render, ViewInv

\* Whatever commits around the reads, a statement that has been loaded to its end
\* holds the row at which the balance above it was reached: it was read first
\* (statement/page.tsx), unless it was read again after a commit.
THEOREM StatementHoldsBalance ==
  ASSUME CanonicalIds PROVE ReadersSpec => []StatementReachesBalance
<1>1. ReadersInit => EndInv /\ ReachInv
  BY DEF ReadersInit, EndInv, ReachInv, Closed, Shown
<1>2. ChainsInv /\ Ordered(PostingsOf(Watched)) /\ ReadersTyped /\ ViewInv /\ EndInv
      /\ ChainsInv' /\ [ReadersNext]_allVars => EndInv'
  BY NextKeepsEnd
<1>3. ChainsInv /\ LedgerInv /\ SeqsDistinct /\ Ordered(PostingsOf(Watched))
      /\ ReadersTyped /\ ViewInv /\ EndInv /\ ReachInv /\ [ReadersNext]_allVars
        => ReachInv'
  BY NextKeepsReach
<1>4. Ordered(PostingsOf(Watched)) /\ ViewInv /\ ReachInv => StatementReachesBalance
  <2> SUFFICES ASSUME Ordered(PostingsOf(Watched)), ViewInv, ReachInv, Shown,
                      view.cursor = None, ~view.reread
               PROVE  \E n \in 0..Len(view.entries) :
                        view.balance = LastBalance(ToSet(SubSeq(view.entries, 1, n)))
    BY DEF StatementReachesBalance
  <2>1. RowsFrom(PostingsOf(Watched), 0, view.entries) /\ Len(view.entries) \in Nat
    BY DEF ViewInv, RowsFrom
  <2>2. CASE view.balance = 0
    <3>1. ToSet(SubSeq(view.entries, 1, 0)) = {}
      BY <2>1 DEF ToSet
    <3> QED
      BY <2>1, <2>2, <3>1 DEF LastBalance
  <2>3. CASE \E t \in PostingsOf(Watched) : ReachedAt(t)
    <3>1. PICK t : view.balance = t.balanceAfter /\ Has(view.entries, t)
      BY <2>3 DEF ReachedAt
    <3>2. PICK n \in 1..Len(view.entries) : view.entries[n] = t
      BY <3>1 DEF Has
    <3>3. view.balance = LastBalance(ToSet(SubSeq(view.entries, 1, n)))
      BY <2>1, <3>1, <3>2, RowIsLatest
    <3> QED
      BY <2>1, <3>3
  <2> QED
    BY <2>2, <2>3 DEF ReachInv, Shown
<1> QED
  BY <1>1, <1>2, <1>3, <1>4, ViewInvariant, ReadersLeaveLedger, ChainsInvariant,
     SeqsInvariant, WatchedOrdered, PTL DEF ReadersSpec
=============================================================================
