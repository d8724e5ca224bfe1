--------------------------- MODULE LedgerReaders ----------------------------
(***************************************************************************)
(* The read side beside the write side: the dashboard shows the balance    *)
(* and the statement of one account, page by page, and its integrity page  *)
(* verifies that account and the ledger, while requests commit.  Each read *)
(* is one statement with its own snapshot; neither the two statements of   *)
(* an audit nor the calls of the dashboard share one.  The lookup of the   *)
(* account itself belongs to the first statement: an account never changes *)
(* or goes away.                                                           *)
(***************************************************************************)
EXTENDS LedgerProperties, SequencesExt

CONSTANTS
  Watched,   \* the account the readers look at
  PageSize   \* the limit of a statement page

ASSUME ReadersAssumption == Watched \in Accounts /\ PageSize \in Nat \ {0}

VARIABLES
  view,      \* the statement page: its stage, the balance above the rows, the
             \* rows, the cursor of the next page, the answer on its way,
             \* whether the journal has stood still since the balance was
             \* first read, and whether it was read again after it had not
  audit      \* the integrity page: its stage, whether money is conserved, the
             \* postings it read, its report on the account, and whether the
             \* journal has stood still since it read them

readers == <<view, audit>>
allVars == <<vars, readers>>

NoReport == [chainValid |-> TRUE, headMatches |-> TRUE, reconciled |-> TRUE]

NoPage == [entries |-> <<>>, nextCursor |-> None]

NoAudit == [stage |-> "idle", conserved |-> TRUE, postings |-> {},
            quiet |-> TRUE, report |-> NoReport]

Closed == [stage |-> "closed", balance |-> 0, entries |-> <<>>, cursor |-> None,
           answer |-> NoPage, quiet |-> TRUE, reread |-> FALSE]

ReadersInit ==
  /\ Init
  /\ view = Closed
  /\ audit = NoAudit

-----------------------------------------------------------------------------
(* The statement                                                            *)

\* How many of the rows come before p in the order of seq.
Rank(P, p) == Cardinality({q \in P : q.seq < p.seq})

\* The first n rows in that order, and all of them as the sequence it makes.
FirstRows(P, n) == {p \in P : Rank(P, p) < n}

InOrder(P) ==
  [i \in 1..Cardinality(P) |-> CHOOSE p \in P : Rank(P, p) = i - 1]

\* Faulty variant: no extra row.
PageRowsOnly(cursor) ==
  FirstRows({p \in PostingsOf(Watched) : cursor = None \/ p.seq > cursor}, PageSize)

\* page() asks for one row more than the page holds, after the cursor.
PageRows(cursor) ==
  FirstRows({p \in PostingsOf(Watched) : cursor = None \/ p.seq > cursor},
            PageSize + 1)

NextCursor(rows) == Latest(FirstRows(rows, PageSize)).seq

\* forAccount: the page without the extra row, and the next cursor if there
\* was one.
Page(cursor) ==
  LET rows == PageRows(cursor)
  IN  [entries    |-> InOrder(FirstRows(rows, PageSize)),
       nextCursor |-> IF Cardinality(rows) > PageSize THEN NextCursor(rows)
                                                      ELSE None]

\* balanceOf, with the account's visibility checked before.
BalanceOf == balance[Watched].balance

\* Faulty variant: the rows first, and then the balance.
RenderRowsFirst ==
  /\ view.stage \in {"closed", "balance"}
  /\ Watched \in opened
  /\ ConnectionFree
  /\ view' = IF view.stage = "closed"
             THEN [Closed EXCEPT !.stage = "balance", !.entries = Page(None).entries,
                                 !.cursor = Page(None).nextCursor]
             ELSE [view EXCEPT !.stage = "ready", !.balance = BalanceOf]
  /\ UNCHANGED <<vars, audit>>

\* The page is rendered: getAccount, with the balance of the moment.
ReadBalance ==
  /\ view.stage = "closed"
  /\ Watched \in opened
  /\ ConnectionFree
  /\ view' = [Closed EXCEPT !.stage = "balance", !.balance = BalanceOf]
  /\ UNCHANGED <<vars, audit>>

\* ... and then getStatement, its first page.
ReadStatement ==
  /\ view.stage = "balance"
  /\ ConnectionFree
  /\ view' = [view EXCEPT !.stage = "ready", !.entries = Page(None).entries,
                          !.cursor = Page(None).nextCursor]
  /\ UNCHANGED <<vars, audit>>

Render == ReadBalance \/ ReadStatement

\* loadMore up to its await, and the page the API makes for the cursor.  The
\* button is disabled while a page is on its way.
LoadMore ==
  /\ view.stage = "ready"
  /\ view.cursor # None
  /\ ConnectionFree
  /\ view' = [view EXCEPT !.stage = "loading", !.answer = Page(view.cursor)]
  /\ UNCHANGED <<vars, audit>>

\* loadMore after its await.
ShowPage ==
  /\ view.stage = "loading"
  /\ view' = [view EXCEPT !.stage = "ready", !.answer = NoPage,
                          !.entries = @ \o view.answer.entries,
                          !.cursor = view.answer.nextCursor]
  /\ UNCHANGED <<vars, audit>>

\* The call is lost on either hop, or refused: an error, and the button again.
LosePage ==
  /\ view.stage = "loading"
  /\ view' = [view EXCEPT !.stage = "ready", !.answer = NoPage]
  /\ UNCHANGED <<vars, audit>>

\* The server renders the page again (another language): the balance is read
\* anew, the rows are the state of a component that stays.
Refresh ==
  /\ view.stage \in {"ready", "loading"}
  /\ ConnectionFree
  /\ view' = [view EXCEPT !.balance = BalanceOf, !.reread = @ \/ ~view.quiet]
  /\ UNCHANGED <<vars, audit>>

\* The user leaves, a read fails while rendering, the session is over, or a page
\* arrives without its body: the rows cannot be rendered and the page is gone.
Close ==
  /\ view.stage # "closed"
  /\ view' = Closed
  /\ UNCHANGED <<vars, audit>>

Browse ==
  Render \/ LoadMore \/ ShowPage \/ LosePage \/ Refresh \/ Close

-----------------------------------------------------------------------------
(* The integrity page                                                       *)

\* The page is rendered: the conservation report and, beside it, the list of
\* the accounts to verify, neither of which waits for the other.
ReadConservation ==
  /\ audit.stage = "idle"
  /\ Watched \in opened
  /\ ConnectionFree
  /\ audit' = [audit EXCEPT !.stage = "listed", !.conserved = ConservationReported]
  /\ UNCHANGED <<vars, view>>

\* The account's own verification: postingsForAccount
ReadPostings ==
  /\ audit.stage = "listed"
  /\ ConnectionFree
  /\ audit' = [audit EXCEPT !.stage = "postings", !.quiet = TRUE,
                            !.postings = PostingsOf(Watched)]
  /\ UNCHANGED <<vars, view>>

LastBalance(P) == IF P = {} THEN 0 ELSE Latest(P).balanceAfter

\* What verifyAccount reports of the postings and the balance row it read.
Report(P, row) ==
  [chainValid |-> ChainValid(P),
   headMatches |-> HeadHash(P) = row.chainHash,
   reconciled |-> Total(P) = row.balance /\ row.balance = LastBalance(P)]

\* accountState, then the report.
ReadState ==
  /\ audit.stage = "postings"
  /\ ConnectionFree
  /\ audit' = [audit EXCEPT !.stage = "reported",
                            !.report = Report(audit.postings, balance[Watched])]
  /\ UNCHANGED <<vars, view>>

\* What the page makes of a report: "intact", or broken.
Intact(report) == report.chainValid /\ report.headMatches /\ report.reconciled

\* The page is rendered again, or left, or a call fails and the account is
\* left out of it.
Reverify ==
  /\ audit.stage # "idle"
  /\ audit' = NoAudit
  /\ UNCHANGED <<vars, view>>

Verify == ReadConservation \/ ReadPostings \/ ReadState \/ Reverify

-----------------------------------------------------------------------------

\* A step of the write side, which may commit between two reads.
Write ==
  /\ Next
  /\ audit' = [audit EXCEPT !.quiet =
                 @ /\ (audit.stage = "postings" => journal' = journal)]
  /\ view' = [view EXCEPT !.quiet =
                 @ /\ (view.stage # "closed" => journal' = journal)]

ReadersNext == Write \/ Browse \/ Verify

ReadersSpec == ReadersInit /\ [][ReadersNext]_allVars

-----------------------------------------------------------------------------
(* Properties                                                               *)

Shown == view.stage \in {"ready", "loading"}

\* The rows on the screen are the account's first postings, each once and in
\* order, whatever commits between two pages and whichever answers are lost
\* (statement.service.ts, statement-view.tsx): seq is drawn under the account's
\* lock, so postings become visible in its order, all after the cursor.
StatementGapFree ==
  Shown => view.entries = InOrder(FirstRows(PostingsOf(Watched), Len(view.entries)))

\* A statement that has been loaded to its end while nothing committed ends at
\* the balance above it (web/e2e/ledger.spec.ts, "ends a statement at the
\* balance the account reports").
StatementEndsAtRest ==
  Shown /\ view.cursor = None /\ view.quiet =>
    view.balance = LastBalance(ToSet(view.entries))

\* Whatever commits around the reads, a statement that has been loaded to its end
\* holds the row at which the balance above it was reached: it was read first
\* (statement/page.tsx), unless it was read again after a commit.
StatementReachesBalance ==
  Shown /\ view.cursor = None /\ ~view.reread =>
    \E n \in 0..Len(view.entries) :
      view.balance = LastBalance(ToSet(SubSeq(view.entries, 1, n)))

\* The page never shows a broken chain or money out of nothing, whatever
\* commits around its reads (audit.service.ts, chainValid and conserved).
AuditNeverBroken == audit.report.chainValid /\ audit.conserved

\* The audit has no false alarm as long as no transaction commits between its
\* two reads: the page shows the account as intact (integrity/page.tsx), with
\* other transactions half-way through.
AuditCleanAtRest == audit.quiet => Intact(audit.report)

\* The audit has no false alarm at any time (ADR-006, "Continuous
\* verifiability"): of an intact ledger it reports nothing but health.
AuditNeverFalseAlarm == Reconciled => Intact(audit.report)
=============================================================================
