# MiniLedger in TLA+

MiniLedger is a double-entry ledger service: a NestJS server over PostgreSQL, a
Next.js dashboard in front of it. Money moves by transfers and reversals; every
movement is a balanced journal transaction whose postings form one hash chain
per account. This directory holds a model of its core, the TLC configurations
that check the model on small instances, and proofs about it that TLAPS checks
for every value of the constants.

`PROJECT.json` lists, in machine-readable form, the components, the runs, a
fault for every checked property, the source lines each definition stands for,
the disagreements found between code and documentation, the hazards of the code
and the main theorems.

## The system

| Component | State it keeps | Operations | Talks to |
| --- | --- | --- | --- |
| **Transfers** (`transfer.service.ts`, controller, DTO) | none between requests | `transfer`: validate, open a transaction, claim the idempotency key, post, complete the key, commit | poster, idempotency repository, unit of work |
| **Reversals** (`reverse.service.ts`, controller) | none between requests | `reverse`: read the original on the pool, open a transaction, `hasReversal`, post the compensation | poster, journal repository, unit of work |
| **Posting core** (`ledger-poster.ts`, `overdraft.ts`, `journal-transaction.ts`) | none; everything is local to one call | `post`: read the accounts, check owner and currency, lock the balance rows in order, check the floors, chain the hashes, insert, update, announce | repositories, on the caller's transaction |
| **Persistence** (`drizzle-*.repository.ts`, schemas, migrations, `db.module.ts`) | `accounts`, `account_balances`, `journal_transactions`, `postings`, `idempotency_keys`, `outbox`; row locks; unique indexes; the identity sequence of `postings.seq`; a pool of connections | one SQL statement each | PostgreSQL at READ COMMITTED |
| **Accounts** (`accounts.service.ts`, controller) | rows of `accounts`, `account_balances` | `open`, and reads | unit of work |
| **Statement** (`statement.service.ts`) | the client's cursor | `forAccount`: one page | pool |
| **Audit** (`audit.service.ts`, `hash-chain.ts`) | none | `verifyAccount` (three reads), `verifyConservation` (one) | pool |
| **Shared kernel** (`money.ts`, `currency.ts`, `balance-fold.ts`) | none | integer money, known currencies, folds | |
| **Web dashboard and BFF** (`web/`) | session cookie; the fields and state of the transfer form; the list of accounts and the form that opens one; the rows, cursor and balance of the statement page; the reports of the integrity page | submit, open an account, load more, refresh, verify again, log in and out; the BFF passes calls on with the cookie's token | server |
| **Seed** (`seed.ts`) | none; it looks at the owner's accounts | check, open three accounts, eight transfers, one reversal | services |
| **Containers** (`deploy/`, `Dockerfile`, `migrate.ts`) | the volume of Postgres, its first boot and the runtime role; the schema; the container of the API and its image; where the reset script is | first boot, migrate, serve, `/ready`, restart, deploy, roll back, `demo-reset.sh` | Docker, Postgres, seed |
| **Access guard, HTTP plumbing, config, metrics** | JWKS cache, counters | | AccessCore |

Components interact through the database only: two requests never share memory
in the server. What one request can do to another goes through row locks, the
unique indexes on the idempotency key and on the reversed transaction, the
sequence, the pool of connections, and what a COMMIT makes visible.

### What is hard, and what must hold

* **Concurrent postings on one account.** `lockForUpdate` reads the balance and
  the chain head; `updateBalance` writes them several statements later. Balance,
  sum of postings, last `balance_after` and chain head must agree at every
  moment; no guarded account may go below its floor; a refusal must be right
  about the balances of its moment; two requests must not lock in a cycle.
* **Retries.** A client whose answer is lost sends the request again, perhaps
  while the first is still running, perhaps after it failed. A key must move
  money at most once and its row must be the truth about that transfer.
* **Reversals.** `hasReversal` runs before any lock. Each transaction must be
  reversed at most once and exactly; reversals of reversals included.
* **Order.** `postings.seq` is drawn before the COMMIT, and rolled back
  transactions leave gaps. The chain is verified, and statements are paged, in
  the order of `seq`.
* **Failure.** Any statement may fail, the process may stop before or after the
  COMMIT, and each write could be sent past the transaction. Nothing of an
  unfinished posting may remain, no event may be announced without its
  transaction.
* **Limits.** `bigint` columns, the floor itself, a page's extra row, a pool
  whose connections are all taken.
* **Readers.** An audit is two statements with two snapshots, a statement page
  of the dashboard at least two calls, and more with every page of rows.
* **The user's side.** Between the button and the COMMIT are two hops, each of
  which may lose a call before or after it was passed on, or the body of an answer
  whose status arrives, a session that ends after 15 minutes, and a user who
  edits, leaves, comes back and tries again.
* **Hands on the tables.** The owner of the tables, a migration or a repair is
  bound by no grant. What the audit then says must be true as far as it says
  anything, and later transfers must not silence it.
* **Scripts.** The seed is twelve transactions, not one; the reset is four
  commands beside containers that restart by themselves and visitors who are
  there as soon as the API is.

The list with lines is `hazards` in `PROJECT.json`.

## The modules

| Module | Contents |
| --- | --- |
| `AtomicLedger` | What clients are promised: a journal, balances, and entries that take effect one at a time. |
| `Ledger` | The write side, one action per SQL statement of a request, any number of requests at once. |
| `LedgerProperties` | Invariants, action properties, liveness, and the mapping to `AtomicLedger`. |
| `LedgerReaders` | `Ledger` with the dashboard's statement page and integrity page. |
| `AccountsPage` | `LedgerReaders` with the dashboard's accounts page: the list and the form that opens accounts. |
| `AuditTrail` | The posted rows and the audit, when rows are changed behind the application. |
| `Money` | Amounts as strings: `toMinorUnits`, `formatMoney`. |
| `TransferForm` | The transfer form, the session and the BFF, over an API that moves money once per key; uses `Money`. |
| `Seed` | The seed script, several runs and owners, over a ledger that moves money once per key. |
| `Deployment` | `Seed` inside its containers: first boot, migrations, images, restarts, the nightly reset. |
| `MCLedger`, `MCReaders`, `MCSpelling`, `MCAuditTrail`, `MCTransferForm`, `MCSeed` | Values for the constants; the `.cfg` files choose among them. |
| `SumTheorems` | Sums over finite sets, to which the folds of the models are reduced. |
| `LedgerLockProofs` | Types, row locks, refusals and overdraft, freedom from cycles of waiting. |
| `LedgerKeyProofs` | Recorded facts, idempotency keys, events, answers, reversals. |
| `LedgerMoneyProofs` | Conservation, hash chains, reconciliation, the refinement of `AtomicLedger`. |
| `ReadersProofs` | The integrity page, the accounts page and the statement page. |
| `TransferFormProofs` | A typed key spends once; what the screen says is true; nothing is sent unasked. |
| `SeedProofs` | One history by one run, complete when it says so; the deployment never serves an unmigrated schema, and reports a reset only if it was one. |
| `AuditTrailProofs` | What a report of the audit is worth after edits behind the application. |

Each proof module extends the one before it where it needs its results:
`LedgerLockProofs`, `LedgerKeyProofs`, `LedgerMoneyProofs` and `ReadersProofs`
are one line of argument.

### How `Ledger` corresponds to the code

A request is a member of `Requests`; it also names the journal transaction it
creates, since the service draws a fresh UUID for each. `pc[r]` is the statement
the request is about to run:

```
idle -> begin -> claim -> read -> lock -> lock -> insert -> posting -> posting
     -> update -> publish -> complete -> commit -> respond -> done
idle -> lookup -> begin -> check -> read -> ...                    (reversals)
```

| Stage | Code |
| --- | --- |
| `idle` | `TransfersController.create`, `ReversalsController.create`; the checks of `transfer()` before its transaction (`AcceptTransfer`, `RejectTransfer`, `AcceptReversal`) |
| `lookup` | `journals.findById` on the pool, then the compensating `JournalTransaction` (`LookupOriginal`) |
| `begin` | `withTransaction`: a connection and BEGIN |
| `claim` | `idempotency.claim`: `INSERT ... ON CONFLICT DO NOTHING`, then the row that was there (`ClaimKey`, `ReplayResponse`, `RefuseKeyConflict`) |
| `check` | `hasReversal` |
| `read` | the account lookups and checks of `LedgerPoster.post` |
| `lock` | `lockForUpdate`, one row per step |
| `insert` | `isSufficient` over the locked rows, then the insert into `journal_transactions` |
| `posting` | the insert into `postings`, one row (one `seq`) per step |
| `update` | the `updateBalance` of each locked row (`UpdateBalances`) |
| `publish` | the outbox row (`AppendEvent`) |
| `complete` | `idempotency.complete`, if there is a key (`CompleteKey`) |
| `commit` | the deferred trigger, COMMIT |
| `respond` | the answer on its way |

The committed tables are `opened`, `balance`, `journal` (each transaction with
its postings), `idem` and `outbox`. A transaction's own writes are not in them
until `Commit`; until then they exist as the request's stage and draft, and bind
other requests through `RowFree` (row locks), `KeyUndecided` (an uncommitted key
row) and `ReversalUndecided` (an uncommitted entry of the unique index). The
writes that follow the postings touch only rows the transaction has locked or
has just inserted. They are steps of their own, between which the request may
fail, and `Commit` publishes what they wrote. That they change nothing before is
what passing `tx` to each of them achieves; the faulty variants
`UpdateBalancesOnPool`, `AppendEventOnPool` and `CompleteKeyOnPool` leave it out.

`Running(r, i)` is the running map of `post`: the row a posting finds is the one
that was locked, or, if both postings are spelled alike (the reversal of a
transfer between two spellings of one account), the one the first posting left.
`PostedTo` is what a posting makes of the row it finds: its `balance_after` and
the new head of the chain.

`Fail(r)` covers every way a transaction ends badly before its COMMIT: a failed
statement, a broken connection, a stopped process, a deadlock victim, a
statement timeout. PostgreSQL rolls back in all of them. `LoseAnswer(r)` is the
same after the COMMIT. A retry is another request with the same body: `Inputs`
holds bodies, and any number of requests may carry the same one.

The abstractions: an account id is a number, and its order is the order of
JavaScript's string sort (`AccountOf` maps a spelling to the account it
denotes, as the `uuid` column does); a SHA-256 digest is the record of what was
hashed; a fingerprint is the tuple of what it covers; amounts are integers,
limited where they enter a column; the floor of a user account is zero, as
`Account` creates it; formatting and HTTP statuses are left out, the error codes
are kept.

`DriverErrorWrapped` says whether the ORM wraps the error of the driver in one
of its own. `isUniqueViolation` looks at the thrown object; drizzle-orm 0.45
throws a `DrizzleQueryError` whose `cause` is the driver's. Both values are
checked; they differ in what the loser of a race between two reversals is told
(`already_reversed`, or an internal error), never in what is committed.

Definitions commented "Faulty variant" are not part of the specification. Each
is a plausible mistake in the definition next to it; `PROJECT.json` names, for
every property of every passing run, the mistake that property catches.

### `LedgerReaders`

`view` is the statement page: `ReadBalance` and `ReadStatement` are the two
calls with which it is rendered, `LoadMore` is the button together with the
page that `StatementService.forAccount` makes (rows after the cursor, one more
than the page), `ShowPage` and `LosePage` are what follows the `await`. A page
rendered again (`Refresh`, after a change of the language) reads the balance
anew and keeps the rows, which are the state of a component that stays. So
`StatementReachesBalance` excepts a balance that was read anew after a commit
(`view.reread`): the rows on the screen may then be older than it, and nothing
loads them again. Otherwise the balance is read first, and the row at which it
was reached is on one of the pages, whatever commits meanwhile.
`audit` is the integrity page: `ReadConservation` is the first of its two
rounds of calls (the list of accounts, read beside it, only decides whether the
watched account is verified), `ReadPostings` and `ReadState` are the two
statements of `verifyAccount` in the second round, after the account lookup.
`Reverify` is the page's button, and everything else that takes the report away.
Anything may commit between any two of these. `view.quiet` and
`audit.quiet` record whether something did.

### `AccountsPage`

`list` is a rendering of the accounts page: `ListAccounts` is
`AccountsService.listVisible`, `ReadListedBalance` one of the `balanceOf` calls
that the controller makes for each account at once, each a statement of its own,
and `ShowList` or `FailList` the end of the rendering. `opening` is the form
above the list and `calls` its calls: `OpenFor` is the API's part and uses
`Ledger`'s `OpenAccount`, `AnswerOpening` the read of the new balance after the
commit, whose failure makes a 500 of an account that is there, `Told` and
`Failed` the two ways on after the `await`. `list.due` is the `router.refresh()`
that a success asks for. Renderings of one page follow each other; a rendering
that is under way when the refresh is asked for began too early to show the new
account, and `ToldIsListed` says that it is not the last. The call carries no
key, so a user who tries again after a lost answer opens a second account, and
the list is not read again after an error: the code promises nothing there, and
no property does.

### `AuditTrail`

`Ledger` shows that nothing the application does breaks a chain. `AuditTrail`
takes a transfer as one step and asks what `verifyAccount`, `verifyConservation`
and the integrity page's "intact" tell of tables whose rows were changed by
somebody else. `Post` is the part of `LedgerPoster.post` that depends on what is
there: the next row continues from `account_balances`, not from the last
posting. The edits are external: a field of a posting, a deleted row, a
balanced pair of repeated rows, two rows exchanged, a row moved to another
account, a row hashed anew, a balance or a chain head written. `posted`,
`rehashed`, `reheaded` and `edits` are history. A digest is the sequence of what
it covers; its `||`-joined input is taken to be injective.

What the checks show, and where the guarantee ends: an account whose
`chain_hash` was never written by an edit is reported as intact only if its rows
and its balance are those that were posted (`IntactIsTrue`). "Never written" is
needed: whoever rewrites the rows, their hashes and the head has an intact
account; hiding a changed balance from both the page and the conservation report
takes such rewrites in two accounts (`WrongNeedsTwoRewrites`). As long as no edit
hashed rows anew, `brokenAtSeq` names the first row that is not the one posted at
its place (`BrokenAtFirstDeparture`). All three are proved for any number of
edits. A history cut at its end breaks no link, so `chainValid` stays true and
`brokenAtSeq` null; only `headMatches` and `reconciled` show it.

### `TransferForm`

`TransferForm` is about the other end: what the user of the form is told, and
what happens when calls are lost. A call goes

```
unused -> sent -> proxied -> replied
```

with the API's work beside it in `inbox`, so that an answer the BFF has given
up (`Catch`) leaves a call that the API may still serve. `Lose` is the browser's
`fetch` throwing, at any time. `Hear` and `Lose` both end in `Resume`, the code
after the `await` in `submit()`; it may run in a form that has been left, which
shows nothing but still navigates on a 401.

The status of an answer may arrive without its body. `interpret()` goes on with
`null` then, and judges by the status alone: a 201 is a success without a
receipt, of which the card cannot be rendered (`Unshowable`). Nothing in the
application catches that, and the page `broken` is what is left until it is
loaded anew (`Reload`). `BreaksOnlyPosted` says that this befalls a user only
after a transfer that was made; which one, the screen does not say. A 401 that
arrives when the page is broken may or may not navigate, since the router may be
gone. A body that is lost between the API and the BFF is a call that throws
(`Catch`).

| Definition | Code |
| --- | --- |
| `EffectiveTo`, `MinorUnits`, `CanSubmit`, `Type`, `Submit` | the form's derived values, its inputs, `submit()` up to its `await` |
| `Proxy`, `Catch` | `proxyAuthorized` |
| `Decline`, `Move`, `Replay` | the API, as `Ledger` shows it: refusals and failures, one transfer, a used key |
| `Interpret`, `Hear`, `Resume`, `Show`, `AmountAfter` | `interpret`, `submit()` after its `await` |
| `Unshowable`, `Reload` | the receipt card without a receipt; the browser |
| `OpenForm`, `Refresh`, `Leave`, `Redirect` | the transfer page, a page rendered again, navigation, the layout's check |
| `Login`, `Logout`, `Revisit`, `Expire` | the login card, `handleLogout`, the login page's redirect, the age of the cookie; either call may be lost after it has set or cleared the cookie |

`mounted` (the calls the form on the screen has made) and `asked` (has the user
typed an amount, seen a failure or opened the form since the last submission?)
are history variables: they say which component instance an answer belongs to
and what the user did, and no guard reads `asked`.

The amount field holds a decimal, as digits before and behind the point, and
what is sent for it depends on the currency of the account selected at that
moment (`MinorUnits`, by `Money`'s `toMinorUnits`). `Money` follows the code
digit by digit: joining, filling in, removing zeros in front. `Exact` compares
it with arithmetic: `Number` is what a string of digits stands for, each digit
added to ten times what is before it. `Decimals` is what a user may type at all,
`Texts` the part of it that the behaviours of a run choose from.

### `Seed`

A run of the script is at `check`, `open`, `post`, `reverse`, and ends as
`applied`, `already` or `failed`; `done` counts its steps at a stage. Each step
is a transaction of its own; `Stop` ends a run between any two, for whatever
reason. Runs for the same or another owner interleave step by step, and owners
open accounts themselves. `Conflict` is what the key of a movement leads to when
another run has used it: the accounts in the body differ, so the answer is
`idempotency_conflict` and the script throws. `Reset` is the loss of the volume,
and with the containers of every run.

### `Deployment`

`Deployment` extends `Seed` with the place it runs in: its steps are those of
`Seed` where containers and the script allow them, and steps of its own.

| Definition | Code |
| --- | --- |
| `db`, `PostgresStart`, `FirstBoots` | the volume of `compose.yml`; the image's entrypoint and `10-app-role.sh`, only on an empty volume (external, except the script) |
| `Deploy` | `docker compose up` with another `MINILEDGER_IMAGE_TAG`, newer or older |
| `ApiStart`, `MigrateAndServe`, `ApiStop` | the restart policy; the image's command, `node dist/migrate.js && node dist/main.js`; its end, for whatever reason |
| `Migrated` | `migrate()`, as the owner and in one transaction; migration 0010 makes the runtime role if there is none, without LOGIN |
| `Ready` | `GET /ready`: `SELECT 1` as `miniledger_app` |
| `Users` | seeds started by hand with `docker compose exec`, steps of seeds, owners who open accounts through the API |
| `Reset...` | the commands of `demo-reset.sh` in order; `ResetAbort` is `set -e`, a timeout, or the end of the script |

A container's processes die with it: while it is down its seeds can only stop,
and it starts again when they have. There is one script at a time (it is a
nightly cron job). `ReportedIsReseeded` has an exception because the code has
one: the script waits for `/ready`, and from then on the demo can be used; an
account that a visitor opens before the seed's check makes the seed say "already
applied", and the script reports a reseed. What the property holds the script to
is that it reports nothing after a command that failed. A first boot that stops
before `10-app-role.sh` leaves a volume whose API is never ready, since migration 0010
then makes a role that cannot log in and no later start repairs it. The API's
pool has no listener for errors of idle connections, so a stop of Postgres may
end the API too; `ApiStop` covers it.

## The runs

Passing runs:

| Run | Instance | Question |
| --- | --- | --- |
| `transfers` | 4 requests, 2 customers and @world, transfers in every direction, two bodies with one key, and reversals of any of them | Do balances, postings and chains stay consistent, is nobody overdrawn, is there no waiting in a cycle, are refusals current, is each transaction reversed at most once and exactly, is each event's transaction there? (`TypeOK`, `Reconciled`, `ChainsVerify`, `NoOverdraft`, `Conserved`, `NoWaitCycle`, `ReversedOnce`, `OutboxExact`, `RefusalsCurrent`) |
| `retries` | 3 requests: reuses of one key, one body per refusal, reversals, an account opened meanwhile, amounts around the limit of the columns | Is a key's transfer done once, its row true, its answer true, on every error path? (`KeyExactlyOnce`, `AnswersTruthful`, `HistoryAppendOnly`) |
| `promises` | 3 requests of every kind, 2 connections, wrapped driver errors, fairness | Is every request answered, and is each COMMIT one step of `AtomicLedger`? (`EveryRequestAnswered`, `ImplementsAtomicLedger`) |
| `readers` | 3 requests, one statement page, one integrity page, one accounts page with two calls, pages of one row | Is no posting skipped or shown twice, does a statement reach the balance above it and, at rest, end there, does the chain always verify and money always net to zero, is an undisturbed audit clean, is an account the user was told of on the list, does a list of a ledger at rest show what it holds, with transfers half-way through? (`StatementGapFree`, `StatementEndsAtRest`, `StatementReachesBalance`, `AuditNeverBroken`, `AuditCleanAtRest`, `ToldIsListed`, `ListedAtRest`) |
| `audit_trail` | 3 transfers and 3 edits, one user account and @world | What can the audit say of changed rows? (`TypeOK`, `IntactIsTrue`, `BrokenAtFirstDeparture`, `WrongNeedsTwoRewrites`, `AlarmStays`) |
| `form` | 2 calls, 3 accounts in 2 currencies, one of them opened later, one key | Does a typed key spend once, is what the user is told true, is the form never stuck, is nothing sent twice unasked, is the number that is sent the one that was typed, does the page break over nothing but a transfer that was made? (`TypeOK`, `KeySpendsOnce`, `PostedIsTrue`, `ToldNothingMoved`, `SendingWaits`, `AmountsExact`, `NothingTwiceUnasked`, `BreaksOnlyPosted`) |
| `seed` | 2 runs of the seed, 2 owners, the script's whole history, 2 images, one reset script | Is there one history by one run, complete when it says so, and is a second run a no-op; is no API ready on an older schema than its image's, is a reported reset a reset? (`TypeOK`, `OneHistory`, `AppliedIsComplete`, `TwiceIsNoOp`, `ServesMigrated`, `ReportedIsReseeded`) |

Runs that find a disagreement between the code and what is said of it:

| Run | Statement | What happens |
| --- | --- | --- |
| `audit_race` | ADR-006: reconcilable "at any time" | a transfer commits between the audit's two reads; an intact account is reported as not reconciled |
| `spelled_floor` | ADR-006: never below its floor | the map of floors is keyed by stored ids, looked up by the id as sent, and finds no floor |
| `receipt_id` | API reference: the receipt has an `id` | the receipt card reads `transactionId`, which the API does not send, and names no transfer |
| `receipt_scale` | the receipt "shows both legs" | the card formats its legs with the currency of the source account selected now, not with the receipt's |
| `seed_partial` | deployment guide: the seed posts a history | a run that stopped after its first account makes the next one say "already applied" |

`spelled_floor` has a cause with more consequences: an id is compared as a
string in the process and as a `uuid` in the database. With the same inputs
`ChainsVerify` fails (the audit recomputes the hash from the stored spelling)
and so does `NoWaitCycle` (upper case sorts before lower case, so two requests
lock the same rows in opposite orders). `CanonicalIds` excludes it; all passing
runs assume it through `Refs <- MCAccounts`.

### Bounds

* Three or four requests. Two contend for a row, a key or a reversal; the third
  is the retry, the competing debit or the request that takes over from one that
  failed; the fourth in `transfers` gives two funded debits in opposite
  directions at once, and a reversal of a reversal competing with another.
* Two customers and @world. The id of @world lies between the other two, so the
  order of locking disagrees with the order of the legs in both directions.
* `MaxBigint` is 3 and amounts go up to 4: a sum leaves the column while each
  amount still fits, and an amount may leave it alone.
* `PoolSize` is as many as the requests where the pool is not the question, and
  fewer in `promises`. Its transfers are three, a deposit to either customer and a
  debit of one of them, and one of its requests is never reversed: requests
  differ in nothing but their names.
* Pages of one row: every posting is the last of a page.
* Two calls of the form: the retry of a lost call, and a call that is still on
  its way when the user is elsewhere. One typed amount, half a dollar, which is
  no amount in yen: `AmountAfter` tells only an empty field from a full one.
  `AmountsExact` covers all decimals of up to three digits before the point and
  behind, over the digits 0, 5 and 9 (`MCDecimals`). An account in yen has no
  possible destination, the two in dollars have each other once both are there.
  When both calls have been made, nothing more is typed (`TypedToBeSent`): it
  could not be sent.
* Two runs of the seed that overlap, for the same owner or another; a run starts
  anew after a reset. Two images: one deployed over the other, and rolled back.
* Three transfers and three edits (`MaxEdits`): two edits that cover for each
  other and a third that disturbs them, before, between and after transfers.
* Two accounts to be opened and two calls. `AccountsPageBound` lets one request
  run beside the accounts page, and opens no other page once the page has made a
  call: pages are shown one at a time and share nothing but the ledger.
* Requests are interchangeable, so most runs use their permutations as symmetry;
  not `promises` (temporal properties). So are calls, runs of the seed and the
  transactions of `AuditTrail`.

There is no other bound: no counter is capped, and every behaviour of `Ledger`
ends, since a request runs once. Deadlock is checked in all runs but
`audit_trail`, whose transfers and edits run out; a state of `Ledger` in which
all requests are done stutters (`Quiescent`).

### Fairness

`promises` assumes weak fairness of `Serve(r)` for each request: the event loop
and PostgreSQL keep running a request whose next statement can run. Nothing is
assumed of clients, of failures or of opening accounts. Weak fairness is enough
although requests compete for rows and connections, because requests are
finitely many and each holds what it holds only for finitely many steps: what a
request waits for becomes free and, in the end, stays free. An endless stream of
requests would need PostgreSQL's queue of lock waiters and the pool's FIFO queue,
which the model does not have.

## The proofs

Everything is proved from the assumptions on constants that the modules name
(`RefsAssumption`, `AccountsAssumption`, `LimitsAssumption`, `NoneAssumption`,
`InputsAssumption`, `ReadersAssumption`, `PageAssumption`, `FormAssumption`,
`SeedAssumption`, `ImagesAssumption`, `AmountsAssumption`), for any sets of
requests, bodies, accounts, keys, calls, runs and images and any limits. Two
hypotheses are stated with the theorems that need them:

* `CanonicalIds`, marked **C**: clients spell account ids as PostgreSQL prints
  them. The code does not enforce it; `spelled_floor` is the counterexample
  without it.
* Finitely many accounts, marked **F**: a table has finitely many rows. A sum
  over all accounts has no value otherwise.

| Theorem | Statement | |
| --- | --- | --- |
| `TypeCorrect` | `Spec => []TypeOK` | |
| `LockInvariant` | `Spec => [](TypeInv /\ LocksInv)` | |
| `RefusalsAreCurrent` | `Spec => RefusalsCurrent` | |
| `NoOverdraftEver` | `Spec => []NoOverdraft` | C |
| `NobodyWaitsInCircles` | `Spec => []NoWaitCycle` | C |
| `FactsStay` | `Spec => HistoryAppendOnly` | |
| `OneTransferPerKey` | `Spec => []KeyExactlyOnce` | C |
| `OneEventPerTransaction` | `Spec => []OutboxExact` | C |
| `AnswersAlwaysTruthful` | `Spec => []AnswersTruthful` | C |
| `EachReversedOnce` | `Spec => []ReversedOnce` | |
| `MoneyReportedConserved` | `Spec => []ConservationReported`, the postings' part of `Conserved` | |
| `MoneyConserved` | `Spec => []Conserved` | C, F |
| `ChainsAlwaysVerify` | `Spec => []ChainsVerify` | C |
| `AlwaysReconciled` | `Spec => []Reconciled` | C |
| `LedgerImplementsAtomic` | `Spec => Atomic!Spec` (`ImplementsAtomicLedger`) | C |
| `AuditSaysTheTruth` | `ReadersSpec => []AuditNeverBroken` | C |
| `AuditIsCleanAtRest` | `ReadersSpec => []AuditCleanAtRest` | C |
| `StatementHasNoGap` | `ReadersSpec => []StatementGapFree` | |
| `StatementEndsAtBalance` | `ReadersSpec => []StatementEndsAtRest` | C |
| `StatementHoldsBalance` | `ReadersSpec => []StatementReachesBalance` | C |
| `ToldAreListed` | `PageSpec => []ToldIsListed` | |
| `ListIsAtRest` | `PageSpec => []ListedAtRest` | C |
| `FormTypeCorrect` | `Spec => []TypeOK` of `TransferForm` | |
| `TypedKeySpendsOnce` | `Spec => []KeySpendsOnce` | |
| `DenialsAreTrue` | `Spec => []ToldNothingMoved` | |
| `PostedIsAlwaysTrue` | `Spec => []PostedIsTrue` | |
| `OnlyPostedBreaks` | `Spec => BreaksOnlyPosted` | |
| `SendingAlwaysWaits` | `Spec => []SendingWaits` | |
| `NothingSentUnasked` | `Spec => NothingTwiceUnasked` | |
| `AmountsAlwaysExact` | `Spec => []AmountsExact`, for decimals of any length | |
| `SeedTypeCorrect` | `Spec => []TypeOK` of `Seed` | |
| `OneHistoryEver` | `Spec => []OneHistory` | |
| `AppliedIsAlwaysComplete` | `Spec => []AppliedIsComplete` | |
| `TwiceIsAlwaysNoOp` | `Spec => []TwiceIsNoOp` | |
| `AlwaysServesMigrated` | `DeploySpec => []ServesMigrated` | |
| `ReportIsTrue` | `DeploySpec => []ReportedIsReseeded` | |
| `TrailTypeCorrect` | `Spec => []TypeOK` of `AuditTrail` | |
| `IntactAlwaysTrue` | `Spec => []IntactIsTrue` | |
| `BreaksWhereItDeparts` | `Spec => []BrokenAtFirstDeparture` | |
| `AlarmsStay` | `Spec => AlarmStays` | |
| `WrongTakesTwo` | `Spec => []WrongNeedsTwoRewrites` | F |

### `LedgerLockProofs`

**Types.** `TypeOK` says that every committed balance is in the range of its
column. It is not inductive: `Commit` publishes `BalanceAfter`, of which
`TypeOK` knows nothing. `StageOK` adds that a request past its postings
(`Writing`) has passed `FitsColumns` and drawn its sequence numbers, and that a request with a
transaction has a well-formed draft. `TypeInv == TypeOK /\ StageOK` is
inductive. One lemma per action, or per shape of action.

**Locks.** `LocksInv` has four parts: which stages hold which rows
(`HeldByStage`), locked accounts exist (`AccountsOpen`), no two requests hold
one row (`LocksExclusive`), and what a request read under a lock is still the
committed row (`LockedCurrent`). The last is what the funds check and the
chained hash rely on several statements later; it needs the third, because a
COMMIT rewrites rows, and the third needs that only holders write.
`StepShapes` reduces the steps of a request to six shapes for everything that
is about locks.

**Funds.** A refusal for lack of funds compares locked balances, which are the
committed ones by `LockedCurrent`. `NoOverdraft` follows from `FundsInv`: drafts
spell ids canonically (so that floors are found), a request past the check has
sufficient funds (`FundsChecked`, kept because its rows are locked), and the
balances are at or above their floors.

**Waiting.** A request locks its rows in ascending order of their ids
(`LockedInOrder`), and its two rows differ (`LegsApart`). A request that waits
for a row therefore wants a smaller one than the request that holds it and waits
too (`HolderWantsMore`). The other two kinds of waiting lead there: the owner of
a key goes on to rows, and whoever has its entry in the index on reversals has
all its rows and waits for nothing. Among finitely many transactions
(`TransactionsFinite`) one wants the greatest row, and what it waits for waits
for nothing.

### `LedgerKeyProofs`

**Keys.** `RecordingSteps` splits the steps of a request into those that record
nothing and the COMMIT. `ClaimsInv` says what the COMMIT relies on: whoever is
past its claim is the only one pending on its key and the key has no row yet
(`ClaimsOwned`); the journal holds transactions of requests past their COMMIT
only (`JournalFromAnswered`), so a request never commits twice; and
`hasReversal` is asked by requests without a key (`CheckedHasNoKey`), so the
path that skips the claim cannot carry one. `HistoryAppendOnly` follows at once:
the row a COMMIT fills was empty. `KeyExactlyOnce` and `OutboxExact` also need
what the draft of a transfer is, since the row and the event repeat it in terms
of the body; `CanonicalIds` enters there, because the receipt spells accounts as
the client did and the journal as the database does.

**Answers.** `AnswersInv` says of every answer, from the moment it is decided and
also when it is lost later, that it is true of the journal, and that whoever is
at its claim has a key: a replay reads a row that a key names. An answer stays
true because recorded facts stay and because nobody else commits the
transaction of this request.

**Reversals.** `ReversalsInv` needs no assumption on spelling. Drafts of
reversals negate a committed transaction (`DraftsUndo`, kept because the journal
only grows); an uncommitted entry of the unique index is alone and nothing
committed has it (`IndexOwned`); sequence numbers in use are below the next one
(`SeqsDrawn`, `SeqsByStage`), so a reversal's postings come after its
original's. `hasReversal` does not occur in the argument: the unique index alone
carries it.

### `SumTheorems` and `LedgerMoneyProofs`

**Sums.** The models add with the folds of the community modules, which are
defined by recursion over "some member of the set". `SumTheorems` proves, by
smallest counterexamples instead of induction, that such a recursion has exactly
one solution (`AddsExists`, `AddsAgree`) and that the order does not matter:
`SumOf` may give any member first, be split, or have a value moved inside it.

**Conservation.** The two postings of a draft are opposite and in one currency,
so a COMMIT adds nothing to the sum over all postings. `BalancesNet` is the same
for the balance rows: a COMMIT rewrites two of them, by opposite amounts. This
takes `LockedCurrent`, since the values written were computed from the rows as
they were when locked, and `LegsApart`, since with `from` and `to` two spellings
of one account the second write would replace the first.

**Chains.** `InFlightInv` is about sequence numbers that are drawn and not
committed: a request's own are in order, and each is greater than every
committed one of the same account (`InFlightLater`). The latter is kept because
nobody else can commit a posting of that account while the request holds its
row. So a COMMIT appends: `ChainGrows` says that a chain that verifies, followed
by a posting whose hash continues its head, verifies. `ChainsInv` has `ChainsVerify`
together with `ReconciledAt` (sum, last `balance_after`, last hash and balance
row agree) and `PostedOpen` (postings are at open accounts, so a new account's
empty row is right).

**Refinement.** Each COMMIT is one step of `AtomicLedger`, judged by the
balances of that very moment; `AccountsService.open` is one; every other step
leaves the abstract variables alone. What `AtomicLedger` demands of an entry is
what the invariants above say of the draft of a request at its COMMIT.

### `ReadersProofs`

`ReadersLeaveLedger` and its counterpart for the accounts page: readers write
nothing, so all theorems of `Ledger` hold beside them.

**Audit.** What the first statement of `verifyAccount` read is a chain that
verifies, whatever has been committed since (`AuditHealthy`); while nothing has,
it agrees with the balance row that the second reads (`AuditFresh`).

**Accounts page.** `ToldInv` follows an account the user was told of: listed, or
in the rendering under way, or one the refresh that is due will find. `RestInv`
says that the balances read so far are those of the ledger while it stands still.

**Statement.** `Rank` counts the postings of the account with a smaller seq.
Commits append (`PostingsGrow`, from `InFlightLater`), so the rank of a posting
never changes. `ViewInv`: the rows shown have the ranks from 0 up to the cursor,
and an answer on its way has the ranks from there. Gaps left by rolled back
transactions do not show in ranks. `EndInv` adds what is the case while nothing
commits: the balance above is current and a page without a cursor was the last.
`ReachInv` follows, through all commits, the posting at which the balance was
reached: it was committed when the balance was read, its rank is fixed, and so
it is on the page whose ranks include it (`RowHeld`).

### `TransferFormProofs`

`FormInv` says where a call is when the API has it (`InboxPassedOn`: passed on,
and either still awaited by the BFF or answered with "unavailable") and when it
has moved money (`MovedAnswered`: out of the inbox, and answered by something
other than a denial). A call is served once because it leaves the inbox; a key
once because `Move` looks at it at the instant it moves the money, which
`OneTransferPerKey` proves of `Ledger`.

`WholeInv` adds the calls (`CallTrue`: what an answer says of a movement is the
movement of that key), the fields, and the screen. `ScreenInv` is what takes the
work: an answer may find the form left, opened anew, or redirected, so it says
of the call the form waits for that the form on the screen has made it
(`mounted`), and of the card that is shown that it has the receipt of such a
call. A success without a receipt shows no card, so it is not in the way of
this; the same facts about the call it was waiting for give `OnlyPostedBreaks`
(`HeardIsTrue`). The BFF and the API carry a call on without changing what was sent with it
(`Carried`), so they leave all of this alone. `NothingTwiceUnasked` follows from
another part: where nothing was asked for since the last submission (`asked`),
the form is sending or its amount is empty.

`AmountsAlwaysExact` needs no invariant but types: its content is that of
`Money`, for every decimal. What a string of digits stands for is defined by
recursion. That every string has such a reading is shown without induction: of
its prefixes without one, take the shortest (`ReadsExists`). Three lemmas carry
the arithmetic: a zero behind the digits makes ten times as much of them
(`NumberOfAppend`), zeros in front stand for nothing (`NumberOfTail`), and so
`Stripped` keeps the number and leaves its only spelling (`StrippedSame`).
Scales are 0 or 2: at most two zeros are filled in behind, and no other power
of ten is needed (`TwoZeros`, `Powers`).

### `SeedProofs`

**The seed.** In `SeedInv`, a run that is past its first movement wrote all of
the journal (`WriterKnows`). The step that matters is `Post` of a first
movement: its key is unused only if the journal is empty, because every history
begins with that key. Two runs cannot both have written a journal that is not
empty, since each transfer names an account that is not @world's. `WorkInv`
follows one run from its check to its end: how far its accounts and its part of
the journal are (`RunDone`), and that a run for an owner who has been served
stays away (`RunKeptOff`); `ReversedInv` says that only the last transfer of a
whole history is ever reversed.

**The deployment.** Every step changes what `Seed` knows by a step of `Seed` or
not at all (`SeedInDeployment`), so the theorems about `Seed` hold in it.
`MigratedInv`: a container is at `serve` only on a volume that has
been booted and has the migrations of its image. `schema` never decreases except
with the volume, which goes when there is no container; that is why a wipe, a
rollback and a first boot keep it. `ScriptInv`: what the script reports is a run
that has come to a good end, where it stays until the next wipe
(`EndedStays`).

### `AuditTrailProofs`

`TrailInv == StoreOK /\ HeadInv`. `StoreOK` types the rows. `HeadInv` says that
where no edit has written `chain_hash`, it is the digest of everything that was
posted to the account, so the next posting continues the posted history whatever
has become of the rows. If an account is reported as intact, its last row hashes
to that digest and every row to the one before it; since a digest determines
what it covers, the rows agree with the posted ones from the last to the first,
in number and in content.

`OrderInv` is needed for the types: the rows of an account are in the order of
their seqs, which no two rows of any accounts share; without the second half a
row that is moved to another account could meet its own seq there.
`OriginInv` says where a stored hash comes from: it ends in the account whose
row was hashed, and is one that was computed by the poster unless an edit has
hashed rows of that account anew. A row that departs from the posted one at its
place then cannot verify, wherever its hash was taken from, and the first broken
link is the first departure. `AlarmStays` is about one posting appended to a
chain that does not verify (`PrefixOfChain`). `PostedInv` says that what was
posted sums to zero over all accounts: if one balance is wrong and the
conservation report is content, another must be wrong too, and each was hidden
from its own account's report by a rewritten head.

### What stays with the model checker

* `EveryRequestAnswered`: liveness under fairness, which the prover does not do.
* The five runs that find a disagreement.

## Not modelled

* `balance-fold.ts`, which only unit tests use, and grouping and signs in
  `formatMoney`. Pages and components that only display what they are given.
* The integrity page's verification of several accounts at once: the accounts
  are verified independently of each other, so one stands for each.
* The access guard and the remote policy decision: they run before a handler and
  keep nothing of the ledger. `TransferForm` has their refusals (`Decline`);
  bodies in `Inputs` are those that passed them.
* Single migrations: `Ledger` starts from the migrated schema, `Deployment` knows
  how many migrations there are in it. The grants are one more reason
  `HistoryAppendOnly` holds; the model does not use them, it shows the code
  itself never updates history.
* Traefik and the web container. Two reset scripts at once.
* HTTP plumbing, configuration, metrics: no ledger state.
* An outbox relay: none exists in the repository.

## Plan

1. *(done)* `AtomicLedger`, `Ledger`, `LedgerProperties`, `LedgerReaders`; the
   type, lock and funds theorems; keys, events and reversals as theorems.
2. *(done)* The statement page in `LedgerReaders`; `TransferForm`; `Seed`;
   `KeySpendsOnce`, `ToldNothingMoved` and `OneHistory` as theorems.
3. *(done)* `AuditTrail` with `IntactIsTrue` as a theorem; `AccountsPage`;
   lost logins and logouts; `Money`; `Deployment` with `ServesMigrated` as a
   theorem.
4. *(done)* The remaining invariants and action properties as theorems, with
   the refinement of `AtomicLedger`; sums, ranks and sequences as lemmas.
5. *(done)* `Money` for every amount, with what digits stand for
   (`AmountsAlwaysExact`).
6. *(done)* The writes after the postings as steps of their own; answers whose
   body is lost; a balance inside its statement (`StatementReachesBalance`) and
   the broken page (`BreaksOnlyPosted`), both as theorems.
