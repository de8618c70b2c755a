# A verification of the provable settlement engine

TLA+ models of the settlement engine in `src/api` and of the console in
`src/web`, the TLC instances that check them and the TLAPS proofs about them.
Paths like `bet.ts:182` are below `src/api/src`, those starting with `web/`
below `src/`.

## The system

A Fastify service over one PostgreSQL database. Every request runs on a pooled
connection; whatever moves money runs in one READ COMMITTED transaction
(`withTx`, `db.ts:53`). Several instances of the service may share the database,
so every guarantee has to come from locks and constraints, never from memory.
The console is one React page that several tabs may have open.

| component | state it keeps | operations | talks to |
|---|---|---|---|
| Bet settlement (`engine/bet.ts`, `limits.ts`, `affiliate/commission.ts`) | `bets` | `placeBet` | seeds, rounds, ledger, limits, in one transaction |
| Payment ingestion (`payments/webhook.ts`, `routes/payments.ts`) | `webhook_events` | `ingestPaymentEvent`, the delivery storm | ledger, its own port |
| Seed rotation (`fairness/seeds.ts`) | `server_seeds` | `ensureActiveSeed`, `rotateSeed`, reads | bets lock its active row |
| Ledger posting (`ledger/*.ts`) | `accounts`, `journal_entries`, `postings` | `postEntry`, `lockAccounts`, derived balances | called by bets and payments |
| Round lifecycle (`engine/round.ts`) | `rounds` | create, lock, resolve, settle | trigger `rounds_linear` |
| Schema and triggers (`migrations/*.sql`) | constraints, triggers | balance at COMMIT, append-only, linear rounds | every writer |
| Transactions and pool (`db.ts`) | connections | `withTx`, `getPool` | every writer |
| Demo reset (`demo/reset.ts`) | - | TRUNCATE and reseed, five attempts | table locks against everything |
| Migrations and boot (`migrate.ts`, `server.ts`) | `_migrations` | `runMigrations`, `buildServer` | seeds |
| Sessions (`auth/session.ts`, `web/src/auth/bootstrap.ts`) | `sessions`, a cookie, a promise per tab | create, resolve, bootstrap | guards `POST /bets` |
| Outcome derivation (`fairness/outcome.ts`) | - | roll from seed, client seed and nonce; payout | bets, console |
| Fairness and read routes (`routes/*.ts`) | - | seeds, verify, entries, a round's history | everything |
| Console: resources (`web/src/App.tsx`, `hooks/useApi.ts`) | React state | load, refresh | the HTTP API |
| Console: actions (`web/src/hooks/useEngine.ts`) | React state | bet, replay, deposit, check, reset | the HTTP API |
| Console: presentation (`web/src/components`) | React state | lists, dialog, proof, highlights | the two above |

What is hard here: requests interleave statement by statement under READ
COMMITTED; a blocked `SELECT ... FOR UPDATE` re-evaluates its predicate; unique
indexes wait for uncommitted inserters; a request may die anywhere, be
delivered twice, or be retried after its COMMIT succeeded; locks are taken in
several layers (advisory, seed row, foreign keys, account rows); the day changes
under a running transaction; instances boot on a schema another one is changing;
answers reach the console late, in another order, or never, and other tabs change
what it shows. What makes each component correct:

- bets: settled at most once per id, within the stake limits, the balance and
  the loss allowance, at the active seed's next nonce;
- payments: credited exactly once per event id, and reported so;
- seeds: committed before a bet, revealed after the last one, nonces without
  gap or repeat;
- ledger: every entry balanced and paid for out of the past, balances equal to
  what bets and payments say, no deadlock between entries;
- rounds: one step at a time, forward, each step in the journal;
- reset: all or nothing, with an active seed at every moment, bets unharmed;
- boot: each file applied once and in order, one active seed, an existing one
  never replaced, and every instance serves in the end;
- sessions: one row for a boot, no failure without a reason;
- outcome and checks: what is shown before a bet is what it settles at, and a
  check that concludes agrees with the server;
- console: the screen never shows an older answer than it did, a replay moves
  nothing, a bet settles under the commitment shown.

## Modules

| module | what it is |
|---|---|
| `Books` | accounts, payout, commission, the legs of each journal entry |
| `Tables` | the committed tables as variables, and the properties stated on them |
| `SerialSettlement` | the abstract specification: bets, deposits and rotations, each one atomic step |
| `Settlement` | the detailed specification: the same requests statement by statement on concurrent connections |
| `SettlementInv` | the inductive invariant `LocksProtect` |
| `SettlementProofs` | one lemma per statement: each preserves the invariant |
| `SettlementTheorems` | the theorems about settlement, and why no transactions wait in a circle |
| `Audit` | the reconciliation of balances with bets and payment events |
| `SumProofs` | facts about sums over finite sets |
| `AuditProofs` | the books always reconcile |
| `Environment` | the abstract specification of a reset: the environment grows by whole requests or is replaced |
| `DemoReset` | resets against requests, at the level of the table locks they take |
| `DemoResetProofs` | its invariant, and `DemoReset` implements `Environment` |
| `Ledger` | `postEntry` for any postings, several to a transaction, and the trigger at COMMIT |
| `Rounds` | the life of a round, UPDATEs that bypass the service, the two queries of its history |
| `Boot` | instances of several releases starting on one database |
| `Storm` | webhook storms on one instance, its pool of connections and its report |
| `Verify` | the seeds, the bets' outcomes, the browser's check and `GET /fairness/verify` |
| `Figures` | the figures of a bet, through texts and doubles, from typed to verified |
| `Sessions` | session rows, the cookie and the consoles of several tabs that start them |
| `Console` | the overlapping runs of `useEngine` in one console, and other tabs |
| `Resources` | `useApi`, the account and the refreshes that follow an action |
| `Page` | what components keep while the lists under them change |
| `MCSettlement`, `MCDemoReset` | instances for TLC |
| `Service` | `Ledger`, `Rounds`, `Boot`, `Storm`, `Verify`, `Figures` side by side, with their properties |
| `ServiceProofs` | the theorems about rounds, boot and storms |
| `LedgerProofs` | the theorems about the ledger, the figures of a bet and its verification |
| `MCService` | the small instances of `Service` for TLC |
| `Browser` | `Sessions`, `Console`, `Resources`, `Page` side by side, with their properties |
| `BrowserProofs` | the theorems about the console |
| `MCConsole` | the small instances of `Browser` for TLC |
| `MCLive` | `Settlement`, `DemoReset`, `Boot`, `Storm` side by side, with fairness |

`Service`, `Browser` and `MCLive` put components that share no state next to
each other. The variable `on`, chosen in the initial state, names the one that
runs; the others stay in their initial states. State spaces then add up instead of
multiplying, and each property is that of one component, checked while it runs
(and true of the others' initial states).

Definitions that begin with the word "Altered" in their comment are plausible
faults of the code, one beside the definition they would replace. No
specification uses them.

In `Browser` the components of the console are instantiated once for all choices of
their constants: `Engine(e)`, `Load(l)` and `Page(p)` take the constants of the
instance of that name from the functions `Engines`, `Loads` and `Pages`. A theorem
about `Browser` is then one about every instance, and `MCConsole` names a few for TLC.

### From the code to the model: settlement and reset

A *worker* of `Settlement` is a pooled connection with at most one request. `pc`
is the next statement that can wait or that reads shared rows; statements that
can do neither join the one before them. `req` is the request, `view` what the
transaction has read, `held` its locks, `draft` the movements it has posted and
not committed. Only the COMMIT steps (`CommitBet`, `CommitDeposit`,
`RotateSeed`) write the shared tables, which is what READ COMMITTED lets others
see. A worker's own uncommitted rows (bet, round, nonce increment, reservation,
postings) are implied by `pc`, `req`, `view` and `draft`.

| action | code |
|---|---|
| `LockBetId`, `RefuseBet`, `AcceptBet` | advisory lock on the id, duplicate and stake checks, `bet.ts:190-230` |
| `LockLoss`, `RefuseLoss`, `AcceptLoss` | advisory lock on the user, daily net, `bet.ts:235-252` |
| `SelectSeed`, `LockSeed`, `RetrySeed`, `GiveUpSeed` | `SELECT ... FOR UPDATE` and its one retry, `bet.ts:98-117`, `seeds.ts:89-109` |
| `RefuseRotated`, `OpenBet` | the named commitment; round, bet row, nonce, `bet.ts:257-279` |
| `LockAccount` | one row of `lockAccounts`, in id order |
| `RefuseFunds`, `PostBetLock`, `PostBetSettle`, `PostCommission`, `CommitBet` | the three entries and COMMIT, `bet.ts:280-342` |
| `WinReservation`, `LoseReservation`, `Deduplicate`, `PostDeposit`, `CommitDeposit` | `webhook.ts:40-101` |
| `RotateSeed` | reveal, insert successor, COMMIT, `seeds.ts:111-127` |
| `Crash` | the connection or the process is gone |
| `Midnight` | `now()` moves on to the next UTC day |

Two things about PostgreSQL are in the model because the code relies on them. A
`FOR UPDATE` that waited rechecks its WHERE clause on the latest version of the
row and skips a row that no longer qualifies, keeping its lock. `INSERT ... ON
CONFLICT DO NOTHING` waits for an uncommitted inserter of the same key. A new
round's foreign key locks its user's row; that lock is modelled as exclusive,
which is what it is against the only other lockers of the row (`FOR UPDATE`).

In `Settlement` deadlock detection is not modelled: a circle of waits would be a
TLC deadlock and a violation of `NoWaitCycle`, and there is none.

`DemoReset` looks at the same requests from further away. A request is the list
of tables its statements touch (`Statements`), and `touched` the table locks its
transaction holds; row locks are `Settlement`'s subject, except the active
seed's, which makes requests wait for each other while a reset waits for them.
`rows` says which requests have committed rows in each table.

| action | code |
|---|---|
| `TakeAdvisory`, `TakeTable` | the advisory lock; `TRUNCATE`, one table after the other, `reset.ts:90-99` |
| `CommitReset` | empty tables, the fixtures, a new active seed, `reset.ts:97-124` |
| `LockTimeout`, `ResetIsVictim`, `FailReset` | 55P03 and 40P01, retried; anything else, thrown, `reset.ts:142-155` |
| `RequestIsVictim` | 40P01 in a bet, a payment event or a rotation, which nothing retries |
| `ListEntries`, `ListPostings` | the two queries of `listEntries`, `entries.ts:27-52` |

Here the database does detect circles of waits, and rolls back either side:
PostgreSQL picks the waiter whose check runs first. Waiting behind a queued
`TRUNCATE` that has not been granted is left out, which only removes waits.

### From the code to the model: the rest of the service

`Ledger`. A session is a connection inside `withTx`; its transaction calls
`postEntry` up to `MaxEntries` times with postings from `Entry`, some of which it
rejects. `LockAccounts` is `lockAccounts` (`accounts.ts:24`), `Funded` the
accumulated debits of `post.ts:83-102`, `InsertEntry` takes the next id of the
sequence at once and shows the entry at `Commit`, where the deferred trigger
either lets it through (`Balanced`) or raises. `InsertMarker` is the entry without
postings of `recordRoundResolved`.

`Rounds`. `CreateRound`, `TakeStep` and `RefuseStep` are `createRound` and
`transition` (`round.ts:31-71`) with the journal entry that goes with the step;
`TriggerAllows` is `assert_round_transition` under its WHEN clause. A `Hand` is a
session that bypasses the service: it reads a status and writes the next one with
nothing but the trigger in its way. `Query` runs the two statements of
`getRoundWithHistory` one at a time.

`Boot`. An instance runs `runMigrations` (`LookForTable`, `CreateTable`,
`ReadMigrations`, then per file `SkipFile`, `RejectEdited`, or `RunFile`,
`RecordFile`, `CommitFile` and `FileCollides`), `ensureActiveSeed` (`InsertSeed`,
`FindSeed`) and `Listen`. A boot that fails leaves the process; `Start` is the
platform, which restarts it `MaxRetries` times (`restartPolicyMaxRetries` of
`src/api/railway.json`). Content is the version of each file an instance ships.
`ReplaceSeed` is a rotation or reset by an instance that serves, `Die` a death at
any point.

`Storm`. A delivery takes a connection for the account check, returns it, and
takes one for its transaction; `queue` is the pool's, `TimeOut` its
`connectionTimeoutMillis`. Within a transaction there are three waits: for another
delivery's reservation of the same event, for the gateway's row in `postEntry`, and
COMMIT. `Report` is the answer of `payments.ts:135-152`.

`Verify`. SHA-256 and HMAC are constructors: digests are equal when their inputs
are. What goes into them is kept, character by character, because the separator
in the message is what `MessagesDiffer` is about. A check reads the row first and
the revealed seeds later; rotations and resets happen in between. The answer of
`GET /fairness/seeds` is a set: its order is left out, because the browser looks a
seed up by its hash (`find`) and `seed_hash` is unique (`001_schema.sql:50`).

`Figures`. Numbers are thousandths, texts are a whole part and a sequence of
digits, and a binary double is the number itself plus one bit: whether it is below
it, which decides a tie in `toFixed` and `Math.round`. One bet goes from the input
field or the slider, through the text sent, to the server's `parseHundredths`,
range check and payout, to the stored roll and the two verifications of it.

### From the code to the model: the console

`Sessions`. Rows have an expiry, the browser's tabs share one cookie. In each tab
`bootstrap.ts` is an attempt of up to three requests (`me`, `session`, `again`)
and the promise that `inFlight` keeps; a page is mounted twice, as StrictMode does,
and unmounted by the review page. `CheckBet` and `PlaceBet` are `requireSession`
and what runs after it.

`Console`. A run of `useEngine` is a record in `runs` that waits for an answer:
clicked, served, answered. `busy` is one name, as in the code, so runs of different
names overlap and the first to end clears it. `shown` and `stale` are what the page
displays and is reloading. `Elsewhere` is another tab's deposit, bet, rotation or
reset.

`Resources`. The content of a resource is the number of the last change to the
database it reflects, for what a GET reads (`Reads`) and an action writes
(`Writes`); the properties compare these numbers. Commission postings count as a
table of their own, since `/affiliate` reads no others (`affiliate/commission.ts:54-59`).
`Refresh` and `Answer` are `useApi` with its request numbers, `Affected` is `onChanged`
and `refreshAll` of `App.tsx`, `Me` the account, which is loaded without request
numbers.

`Page`. Lists are sequences, newest first. `RecentBets`' open proof, `LedgerView`'s
known and lit ids with its timer, the result card, the reset dialog, the menu, the
tab and the page switch are variables named like the components' state.

## Runs

| run | what it asks | instance |
|---|---|---|
| `SettlementBets` | books, funds, limits, seeds and integrity errors under duplicates and shared allowances | 3 connections, 1 user, 2 bet ids, 1 event, 3 seeds |
| `SettlementWaits` | no circle of waits, nonces without gap | 3 connections, 2 users, 2 bets, 2 events, a stake that is refused |
| `SettlementSerial` | `Settlement` implements `SerialSettlement` | 2 connections, 2 users, 2 days |
| `ResetLocks` | resets and requests leave whole requests and an active seed; `DemoReset` implements `Environment` | 3 connections, 2 resets, 2 bets, 1 event, 1 rotation |
| `Live` | every request, reset and storm ends, every booting instance serves | four components, see `MCLive` |
| `Service` | entries are paid for and numbered in order; rounds move forward and are recorded; files are applied once; boot keeps the seed; an event is credited once and reported so; outcomes and checks agree; bets settle as shown | seven instances of six components, see `MCService` |
| `Console` | one row per boot, no failure without a reason; commitments, replays and checks; no resource goes back; nothing old turns new | seven instances of four components, see `MCConsole` |
| `SettlementPhantom` | violation: a 500 "No active seed" while one is active | 3 connections, 3 seeds |
| `SettlementMidnight` | violation: a net loss above the limit on one day | 2 connections, 2 days, 3 bets |
| `ResetVictim` | violation: a bet is rolled back for a reset | 1 connection, 1 reset |
| `ResetPage` | violation: entries without their postings | 1 connection, 1 reset, a reader |
| `PageProof` | violation: a proof is rendered without its row | 2 bets, one row shown |

### Bounds

Three connections are enough for a holder, a waiter and a third party that moves
between them, and for two rotations to overtake a waiter. Two bet ids give both
the duplicate and the second bet on one allowance. `FreshSeedLeft` stops rotations
when the finite set `Seed` runs out, and `MaxDay` stops the calendar; nothing else
in `Settlement` is bounded but by the constant sets. `SettlementWaits` includes a
stake above the maximum, the rolls of `SettlementBets` lie on both sides of the
target, and the limits are scaled down so that one or two lost bets reach them.
Symmetry is used in safety runs of `Settlement` and `DemoReset` only.

In `DemoReset`, `SeedToSpare` stops resets and rotations at `MaxSeed`, and two
attempts stand for the five of `MAX_ATTEMPTS`: a first, and a last. In the other
modules the bounds are constants, named with "bound" where they are declared:

| module | bounds | why they are enough |
|---|---|---|
| `Ledger` | 2 sessions, 3 accounts, 2 entries a transaction, ids to 3 | two transactions on one account, an id drawn first and committed last, an id lost |
| `Rounds` | 2 callers and a reader of 2 rounds; 2 callers and 2 hands on one, with resets | two writers of every kind meet at every step |
| `Boot` | 3 releases (a new file, an edited file), 2 files, 1 retry, 2 seeds, 1 death | a file before and after the collision, a race for table, file and seed; in `Live`, 2 instances and 3 retries |
| `Storm` | 2 storms of one event, 4 deliveries, a pool of 2, 2 faults | more deliveries than connections, a fault for the first and for a later delivery |
| `Verify` | 3 bets, 3 seeds, 1 reset, base 2 | a nonce of two digits beside a client seed that ends in a digit |
| `Figures` | 17 targets, 7 stakes, 14 rolls | both sides of every comparison in the code |
| `Sessions` | 2 tabs, a session of 2 ticks, 1 fault | both tabs race for the cookie, which expires before or after a bet |
| `Console` | 1 run, 2 bets, 3 seeds and another tab; 2 runs, 1 bet, 1 lost answer | every pair of runs, and every foreign change between two steps of one |
| `Resources` | 2 changes, 2 mounts, 2 effects; with the account, 1 and 1 | two requests for one resource in both orders, and a request that outlives its page |
| `Page` | 2 bets and a reset elsewhere; 1 bet and the dialog; rows 1, entries 4 | the limits 10, 20 and 50 of the code scaled down so that one more bet exceeds them |

`MaxRetries` in `Live`: with every race lost once, an instance fails once for the
table and once for each file, 3 with two files. The repository has four files, and
its five retries are the same figure.

CHECK_DEADLOCK is off in `Service`, `Console` and `Live`, whose components stop when
everything asked has been served or a bound is used up, and in `PageProof` for the
same reason.

### Fairness

`Live` asks strong fairness of each worker's next statement in `Settlement` and of
each request in `DemoReset`: a lock queue in PostgreSQL is served in order of
arrival, so a waiter whose lock is released again and again is granted it
eventually, and a connection that can execute does. Weak fairness is enough of a
reset, which goes on or runs into its `lock_timeout` while it waits; of a
booting instance, since a process runs and the platform restarts it; of a
delivery, which the pool and the reservation serve in order; and of the storm's
report. Arrivals of requests, crashes, faults, rotations and midnight are not fair.

### What the violations show

- `SettlementPhantom`. `lockActiveSeed` and `rotateSeed` retry an empty select
  once. Two rotations can commit while one request waits: it then fails with
  an internal error, where the comments (`bet.ts:92-96`, `seeds.ts:96-102`)
  call this "a lost race, not an absence of seeds".
- `SettlementMidnight`. `DAILY_NET_SQL` has a lower bound only. A bet whose
  transaction began before midnight sees a win of the next day as allowance,
  where the comment (`limits.ts:11-12`) says "only the current UTC day".
  What does hold is `LossLimitAtCommit`: the limit over everything since the
  start of the bet's day.
- `ResetVictim`. The comment at `reset.ts:132-135` says that in a deadlock "the
  reset is the right side to lose". Nothing makes it so: a bet that is the
  victim is answered with an internal error. It loses no money
  (`WholeOrNothing`), only its turn.
- `ResetPage`. `listEntries` promises each entry "with its postings"
  (`entries.ts:22-26`); a reset between its two queries leaves the entries of
  the old environment with none.
- `PageProof`. `RecentBets` keeps the id of the open proof and looks its row up
  with a non-null assertion (`web/src/components/RecentBets.tsx:113`). Ten newer
  bets, placed here or in another tab, push the row out of the ten shown; `Proof`
  then reads a field of `undefined`, and without an error boundary the page goes
  blank.

### Other disagreements met while modelling

Statements of the repository that the model refutes, each a definition in the
module named, without a run of its own. The last column is the smallest instance
on which TLC finds the counterexample; constants not named are as in `MCService`
or `MCConsole`.

| definition | the statement | what the code does | instance |
|---|---|---|---|
| `Rounds!TriggerRejectsSecond` | the trigger "would reject the second" of two callers (`round.ts:24-27`) | two UPDATEs to the same status: the trigger's WHEN clause does not call it for the second (`002_triggers.sql:59`) | 1 caller, 2 hands, 1 round |
| `Rounds!HistoryCoversStatus` | the history is of the round shown (`round.ts:95-102`) | a reset between the two queries (`round.ts:106`) leaves a settled round without steps; without resets it holds and `Service` checks it | 1 caller, 1 reader, `Resets = TRUE` |
| `Boot!AppliedFilesSkipped` | "already-applied files are skipped" (`migrate.ts:28`) | what is applied is read once (`:40`): a file another instance applies later is run again and fails the boot, which is then restarted | 2 instances, 2 files |
| `Storm!DeliveriesAreOwn` | "the delta across its own run" (`payments.ts:33-34`) | the counter is the process's, so overlapping storms count each other's (`:122`) | 2 storms of 1 delivery, a pool of 2 |
| `Storm!FailedMeansTwice` | "Duplicate protection failed" (`web/src/components/AdvancedProofs.tsx:225`) when "only one may move money" (`:200`) | said too when no delivery was answered and none moved money | 1 storm, 2 deliveries, 2 faults |
| `Verify!DisclosedIsVouched` | `matchesHash` says whether the seed is one the service "committed to and has since revealed" (`routes/fairness.ts:69-71`) | a reset deletes the revealed seeds (`demo/reset.ts:99`) | 1 bet, 3 seeds, 1 reset |
| `Figures!ShownIsSettled` | the figure shown "is the figure the server settles" (`web/src/components/format-credits.ts:12-13`) | with three decimals typed, `Math.round` before the bet and `toFixed` with it (`BetCard.tsx:183`) may differ | targets 1.005, 1.044, 1.045, 1.285; `Below` 1.005, 1.045, 1.285; `ProductBelow` 1.005 |
| `Sessions!ShownSinceMounted` | no "balance that is quietly out of date" (`web/src/hooks/useApi.ts:14-17`) | a console mounted again is handed the account of the first attempt (`web/src/auth/bootstrap.ts:26`) | 1 tab, `MaxTime = 0`, 3 rows, `MaxMoney = 3` |
| `Console!EachButtonRefused` | "Each button breaks one rule" (`web/src/components/AdvancedProofs.tsx:249`) | the stake "beyond the balance" is computed from the balance shown; with a deposit elsewhere it is a bet (`:74`) | 1 slot, 2 bets, 3 seeds, 2 funds, 2 foreign |
| `Console!UnrevealedIsInUse` | "That bet's secret is still in use" (`web/src/components/FairnessSection.tsx:61-63`) | also said of a secret a reset elsewhere has deleted | the same |
| `Console!SecretShownIsUsed` | the cryptography "shown in full underneath" (`FairnessSection.tsx:14-15`) | the secret shown is that of the last rotation, not the bet's (`web/src/hooks/useEngine.ts:174`) | the same, no foreign |
| `Resources!BalanceNeverBack` | `useApi.ts:14-17`, as above | the account is loaded without request numbers (`web/src/App.tsx:54`): a late answer replaces a newer one | account, deposits, 2 changes |
| `Resources!NewBalanceIsNew` | "New balance" (`web/src/components/ResultCard.tsx:71`) | a reload that fails leaves the balance from before the bet (`App.tsx:118`) | account, bets, 1 change |
| `Resources!NothingCached` | "Nothing here is cached" (`web/src/components/ui.tsx:252`) | data of earlier answers stays next to the error (`useApi.ts:46`) | account, `entries` and `bets`, 1 change |
| `Resources!HealthCheckedNow` | "Checked just now" (`web/src/components/AdvancedProofs.tsx:148`) | said of the last answer, however many later requests failed | `invariants`, 1 change |
| `Page!MoneyIsTheBets` | the money shown is the bet's (`web/src/components/ResultCard.tsx:14-18`) | entries are picked by id (`:32`), and ids start again after a reset | 2 bets, limits 1, 2, 4, 1 reset, 1 dialog |

Further statements that hold on the instances of `Service` and `Console` and have
no run, since another property says more or a guard of the model gives them:
`Boot!ServesItsOwnSchema`, `Verify!VouchedIsDisclosed`, `Figures!WinPaysMore`,
`Sessions!SignedInUntilExpiry` and `Page!EachResetAsked`, which are proved below;
`Ledger!SumIsZero` and `Rounds!RefusedFirst`, which guards give; and on `ResetLocks`'
instance `DemoReset!ResetsAlone` and `DemoReset!TypeOK`: the first is a theorem, the
second a part of the invariant it follows from.

## Proofs

Proved by TLAPS for every value of the constants that satisfies the modules'
assumptions. Every invariant and every action property that a passing run checks
is also a theorem; so are the two refinements. A property in brackets has no
run of its own (the end of "Runs").

| module | theorem | property |
|---|---|---|
| `SettlementTheorems` | `TypeCorrect` | `TypeOK` |
| | `LocksProtected` | `LocksProtect` |
| | `NeverOverdrawn` | `NoOverdraft` |
| | `LossLimitHolds` | `LossLimitAtCommit` |
| | `CommitmentsKept` | `NamedCommitmentKept` |
| | `CommittedBeforeRevealed` | `CommitBeforeReveal` |
| | `NoncesNeverReused` | `NonceSequence` |
| | `NoDuplicateReachesTheTables` | `NoIntegrityFailure` |
| | `SerialisesAlways` | `Serialises`: `Settlement` implements `SerialSettlement` |
| | `NobodyWaitsInACircle` | `NoWaitCycle` |
| `AuditProofs` | `BooksAlwaysReconcile` | `BooksReconcile` |
| `DemoResetProofs` | `RowsComeAndGoTogether` | `WholeOrNothing` |
| | `ResetsAreAlone` | `ResetsAlone` |
| | `EnvironmentAlwaysKept` | `EnvironmentKept`: `DemoReset` implements `Environment` |
| `ServiceProofs` | `StepsAlwaysRecorded`, `HistoriesCoverStatus` | `StepsRecorded`, `HistoryCoversStatus` |
| | `RoundsNeverGoBack` | `Linear` |
| | `FilesAppliedOnceInOrder` | `AppliedOnceInOrder` |
| | `BootAlwaysFindsSeed`, `BootAlwaysKeepsSeed` | `BootFindsSeed`, `BootKeepsSeed` |
| | `EventsCreditedOnce`, `StormReportsHold` | `CreditedOnce`, `ReportHolds` |
| | `ServesOnlyItsOwnSchema` | (`Boot!ServesItsOwnSchema`) |
| `LedgerProofs` | `IdsAlwaysFollowCommits` | `IdsFollowCommits` |
| | `DebitsAlwaysFunded` | `FundedByThePast` |
| | `FiguresAlwaysAsShown`, `VerifiersAlwaysAgree` | `SettledAsShown`, `VerifiersAgree` |
| | `MessagesAlwaysDiffer`, `ChecksAlwaysAgree` | `MessagesDiffer`, `ConcludedChecksAgree` |
| | `WinsAlwaysPayMore` | (`Figures!WinPaysMore`) |
| | `VouchedIsAlwaysDisclosed` | (`Verify!VouchedIsDisclosed`) |
| `BrowserProofs` | `OneRowForEachBoot`, `FailuresAreFresh` | `OneRowPerBoot`, `FailsForAReason` |
| | `CommitmentsShownAreUsed` | `CommitmentShownIsUsed` |
| | `ChecksAreConclusive`, `ReplaysMoveNothing` | `CheckIsConclusive`, `ReplayMovesNothing` |
| | `SettledIsUpToDate`, `ShownNeverGoesBack` | `UpToDate`, `NeverBack` |
| | `OldNeverLooksNew` | `OldNeverTurnsNew` |
| | `SignedInUntilTheClock` | (`Sessions!SignedInUntilExpiry`) |
| | `EachResetIsAsked` | (`Page!EachResetAsked`) |

### The arguments

*Settlement.* `LocksProtect` says that whatever a transaction has checked is
still true, because each fact is covered by a lock it holds: the bet id and the
user's allowance by advisory locks, seed and nonce by the seed row, funds by the
user's account row, the event by its index entry, and that its `draft` holds
exactly the entries of its request so far. With `TypeOK` it is inductive
(`InductiveInvariant`); `NoOverdraft` alone is not, since a commit preserves it
only because the funds tested earlier are still there. The lemmas in
`SettlementProofs` show it step by step, first for the worker that moves, then
for the others, whose locks the mover cannot hold.

*No circle of waits.* A global order of the locks would be enough, but the code
has none: the accounts of one bet are taken in three sorted groups, and a select
whose seed was revealed keeps the old seed's row while it waits for the new one.
What there is instead is an order of the transactions. `LocksOrdered` says which
locks a transaction may hold at each statement, and that seeds can be numbered in
the order they became active, such that whoever looks for the active one holds
older ones only. `Rank` puts a transaction at a place that depends on its
statement, its row locks and the age of its seed, and each waits for one of higher
rank. A circle would be a non-empty set of waiters, each waiting for another of the
set, and one of highest rank contradicts that.

*The books.* `BooksReconcile` is a statement about tables that only COMMITs
write. `SerialisesAlways` maps each COMMIT to one step of `SerialSettlement`, so
it is enough that the three steps of that specification keep it. `Columns` is the
same statement with the sums of each user's rows written out; each step adds one
row to one or two of them. It is inductive together with the finiteness of the
tables, without which a sum says nothing.

*Resets.* `IInv` says what the table locks are worth: a request past its first
statement has no committed rows yet and has touched exactly the tables of its
statements so far; what a reset has truncated no open transaction has touched;
there is one active seed, the one generated last, and at most one connection has
its row; the tables agree with each other on every request. The third of these
makes a commit after a `TRUNCATE` impossible. `Room`, that every rotation or
reset under way can still generate a seed within `MaxSeed`, is about the model's
bound only, and is why sets of connections have to be finite.

*Rounds.* Committed steps are those the status calls for (`History`), and so are
they together with the steps of an open transaction, which has its round's row
to itself. What a reader saw in its first query is never ahead of the row. With
sessions that bypass the service less is true, and less is needed: an open
transaction has its row to itself and is not behind it, and the trigger refuses
whatever would take a row back.

*Boot.* A snapshot of `_migrations` may be old, but what it says was applied
stays applied; every file behind an instance was applied or is one that some
release does not ship; the record of a file is held by one instance at a time until
COMMIT. With this and `AppliedOnceInOrder` the invariant is inductive. Between the
insert and the read of the seed some seed is active. For `ServesOnlyItsOwnSchema`,
`SchemaInv` adds that a file of its own that is behind an instance is recorded as the
instance ships it, and that past the migrations all of them are behind.

*Storms.* An event under reservation has no entry and one holder. Whoever has an
answer with an entry names the event's; at most one of them posted it. For the
report: the counter is shared by all storms, so a storm's own deliveries that
arrived and have not failed are at most what the counter moved since it began.

*The ledger.* The invariant is about a sequence that no single step sees: for each
session, the journal followed by the entries of its open transaction is `Good`,
which means that ids grow along each account and every debit of a user is covered
by what stands before it. So it would still be good if that session committed
next. When another session commits first, its entries come in between; the two
share no account, since each holds the rows of the accounts it wrote until COMMIT,
so they change neither the sums nor the order that the first relies on.

*Figures.* What was typed is carried through as a number: at each stage the text,
the hundredths and the roll are functions of it. The rest is arithmetic in the
literal ranges of the code, and counting: the rolls below a target in hundredths
are as many as the target says. A win pays more than its stake because no stake is
below the minimum and no target above 98.00 (`PayoutBounds`).

*Verification.* Two bets of one secret have different nonces, since a bet of the
active secret has a nonce below the counter and older secrets take no more bets.
Different nonces have different numerals, and messages with different numerals
differ: if their client seeds were of different length, the longer one's colon
would be a digit of the other's numeral. `ConcludedChecksAgree` needs only that
every row a check may hold has the outcome of its own secret, and
`VouchedIsAlwaysDisclosed` that a seed is revealed by the step that discloses it.

*Sessions.* `OneRowPerBoot` counts what a tab made and what it lost; it is
inductive once it is known that the promise in `inFlight` stands for the only attempt
of its tab that still asks (`PromiseKept`), that a live cookie is of a row that was
made, and that a tab that got its own session does not ask for another
(`OneOfItsOwn`). `FailsForAReason` needs the converse of a cached promise: whoever
waits for a rejected attempt met its failure since it was mounted (`FailureMet`).
Nothing takes a cookie from the jar (`Cookies`), so only the clock signs a tab out.

*Actions.* Runs overlap, and other tabs change the server between any two of their
steps, so a run may hold nothing but what stays true: `ServerMovesOn` says what the
server never takes back (seeds grow older, bets stay unless a reset erases both), and
`RunOk` is what a run knows, stated so that it survives any such move. A bet is bound
to the commitment it named, a replay to a bet once placed, a check to a seed that is
no longer active. `EngineInv` adds the same for what the screen keeps when the run is
over, and each of the three properties is a line of it or of one of its steps.

*Resources.* No lock orders the answers; the request numbers do. `InOrder` says that
of a page's requests for a resource only one has the latest number and that what it
will bring is no older than what is shown and what the tab was told of. `NothingAhead`
says that nobody has seen, or been told of, what the database has not reached, so that
a GET served from now on brings enough. `SettledIsFresh` is the property for a
resource that has settled. It is inductive because an action's answer asks again for
every resource that reads what the action wrote (`TouchedIsAffected`). The first
attempt at that lemma failed: `Reads("affiliate")` named all postings, which a deposit
writes, whose answer does not refresh the affiliate. The route reads commission
postings only, which a deposit does not write: the model was too coarse, not the code.

*Lists.* `OldNeverTurnsNew` holds because `LedgerView` knows the id of every entry on
the screen while its tab is shown (`ScreenKnown`), and leaving the tab puts all lights
out. `EachResetIsAsked` counts: an open dialog has not sent its reset.

*Sums and numerals* are defined by recursion. An induction theorem that takes the
property as an operator cannot be used here, so each induction is on a set: the
set of numbers up to which the property holds contains 0 and every successor
(`UpToAll`), by a least counterexample. That a recursive definition means what it
says (that its equation has a solution) is proved the same way, in `SumProofs` for
sums and in `LedgerProofs` for numerals.

### Assumptions

- Accounts are distinct from the house accounts; stakes, targets, rolls and limits
  are in the ranges the route schema and the constants of `limits.ts` allow;
  absent rows differ from rows.
- `ConnectionAssumption`, and `Delivery` in `StormAssumption`: connections, resets
  and deliveries are finitely many. A pool has a size, and a storm is one request.
- `EntryAssumption`: the postings of an entry are a sequence, and amounts whole
  numbers (`bigint`).
- `VerifyAssumption`: client seeds are non-empty sequences, and numerals are
  written in a base from 2 to 10. The code's is ten; TLC uses two.
- In `Service`, the rounds that hands write to are among the rounds.
- `Instances`: each instance of the console satisfies its module's assumptions. A
  session lasts some number of ticks (`SessionsAssumption`); the resources are those of
  the page, and React runs an effect once or twice (`ResourcesAssumption`); limits are
  positive (`PageAssumption`). The bounds of `Sessions` and `Console` are arbitrary.

The definitions the proofs speak of are those TLC evaluates. Where two ways of
writing one thing were open, the one the provers can expand was taken: sums as
sums of functions, a removal from the pool's queue as `RemoveAt`, the ranges of
targets and rolls as named operators, the elements of a list as `Range`.

Only model-checked: the five liveness properties of `Live`, since fairness and ENABLED
are beyond the prover, and `SumIsZero` and `RefusedFirst`, which repeat a guard. That
the violations are reachable is TLC's to show.

## Not modelled

- Static presentation: the review page, hero, icons, theme, toasts, help texts
  and the range meter hold nothing of the system, and neither does state kept
  for display only (the storm's last report, the answer to the balance probe).
- Serialisation (`json.ts`), the refusal table, `/affiliate`, `/refusals` and
  `/health`: no state, or one statement that reads.
- The append-only triggers reject every UPDATE and DELETE, which no code attempts.
- `destroySession`, and `rotate`, `verify` and `clearOutcome` of `useEngine`, which
  nothing calls.
- The digest behind a roll: a roll is any member of a set, except in `Verify`,
  where it is the digest.
- HTTP itself: a request is a choice of arguments; a lost answer is, for the
  service, a request that is sent again after its COMMIT, and for the console a
  step of its own (`Lose`, `Fail`).

## Plan

Every property of a run that a prover can reach is proved. What may come next:

1. the three hazards whose statements the code refutes ("Other disagreements"), once
   it has an order or a lock that makes them safe;
2. when the code changes, the definition that "map" gives for it, then TLC on the run
   of its component, then the proof: the lemma of the action that changed is the one
   that fails.
