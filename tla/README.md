# Formal models of Robinhood-Agentic

TLA+ models of the parts of this repository whose correctness depends on the
order in which things happen: threads of the FastAPI backend, the cycle job,
the migration runner, the host's command line, PostgreSQL transactions, the
Alpaca broker, crashes and lost answers. TLC checks them on small instances;
TLAPS proves the main results for every value of the constants. `PROJECT.json`
maps each definition to the lines it translates.

1. [The system](#1-the-system)
2. [Modules](#2-modules)
3. [Runs, bounds and what they show](#3-runs-bounds-and-what-they-show)
4. [Fairness](#4-fairness)
5. [What is proved](#5-what-is-proved)
6. [Where code and documents disagree](#6-where-code-and-documents-disagree)
7. [What is not modelled](#7-what-is-not-modelled)
8. [Plan](#8-plan)

## 1. The system

A self-hosted dashboard for one brokerage account. A FastAPI backend reads
market data and holdings, runs debates between language models about
positions, keeps their judgments and later outcomes in PostgreSQL, and has an
execution service for limit orders at Alpaca. A scheduled job runs the cycle
(reconcile, scan, debate, report). A separate lab runs experiments.

| Component | State | Operations | Interacts with | Hard behaviour | What makes it correct |
|---|---|---|---|---|---|
| Execution (`services/execution.py`, `src/alpaca_execution.py`, `services/guardrails.py`, migration 014) | `execution_arming`, `orders`, the in-memory `_previews` | `arm`, `disarm`, `build_preview`, `confirm` | broker (POST with a timeout), settings (guardrail limits), pool | check and use in separate transactions; late or lost broker answers; failing database; restart between preview and confirm | an order is previewed, spent once, recorded before it is sent, and recorded truthfully; guardrails and the rate cap bound what is sent |
| Cycle (`jobs/cycle.py`, `services/cycle_state.py`, migrations 022 and 024) | one `cycle_runs` row per run, the report file, the event log | `run_cycle` and its writes, `current`'s sweep | reconciliation, scan, debates (threads) | best-effort writes that may be lost; a killed job; concurrent debates counting into one column; a sweep that may be wrong | the row never says more than happened; it does not say "running" for ever |
| Settings (`services/settings_store.py`, migration 019) | `app_settings`, its history, a 10 s cache per process | `get_all`, `set_value` | every guardrail reads it | cache filled from an older read; validation against another transaction's data | history and value agree; defaults are labelled; the cash band is a band |
| Migration runner (`db/migrate.py`) | `schema_migrations`, the schema, an advisory lock | `up`, `down`, `status` | the checkout it runs in | concurrent runners, crashes, bodies that end the runner's transaction, edited files | a bookkeeping row tells what the schema holds; destructive steps need consent |
| Sign-in (`services/auth.py`, `bin/manage_operator.py`, migration 012) | `mfa_login_challenges`, `operator_totp`, `recovery_codes`, `sessions` | password step, second factor, logout, `unlock`, `reset-totp` | pool `rh_auth` | READ COMMITTED races on four tables; refusals that commit | one session per challenge and per code; codes are not lost to a race; the lock and the replay mark hold |
| Email verification, rate limit (`services/auth.py`, `routers/auth.py`, `ratelimit.py`) | `email_verification_tokens`, windows in memory | resend, redeem, `check_and_consume` | SMTP | resend racing a redemption | one live link; at most one redemption |
| Debate (`debate/`, `llm/`, `services/debate_store.py`) | the coroutine's stage, jury and calls; the bench of exhausted keys; `llm_usage`; the record on disk, `debates` and `judgments` | researchers, rebuttals, jury, aggregation, failover, storing | Anthropic and Gemini with one key per owner, the browser's stream, pool | concurrent jurors under semaphores; calls that fail, answer nothing or hit a budget; inserts that conflict; a reader that leaves | a verdict rests on votes that were cast; what calibration reads was said; owners pay evenly; a debate ends |
| Price archive (`db/load_daily_bars*.py`, `load_delistings.py`, `load_corporate_actions.py`, `load_instrument_types.py`) | `securities`, `price_bars_daily`, `corporate_actions`, `price_gap_audit`, the adjustment bound | load, audit, provider pass, splice, infer, fmp, fetch, adjust, classify, disposition | day files, FMP, an operator who decides | commands of several transactions that may be killed; tools run in any order; decisions that later runs meet | a symbol and a date lead to one identity; factors never look ahead; the audit misses nothing and decisions stand |
| Point-in-time feeds (`load_reference_data.py`, `load_fundamentals.py`, `collect_intraday.py`) | rates, statements, intraday observations with their run rows | rates, load, sweep | FRED, FMP, which revise and restate | revisions during a run; overlapping runs; filings between two calls | a row says when its fact became known; a revision is not lost; a sweep adds up |
| Lab (`lab/`, migration 023) | `experiments`, `model_runs`, `sweeps`, one baseline per model | run an experiment, run a sweep, set a baseline | threads, the page's stream | a cancelled request whose threads go on; a process that dies | complete means recorded; a run ends once; a sweep with holes says so |
| Paper books (`bin/nightly_marks.sh`, `db/sync_real_portfolio.py`, `mark_portfolios.py`, `score_judgments.py`, `services/outcomes.py`) | lots, cash, daily values, outcomes, the knowledge base | mirror, load closes, grade, mark, backfill, exit a lot | broker, FMP, operator, API | a nightly chain whose steps fail; marks by hand beside it; exits under the mirror; splits that are heard of late | the curve is what the account was worth; returns chain; an exit is recorded once |
| Views (`services/broker.py`, `marks.py`, `valuation.py`, `slate.py`, `routers/account.py`, `data_trust.py`, `reconciliation.py`) | the cache of accounts, the cache of prices and its failures | the account page, the trust page, the reconciliation | broker, vendor, the snapshot file, the slate's document | threads over shared caches; late answers; outages | numbers of the account asked for; ages that are true; agreement only where it was measured |
| Market data, screens, ML (`src/`) | none of record | arithmetic | FMP, Alpaca | none concurrent | numerical |
| Other pages, frontend, scripts | none of record | | | | |

`PROJECT.json` lists the same components with their status, and under
`hazards` what in this code a test would hardly reach, each at its line and
with the properties that cover it.

## 2. Modules

One module per component; an `MC` module gives TLC its symmetry or the values
that a `.cfg` cannot write. No module uses a RECURSIVE operator, so each can
be proved about.

**`Execution`**: the execution service. A `Request` is one call of
`confirm()`; `pc` names the places between its database statements and the
broker call, where other threads may run: arming check and rate count
(`CheckArmed`, `CheckRateCap`), `TakePreview`, guardrail verdict
(`Clears`), `InsertRow`, `SubmitOrder`, `Conclude` (the POST's answer or its
timeout), `Finish` (the UPDATE). `arm()` is a transaction of two steps
(`ArmBegin`: the UPDATE with its snapshot, `ArmCommit`), since two of them
overlap. `wire` is the broker's side: a submission is flying until the broker
creates or refuses the order, at any later time. `Restart` kills the calls and
empties `_previews`, while tables survive. `DbErrorRefuses` and the failing
branches of the writes are the failures `connection()` translates. The
guardrail arithmetic is abstracted to the kinds of block it can return; cash
to the number of orders the account can pay for. No route of the repository
calls this service yet and no caller passes a drawdown, so the model has
every caller the service allows, and the halt is an input.

**`OrderLedger`**: what the execution path promises about one
client_order_id, with no threads or windows: record, ask, decide, settle.
`Execution` implements it (`ImplementsLedger`), a preview id standing for the
client_order_id.

**`Cycle`**: the job as a sequence of steps with a best-effort write after
each (`Patch`; a lost one is not told to the job in any other way),
the debates as concurrent threads bounded by the semaphore, the counter they
publish under a lock, and the row as the dashboard sees it, which `Sweep`
closes when it is stale. `Kill` ends the job anywhere.

**`Settings`**: `get_all()` as lookup, load and store with the lock released
in between, and `set_value()` as band check, previous value, upsert with
history, and the dropping of the cache. Each process has its own cache. The
ghost `late` is the reads that were under way when a write dropped the cache,
`raced` whether one of them filled it since.

**`Migrate`**: runners at one of `waiting`, `planning`, `body`, `record`. A
body is text nobody parses: it may fail, commit, roll back, or commit and
begin anew, and `Remains` says what it leaves. The check that the runner's
transaction is still its own is `Hijacked`. A checkout is the set of files a
command finds; files differ between checkouts and may be edited.

**`SchemaLedger`**: what the runner promises about the database, with no
runners, locks, plans or crashes: one migration of some checkout at a time, in
its turn, next to no edited file, with its row or not at all; or, where a body
ends the transaction itself, what that leaves while the rows stand. `Migrate`
implements it (`OneAtATime`); `applied` and `schema` are the same variables.

**`SignIn`**: `complete_mfa()` statement by statement. Committed rows are the
variables; what a call has written and not committed follows from where it
is, and so do its row locks (`ChallengeFree`, `CodeTaken`, `TotpFree`). The
command line's `reset-totp` takes the same rows in another order; the
server's deadlock detector is `DeadlockBroken`. Codes are a kind, a secret
and a step or slip; passwords, hashes and shapes are abstracted to whether
they match. `SignIn` keeps one operator: all rows are keyed by operator.

**`Archive`**: the identities of one ticker symbol and their bars as sets of
sessions. What the tools cannot change is a `World`, chosen once: when the
symbol trades, whether another issuer took it over, a split, a move of the
price, what the providers know. Each transaction of each command is an action,
and `job` holds what a command has read and not yet used, so that `Killed` may
come between any two: `AuditRead`/`AuditWrite`, one `ProviderAnswers` for each
row, `SpliceRow` and the separate `SpliceMark`, and the three statements of an
adjust. The upsert's CASE is `Merged`; `split_factor_between()` is `Between`.
Prices are abstracted to whether their ratio over a hole is in the band
(`InBand`); the operator runs one command at a time, as the scripts do. The
ghost `misdated` remembers that a date of FMP's was ahead of what was loaded,
`audited` and `adjusted` that nothing has disturbed the last audit or adjust.

**`Facts`**: two feeds that share no table, so a behaviour is about one of
them. A run of the rates command is begin, fetch, read, write; FRED revises in
between (`Publish`), from the evening of the date on, which is before the
midnight UTC from which the first value counts as known (`Evening`). A load is
begin, two groups of calls, store; the vendor's answer is `Served`, the newest
public version of each period, and what becomes of it is `Annual` and
`Snapshot`. A sweep is `SweepBegin`, then `Observe`, `NoQuote` or
`InsertFails` for each name, then `SweepEnd`; it may die anywhere. What it has
counted is the process's (`counted`) until `SweepEnd` writes it into the row.

**`Lab`**: a request is a coroutine (`task`) that hands each piece of work to a
thread (`jobs`); the thread's end and the coroutine's resumption are separate
steps, and `Cancel`, `Drop` and `Die` end the one without the other. A write
stands as soon as its statement is done, and its answer may be lost
(`Written`), also that of the INSERT which opens the row. `MayClose`
is the `status = 'running'` of the closing UPDATEs. `ClearBaseline` and
`MarkBaseline` are `set_baseline` over a connection the pool returned with
autocommit on; `SetBaseline` is the one transaction it is meant to be.

**`Debate`**: the coroutine's stages are opening cases, rebuttals, jury,
filing, storing. `call` is what each researcher and juror is doing; a juror
takes a seat (`MaySit`), asks a key (`Ask`, `Cheapest`), is served, answers
nothing usable, is refused or fails over (`Served`, `Blank`, `Spoilt`, `Broke`,
`Refused`), and has two attempts. `ledger` holds what each owner has spent less
the least, which is what the choice depends on: dollars, or tokens for Gemini.
What a call costs is any number up to `MaxCost`, and a model without a rate
adds nothing (`Recorded`); `blind` counts the reads of the ledger that failed.
`Idle` says that the event loop
runs what is ready before it takes an answer from outside. `Aggregate` is the
aggregation over counts; `Judgments` is what the store keeps.

**`Book`**: days, sessions and one security. The nightly script is a job whose
steps are those of the shell script (`SyncFetch` .. `MarkWrite`), and a mark by
hand is a second job. The mirror's transaction is two steps, its DELETE and
the rest, since an exit over the API may wait between them; a held symbol that
is not in `securities` commits the rest and fails the run (`SyncUnlisted`).
`Valued` is the valuation's SQL and its refusals, `Previous` the value a return
is taken against. Ghosts remember what the account was worth and who wrote a
mark (`fair`, `by`, `on`), whether it was computed on a book that no exit had
changed with all its splits loaded (`pure`), and whether the writer's own row
of the session before had lost to another's (`beaten`).

**`Views`**: two caches with a lock around each access but not around the
fetch, requests that read through them, the command that writes the snapshot
file, and the operators that say what the pages say of one request (`InSync`,
`StalePrices`, `Breaches`). Any account may have a slate (`Slates`). The ages a
request holds are those at its look-up, which is all that the code keeps. Time is kept as ages that saturate, in place of a
clock. The reconciliation's verdict is what `Cycle` takes as an input.

**`ExecutionProofs`, `SignInProofs`, `LabProofs`, `ViewsProofs`,
`ArchiveProofs`**: theorems about the module each is named for, and their
proofs. **`MigrateFactsProofs`, `CycleDebateProofs`, `SettingsBookProofs`** are
about two modules each, one part after the other: the two components have
nothing to do with each other, and the module is shared to keep their number
small. Facts, Debate and Book therefore name their specification and type
invariant after themselves (`FactsSpec`, `FactsTypeOK`, ...).

In each component's module a definition named `Bug...` is a plausible mistake
in the definition that follows it. It is used by no specification; replacing
the definition by it makes the property named in `PROJECT.json` fail, which
shows that the property depends on that piece of code.

## 3. Runs, bounds and what they show

| Run | Instance | Shows |
|---|---|---|
| `exec_safety` | 2 confirms, 2 previews, 1 operator, 1 restart, clock 0..1, failing database, all verdicts | no double spending, audit before submission, honest status, nothing previewed before a restart is sent (all in `IInv`, the invariant of the proofs); the preview's verdict is obeyed; refinement of `OrderLedger` |
| `exec_calm` | 3 confirms on 2 worker threads, 3 previews, cap of 1, one moment, armed and previewed at the start (`ReadySpec`), a database that answers | the rate cap is exceeded by at most one order; each confirm returns; no row stays "submitting" |
| `cycle` | 3 debates, 2 at a time, lost writes, kill, sweep | the row is truthful about completion, verdict, halt and progress (`Inv`), its last word is the job's, and it ends |
| `settings` | 2 threads of one process, 2 values, 2 writes, cache of 2 ticks | history and value agree, labelled defaults, sound band when validated on current data (`Inv`); only a read that overlaps a write hides it; bounded staleness |
| `migrate` | 3 runners, 3 versions, several checkouts | bookkeeping tells the schema, plans stay current, no drift under an up, consent (`Inv`), one whole migration at a time and each in its turn (refinement of `SchemaLedger`), no endless wait |
| `sign_in` | 2 calls, 2 challenges, 2 secrets, 1 recovery code each, clock 1..2, limit of 2 failures | one session per challenge, one live session per code, no code spent for nothing, recovery revokes the rest (all in `IInv`); the mark and the lock hold |
| `archive` | 5 sessions, 3 identities, 6 worlds: recycled, halted, unknown to the providers, torn file, held, delisting listed early | factors stay below their bound and an undisturbed adjust is right; what is marked spliced is split (`Inv`); a date leads to one identity; the audit is complete; decisions stand |
| `facts` | 3 runs of the rates command over one revised date, whose evening lasts 2 moments; 3 worlds of filings (restated, misdated, plausibly misdated), 2 securities, 4 moments, 3 loads or sweeps | the row of a complete sweep adds up (`FactsInv`); a run that overlapped no other leaves the newest value newest; a quiet load dates its rows by the filing it saw |
| `lab` | 1 request of 3 items, 2 scores | complete means recorded, late rows are orphans of a client that left, sweeps are honest (`Inv`); an end stands; a watched run is closed |
| `debate` | 1 debate with a rebuttal, a jury of 3 or a paired lens, 2 owners, 1 seat per vendor, costs of 0, 1 or 2, 2 failures (budgets used up and benches that lapse among them) | a verdict is heard, what is stored was said, a limit silences nobody while a key is left (`DebateInv`); spending stays even; it ends |
| `book` | 4 days, the third without a session, a split on the fourth; 2 nightly runs, 1 mark by hand, 1 exit at a price other than the close, 1 failure | exits are recorded once, the mirror is one take, grades are earned (`BookInv`); marks are the account's worth; returns chain, over exits and late splits too |
| `views` | 2 threads, 2 accounts, 2 names, a fill, slates of either account, one of them removed | own numbers, true ages, measured agreement (`Inv`); a price survives failures; only failures delay a fetch |

Why these bounds are enough to be interesting: every hazard modelled is a
race of two actors with at most one or two failures or restarts in between,
and every instance has two of each actor (three runners and three rate runs,
since one may overlap two others). `lab` has one request because two share no
row and no job: the race is between a request and its own threads. `debate`
has one debate because its jurors already race for seats, keys and ledger; the
general statement `MostInFlight` is written for any number.

Bounds stand in guards and are named in the modules: `MaxTime`, `MaxBoots`
(Execution), `MaxWrites` (Settings), `MaxStep`, `MaxSecrets`, `MaxAttempts`
(SignIn), `Last`, `MaxIds` (Archive), `Last`, `Evening`, `MaxJobs` (Facts), `MaxCost`
(Debate), `MaxFaults` (Debate, Book), `LastDay`, `MaxRuns` (Book), `MaxFetch`, `MaxSlow` (Views:
how long one read takes and how many ticks pass during reads). Lab has none.
A clock of two instants with TTLs of 0 and 1 has both a live and an expired
preview and window, and rows inside and outside the rate window. A cache of
two ticks is the least in which an entry can be hit and age; in Views the
backoff is longer than the time to live, as in the code, so that an entry may
be expired and its fetch held back at once. Five sessions hold two holes of
one symbol with a takeover between them. Four days hold a holiday, a split and
a hole in the curve that a backfill closes.

Deadlock checking is off in all runs: a finished instance may stop, since
requests are made once, runs end, and operators need not act.

`exec_calm` starts where somebody has armed and the previews are built
(`ReadySpec` of `MCExecution`): the orders in which that may happen are in
`exec_safety`, and leaving them out makes room for three confirms, of which two
overlap. Two rows within a cap of one is then reached, and three is not.

## 4. Fairness

- Execution (`Fairness`): weak fairness of each confirm once begun. A FastAPI worker thread
  runs on, the pool's acquisition and the POST have timeouts, and the database
  answers in that run. Operators, broker and clock owe nothing.
- Cycle: weak fairness of the clock and of `Sweep` only: somebody opens the
  page again. The job owes nothing, so `RunningEnds` holds for killed jobs.
- Settings: weak fairness of the clock only.
- Migrate: weak fairness of the waiting loop of each runner, which polls
  `pg_try_advisory_lock` until its own deadline. The lock's holder owes
  nothing: bodies have no statement timeout.
- Lab: weak fairness of the threads and of each request's own steps: the event
  loop runs what is ready and the executor has threads to spare. Clients need
  not stay nor leave, and the process may die.
- Debate: weak fairness of `Turn`, anything a debate or a vendor for it can do:
  every call has a timeout (120 s and two retries of the client library) and
  the loop serves every coroutine. Opening and leaving owe nothing.
- SignIn, Archive, Facts, Book, Views: none; only safety is claimed. Their
  commands are started by hand or by cron and may be killed anywhere.

## 5. What is proved

TLAPS checks these for all values of the constants, from the assumptions
named in the modules (types and bounds; `Requests` finite; `MaxInFlight` at
least 1).

For each component TLC checked the inductive invariant on the instance of its
run before it was proved; a run keeps the properties, which the invariant
implies.

*`ExecutionProofs`.* `TypeCorrect` is by cases on the actions. The safety
properties are not inductive as they stand: that `StatusIsHonest` is preserved
by `Finish` needs that a conclusion not yet written is right
(`OutcomeIsHonest`); that `AuditBeforeBroker` is preserved by `SubmitOrder`
needs that a call at that step has its row (`CallShape`); `PreviewSpentOnce`
needs that a preview in hand was popped (`SpentIsPopped`); `GuardrailsHeld`
needs that the row repeats the verdict of the preview (`RowShape`); and
`NoPreviewSurvivesRestart` that the entries of `_previews` belong to this boot
(`LivePreviewsAreOurs`). Their conjunction is `IInv`; `InvInit` and `InvStep`
show that it is inductive, and `PreviewsAreSpentOnce`, `AuditComesFirst`,
`StatusesAreHonest`, `GuardrailsAlwaysHold` and `NoPreviewOutlivesRestart`
follow. `ExecutionImplementsLedger` maps each step to a step of `OrderLedger`
or to a stutter. `RateCapOvershoot` proves the bound on the rate cap: with
`CapInv`, rows within the window together with the calls that passed the count
and wrote no row yet number at most `MaxOrders + MaxInFlight - 1`, because a
call passes only when fewer than `MaxOrders` rows are counted and at most
`MaxInFlight - 1` other calls are under way.

*`SignInProofs`.* The invariant says which row locks exclude each other
(`TotpRowLocked`, `ChallengeLocked`), what a call holding them
relies on (`MintIsRight`, `ChallengeStillOurs`), and what sessions leave behind
(`SessionsLeaveTraces`). From it follow one session per challenge, at most one
live session per code, that recovery revokes every earlier session, that no
recovery code is spent for nothing, and that the replay mark of a secret never
goes back. `LocksFallToRightCodes` (no failure takes a lock away) needs one
thing more, proved on top of it: a code whose row is held is still unused
(`CodeLocked`). TLC has checked `IInv` and `CodeLocked` on the instance of
`MCSignIn.cfg`; the run keeps `IInv` and the properties that are not part of it.

*Migrate, in `MigrateFactsProofs`.* Assumed: versions are a finite set of
positive numbers, a checkout is a function from versions to files, no checksum is a state's name.
`RowTellsSchema` is not inductive alone: a runner in the middle of its work
holds the lock (`LockHeld`), and its plan is among its own files, was made on
the rows as they are, leaves out nothing below it on the way up or above it on
the way down, and was allowed (`PlanSound`). `InvHolds` gives the run's `Inv`,
`RowTells` the part about rows and schema, and `OrderHolds` that a version moves
in its turn by the files of the very runner that moves it (`OrderKept`, which no
run repeats since `OneAtATime` says it of some checkout): because a plan leaves nothing out, its lowest (highest) element is
the next one. `OneAtATimeHolds` maps each step to a step of `SchemaLedger` or to
a stutter: the same argument puts the version in hand in its turn (`InItsTurn`),
and what is recorded is a body that ran to its end inside the transaction
(`BodyRan`, an invariant of its own). That a finite set of numbers has a lowest and a highest
(`FiniteHasMin`, `FiniteHasMax`) follows from the well-foundedness of the strict
subset ordering on it.

*Settings, in `SettingsBookProofs`.* Assumed: natural values, defaults that are
a band. What a read returned is a version of the table and the state of the table at that
version (`Honest`); a caller past the band check holds the answer it was
checked against (`CallSound`). `PastStands` and `LastChangeStands` say what
appending to the history does to all of its states. `InvHolds` gives `Inv`
(history and value agree, labelled defaults, a band that was checked against
current data is one). `OwnWritesAreRead` gives `OnlyOverlapHidesAWrite`: a thread
that has loaded and not yet stored either loaded after the last write of its
process or is in `late`, and whoever stores from `late` sets `raced`.

*Cycle, in `CycleDebateProofs`.* Assumed: finitely many symbols, at least one
slot. The lock is held by at most one debate, and what that one is about to publish is the number
of those that were counted (`LockHeld`); what the job has done is read off its
place (`WorkInv`), and the row stays below that (`RowInv`), whichever patches
are lost. `InvHolds` gives `Inv`, `LastWordHolds` gives `LastWordIsTheJobs`,
`ProgressGrows` the action property `ProgressOnlyGrows`.

*`LabProofs`.* Assumed: the items of a request differ and there is one, scores
are numbers, None is none of the records it stands beside. The invariant ties
the two halves of a request together: at most one thread works for it and at
most one more closes its row after a cancellation (`JobsInv`), each item before
the one at hand has its point and its run or its error (`TaskInv`), an item has
one run (`RunsInv`), a late run is the last one of a client that left
(`LateInv`), and the row opens and closes where the coroutine is (`StatusInv`).
`InvHolds` gives `Inv`, `EndHolds` gives `EndStands`.

*`ViewsProofs`.* Assumed: the times are positive counts, the default account is
one of them, None is none of the records. A cached snapshot is of the account
it is kept under and as old as its age says, up to one read (`Cached`, `Taken`);
a cached price, the last failure and the last good answer of a name agree
(`PriceInv`), whichever threads were in between; a request holds what it said
and of whom (`RequestInv`). `InvHolds`, `PricesAreRemembered` and
`FailuresHoldBack` give `Inv`, `NothingIsForgotten` and `OnlyFailuresHoldBack`.
Proving it showed that the model gave a book worth nothing its weights, which
`weight_pct()` leaves unknown (valuation.py:111-115); `Weighed` now says so.

*`ArchiveProofs`.* Assumed: bounds of at least one, worlds that are worlds, and
that a split is the present holder's. The invariant has one part for each
component of the state: rows that were never used hold nothing (`NoTrace`);
factors belong to bars and what is folded into them lies between the bar and
the recorded bound, which is never past the archive's end (`FactorInv`); of an
adjust that nothing disturbed, what each of its three statements has done
(`AdjustInv`); the same for an audit (`AuditInv`); and what a command has read
and not used is still on file (`RowsInv`). Under `Orderly` (no torn files, a
symbol that no real portfolio holds) there are: the loaded files are the first
ones (`InOrder`), a hole that was found stays one until its splice
(`HolesStand`), a spliced identity ends there (`SplicesStand`), and, while no
date of FMP's was ahead, at most one identity is alive and who is dead stays
dead in all that is still to be loaded (`DatesInv`). `InvHolds`, `AuditHolds`
and `DatesHold` give the three invariants of the run, `DecisionsHold` the
action property. Looking for that invariant showed two
behaviours of the code that the properties had not allowed for, which section 6
lists under `AsOfDateResolves` and `SpliceEndsSeries`: hence `~misdated` in
`OrderlyDatesResolve`, and `Orderly` in `SplicedMeansSplit`, a part of `Inv`.

*Facts, in `MigrateFactsProofs`.* Assumed: bounds and dates are numbers, what
the vendor shows are filings, whatever date it puts on them; a scope names a
security once (`ScopesAreOfTargets`; collect_intraday.py groups by security).
`SweepsAddUp` needs that what the process has counted and has still to ask is
the scope, that sweeps come at different moments and that the names a sweep has
still to ask are not among those it has observed (`SweepInv`): an observation
is keyed by target and moment, and would otherwise be taken for another
sweep's. `RunRecordsWhatItSaw` rests on `OnItsOwn`: while a run overlaps no
other, what it read as the latest values is still what is stored, and all that
is stored was known before it began, or at the midnight of its date; so that
what it writes is the latest, unless it met a revision before that midnight,
which the property excepts (`SameEvening`). `QuietLoadsKeepHistory` rests on
`LoadInv`: while nothing is filed, each answer is the same or empty, so that
the figures of a row are one filing's, whose stamp passed `Plausible`. Nothing
is assumed of the stamps: one that is wrong and plausible dates the row.

*Debate, in `CycleDebateProofs`.* Assumed: finitely many debates, at most two
keys for each vendor, all of different owners (the slots of keys.py), at least
one for the writers, one to four rounds, a seat for each vendor, and that None
is none of the answers. A call in flight is on a key of its vendor, one that
was passed on is on the last key there is, and a limit is reported when no key
is left (`CallOK`); the jury is asked after the researchers, the ruling is the
aggregate of its votes once all have ended, and what is stored is what was
ruled and voted (`StageInv`). That gives `DebateInv`. For `SpendStaysEven` an
owner's lead over another who can pay, with `MaxCost` for each call in flight
on his key, never exceeds `MaxCost` for each call that can be in flight and
each failed read of the ledger (`LedgerInv`): a call raises the left side only
on the key that is behind, and an answer moves at most its own `MaxCost` from
flight to ledger. How many can be in flight comes from the semaphores (`SittingInv`): no more seats are held than
there are, and a juror is asked only when a researcher has ended.

*Book, in `SettingsBookProofs`.* Assumed: sessions are among the days, closes
and split ratios are positive (the CHECKs of the tables), the second portfolio
holds one lot, None is no number. The invariant follows the night's figures
from one place to the next: what was fetched is the account's worth
(`TakeInv`); after the mirror the one open lot and the cash are that, unless an
exit by hand came between (`MirrorInv`); the marking process has loaded that
cash, no lot moves after its day, and its lot is the day's (`LoadedInv`); what
it has computed is the worth (`ValuesInv`), and what is stored too
(`StoredInv`). `MarksAreTheBook` follows, with the valuation's sums reduced to
one lot (`RealValue`, `SleeveValue`). `ReturnsChain` is about every mark, of
books with exits and late splits too: what a process read is in the store
(`ReadOK`), so that a return is against a stored value or one the process has
computed and is about to store itself. That one may lose to a row stored since
it read. Where the book was not changed both processes have computed the same
worth, or the two have no session in common: the hand has a value only for
sessions whose close is loaded, and these are not after the night's own
(`ValueBeside`, `BesideInv`). Where it was changed they may differ, and that is
the property's one exception (`beaten`, not `pure`); section 6 has it under
`ReturnsRecompute`. `ExitsAreRecorded` and `OneTake` rest on the row locks of
the mirror and the exit (`ExitInv`); both ends of the mirror's transaction, with
and without an unlisted symbol, are covered by `MirroredKeeps`.

Sums and products over finite sets are `FoldFunction`, and the library's facts
about folds, like its induction, take an operator as a parameter. Book's proofs
use neither: `AllNumbers` is induction over the numbers for a *set* of them,
from the well-foundedness of `<` (`WFMin`), `AllSubsets` the same over the
subsets of a finite set by a function that picks an element of each,
`FoldExists` shows that the recursive function by which a fold is defined
exists, and `SumIs` and `ProductIs` say what it yields.

Only model-checked: the liveness properties (`ConfirmReturns`,
`SubmittingIsTransient`, `RunningEnds`, `StaleCacheDies`, `WaitEnds`,
`WatchedRunsClose`, `DebatesEnd`), since fairness and ENABLED are beyond the
prover. Every invariant and action property of the runs has its theorem.

## 6. Where code and documents disagree

Met while modelling, each against the source. Those that a definition states
are kept in the modules, under "What the repository says and the code does not
do" or with the comment that quotes the sentence. They are not among the
properties of the runs, which hold; adding one to the cfg named here, changed as
said, shows the behaviour.

| Definition | Instance that shows it | The code, and the sentence |
|---|---|---|
| `Execution!OneLiveWindow` | `MCExecutionSafety.cfg` with two operators and two windows | Two overlapping `arm()` calls each close the windows they see and leave two live ones; execution.py:135 "so there is never more than one live row". |
| `Execution!RateCapIsHard` | `MCExecutionCalm.cfg` | Overlapping confirms pass the count together; docs/EXECUTION_DESIGN.md:62 "a hard per-window order cap enforced server-side". |
| `Execution!AttemptsBurnBudget` | `MCExecutionCalm.cfg` with `MaxInFlight = 1` | A refused confirm writes no row and counts for nothing; docs/EXECUTION_DESIGN.md:63-64 "a loop that fails on validation still burns the budget". |
| `Execution!CashFloorHeld` | `MCExecutionCalm.cfg` with `MaxOrders = 2` | `confirm()` applies the preview's verdict and rereads no cash; docs/EXECUTION_DESIGN.md:98-99. |
| `Settings!BandNeverInverted` | `MCSettings.cfg` | Two writers, each valid against the other's old value, store a floor above the ceiling; settings_store.py:194. |
| `Settings!NextReadSeesWrite` | `MCSettings.cfg` | A read that overlaps a write stores its older values after the writer dropped the cache, which serves them for up to 10 s; settings_store.py:256 "the next read must see this". |
| `SignIn!DoubleClickIsNoStrike` | `MCSignIn.cfg` | A double click's loser that reads after the winner's commit is counted as a wrong guess; auth.py:510. |
| `Facts!AnnualRowsAreHistory` | `MCFacts.cfg` | Every annual row of a load carries the newest statement's wide figures, eps among them; load_fundamentals.py:15-17 "This row is real history and is safe to read point-in-time". |
| `Facts!EveningRevisionsCount` | `MCFacts.cfg` | A rate is out on the evening of its date and its first observation is dated at the midnight UTC that follows (load_reference_data.py:41-44, 368-375); a revision fetched before that midnight is dated by the fetch and stays behind; :50-51 "a revision is exactly the thing the (series, effective_date, known_at) identity exists to represent". |
| `Facts!RunningMeansAlive` | `MCFacts.cfg` | A killed sweep stays 'running' without a completion time, with counts of nought beside the observations it left; 026_intraday_observations.up.sql:70-71. |
| `Archive!AsOfDateResolves` | `MCArchive.cfg` (the world `Early`) | fmp dates an identity by any listed date up to 60 days after its last bar (load_delistings.py:893), also one ahead of the day files; the next file finds no live holder and makes a second row (load_daily_bars.py:338), and both are alive between; 001_core_schema.up.sql:152-153 "historical symbol->id resolution goes through (symbol, as-of-date)". |
| `Archive!SpliceEndsSeries` | `MCArchive.cfg` with `Worlds <- ReloadedWorlds` | The splice asks for its two boundary bars alone (load_delistings.py:615), so that a day file loaded between them after the audit leaves the old identity a bar after its end; :612 "The hole must still exist as recorded". |
| `Lab!OpenedRunsClose` | `MCLab.cfg` | The INSERT that opens an experiment stands by itself, and when its answer is lost no id is left to close it by; runner.py:11-12 has every run that dies leave a row that says it failed. |
| `Lab!BaselineKept` | `MCLab.cfg` | `connection()` leaves autocommit on in a pooled connection, so the two UPDATEs of `set_baseline` may be two transactions; store.py:190-196 "Both statements in one transaction". |
| `Book!ReturnsRecompute` | `MCBook.cfg` | A run goes on from the value it computed (mark_portfolios.py:392) although its row may lose to one stored since it read (:243, :407), which for a book changed by an exit or a late split may be another value; :55-57 "Computed from the STORED values so a hand recompute from the table reproduces it exactly". |
| `Book!ExitsAreCredited` | `MCBook.cfg` | `record_exit` closes the lot and credits no cash (outcomes.py:143-193), so that all later marks of that book lack the proceeds and earlier ones deduct them, or are refused; mark_portfolios.py:33-42 has entries and exits move the balance. |

What follows is in the models' behaviour, or beside it, without a definition
of its own.

Archive: a re-audit overwrites 'non_common_instrument'; a hole accepted as a
halt loses that when an earlier hole of the symbol is spliced, since the bars
move to another identity; a day file copied again after a splice may give its
bar to the later issuer or to a new row; `load_daily_bars_fmp.py:95` picks a
row by symbol without asking whether it is delisted, which is why `Orderly`
excludes held symbols; a bar it wrote makes the day file
of that date fail for good, the COPY having no ON CONFLICT; a splice by
threshold tells the audit nothing; a refusal by `ck_securities_delisted` is
not a `LoadError` and ends the whole command.

Facts: the three statements of a bundle are fetched at different moments; a
load that runs again overwrites the row an observation's `fundamentals_id`
names; an empty list from the vendor blanks margins already stored;
`fundamentals_in_effect()` takes rows of any period type; overlapping runs of the rates command date one revision twice.

Lab: a client that leaves while `create_experiment` is in its thread leaves a
row nobody closes (runner.py:153,206); leaving at a `yield` raises
GeneratorExit, which neither handler catches; a dead process leaves 'running';
the leaderboard's `or -inf` ranks a score of zero below negative ones.

Debate: of a lens judged by both families one vote is stored and two are
counted (debate_store.py:237-243); "escalated" is not among the decisions the
store knows, so that the synthesiser's judgment of an escalation is dropped
(:84-96); a failing file write skips the database (engine.py:355-369); a usage
limit met by a juror benches the owner "unknown" (engine.py:102,121), and one
met by the retry benches nobody; Gemini's quota is flagged "so the caller can
bench the key" (gemini_client.py:98-99) and no caller does; a reader that
leaves does not stop the jurors' tasks; a ledger that cannot be read sends
every call to the first slot.

Book: the mirror commits without a held symbol that is not in `securities`,
before the run fails (sync_real_portfolio.py:108-138); it re-dates open lots, so that a backfill of an earlier session,
which nightly_marks.sh:7-9 recommends after a missed day, values them at their
cost; grades are given on raw closes, so that a split inside the window turns a
gain into a right "sell"; a lot exited on the day it was mirrored makes that
day's next mirror fail on its key; an exit that waited for the mirror may
report "already exited on None", a third cause beside the two of
outcomes.py:196; a load without held names fails and ends the script, so that
the curve of an all-cash account stops.

Views: the account page asks for prices without their age, so that
`stale_prices` is false while a price of up to thirty minutes is shown
(marks.py:82-85 "Callers must surface that"), and `build_preview()` prices an
order the same way; a holding without a price shrinks the whole, so that other
names' limits may be breached on an outage, against reconciliation.py:417-423;
cash and positions are two calls, and a fill between them tears the snapshot;
a late older answer overwrites a newer one in both caches; the slate's document
is opened several times within one request; reconcile_check.py marks a missing
slate as by design too, which its comment at :75-77 distinguishes.

## 7. What is not modelled

Prices, quantities and their formatting, except where a property is about
them; the guardrails' arithmetic; the HTTP layer and its schemas; SQL beyond
what a statement reads, writes and waits for; the pool (its timeouts are
failures of steps); hashing and encryption; the text of prompts, reports,
events and logs. In Execution the process clock and the database's are one, and
`fetch_order_by_client_id()` has no caller. In SignIn idle renewal, `disable`,
`reset-password` and `seed` are left out, and the expiry of a session.
Archive follows one symbol and leaves out batching, provenance rows and
`verify`. Facts leaves out the trading calendar and the ratios. Book leaves
out theses, lessons and the seeding of paper books. Views leaves out the hard
stop and the sizing rules, which need what was paid, and reads the slate's
document as one value.

Narrower than the code, each by choice: in Debate a budget that is used up stays
so (`RunsOut`: a bench lapses, but the month does not), and the ledger starts
even, so that a key added later, which takes all calls until it has caught up,
is outside. In Book an exit is dated in the past or today, although
`record_exit` takes any date. In Archive `audit --provider` is asked for
unresolved dispositions, although `--dispositions` is not checked there
(load_delistings.py:363). In Views, of `FmpClient` only that a fetch may fail:
its daily budget and its minute gate (src/fmp.py) are not modelled. The
exceptions a property makes are in its comment, and those behind which the code
does something its documents deny are in section 6.

Not modelled at all, with the reasons in `PROJECT.json`: email verification
and the sign-in rate limit; the pool; minute bars, whose load is the scheme of
the daily one; the verification of the archive; chat and the pages that only
read; screens; ML code; the remaining scripts; the frontend.

## 8. Plan

1. A refinement for `Settings`: a register whose cached reads return a recent
   value, with its proof.
2. `Verification`: resend and redemption over the partial unique index, and the
   rate-limit windows (a per-client and a global one).
3. `Cycle` composed with `Debate` and with the verdict of `Views`, which are
   events of it today.
