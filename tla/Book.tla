--------------------------------- MODULE Book ---------------------------------
(***************************************************************************)
(* The books of paper positions and their daily values.                    *)
(*                                                                         *)
(* bin/nightly_marks.sh runs after the close: sync_real_portfolio.py       *)
(* copies the broker's holdings into the portfolio of kind 'real',         *)
(* load_daily_bars_fmp.py fetches the closes, score_judgments.py grades    *)
(* what the jury said, and mark_portfolios.py writes one row of            *)
(* portfolio_returns_daily per portfolio and session.  Beside it an        *)
(* operator may mark or backfill by hand (bin/db_mark.sh), and close a lot *)
(* over the API (services/outcomes.py, record_exit).                       *)
(*                                                                         *)
(* One security; prices, cash and share counts are small numbers.  A       *)
(* second portfolio, the sleeve, holds one lot nothing re-dates.           *)
(***************************************************************************)
EXTENDS Integers, FiniteSets, FiniteSetsExt

CONSTANTS
    LastDay,     \* the last day of the model
    Sessions,    \* market_calendar: the trading days
    Quote,       \* of each day: the official close
    Ratio,       \* of each day: the split ratio with that ex-date, 1 for none
    Purse,       \* the broker's cash on the first day
    Sleeve,      \* [shares, cost, cash] of the second portfolio, from day 1
    Judgments,   \* what juries say: <<date, decision>>
    Horizon,     \* sessions after which a judgment is graded
    ByHand,      \* the <<mode, from, to>> an operator may mark by hand
    ExitsOn,     \* the <<date, price>> an operator may close a lot with
    MaxRuns,     \* bound: runs of the nightly script, marks by hand, exits
    MaxFaults,   \* bound: failures of broker, vendor and database, kills
    None

Days == 1..LastDay

ASSUME SessionsAreDays == LastDay \in Nat \ {0} /\ Sessions \subseteq Days
ASSUME QuotesOfDays == Quote \in [Days -> Nat \ {0}]
ASSUME RatiosOfDays == Ratio \in [Days -> Nat \ {0}] /\ Purse \in Nat
ASSUME HorizonAtLeastOne == Horizon \in Nat \ {0}
ASSUME SleeveIsALot == Sleeve \in [shares : Nat \ {0}, cost : Nat, cash : Nat]
ASSUME ExitsOnDays == ExitsOn \subseteq Days \X (Nat \ {0})
ASSUME FaultsBounded == MaxFaults \in Nat
ASSUME NoneIsNoNumber == None \notin Int

VARIABLES
    day, phase,  \* the date, and whether its session is over
    broker,      \* what the account really holds
    fair,        \* what it was worth at the close of each session
    bars,        \* price_bars_daily: the sessions whose close is loaded
    splits,      \* corporate_actions: the ex-dates that are loaded
    lots,        \* paper_portfolio_positions: <<book, entry_date>> -> lot
    cash,        \* paper_portfolios.cash
    since,       \* paper_portfolios.inception_date
    intact,      \* of each book: no lot was exited since the last sync
    marks,       \* portfolio_returns_daily: <<book, session>> -> mark
    outcome,     \* judgment_outcomes: of each judgment, None while ungraded
    kb,          \* 'outcome' entries in the knowledge base, per lot
    job,         \* the two processes that mark
    exit,        \* a call of record_exit
    runs, faults

clock == <<day, phase>>
prices == <<bars, splits>>
book == <<lots, cash, since, intact>>
bounds == <<runs, faults>>
bookVars == <<clock, broker, fair, prices, book, marks, outcome, kb, job, exit, bounds>>

Books == {"real", "sleeve"}
Jobs == {"night", "hand"}
-----------------------------------------------------------------------------
Lot(n, cost) == [shares |-> n, cost |-> cost, exit |-> None, price |-> 0]

\* INSERT ... ON CONFLICT DO NOTHING: rows that are there stay as they are.
Kept(old, new) ==
    [k \in DOMAIN old \cup DOMAIN new |-> IF k \in DOMAIN old THEN old[k] ELSE new[k]]

NoJob == [pc |-> "idle", mode |-> None, acct |-> 0, pos |-> <<0, 0>>, on |-> 0, win |-> {},
          book |-> None, had |-> <<>>, comp |-> <<>>, seen |-> <<>>, pure |-> TRUE]

NoExit == [pc |-> "idle", key |-> None, date |-> 0, price |-> 0]

BookInit ==
    /\ day = 1 /\ phase = "before"
    /\ broker = [held |-> 0, cost |-> 0, cash |-> Purse] /\ fair = <<>>
    /\ bars = {} /\ splits = {}
    /\ lots = [k \in {<<"sleeve", 1>>} |-> Lot(Sleeve.shares, Sleeve.cost)]
    /\ cash = [b \in Books |-> IF b = "sleeve" THEN Sleeve.cash ELSE 0]
    /\ since = [b \in Books |-> IF b = "sleeve" THEN 1 ELSE None]
    /\ intact = [b \in Books |-> TRUE]
    /\ marks = <<>> /\ outcome = [x \in Judgments |-> None] /\ kb = <<>>
    /\ job = [j \in Jobs |-> NoJob] /\ exit = NoExit
    /\ runs = [p \in Jobs \cup {"exit"} |-> 0] /\ faults = 0

Fault == faults < MaxFaults /\ faults' = faults + 1
Runs(p) == runs[p] < MaxRuns[p] /\ runs' = [runs EXCEPT ![p] = @ + 1]

UpTo(d) == {s \in Sessions : s <= d}

\* market_calendar: the last session on or before d.
LatestSession(d) == IF UpTo(d) = {} THEN None ELSE Max(UpTo(d))

\* Ex-dates there really are.
ExDates == {d \in Days : Ratio[d] # 1}

\* What the splits of these ex-dates make of one share.
Carried(exdates) == FoldFunction(LAMBDA r, acc : r * acc, 1, [x \in exdates |-> Ratio[x]])

\* split_factor_between(): of the splits that are loaded, those after a up to b.
Factor(known, a, b) == Carried({x \in known : a < x /\ x <= b})
-----------------------------------------------------------------------------
(* The market and the broker. *)

\* What a share is filled at: near the close before, less what a split takes off it.
FillPrice ==
    LET y == LatestSession(day - 1)
    IN  IF y = None THEN Quote[day] ELSE Quote[y] \div Factor(ExDates, y, day)

\* Cron is done before the next session.  In the session an order may be filled:
\* a share is bought, or all are sold.
Session ==
    /\ phase = "before" /\ day \in Sessions /\ job["night"].pc = "idle"
    /\ LET p == FillPrice
           bought == [held |-> broker.held + 1, cost |-> broker.cost + p, cash |-> broker.cash - p]
           sold == [held |-> 0, cost |-> 0, cash |-> broker.cash + broker.held * p]
       IN  broker' \in {broker, sold} \cup (IF broker.cash >= p /\ broker.held = 0 THEN {bought} ELSE {})
    /\ phase' = "shut"
    /\ fair' = Kept(fair, [d \in {day} |-> broker'.held * Quote[day] + broker'.cash])
    /\ UNCHANGED <<day, prices, book, marks, outcome, kb, job, exit, bounds>>

\* A day without a session.
Holiday ==
    /\ phase = "before" /\ day \notin Sessions /\ phase' = "shut"
    /\ UNCHANGED <<day, broker, fair, prices, book, marks, outcome, kb, job, exit, bounds>>

\* Midnight, UTC.  The broker applies a split before the session of its ex-date.
\* A mark by hand and a call of the API take seconds: neither spans midnight.
Midnight ==
    /\ phase = "shut" /\ day < LastDay /\ job["hand"].pc = "idle" /\ exit.pc = "idle"
    /\ day' = day + 1 /\ phase' = "before"
    /\ broker' = [broker EXCEPT !.held = @ * Ratio[day + 1]]
    /\ UNCHANGED <<fair, prices, book, marks, outcome, kb, job, exit, bounds>>

\* load_corporate_actions.py hears of a split, in time or late.
LearnSplit(x) ==
    /\ x \in ExDates \ splits /\ x <= day + 1
    /\ splits' = splits \cup {x}
    /\ UNCHANGED <<clock, broker, fair, bars, book, marks, outcome, kb, job, exit, bounds>>
-----------------------------------------------------------------------------
(* The nightly script: sync, bars, score, mark. *)

Go(j, pc) == job' = [job EXCEPT ![j].pc = pc]
Stop(j) == job' = [job EXCEPT ![j] = NoJob]

\* The script starts: client.account() and client.positions().  Nothing is filled
\* after the close.
SyncFetch ==
    /\ phase = "shut" /\ job["night"].pc = "idle" /\ Runs("night")
    /\ job' = [job EXCEPT !["night"].pc = "delete", !["night"].acct = broker.cash,
                         !["night"].pos = <<broker.held, broker.cost>>]
    /\ UNCHANGED <<clock, broker, fair, prices, book, marks, outcome, kb, exit, faults>>

OpenLots(b) == {k \in DOMAIN lots : k[1] = b /\ lots[k].exit = None}

\* DELETE locks the open lots: it waits for an exit that holds one of them, and a
\* later exit waits for it.  current_date is the date the transaction began on.
SyncDelete ==
    /\ job["night"].pc = "delete"
    /\ ~(exit.pc = "written" /\ exit.key[1] = "real")
    /\ job' = [job EXCEPT !["night"].pc = "insert", !["night"].on = day]
    /\ UNCHANGED <<clock, broker, fair, prices, book, marks, outcome, kb, exit, bounds>>

\* What the DELETE takes: every open lot of the book.
Replaced(on) == OpenLots("real")

\* INSERT of n shares, UPDATE of the cash, COMMIT; the first time the portfolio as well.
Mirrored(n) ==
    LET t == job["night"]
        kept == [k \in DOMAIN lots \ Replaced(t.on) |-> lots[k]]
    IN  /\ lots' = IF n > 0 THEN Kept(kept, [k \in {<<"real", t.on>>} |-> Lot(n, t.pos[2])]) ELSE kept
        /\ cash' = [cash EXCEPT !["real"] = t.acct]
        /\ since' = [since EXCEPT !["real"] = IF @ = None THEN t.on ELSE @]
        /\ intact' = [intact EXCEPT !["real"] = TRUE]
        /\ exit' = IF exit.pc = "wait" THEN [exit EXCEPT !.pc = "miss"] ELSE exit

\* A lot of the same day that was exited keeps its key, and the INSERT fails.
SyncInsert ==
    /\ job["night"].pc = "insert"
    /\ LET t == job["night"]
       IN  IF t.pos[1] > 0 /\ <<"real", t.on>> \in DOMAIN lots \ Replaced(t.on)
           THEN Stop("night") /\ UNCHANGED <<book, exit>>
           ELSE Mirrored(t.pos[1]) /\ Go("night", "bars")
    /\ UNCHANGED <<clock, broker, fair, prices, marks, outcome, kb, bounds>>

\* Mutant: the script goes on after a step that failed.
BugGoesOn(j) == Go(j, "bars")

\* step(): a sync that fails ends the script.
SyncFailed(j) == Stop(j)

\* The held symbol is not in `securities`: the rest is committed, and the run fails.
SyncUnlisted ==
    /\ job["night"].pc = "insert" /\ job["night"].pos[1] > 0 /\ Fault
    /\ Mirrored(0) /\ SyncFailed("night")
    /\ UNCHANGED <<clock, broker, fair, prices, marks, outcome, kb, runs>>

SyncFails ==
    /\ job["night"].pc \in {"delete", "insert"} /\ Fault
    /\ SyncFailed("night")
    /\ UNCHANGED <<clock, broker, fair, prices, book, marks, outcome, kb, exit, runs>>

\* The closes of the held names since the last one stored.  Without a held name
\* the load fails; a fetch that fails does not.
LoadBars ==
    /\ job["night"].pc = "bars"
    /\ IF OpenLots("real") = {} THEN Stop("night") ELSE Go("night", "score")
    /\ \/ /\ bars' = IF OpenLots("real") = {} THEN bars
                      ELSE bars \cup {s \in DOMAIN fair : \A b \in bars : s > b}
          /\ UNCHANGED faults
       \/ Fault /\ OpenLots("real") # {} /\ UNCHANGED bars
    /\ UNCHANGED <<clock, broker, fair, splits, book, marks, outcome, kb, exit, runs>>

\* The session the judgment is graded on: the Horizon-th after its anchor.
GradedOn(d) ==
    LET far == {s \in Sessions : Cardinality({x \in Sessions : d < x /\ x <= s}) = Horizon}
    IN  IF d = None \/ far = {} THEN None ELSE Min(far)

Correct(dec, p, q) == IF dec = "sell" THEN q < p ELSE q > p

\* score_judgments.py: what is ungraded and has both its closes, in one
\* transaction; its failure does not end the script.
Graded(x) ==
    LET p == LatestSession(x[1])
        q == GradedOn(p)
    IN  IF outcome[x] = None /\ x[1] <= day /\ {p, q} \subseteq bars
        THEN [entry |-> p, exit |-> q, good |-> Correct(x[2], Quote[p], Quote[q])]
        ELSE outcome[x]

Score ==
    /\ job["night"].pc = "score"
    /\ Go("night", "mark")
    /\ \/ outcome' = [x \in Judgments |-> Graded(x)] /\ UNCHANGED faults
       \/ Fault /\ UNCHANGED outcome
    /\ UNCHANGED <<clock, broker, fair, prices, book, marks, kb, exit, runs>>
-----------------------------------------------------------------------------
(* mark_portfolios.py. *)

\* run(): the portfolios, with their cash as it is now, and the window.
MarkBegin(j, mode, win) ==
    /\ win # {}
    /\ job' = [job EXCEPT ![j] = [NoJob EXCEPT !.pc = "value", !.mode = mode, !.win = win,
                   !.on = day, !.book = "sleeve",
                   !.had = [b \in {x \in Books : since[x] # None} |-> cash[b]]]]

\* live: one session, not older than LIVE_MAX_AGE_DAYS.
NightMark ==
    /\ job["night"].pc = "mark"
    /\ LET d == LatestSession(day)
       IN  IF d # None /\ day - d <= 3 THEN MarkBegin("night", "live", {d}) ELSE Stop("night")
    /\ UNCHANGED <<clock, broker, fair, prices, book, marks, outcome, kb, exit, bounds>>

HandMark(mode, a, b) ==
    /\ job["hand"].pc = "idle" /\ Runs("hand")
    /\ mode = "live" => a = b /\ day - a <= 3
    /\ MarkBegin("hand", mode, {s \in Sessions : a <= s /\ s <= b})
    /\ UNCHANGED <<clock, broker, fair, prices, book, marks, outcome, kb, exit, faults>>

\* The lot is open at the close of d.
HeldOn(k, d) == k[2] <= d /\ (lots[k].exit = None \/ lots[k].exit > d)

Of(b) == {k \in DOMAIN lots : k[1] = b}

Shares(k, d) == lots[k].shares * Factor(splits, k[2], d)

\* cash_at(d): the balance less what has moved since.
CashAt(b, had, d) ==
    had + SumFunction([k \in {x \in Of(b) : x[2] > d} |-> lots[k].cost])
        - SumFunction([k \in {x \in Of(b) : lots[x].exit # None /\ lots[x].exit > d}
                         |-> Shares(k, lots[k].exit) * lots[k].price])

Refused == -1

\* Every open lot has its close.
Priced(b, d) == d \in bars \/ \A k \in Of(b) : ~HeldOn(k, d)

\* The value of one session: None where a close is missing.
Valued(b, had, d) ==
    IF CashAt(b, had, d) < 0 THEN Refused
    ELSE IF ~Priced(b, d) THEN None
    ELSE CashAt(b, had, d) + (IF d \in bars
            THEN Quote[d] * SumFunction([k \in {x \in Of(b) : HeldOn(x, d)} |-> Shares(k, d)])
            ELSE 0)

Window(j) == {d \in job[j].win : d >= since[job[j].book]}

\* On to the next portfolio that was loaded, or the end.
NextBook(j) ==
    IF job[j].book = "sleeve" /\ "real" \in DOMAIN job[j].had
    THEN job' = [job EXCEPT ![j].pc = "value", ![j].book = "real", ![j].comp = <<>>, ![j].seen = <<>>]
    ELSE Stop(j)

\* VALUATION_SQL, one statement.
MarkValue(j) ==
    /\ job[j].pc = "value"
    /\ LET b == job[j].book
           w == Window(j)
           comp == [d \in w |-> Valued(b, job[j].had[b], d)]
       IN  IF w = {} \/ \E d \in w : comp[d] = Refused THEN NextBook(j)
           ELSE job' = [job EXCEPT ![j].pc = "read", ![j].comp = comp,
                   ![j].pure = intact[b] /\ (b = "sleeve" => {x \in ExDates : x <= Max(w)} \subseteq splits)]
    /\ UNCHANGED <<clock, broker, fair, prices, book, marks, outcome, kb, exit, bounds>>

\* existing_marks(), from the session before the window on.
MarkRead(j) ==
    /\ job[j].pc = "read"
    /\ job' = [job EXCEPT ![j].pc = "write",
                  ![j].seen = [d \in {s \in Sessions : <<job[j].book, s>> \in DOMAIN marks}
                                 |-> marks[<<job[j].book, d>>].mv]]
    /\ UNCHANGED <<clock, broker, fair, prices, book, marks, outcome, kb, exit, bounds>>

\* Mutant: after a hole the chain goes on from the last value there was.
BugAcrossHoles(j, d) ==
    LET t == job[j]
        had == {s \in UpTo(d - 1) : s \in DOMAIN t.seen \/ (s \in DOMAIN t.comp /\ t.comp[s] # None)}
    IN  IF had = {} THEN None
        ELSE IF Max(had) \in DOMAIN t.seen THEN t.seen[Max(had)] ELSE t.comp[Max(had)]

\* prev_mv: the stored value of the session before, or the one just computed.
Previous(j, d) ==
    LET t == job[j]
        p == LatestSession(d - 1)
    IN  IF p = None THEN None
        ELSE IF p \in DOMAIN t.seen THEN t.seen[p]
        ELSE IF p \in DOMAIN t.comp THEN t.comp[p] ELSE None

\* The run's own row of the session before d meets one stored since it read.
Beaten(j, d) ==
    LET p == LatestSession(d - 1)
    IN  <<job[j].book, p>> \in DOMAIN marks /\ p \notin DOMAIN job[j].seen

\* The rows in one transaction, ON CONFLICT DO NOTHING; ck_prd_mark_window refuses
\* them all, and ends the run, when one is of a day to come.  A daily return is
\* kept as the value it was taken against.
MarkWrite(j) ==
    /\ job[j].pc = "write"
    /\ LET t == job[j]
           rows == {d \in DOMAIN t.comp : t.comp[d] # None /\ d \notin DOMAIN t.seen}
       IN  IF \E d \in rows : d > t.on THEN Stop(j) /\ UNCHANGED marks
           ELSE /\ marks' = Kept(marks, [k \in {<<t.book, d>> : d \in rows} |->
                       [mv |-> t.comp[k[2]], kind |-> t.mode, by |-> j, on |-> t.on, pure |-> t.pure,
                        beaten |-> Beaten(j, k[2]),
                        prev |-> IF Previous(j, k[2]) = 0 THEN None ELSE Previous(j, k[2])]])
                /\ NextBook(j)
    /\ UNCHANGED <<clock, broker, fair, prices, book, outcome, kb, exit, bounds>>

\* Killed, or stopped by an error.  What is not committed is gone, so that the
\* moments that differ are before the bars, after them, and before each portfolio.
Dies(j) ==
    /\ job[j].pc \in {"bars", "score", "value"} /\ Fault
    /\ Stop(j)
    /\ UNCHANGED <<clock, broker, fair, prices, book, marks, outcome, kb, exit, runs>>
-----------------------------------------------------------------------------
(* record_exit. *)

\* The UPDATE, guarded by exit_date IS NULL.
ExitUpdate(k, date, price) ==
    /\ exit.pc = "idle" /\ Runs("exit")
    /\ k[2] <= date /\ date <= day
    /\ exit' = [key |-> k, date |-> date, price |-> price,
                pc |-> IF lots[k].exit # None THEN "miss"
                       ELSE IF k[1] = "real" /\ job["night"].pc = "insert" THEN "wait"
                       ELSE "written"]
    /\ UNCHANGED <<clock, broker, fair, prices, book, marks, outcome, kb, job, faults>>

\* The sync that had the lot was rolled back.
ExitWakes ==
    /\ exit.pc = "wait" /\ job["night"].pc # "insert"
    /\ exit' = [exit EXCEPT !.pc = "written"]
    /\ UNCHANGED <<clock, broker, fair, prices, book, marks, outcome, kb, job, bounds>>

\* No lot, or one that was exited before: refused.
ExitMisses ==
    /\ exit.pc = "miss" /\ exit' = NoExit
    /\ UNCHANGED <<clock, broker, fair, prices, book, marks, outcome, kb, job, bounds>>

\* Mutant: the knowledge base has a transaction of its own.
BugApart(k) == kb' = [x \in DOMAIN kb \cup {k} |-> IF x = k /\ x \in DOMAIN kb THEN kb[x] + 1 ELSE 1] /\ UNCHANGED lots

\* The outcome entry is inserted, in the transaction of the exit.
Recorded(k) ==
    /\ kb' = [x \in DOMAIN kb \cup {k} |-> (IF x \in DOMAIN kb THEN kb[x] ELSE 0) + (IF x = k THEN 1 ELSE 0)]
    /\ lots' = [lots EXCEPT ![k].exit = exit.date, ![k].price = exit.price]

ExitCommit ==
    /\ exit.pc = "written" /\ exit' = NoExit
    /\ \/ /\ Recorded(exit.key)
          /\ intact' = [intact EXCEPT ![exit.key[1]] = FALSE]
          /\ UNCHANGED faults
       \/ Fault /\ UNCHANGED <<lots, intact, kb>>
    /\ UNCHANGED <<clock, broker, fair, prices, cash, since, marks, outcome, job, runs>>
-----------------------------------------------------------------------------
BookNext ==
    \/ Session \/ Holiday \/ Midnight
    \/ \E x \in Days : LearnSplit(x)
    \/ SyncFetch \/ SyncDelete \/ SyncInsert \/ SyncUnlisted \/ SyncFails
    \/ LoadBars \/ Score \/ NightMark
    \/ \E h \in ByHand : HandMark(h[1], h[2], h[3])
    \/ \E j \in Jobs : MarkValue(j) \/ MarkRead(j) \/ MarkWrite(j) \/ Dies(j)
    \/ \E k \in DOMAIN lots, x \in ExitsOn : ExitUpdate(k, x[1], x[2])
    \/ ExitWakes \/ ExitMisses \/ ExitCommit

BookSpec == BookInit /\ [][BookNext]_bookVars
-----------------------------------------------------------------------------
BookTypeOK ==
    /\ day \in Days /\ phase \in {"before", "shut"}
    /\ broker \in [held : Nat, cost : Nat, cash : Nat]
    /\ DOMAIN fair \subseteq Sessions /\ bars \subseteq DOMAIN fair /\ splits \subseteq ExDates
    /\ DOMAIN lots \subseteq Books \X Days
    /\ \A k \in DOMAIN lots : lots[k].shares > 0 /\ (lots[k].exit # None => lots[k].exit >= k[2])
    /\ cash \in [Books -> Nat] /\ since \in [Books -> Days \cup {None}]
    /\ DOMAIN marks \subseteq Books \X Sessions
    /\ \A k \in DOMAIN marks : marks[k].mv >= 0 /\ marks[k].on \in Days
    /\ DOMAIN kb \subseteq Books \X Days
    /\ exit.pc \in {"idle", "wait", "miss", "written"} /\ faults \in 0..MaxFaults

\* A lot is exited exactly when the knowledge base says so, and once, although
\* the nightly mirror deletes and re-inserts the lots under it
\* (outcomes.py:143-262, sync_real_portfolio.py:122-135).
ExitsAreRecorded ==
    /\ \A k \in DOMAIN kb : kb[k] = 1 /\ k \in DOMAIN lots /\ lots[k].exit # None
    /\ \A k \in DOMAIN lots : lots[k].exit # None => k \in DOMAIN kb

\* The mirror never holds two lots of one security: what the valuation reads is
\* one take of the account (sync_real_portfolio.py:14-17).
OneTake == Cardinality(OpenLots("real")) <= 1

\* A judgment is graded over a window that is over, Horizon sessions long, by the
\* closes of its two ends (score_judgments.py:5-24).
ScoresAreEarned ==
    \A x \in Judgments : outcome[x] # None =>
        LET a == outcome[x].entry
            z == outcome[x].exit
        IN  /\ z \in DOMAIN fair /\ Cardinality({s \in Sessions : a < s /\ s <= z}) = Horizon
            /\ a = LatestSession(x[1])
            /\ outcome[x].good = (IF x[2] = "sell" THEN Quote[z] < Quote[a] ELSE Quote[z] > Quote[a])

\* The parts that are checked together: exits, the mirror and the grades.
BookInv == BookTypeOK /\ ExitsAreRecorded /\ OneTake /\ ScoresAreEarned

SleeveWorth(d) == Sleeve.shares * Factor(ExDates, 1, d) * Quote[d] + Sleeve.cash

\* What the script marks on the evening of a session is what the account was worth
\* at its close, unless a lot was exited by hand between the sync and the mark;
\* and a lot held across a split is worth what its holder has, whoever marks it
\* and whenever, once the split is loaded (mark_portfolios.py:9-30,
\* nightly_marks.sh:11-23).
MarksAreTheBook ==
    \A k \in DOMAIN marks : marks[k].pure =>
        /\ k[1] = "real" /\ marks[k].by = "night" /\ marks[k].on = k[2] => marks[k].mv = fair[k[2]]
        /\ k[1] = "sleeve" => marks[k].mv = SleeveWorth(k[2])

\* A daily return is taken against the stored value of the session just before,
\* whatever runs wrote the two, in whatever order the holes between were filled,
\* and whatever was exited by hand or split unheard of.  The one exception: of a
\* book so changed, a run whose own row of the session before was refused, because
\* the other process had stored one since it read (mark_portfolios.py:55-65, 392-407).
ReturnsChain ==
    \A k \in DOMAIN marks : marks[k].prev # None =>
        LET p == <<k[1], LatestSession(k[2] - 1)>>
        IN  /\ p \in DOMAIN marks
            /\ marks[k].prev = marks[p].mv \/ (marks[k].beaten /\ ~marks[k].pure)
-----------------------------------------------------------------------------
(* What the repository says and the code does not do. *)

\* "Computed from the STORED values so a hand recompute from the table reproduces
\* it exactly" (mark_portfolios.py:55-57): in the exception, not.
ReturnsRecompute ==
    \A k \in DOMAIN marks : marks[k].prev # None =>
        marks[k].prev = marks[<<k[1], LatestSession(k[2] - 1)>>].mv

\* "Lot entries and exits are the only cash flows" of the balance that cash_at(d)
\* walks back from (mark_portfolios.py:33-42): record_exit credits no cash.
ExitsAreCredited ==
    cash["sleeve"] = Sleeve.cash
        + SumFunction([k \in {x \in Of("sleeve") : lots[x].exit # None}
                         |-> Shares(k, lots[k].exit) * lots[k].price])
=============================================================================
