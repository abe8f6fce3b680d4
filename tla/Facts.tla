-------------------------------- MODULE Facts --------------------------------
(***************************************************************************)
(* The feeds behind the point-in-time tables.  load_reference_data.py      *)
(* keeps the risk-free rates, load_fundamentals.py the statements of a     *)
(* company, and collect_intraday.py observes prices against the statement  *)
(* in effect.  Each row carries the moment its facts became known, and a   *)
(* reader asks for the latest row known at a date.                         *)
(*                                                                         *)
(* The rates share no table with the other two, so a behaviour is about    *)
(* one of the two feeds.  One company's statements are modelled; the other *)
(* securities of a sweep have none.  The calls to the vendor that build a  *)
(* bundle are separate steps, as filings may arrive between them.          *)
(***************************************************************************)
EXTENDS Integers, Sequences, FiniteSets, FiniteSetsExt

CONSTANTS
    Dates,    \* effective dates of the rate series
    Rates,    \* its values
    Runs,     \* runs of the rates command
    Last,     \* last moment
    Evening,  \* moments of an evening after the first, before midnight UTC
    Worlds,   \* the filings the vendor will show, one set for each world
    Subject,  \* the security whose statements are loaded
    Targets,  \* securities a sweep may have in its scope
    Scopes,   \* the scopes, in the order of their symbols
    MaxJobs   \* bound on the loads and sweeps

None == 0
Times == 1..Last

\* A filing: the period it reports, when that ended, when the filing became
\* public and the acceptedDate the vendor puts on it, if any.
Filing == [period : Nat \ {0}, ends : Times, filed : Times,
           stamp : 0..Last]
NoFiling == [period |-> None, ends |-> None, filed |-> None, stamp |-> None]

ASSUME BoundsAreNat == /\ Last \in Nat \ {0} /\ MaxJobs \in Nat /\ Evening \in Nat
                       /\ Dates \subseteq Times /\ Rates \subseteq Nat \ {0}
ASSUME WorldsAreFilings == \A w \in Worlds : w \subseteq Filing
\* scope() groups by security.
ASSUME ScopesAreOfTargets ==
    /\ Subject \in Targets /\ Scopes \subseteq Seq(Targets)
    /\ \A s \in Scopes : \A i, j \in DOMAIN s : s[i] = s[j] => i = j

VARIABLES
    feed,    \* what this behaviour is about
    now,     \* the time
    fred,    \* the value FRED shows for each date, or None
    rates,   \* risk_free_rates
    run,     \* the runs of the rates command
    filings, \* all that will ever be filed
    rows,    \* fundamentals_snapshots of the subject
    load,    \* the run of load_fundamentals
    sweeps,  \* intraday_collection_runs
    left,    \* what the running sweep has still to fetch
    counted, \* what it has counted so far, in its process only
    obs      \* intraday_observations

rateVars == <<fred, rates, run>>
loadVars == <<filings, rows, load>>
sweepVars == <<sweeps, left, counted, obs>>
factsVars == <<feed, now, rateVars, loadVars, sweepVars>>
-----------------------------------------------------------------------------
\* Moments are counted in halves, so that the midnight UTC that ends the
\* evening of a date lies between two of them.
Floor(e) == 2 * (e + Evening) + 1
Fetch(t) == 2 * t

NotRun == [pc |-> "idle", began |-> None, seen |-> [e \in Dates |-> None],
           read |-> [e \in Dates |-> None], alone |-> TRUE]

NoLoad == [pc |-> "idle", nth |-> 0, began |-> None, ratios |-> {}, income |-> {},
           cash |-> {}, quiet |-> TRUE]

Key == [kind : {"annual", "snapshot"}, period : Nat, known : Times]
NoKey == [kind |-> "none", period |-> None, known |-> None]
Nought == [observed |-> 0, failed |-> 0]

FactsInit ==
    /\ feed \in {"rates", "statements"}
    /\ now = 1
    /\ fred = [e \in Dates |-> None] /\ rates = {}
    /\ run = [r \in Runs |-> NotRun]
    /\ filings \in (IF feed = "rates" THEN {{}} ELSE Worlds)
    /\ rows = {} /\ load = NoLoad
    /\ sweeps = <<>> /\ left = <<>> /\ counted = Nought /\ obs = {}

Tick ==
    /\ now < Last
    /\ now' = now + 1
    /\ load' = [load EXCEPT !.quiet =
                   @ /\ \A f \in filings : f.filed # now + 1]
    /\ UNCHANGED <<feed, rateVars, filings, rows, sweepVars>>
-----------------------------------------------------------------------------
(* The risk-free rates.                                                    *)

\* FRED shows the rate of a day from that evening on, and may revise it.
Publish(e, v) ==
    /\ feed = "rates" /\ now >= e /\ v # fred[e]
    /\ fred' = [fred EXCEPT ![e] = v]
    /\ UNCHANGED <<feed, now, rates, run, loadVars, sweepVars>>

\* DISTINCT ON (effective_date) ... ORDER BY effective_date, known_at DESC
Latest(table, e) ==
    LET of == {x \in table : x.eff = e}
    IN  IF of = {} THEN None
        ELSE (CHOOSE x \in of : \A y \in of : y.known <= x.known).rate

Busy(r) == run[r].pc \in {"begun", "fetched", "read"}

\* Each run begins at a moment of its own.
RatesBegin(r) ==
    /\ feed = "rates" /\ now < Last
    /\ run[r].pc = "idle"
    /\ now' = now + 1
    /\ run' = [s \in Runs |->
                  IF s = r THEN [NotRun EXCEPT !.pc = "begun", !.began = now + 1,
                                     !.alone = \A q \in Runs : ~Busy(q)]
                  ELSE [run[s] EXCEPT !.alone = @ /\ ~Busy(s)]]
    /\ UNCHANGED <<feed, fred, rates, loadVars, sweepVars>>

RatesFetch(r) ==
    /\ run[r].pc = "begun" /\ \E e \in Dates : fred[e] # None
    /\ run' = [run EXCEPT ![r].pc = "fetched", ![r].seen = fred]
    /\ UNCHANGED <<feed, now, fred, rates, loadVars, sweepVars>>

\* FetchError after the last attempt, LoadError, or the process dies; a write
\* that fails is rolled back.
RatesFail(r) ==
    /\ Busy(r)
    /\ run' = [run EXCEPT ![r].pc = "failed"]
    /\ UNCHANGED <<feed, now, fred, rates, loadVars, sweepVars>>

RatesRead(r) ==
    /\ run[r].pc = "fetched"
    /\ run' = [run EXCEPT ![r].pc = "read",
                          ![r].read = [e \in Dates |-> Latest(rates, e)]]
    /\ UNCHANGED <<feed, now, fred, rates, loadVars, sweepVars>>

\* Mutant: a revision is dated by the floor, where it collides and vanishes.
BugKnownAt(s, e) == Floor(e)

\* known_at of the row a run adds for e: the floor for a first observation,
\* the time of the fetch for a revision.
KnownAt(s, e) == IF s.read[e] = None THEN Floor(e) ELSE Fetch(s.began)

NewRows(s) ==
    {[eff |-> e, rate |-> s.seen[e], known |-> KnownAt(s, e)] :
        e \in {d \in Dates : s.seen[d] # None /\ s.seen[d] # s.read[d]}}

\* ON CONFLICT (series, effective_date, known_at) DO NOTHING
RatesWrite(r) ==
    /\ run[r].pc = "read"
    /\ rates' = rates \cup {x \in NewRows(run[r]) :
                    \A y \in rates : y.eff # x.eff \/ y.known # x.known}
    /\ run' = [run EXCEPT ![r].pc = "done"]
    /\ UNCHANGED <<feed, now, fred, loadVars, sweepVars>>
-----------------------------------------------------------------------------
(* The statements.                                                         *)

\* What the vendor answers: the newest public version of each period.
Served == {f \in filings : f.filed <= now
              /\ ~\E g \in filings : /\ g.period = f.period /\ g.filed <= now
                                     /\ g.filed > f.filed}

\* series[i], or {}: the series is ordered from the newest period back.
Nth(series, i) ==
    IF \E f \in series : Cardinality({g \in series : g.period > f.period}) = i
    THEN CHOOSE f \in series : Cardinality({g \in series : g.period > f.period}) = i
    ELSE NoFiling

LoadBegin ==
    /\ feed = "statements" /\ load.pc = "idle" /\ load.nth + Len(sweeps) < MaxJobs
    /\ \E answer \in {Served, {}} :
          load' = [NoLoad EXCEPT !.pc = "ratios", !.nth = load.nth + 1,
                                 !.began = now, !.ratios = answer]
    /\ UNCHANGED <<feed, now, rateVars, filings, rows, sweepVars>>

LoadIncome ==
    /\ load.pc = "ratios"
    /\ \E answer \in {Served, {}} :
          load' = [load EXCEPT !.pc = "income", !.income = answer]
    /\ UNCHANGED <<feed, now, rateVars, filings, rows, sweepVars>>

LoadCash ==
    /\ load.pc = "income"
    /\ \E answer \in {Served, {}} :
          load' = [load EXCEPT !.pc = "cash", !.cash = answer]
    /\ UNCHANGED <<feed, now, rateVars, filings, rows, sweepVars>>

\* FmpError, a budget that is spent before the symbol, or the process dies.
LoadFails ==
    /\ load.pc # "idle"
    /\ load' = [NoLoad EXCEPT !.nth = load.nth]
    /\ UNCHANGED <<feed, now, rateVars, filings, rows, sweepVars>>

\* Mutant: a filing stamped before its period ended is stored all the same.
BugPlausible(ends, stamp) == TRUE

Plausible(ends, stamp) == stamp >= ends

\* _at: the i-th record of the series, or none.
Aligned(series, i) == Nth(series, i)

\* annual_row, as a set of at most one row.  The wide figures, eps among them,
\* are of the newest statement whatever i is.
Annual(i) ==
    LET income == Nth(load.income, i)
        ratios == Aligned(load.ratios, i)
        cash == Aligned(load.cash, i)
        covers == IF income # NoFiling THEN income ELSE ratios
        known == IF income.stamp # None THEN income.stamp ELSE cash.stamp
    IN  {row \in {[kind |-> "annual", period |-> covers.period, known |-> known,
                   margin |-> ratios, fcf |-> cash, eps |-> Nth(load.income, 0)]} :
            /\ covers # NoFiling /\ known # None
            /\ Plausible(covers.ends, known)}

\* snapshot_row: known when the load began; no margins and no eps.
Snapshot ==
    [kind |-> "snapshot", period |-> load.began, known |-> load.began,
     margin |-> NoFiling, fcf |-> Nth(load.cash, 0), eps |-> NoFiling]

KeyOf(x) == [kind |-> x.kind, period |-> x.period, known |-> x.known]

\* ON CONFLICT ... DO UPDATE.  capped: the profile carries a market cap.
LoadStore ==
    /\ load.pc = "cash"
    /\ \E capped \in BOOLEAN :
         LET new == (UNION {Annual(i) : i \in 0..(Max({1, Cardinality(load.income)}) - 1)})
                      \cup (IF capped THEN {Snapshot} ELSE {})
         IN  rows' = {x \in rows : \A y \in new : KeyOf(x) # KeyOf(y)} \cup new
    /\ load' = [NoLoad EXCEPT !.nth = load.nth]
    /\ UNCHANGED <<feed, now, rateVars, filings, sweepVars>>
-----------------------------------------------------------------------------
(* The intraday sweep.                                                     *)

Sweeping == \E n \in DOMAIN sweeps : sweeps[n].status = "running" /\ sweeps[n].alive

\* fundamentals_in_effect: whatever its kind, the row known last.
InEffect(s, t) ==
    LET known == {x \in rows : s = Subject /\ x.known <= t}
    IN  IF known = {} THEN {NoKey}
        ELSE {KeyOf(x) : x \in {y \in known : \A z \in known : z.known <= y.known}}

\* The cron job starts one sweep at a time.  The calendar says closed, or the
\* time is outside the session: a row that says so and nothing else.
SweepSkip ==
    /\ feed = "statements" /\ ~Sweeping /\ load.nth + Len(sweeps) < MaxJobs
    /\ \A n \in DOMAIN sweeps : sweeps[n].at < now
    /\ sweeps' = Append(sweeps, [at |-> now, status |-> "skipped", alive |-> FALSE,
                                 scope |-> 0, observed |-> 0, failed |-> 0])
    /\ UNCHANGED <<feed, now, rateVars, loadVars, left, counted, obs>>

SweepBegin ==
    /\ feed = "statements" /\ ~Sweeping /\ load.nth + Len(sweeps) < MaxJobs
    /\ \A n \in DOMAIN sweeps : sweeps[n].at < now
    /\ \E scope \in Scopes :
         /\ sweeps' = Append(sweeps, [at |-> now, status |-> "running", alive |-> TRUE,
                                scope |-> Len(scope), observed |-> 0, failed |-> 0])
         /\ left' = scope
    /\ counted' = Nought
    /\ UNCHANGED <<feed, now, rateVars, loadVars, obs>>

\* A quote, and the row goes in.  Its statements are those in effect when the
\* sweep began.
Observe ==
    LET n == Len(sweeps)
        at == sweeps[n].at
    IN  /\ Sweeping /\ left # <<>>
        /\ left' = Tail(left)
        /\ counted' = [counted EXCEPT !.observed = @ + 1]
        /\ \E key \in InEffect(Head(left), at) :
              obs' = {o \in obs : o.target # Head(left) \/ o.at # at}
                       \cup {[run |-> n, target |-> Head(left), at |-> at, row |-> key]}
        /\ UNCHANGED <<feed, now, rateVars, loadVars, sweeps>>

Missed == [counted EXCEPT !.failed = @ + 1]

\* No usable quote: no row.
NoQuote ==
    /\ Sweeping /\ left # <<>>
    /\ left' = Tail(left)
    /\ counted' = Missed
    /\ UNCHANGED <<feed, now, rateVars, loadVars, sweeps, obs>>

\* Mutant: the count comes before the INSERT, and stands when that fails.
BugCountsFirst == [counted EXCEPT !.observed = @ + 1]

Uncounted == Missed

\* The database refuses the row.  An INSERT whose answer is lost is an Observe
\* and then a SweepDies, as the connection is gone with it.
InsertFails ==
    /\ Sweeping /\ left # <<>>
    /\ left' = Tail(left)
    /\ counted' = Uncounted
    /\ UNCHANGED <<feed, now, rateVars, loadVars, sweeps, obs>>

\* The counts go into the row with the status.
SweepEnd ==
    LET n == Len(sweeps)
    IN  /\ Sweeping /\ left = <<>>
        /\ sweeps' = [sweeps EXCEPT ![n].status = "complete", ![n].alive = FALSE,
                          ![n].observed = counted.observed, ![n].failed = counted.failed]
        /\ UNCHANGED <<feed, now, rateVars, loadVars, left, counted, obs>>

\* The process dies, its counts with it: the row stays 'running', with none.
SweepDies ==
    /\ Sweeping
    /\ sweeps' = [sweeps EXCEPT ![Len(sweeps)].alive = FALSE]
    /\ left' = <<>> /\ counted' = Nought
    /\ UNCHANGED <<feed, now, rateVars, loadVars, obs>>
-----------------------------------------------------------------------------
FactsNext ==
    \/ Tick
    \/ \E e \in Dates, v \in Rates : Publish(e, v)
    \/ \E r \in Runs : \/ RatesBegin(r) \/ RatesFetch(r) \/ RatesFail(r)
                       \/ RatesRead(r) \/ RatesWrite(r)
    \/ LoadBegin \/ LoadIncome \/ LoadCash \/ LoadFails \/ LoadStore
    \/ SweepSkip \/ SweepBegin \/ Observe \/ NoQuote \/ InsertFails \/ SweepEnd \/ SweepDies

FactsSpec == FactsInit /\ [][FactsNext]_factsVars
-----------------------------------------------------------------------------
FactsTypeOK ==
    /\ feed \in {"rates", "statements"} /\ now \in Times
    /\ fred \in [Dates -> Rates \cup {None}]
    /\ rates \subseteq [eff : Dates, rate : Rates, known : Nat]
    /\ run \in [Runs -> [pc : {"idle", "begun", "fetched", "read", "done", "failed"},
                         began : Times \cup {None}, seen : [Dates -> Rates \cup {None}],
                         read : [Dates -> Rates \cup {None}], alone : BOOLEAN]]
    /\ filings \in Worlds \cup {{}}
    /\ \A x \in rows : /\ KeyOf(x) \in Key
                       /\ {x.margin, x.fcf, x.eps} \subseteq filings \cup {NoFiling}
    /\ load.nth + Len(sweeps) <= MaxJobs /\ load.pc \in {"idle", "ratios", "income", "cash"}
    /\ load.ratios \cup load.income \cup load.cash \subseteq filings
    /\ left \in Seq(Targets) /\ counted \in [observed : Nat, failed : Nat]
    /\ \A o \in obs : o.target \in Targets /\ o.row \in Key \cup {NoKey}

\* The row of a sweep that is complete accounts for every security of its
\* scope: those it counts as observed are the observations it left, and the
\* others failed (collect_intraday.py: a sweep that quietly recorded 3 of 15
\* looks like a sweep).  A sweep that was skipped left none, and until it is
\* complete a row counts nothing: what a killed sweep observed stands beside
\* noughts.
SweepsAddUp ==
    \A n \in DOMAIN sweeps :
        LET s == sweeps[n]
            left_behind == Cardinality({o \in obs : o.run = n})
        IN  /\ IF s.status = "complete"
                 THEN s.observed = left_behind /\ s.observed + s.failed = s.scope
                 ELSE s.observed = 0 /\ s.failed = 0
            /\ s.status = "skipped" => s.scope = 0 /\ left_behind = 0
            /\ s.alive => /\ counted.observed = left_behind
                          /\ counted.observed + counted.failed + Len(left) = s.scope

\* The parts that are checked together.
FactsInv == FactsTypeOK /\ SweepsAddUp

\* A run that saw another value than the one it found stored, on the evening
\* of the date itself: its row is known before the first one's.
SameEvening(s, e) ==
    s.read[e] # None /\ s.seen[e] # s.read[e] /\ Fetch(s.began) < Floor(e)

\* When a run of the rates command that overlapped no other run ends, the
\* latest stored value of every date is the one FRED showed it, whatever runs
\* that overlapped or failed before it left behind (load_reference_data.py: a
\* revision is detected rather than vanishing under ON CONFLICT DO NOTHING).
\* A revision of a date that the run met on that same evening is the one
\* exception: EveningRevisionsCount.
RunRecordsWhatItSaw ==
    [][\A r \in Runs :
          run[r].pc = "read" /\ run'[r].pc = "done" /\ run[r].alone =>
              \A e \in Dates : run[r].seen[e] # None /\ ~SameEvening(run[r], e) =>
                                   Latest(rates', e) = run[r].seen[e]]_factsVars

\* The margin and the cash flow of an annual row that was written by a load
\* during which nothing was filed are of the filing the row is dated by: of
\* its period, and known when the vendor says that very filing was accepted,
\* which is not before the period ended.  Where the vendor's date is right,
\* nothing in the row was filed later than the row says it was known
\* (load_fundamentals.py: a wrong known_at silently leaks the future into
\* every point-in-time query); a wrong date that is plausible goes unnoticed.
QuietLoadsKeepHistory ==
    [][load.pc = "cash" /\ load.quiet =>
          \A x \in rows' \ rows : x.kind = "annual" =>
              \A f \in {x.margin, x.fcf} :
                  \/ f = NoFiling
                  \/ f.period = x.period /\ f.stamp = x.known /\ f.ends <= x.known]_factsVars
-----------------------------------------------------------------------------
(* What the repository says and the code does not do                       *)

\* load_reference_data.py:50-51 "a revision is exactly the thing the (series,
\* effective_date, known_at) identity exists to represent", asked of a revision
\* that is met on the evening of its own date: midnight UTC, when the first
\* value counts as known, comes after that fetch, so the first stays latest.
EveningRevisionsCount ==
    [][\A r \in Runs :
          run[r].pc = "read" /\ run'[r].pc = "done" /\ run[r].alone =>
              \A e \in Dates : run[r].seen[e] # None =>
                                   Latest(rates', e) = run[r].seen[e]]_factsVars

\* 026_intraday_observations.up.sql:70-71 has the row's completion time tell a
\* crashed sweep from a live one: both are 'running' without one.
RunningMeansAlive == \A n \in DOMAIN sweeps : sweeps[n].status = "running" => sweeps[n].alive

\* What load_fundamentals.py:15-17 says of an annual row, that it is real
\* history and safe to read point-in-time, asked of its eps.
AnnualRowsAreHistory ==
    \A x \in rows : x.kind = "annual" => x.eps = NoFiling \/ x.eps.filed <= x.known
=============================================================================
