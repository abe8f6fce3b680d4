------------------------------- MODULE Archive -------------------------------
(***************************************************************************)
(* The daily price archive of one ticker symbol and the tools that keep    *)
(* its identities apart: load_daily_bars.py and load_daily_bars_fmp.py add *)
(* bars, load_delistings.py audits the holes in a series, splits a series  *)
(* at a hole where another issuer took the symbol over and marks the dead  *)
(* names, load_corporate_actions.py records splits and folds them into the *)
(* adjustment factor of each bar, load_instrument_types.py closes the      *)
(* holes of warrants and the like.                                         *)
(*                                                                         *)
(* The operator runs the tools by hand, one at a time, and any of them may *)
(* be killed between two of its transactions; the bar loaders may run at   *)
(* the same time.  The other symbols are not modelled: each day file that  *)
(* has been loaded makes its date a covered session.  The dry runs write   *)
(* nothing.                                                                *)
(***************************************************************************)
EXTENDS Integers, FiniteSets, FiniteSetsExt

CONSTANTS
    Last,        \* the last session there is a day file of
    MaxIds,      \* bound on the rows of securities that hold the symbol
    Floor,       \* AUDIT_MIN_MISSED_SESSIONS
    Confirm,     \* infer --confirm-sessions
    Window,      \* the 60 days in which an FMP delisting date is matched
    MinGap,      \* splice --min-gap-days
    AbortAfter,  \* CONSECUTIVE_PROVIDER_FAILURES_ABORT
    Worlds       \* what may be true of the symbol outside the database

Dates == 1..Last
ExDates == 1..(Last + 1)   \* Last + 1: a split after the archive's end
Ids == 1..MaxIds
None == 0

(***************************************************************************)
(* What the tools cannot change.  prints: the sessions on which the symbol *)
(* trades.  since: the first session of its current holder, an issuer of   *)
(* its own when since > 1.  split: the ex-date of the current holder's     *)
(* split, or None.  move: the session on which the raw price moved by more *)
(* than the audit's band with no split behind it, or None.  carried: the   *)
(* providers know the symbol.  common: it is common stock or an ETF.       *)
(* delist: the delisting dates FMP lists for the symbol.  held: a real     *)
(* portfolio holds the first identity, so the nightly loader asks for its  *)
(* bars and splice must refuse it.  torn: the day files that do not        *)
(* decompress until they are copied again.                                 *)
(***************************************************************************)
World == [prints : SUBSET Dates, since : Dates, split : ExDates \cup {None},
          move : Dates \cup {None}, carried : BOOLEAN, common : BOOLEAN,
          delist : SUBSET Dates, held : BOOLEAN, torn : SUBSET Dates]

ASSUME BoundsAreNat == /\ {Last, MaxIds, AbortAfter} \subseteq Nat \ {0}
                       /\ {Floor, Confirm, Window, MinGap} \subseteq Nat
ASSUME WorldsAreWorlds == Worlds \subseteq World
ASSUME SplitIsTheHolders == \A w \in Worlds : w.split # None => w.split > w.since

VARIABLES
    world,   \* the world this behaviour is in
    torn,    \* the day files that do not decompress
    loaded,  \* the day files whose hash is in data_sources
    sec,     \* securities: the rows of this symbol
    own,     \* price_bars_daily: the sessions each identity has a bar of
    factor,  \* split_adj_factor of each bar, as the set of splits folded in
    splits,  \* corporate_actions: the ex-dates recorded for each identity
    asOf,    \* price_adjustment_state
    audit,   \* price_gap_audit, by identity and the last bar before the hole
    job,     \* the tool that is running
    audited, \* no bar or split changed since the last audit read the holes
    adjusted, \* nor since the last adjust that ended began
    misdated \* a name was dated past a session that may still bring it a bar

vars == <<world, torn, loaded, sec, own, factor, splits, asOf, audit, job,
          audited, adjusted, misdated>>
-----------------------------------------------------------------------------
Unset == {None}            \* NULL in split_adj_factor
NoRow == [first |-> None, died |-> None, typed |-> FALSE]
NoEntry == [resume |-> None, kind |-> "none"]

NonTerminal == {"pending_review", "identity_break", "provider_unresolvable",
                "split_missing"}
Terminal == {"halt_consistent", "continuity_confirmed", "spliced",
             "halt_accepted", "non_common_instrument"}

\* A hole of an identity, from its last bar before to its next bar.
Row == [id : Ids, last : Dates, next : Dates]
Idle == [cmd |-> "idle", rows |-> {}, fails |-> 0, to |-> None]

TypeOK ==
    /\ world \in Worlds /\ torn \subseteq world.torn /\ loaded \subseteq Dates
    /\ sec \in [Ids -> [first : Dates \cup {None}, died : 0..(Last + 1),
                        typed : BOOLEAN]]
    /\ own \in [Ids -> SUBSET Dates]
    /\ factor \in [Ids -> [Dates -> (SUBSET ExDates) \cup {Unset}]]
    /\ splits \in [Ids -> SUBSET ExDates]
    /\ asOf \in Dates \cup {None}
    /\ audit \in [Ids -> [Dates -> [resume : Dates \cup {None},
                                    kind : NonTerminal \cup Terminal \cup {"none"}]]]
    /\ job.rows \subseteq Row /\ job.fails \in -1..AbortAfter
    /\ job.to \in Dates \cup {None}
    /\ job.cmd \in {"idle", "audit", "provider", "splice", "mark",
                    "refactor", "reset", "fill"}
    /\ audited \in BOOLEAN /\ adjusted \in BOOLEAN /\ misdated \in BOOLEAN

Used == {i \in Ids : sec[i].first # None}
Live == {i \in Used : sec[i].died = None}     \* at most one: the partial index
Fresh == Min(Ids \ Used)
Covered == loaded \cup UNION {own[i] : i \in Ids}
Bars(i, from, to) == {d \in own[i] : from <= d /\ d <= to}

\* HOLE_DETECTION_SQL: two consecutive bars and the sessions missed between.
Hole(i, s, r) == {s, r} \subseteq own[i] /\ s < r /\ Bars(i, s + 1, r - 1) = {}
Missed(s, r) == Cardinality({d \in Covered : s < d /\ d < r})

\* The logarithm of a price: a move adds one, a split takes one away.
Raw(d) == (IF world.move # None /\ d >= world.move THEN 1 ELSE 0)
        - (IF world.split # None /\ d >= world.split THEN 1 ELSE 0)
\* adj_ratio of a hole is inside the band.
InBand(i, s, r) ==
    Raw(r) - Raw(s) + Cardinality({x \in splits[i] : s < x /\ x <= r}) = 0

Init ==
    /\ world \in Worlds
    /\ torn = world.torn /\ loaded = {}
    /\ sec = [i \in Ids |-> NoRow]
    /\ own = [i \in Ids |-> {}]
    /\ factor = [i \in Ids |-> [d \in Dates |-> Unset]]
    /\ splits = [i \in Ids |-> {}]
    /\ asOf = None
    /\ audit = [i \in Ids |-> [d \in Dates |-> NoEntry]]
    /\ job = Idle
    /\ audited = FALSE /\ adjusted = FALSE /\ misdated = FALSE

Stale == audited' = FALSE /\ adjusted' = FALSE
-----------------------------------------------------------------------------
(* The loaders *)

\* main() takes the files in the order of their dates, skips the torn ones and
\* those whose hash it knows, and stops at the first that fails.
NextFile(d) ==
    /\ d \in Dates \ (loaded \cup torn)
    /\ \A e \in 1..(d - 1) : e \in loaded \cup torn

\* resolve_symbols(): the live holder, or a new row first seen that day.
Holder == IF Live # {} THEN Live ELSE IF Ids = Used THEN {} ELSE {Fresh}

\* load_file(): one transaction.  The COPY has no ON CONFLICT: a bar that is
\* there already undoes the file, and main() gives up.
LoadFile(d) ==
    /\ NextFile(d)
    /\ loaded' = loaded \cup {d}
    /\ IF d \in world.prints
       THEN \E i \in Holder :
                /\ d \notin own[i]
                /\ own' = [own EXCEPT ![i] = @ \cup {d}]
                /\ sec' = [sec EXCEPT ![i].first = IF @ = None THEN d ELSE @]
       ELSE UNCHANGED <<own, sec>>
    /\ Stale
    /\ UNCHANGED <<world, torn, factor, splits, asOf, audit, job, misdated>>

\* The operator copies a torn file from the source drive again.
Recopy(d) ==
    /\ d \in torn
    /\ torn' = torn \ {d}
    /\ UNCHANGED <<world, loaded, sec, own, factor, splits, asOf, audit, job,
                   audited, adjusted, misdated>>

\* load_daily_bars_fmp.py: the first row of securities with the symbol, dead or
\* live, from the day after its last bar on; DO NOTHING on a bar that is there.
LoadFmp(i) ==
    /\ world.held /\ world.carried /\ i \in Used
    /\ LET start == IF own[i] = {} THEN 1 ELSE Max(own[i]) + 1
           new == {d \in world.prints : d >= start /\ d >= world.since}
       IN /\ new # {}
          /\ own' = [own EXCEPT ![i] = @ \cup new]
    /\ Stale
    /\ UNCHANGED <<world, torn, loaded, sec, factor, splits, asOf, audit, job, misdated>>
-----------------------------------------------------------------------------
(* load_delistings.py audit *)

Found == {h \in Row : Hole(h.id, h.last, h.next) /\ Missed(h.last, h.next) >= Floor}

\* NON_TERMINAL_DISPOSITIONS
Unresolved == {"pending_review", "identity_break", "provider_unresolvable", "split_missing"}

\* The rows of price_gap_audit of some dispositions.
Filed(gaps, kinds) ==
    {h \in Row : gaps[h.id][h.last].resume = h.next /\ gaps[h.id][h.last].kind \in kinds}

\* The holes are read into a temporary table first.
AuditRead ==
    /\ job = Idle
    /\ job' = [Idle EXCEPT !.cmd = "audit", !.rows = Found]
    /\ audited' = TRUE
    /\ UNCHANGED <<world, torn, loaded, sec, own, factor, splits, asOf, audit,
                   adjusted, misdated>>

\* Words of the provider that a hole outside the band keeps.
Kept == {"identity_break", "provider_unresolvable", "split_missing", "continuity_confirmed"}

\* Mutant: what stood in the row stays, whatever the ratios say now.
BugFirstWordStands(old, seen) == IF old = "none" THEN seen ELSE old

\* Mutant: a hole whose ratio came back into the band is filed as a halt, even
\* when the operator had accepted it or a splice had closed it.
BugBandWins(old, seen) ==
    IF \/ seen = "halt_consistent" /\ old = "continuity_confirmed"
       \/ seen # "halt_consistent" /\ old \in Kept \cup {"spliced", "halt_accepted"}
    THEN old ELSE seen

\* The disposition a hole gets, given the one it has.
Merged(old, seen) ==
    IF \/ old \in {"spliced", "halt_accepted"}
       \/ seen = "halt_consistent" /\ old = "continuity_confirmed"
       \/ seen # "halt_consistent" /\ old \in Kept
    THEN old ELSE seen

\* The upsert, one transaction.  The ratios were read with the holes; a split
\* is recorded by another run of a tool, so they are what they were.  With
\* --provider the same run goes on to look at the rows of some dispositions.
AuditWrite ==
    /\ job.cmd = "audit"
    /\ audit' = [i \in Ids |-> [s \in Dates |->
          IF \E h \in job.rows : h.id = i /\ h.last = s
          THEN LET r == (CHOOSE h \in job.rows : h.id = i /\ h.last = s).next
                   seen == IF InBand(i, s, r) THEN "halt_consistent"
                           ELSE "pending_review"
               IN [resume |-> r, kind |-> Merged(audit[i][s].kind, seen)]
          ELSE audit[i][s]]]
    /\ \/ job' = Idle
       \/ \E targets \in SUBSET Unresolved \ {{}} :
             job' = [Idle EXCEPT !.cmd = "provider", !.rows = Filed(audit', targets)]
    /\ UNCHANGED <<world, torn, loaded, sec, own, factor, splits, asOf, audited,
                   adjusted, misdated>>

Dispose(i, s, kind) == audit' = [audit EXCEPT ![i][s].kind = kind]

\* What the provider's history of the symbol says of a hole: it speaks for the
\* current holder, on one basis for all of its splits.
Evidence(s, r) ==
    IF ~world.carried THEN "provider_unresolvable"
    ELSE IF world.since > s THEN "identity_break"
    ELSE IF world.move # None /\ s < world.move /\ world.move <= r THEN "continuity_confirmed"
    ELSE "split_missing"

\* _audit_provider_pass(): one row, asked of the provider and then updated.
ProviderAnswers ==
    /\ job.cmd = "provider" /\ job.rows # {}
    /\ \E h \in job.rows :
          /\ \A other \in job.rows : h.last <= other.last
          /\ Dispose(h.id, h.last, Evidence(h.last, h.next))
          /\ job' = [job EXCEPT !.rows = @ \ {h}, !.fails = -1]
    /\ UNCHANGED <<world, torn, loaded, sec, own, factor, splits, asOf, audited,
                   adjusted, misdated>>

\* A lookup fails.  When the first AbortAfter all did the run gives up and
\* records nothing for the last of them.
ProviderFails ==
    /\ job.cmd = "provider" /\ job.rows # {}
    /\ \E h \in job.rows :
          /\ \A other \in job.rows : h.last <= other.last
          /\ IF job.fails + 1 = AbortAfter
             THEN job' = Idle /\ UNCHANGED audit
             ELSE /\ Dispose(h.id, h.last, "provider_unresolvable")
                  /\ job' = [job EXCEPT !.rows = @ \ {h},
                                        !.fails = IF @ < 0 THEN @ ELSE @ + 1]
    /\ UNCHANGED <<world, torn, loaded, sec, own, factor, splits, asOf, audited,
                   adjusted, misdated>>

\* The rows have all been looked at, or none was of these dispositions.
RunEnds ==
    /\ job.cmd \in {"provider", "splice"} /\ job.rows = {}
    /\ job' = Idle
    /\ UNCHANGED <<world, torn, loaded, sec, own, factor, splits, asOf, audit,
                   audited, adjusted, misdated>>
-----------------------------------------------------------------------------
(* load_delistings.py splice *)

\* _splice_from_audit(): the rows of the dispositions asked for.
SpliceBegin ==
    /\ job = Idle
    /\ \E wanted \in SUBSET Unresolved :
          job' = [Idle EXCEPT !.cmd = "splice", !.rows = Filed(audit, wanted)]
    /\ job'.rows # {}
    /\ UNCHANGED <<world, torn, loaded, sec, own, factor, splits, asOf, audit,
                   audited, adjusted, misdated>>

\* The latest hole of an identity first.
NextSplice == {h \in job.rows :
                  \A other \in job.rows : other.id >= h.id /\ (other.id = h.id => other.last <= h.last)}

\* SPLICE_BLOCKING_REFS: scored history refers to the identity.
Referenced(i) == world.held /\ i = 1

\* Mutant: the bar that ends the hole stays with the old identity.
BugLateCut(i, s, r) ==
    LET n == Fresh
        moved == {d \in own[i] : d > r}
    IN /\ sec' = [sec EXCEPT
             ![i].died = s + 1,
             ![n] = [first |-> r, died |-> sec[i].died, typed |-> FALSE]]
       /\ own' = [own EXCEPT ![i] = @ \ moved, ![n] = moved]
       /\ factor' = [factor EXCEPT
             ![i] = [d \in Dates |-> IF d \in moved THEN Unset ELSE @[d]],
             ![n] = [d \in Dates |-> IF d \in moved THEN factor[i][d] ELSE Unset]]
       /\ splits' = [splits EXCEPT ![i] = {}, ![n] = splits[i]]
       /\ Stale

\* _splice_one(), one transaction: the old identity dies at the hole, a new
\* row takes the bars after it, with their factors, and every split.
SpliceOne(i, s, r) ==
    LET n == Fresh
        moved == {d \in own[i] : d >= r}
    IN /\ sec' = [sec EXCEPT
             ![i].died = s + 1,
             ![n] = [first |-> r, died |-> sec[i].died, typed |-> FALSE]]
       /\ own' = [own EXCEPT ![i] = @ \ moved, ![n] = moved]
       /\ factor' = [factor EXCEPT
             ![i] = [d \in Dates |-> IF d \in moved THEN Unset ELSE @[d]],
             ![n] = [d \in Dates |-> IF d \in moved THEN factor[i][d] ELSE Unset]]
       /\ splits' = [splits EXCEPT ![i] = {}, ![n] = splits[i]]
       /\ Stale

\* ck_securities_delisted refuses a death before the row's first day.
MaySplice(i, s) == ~Referenced(i) /\ s + 1 >= sec[i].first

SpliceRow ==
    /\ job.cmd = "splice" /\ Ids # Used
    /\ \E h \in NextSplice :
          /\ {h.last, h.next} \subseteq own[h.id] /\ MaySplice(h.id, h.last)
          /\ SpliceOne(h.id, h.last, h.next)
    /\ job' = [job EXCEPT !.cmd = "mark"]
    /\ UNCHANGED <<world, torn, loaded, asOf, audit, misdated>>

\* The hole is no longer this identity's, or scored history refers to it.
SpliceSkip ==
    /\ job.cmd = "splice"
    /\ \E h \in NextSplice :
          /\ ~({h.last, h.next} \subseteq own[h.id]) \/ Referenced(h.id)
          /\ job' = [job EXCEPT !.rows = @ \ {h}]
    /\ UNCHANGED <<world, torn, loaded, sec, own, factor, splits, asOf, audit,
                   audited, adjusted, misdated>>

\* The constraint's error is not a LoadError: it ends the command.
SpliceRefused ==
    /\ job.cmd = "splice"
    /\ \E h \in NextSplice :
          {h.last, h.next} \subseteq own[h.id] /\ ~Referenced(h.id) /\ h.last + 1 < sec[h.id].first
    /\ job' = Idle
    /\ UNCHANGED <<world, torn, loaded, sec, own, factor, splits, asOf, audit,
                   audited, adjusted, misdated>>

\* The row is marked in a statement of its own, after the splice committed.
SpliceMark ==
    /\ job.cmd = "mark"
    /\ \E h \in NextSplice :
          /\ Dispose(h.id, h.last, "spliced")
          /\ job' = [job EXCEPT !.cmd = "splice", !.rows = @ \ {h}]
    /\ UNCHANGED <<world, torn, loaded, sec, own, factor, splits, asOf, audited,
                   adjusted, misdated>>

\* _splice_by_threshold(): the latest hole longer than MinGap days, whatever the
\* audit says of it; the audit is not told.
SpliceLong(i) ==
    /\ job = Idle /\ Ids # Used
    /\ LET Long(s, r) == Hole(i, s, r) /\ r - s > MinGap
       IN \E s, r \in own[i] :
             /\ Long(s, r) /\ \A x, y \in own[i] : Long(x, y) => x <= s
             /\ MaySplice(i, s)
             /\ SpliceOne(i, s, r)
    /\ UNCHANGED <<world, torn, loaded, asOf, audit, job, misdated>>
-----------------------------------------------------------------------------
(* load_delistings.py infer and fmp *)

HasBars == {i \in Used : own[i] # {}}
LastBar(i) == Max(own[i])
ArchiveEnd == Max(Covered)

\* cmd_infer(): a live identity without a bar in the last sessions is dead.
Infer ==
    /\ job = Idle /\ Covered # {} /\ ArchiveEnd > Confirm
    /\ LET cutoff == ArchiveEnd - Confirm
           dead == {i \in HasBars \cap Live : LastBar(i) < cutoff}
       IN /\ dead # {}
          /\ sec' = [i \in Ids |-> IF i \in dead
                                   THEN [sec[i] EXCEPT !.died = LastBar(i) + 1]
                                   ELSE sec[i]]
    /\ UNCHANGED <<world, torn, loaded, own, factor, splits, asOf, audit, job,
                   audited, adjusted, misdated>>

\* cmd_fmp(): an identity whose last bar lies in the window before a listed
\* date dies on it.  The list comes newest first, so that of two such dates the
\* older stands, and the key may not be entitled to more than its first pages.
Dated(i, since) == {d \in world.delist : /\ d >= since /\ LastBar(i) < d
                                         /\ LastBar(i) >= d - Window}

\* Between an identity's last bar and the date there is a bar of the symbol, or a
\* session whose day file is still to come.
Overreaches(i, died) == \E d \in Dates :
    LastBar(i) < d /\ d < died /\ (d \notin loaded \/ \E j \in Ids : d \in own[j])

DateByFmp(since) ==
    /\ job = Idle /\ Covered # {}
    /\ LET hit == {i \in HasBars : Dated(i, since) # {}}
       IN /\ hit # {}
          /\ sec' = [i \in Ids |-> IF i \in hit
                                   THEN [sec[i] EXCEPT !.died = Min(Dated(i, since))]
                                   ELSE sec[i]]
          /\ misdated' = (misdated \/ \E i \in hit : Overreaches(i, Min(Dated(i, since))))
    /\ UNCHANGED <<world, torn, loaded, own, factor, splits, asOf, audit, job,
                   audited, adjusted>>
-----------------------------------------------------------------------------
(* load_corporate_actions.py *)

\* cmd_fetch() for the live holder: the provider answers for the symbol, splits
\* of the future included.  What it has already recorded it leaves alone.
FetchSplits ==
    /\ job = Idle /\ world.carried /\ world.split # None
    /\ \E i \in HasBars \cap Live :
          /\ world.split \notin splits[i]
          /\ splits' = [splits EXCEPT ![i] = @ \cup {world.split}]
    /\ Stale
    /\ UNCHANGED <<world, torn, loaded, sec, own, factor, asOf, audit, job, misdated>>

\* Mutant: the bound is forgotten.
BugUnbounded(i, d, to) == {x \in splits[i] : d < x}

\* split_factor_between(): the splits after a bar, up to the bound.
Between(i, d, to) == {x \in splits[i] : d < x /\ x <= to}

\* One statement over the identities given: the bars that have a factor, and
\* every bar of an identity with a split.
Refactored(ids) ==
    [i \in Ids |-> [d \in Dates |->
        IF i \in ids /\ d \in own[i] /\ (splits[i] # {} \/ factor[i][d] # Unset)
        THEN Between(i, d, job.to)
        ELSE factor[i][d]]]

\* cmd_adjust() reads the archive's end and records it as the bound before it
\* writes a factor.
AdjustBegin ==
    /\ job = Idle /\ Covered # {} /\ UNION {own[i] : i \in Ids} # {}
    /\ asOf' = ArchiveEnd
    /\ job' = [Idle EXCEPT !.cmd = "refactor", !.to = ArchiveEnd]
    /\ adjusted' = TRUE
    /\ UNCHANGED <<world, torn, loaded, sec, own, factor, splits, audit, audited, misdated>>

\* Three statements, each committed on its own: the identities with a split,
\* those that lost theirs, and the bars that have no factor yet.
AdjustRefactor ==
    /\ job.cmd = "refactor"
    /\ factor' = Refactored({i \in Ids : splits[i] # {}})
    /\ job' = [job EXCEPT !.cmd = "reset"]
    /\ UNCHANGED <<world, torn, loaded, sec, own, splits, asOf, audit, audited,
                   adjusted, misdated>>

AdjustReset ==
    /\ job.cmd = "reset"
    /\ factor' = Refactored({i \in Ids : splits[i] = {}})
    /\ job' = [job EXCEPT !.cmd = "fill"]
    /\ UNCHANGED <<world, torn, loaded, sec, own, splits, asOf, audit, audited,
                   adjusted, misdated>>

AdjustFill ==
    /\ job.cmd = "fill"
    /\ factor' = [i \in Ids |-> [d \in Dates |->
          IF d \in own[i] /\ factor[i][d] = Unset THEN {} ELSE factor[i][d]]]
    /\ job' = Idle
    /\ UNCHANGED <<world, torn, loaded, sec, own, splits, asOf, audit, audited,
                   adjusted, misdated>>
-----------------------------------------------------------------------------
(* load_instrument_types.py, the operator and the end of a process *)

\* cmd_classify(): every row gets the type its symbol and the lists give it.
Classify ==
    /\ job = Idle /\ \E i \in Used : ~sec[i].typed
    /\ sec' = [i \in Ids |-> [sec[i] EXCEPT !.typed = i \in Used]]
    /\ UNCHANGED <<world, torn, loaded, own, factor, splits, asOf, audit, job,
                   audited, adjusted, misdated>>

\* cmd_disposition(): a hole nobody can speak for, of an instrument whose form
\* is known and is not common stock or an ETF, needs no further answer.
CloseByForm ==
    /\ job = Idle /\ ~world.common
    /\ \E i \in Used, s \in Dates :
          sec[i].typed /\ audit[i][s].kind = "provider_unresolvable"
    /\ audit' = [i \in Ids |-> [s \in Dates |->
          IF sec[i].typed /\ audit[i][s].kind = "provider_unresolvable"
          THEN [audit[i][s] EXCEPT !.kind = "non_common_instrument"]
          ELSE audit[i][s]]]
    /\ UNCHANGED <<world, torn, loaded, sec, own, factor, splits, asOf, job,
                   audited, adjusted, misdated>>

\* The operator accepts a hole as a halt, by hand, at any time.
Accept(i, s) ==
    /\ audit[i][s].kind \in NonTerminal
    /\ Dispose(i, s, "halt_accepted")
    /\ UNCHANGED <<world, torn, loaded, sec, own, factor, splits, asOf, job,
                   audited, adjusted, misdated>>

\* A tool is killed between two transactions; what it had read is lost.
Killed ==
    /\ job # Idle
    /\ job' = Idle
    /\ audited' = (audited /\ job.cmd # "audit")
    /\ adjusted' = (adjusted /\ job.cmd \notin {"refactor", "reset", "fill"})
    /\ UNCHANGED <<world, torn, loaded, sec, own, factor, splits, asOf, audit, misdated>>

Next ==
    \/ \E d \in Dates : LoadFile(d) \/ Recopy(d) \/ DateByFmp(d)
    \/ \E i \in Ids : LoadFmp(i) \/ SpliceLong(i)
    \/ AuditRead \/ AuditWrite \/ ProviderAnswers \/ ProviderFails \/ RunEnds
    \/ SpliceBegin \/ SpliceRow \/ SpliceSkip \/ SpliceRefused \/ SpliceMark
    \/ Infer \/ FetchSplits
    \/ AdjustBegin \/ AdjustRefactor \/ AdjustReset \/ AdjustFill
    \/ Classify \/ CloseByForm \/ Killed
    \/ \E i \in Ids, s \in Dates : Accept(i, s)

Spec == Init /\ [][Next]_vars
-----------------------------------------------------------------------------
(* Properties *)

AliveOn(i, d) == i \in Used /\ sec[i].first <= d /\ (sec[i].died = None \/ d < sec[i].died)

\* The comment over uq_securities_symbol_live (001_core_schema.up.sql:153):
\* a symbol and a date lead to one identity, and it is the one whose series
\* holds that date's bar.
AsOfDateResolves ==
    \A d \in Dates : \A i \in Ids :
        d \in own[i] => \A j \in Ids : AliveOn(j, d) <=> j = i

\* The day files are all readable when their turn comes, and the nightly loader
\* does not ask for the symbol.
Orderly == world.torn = {} /\ ~world.held

\* Then that holds, through any splices, inferences and datings, as long as no
\* date of FMP's reaches past a session that is not loaded or a bar of a later
\* holder.
OrderlyDatesResolve == Orderly /\ ~misdated => AsOfDateResolves

\* A stored factor never contains a split that lies after the recorded bound or
\* before its own bar, at no point of an adjust and after no crash: the
\* lookahead that 007 was written to remove (load_corporate_actions.py:454).
NoLookahead ==
    \A i \in Ids : \A d \in own[i] :
        factor[i][d] # Unset => \A x \in factor[i][d] : d < x /\ x <= asOf

\* Once an adjust has run to its end with no bar and no split changing since it
\* began, every bar carries exactly the splits of its own identity: checks 5 of
\* verify_daily_series.py pass.
AdjustedIsRight ==
    adjusted /\ job.cmd \notin {"refactor", "reset", "fill"} =>
        \A i \in Ids : \A d \in own[i] : factor[i][d] = Between(i, d, asOf)

\* Once an audit has written what it read and no bar or split changed since,
\* every hole has its row, a hole outside the band is not filed as a halt and
\* one inside it is not waiting for anybody (load_delistings.py:286).
AuditSeesAll ==
    audited /\ job.cmd # "audit" =>
        \A h \in Found : LET gap == audit[h.id][h.last] IN
            /\ gap.resume = h.next
            /\ IF InBand(h.id, h.last, h.next)
               THEN gap.kind \notin {"pending_review", "none"}
               ELSE gap.kind \notin {"halt_consistent", "none"}

\* A row says 'spliced' only of an identity that really ends at the hole, even
\* after crashes, skipped rows and later loads.
SplicedMeansSplit ==
    Orderly =>
        \A i \in Ids : \A s \in Dates :
            audit[i][s].kind = "spliced" => Bars(i, s + 1, Last) = {}

\* "The hole must still exist as recorded" (load_delistings.py:612): once a splice
\* has committed, the old identity has no bar after the hole.
SpliceEndsSeries ==
    job.cmd = "mark" => \A h \in NextSplice : Bars(h.id, h.last + 1, Last) = {}

\* The parts that are checked together: no factor looks ahead, an adjust that
\* ran undisturbed is right, and what is said to be spliced is split.
Inv == TypeOK /\ NoLookahead /\ AdjustedIsRight /\ SplicedMeansSplit

\* An operator's decision, or a finished splice, is overwritten by nobody but a
\* run that had picked the row up before it was made.
DecisionsStand ==
    [][\A i \in Ids : \A s \in Dates :
          /\ audit[i][s].kind \in {"halt_accepted", "spliced"}
          /\ audit'[i][s].kind # audit[i][s].kind
          => /\ [id |-> i, last |-> s, next |-> audit[i][s].resume] \in job.rows
             /\ job.cmd \in {"provider", "mark"}]_vars
=============================================================================
