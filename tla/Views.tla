--------------------------------- MODULE Views ---------------------------------
(***************************************************************************)
(* What the pages say of the book.                                         *)
(*                                                                         *)
(* GET /api/account, /api/data-trust and /api/reconciliation (which the    *)
(* scheduled cycle calls as well) each run in a thread of their own: they  *)
(* read the account through a cache of a few seconds (services/broker.py), *)
(* price it through a cache of quotes that survives the vendor's failures  *)
(* (services/marks.py), value it (services/valuation.py), and the last one *)
(* sets it against the documented slate (services/slate.py).               *)
(*                                                                         *)
(* Time is kept as ages, in ticks, that stop growing once they make no     *)
(* difference: nothing else is bounded.  A price is worth 1; what matters  *)
(* of it is whether there is one, and when the vendor was asked.           *)
(***************************************************************************)
EXTENDS Integers, FiniteSets, FiniteSetsExt, TLC

CONSTANTS
    Readers,     \* the threads of the pages
    Asks,        \* what they may be asked: <<reader, "page" or "recon", account>>
    Accounts, Default,
    Credentials, \* the sets of accounts that may have a whole credential
    Syms,        \* the names an account may hold
    Books,       \* account a -> the books it may hold: [shares, cash]
    Fills,       \* the orders that may be filled: <<book, book>>
    Plans,       \* slates: [force, target], target from names to percent
    Slates,      \* account -> its slate on the first day, None without one
    Edits,       \* what the owner may make of a slate: <<plan, plan>>
    SnapTtl,     \* _CACHE_TTL_SECONDS
    MarksTtl,    \* marks_ttl_seconds
    Backoff,     \* _RETRY_BACKOFF_SECONDS
    MaxStale,    \* _MAX_STALE_SECONDS
    FileMaxAge,  \* snapshot_max_age_seconds
    MaxFetch,    \* how long one read of broker or vendor may take
    MaxSlow,     \* bound: ticks that pass while a read is under way
    Tolerance, CashBand, MaxPosition, OffFactor, OffFloor,
    None

ASSUME TicksAreCounts == {SnapTtl, MarksTtl, Backoff, MaxStale, FileMaxAge} \subseteq Nat \ {0}
ASSUME FetchTakesTime == MaxFetch \in Nat /\ MaxSlow \in Nat
ASSUME DefaultIsAnAccount == Default \in Accounts
ASSUME CredentialsAreAccounts == Credentials \subseteq SUBSET Accounts
ASSUME FillsAndEditsFit ==
    /\ \A a \in Accounts, f \in Fills : f[1] \in Books[a] => f[2] \in Books[a]
    /\ Slates \subseteq [Accounts -> Plans \cup {None}]
    /\ \A e \in Edits : e[2] \in Plans \cup {None}
ASSUME NoneIsNull ==
    None \notin Nat /\ None \notin {"ok", "recon"} /\ None \notin [at : Nat, read : Nat]

VARIABLES
    configured,  \* the accounts with a whole credential
    broker,      \* account -> its book
    doc,         \* account -> its slate, None without one
    file,        \* data/account_snapshot.json, of the default account
    writer,      \* bin/alpaca_snapshot.py between its two reads
    snaps,       \* broker._cache: account -> snapshot, None once too old to use
    marks,       \* marks._CACHE: name -> ages of its price, None once too old to serve
    failed,      \* marks._FAILED_AT: name -> age, None once the backoff is over
    good, tried, \* name -> age of the last price that arrived, of the last failure
    reader,      \* the requests
    slow         \* ticks that passed while a read was under way

caches == <<snaps, marks, failed, good, tried>>
outside == <<configured, broker, doc, file, writer>>
vars == <<outside, caches, reader, slow>>

NoRequest == [pc |-> "idle", kind |-> None, acct |-> None, plan |-> None, of |-> None,
              snap |-> None, todo |-> {}, marks |-> <<>>, got |-> None, t |-> 0, res |-> None]

Init ==
    /\ configured \in Credentials
    /\ broker \in [Accounts -> UNION {Books[a] : a \in Accounts}]
    /\ \A a \in Accounts : broker[a] \in Books[a]
    /\ doc \in Slates
    /\ file = None /\ writer = None
    /\ snaps = [a \in Accounts |-> None]
    /\ marks = [s \in Syms |-> None] /\ failed = [s \in Syms |-> None]
    /\ good = [s \in Syms |-> None] /\ tried = [s \in Syms |-> None]
    /\ reader = [r \in Readers |-> NoRequest] /\ slow = 0
-----------------------------------------------------------------------------
(* What happens outside. *)

Fill(a, f) ==
    /\ broker[a] = f[1] /\ broker' = [broker EXCEPT ![a] = f[2]]
    /\ UNCHANGED <<configured, doc, file, writer, caches, reader, slow>>

Edit(a, e) ==
    /\ doc[a] = e[1] /\ doc' = [doc EXCEPT ![a] = e[2]]
    /\ UNCHANGED <<configured, broker, file, writer, caches, reader, slow>>

\* bin/alpaca_snapshot.py asks for the account, then for the positions; without an
\* answer the old file stays.
WriterReads ==
    /\ writer = None /\ Default \notin configured
    /\ writer' = broker[Default].cash
    /\ UNCHANGED <<configured, broker, doc, file, caches, reader, slow>>

WriterWrites ==
    /\ writer # None /\ writer' = None
    /\ file' \in {file, [acct |-> Default, shares |-> broker[Default].shares, cash |-> writer,
                         at |-> 0, read |-> 0, src |-> "file"]}
    /\ UNCHANGED <<configured, broker, doc, caches, reader, slow>>

Older(x, cap) == IF x < cap THEN x + 1 ELSE x

Expired(x, limit) == IF x = None \/ x + 1 >= limit THEN None ELSE x + 1

\* An entry of a cache, by the time it was stored and by the time it was asked for.
Aged(e, limit) ==
    IF e = None \/ e.at + 1 >= limit THEN None ELSE [e EXCEPT !.at = @ + 1, !.read = @ + 1]

At(r, pc) == reader[r].pc = pc

\* The threads that wait for an answer from outside.
Waiting == {"cash", "shares", "store", "quote", "keep"}

\* A tick.  A read that takes longer than MaxFetch has been given up.
Tick ==
    /\ writer = None
    /\ \A r \in Readers : At(r, "idle") \/ (reader[r].pc \in Waiting /\ reader[r].t < MaxFetch)
    /\ slow' = IF \A r \in Readers : At(r, "idle") THEN slow ELSE slow + 1
    /\ slow' <= MaxSlow
    /\ file' = IF file = None THEN None ELSE [file EXCEPT !.at = Older(@, FileMaxAge + 1), !.read = Older(@, FileMaxAge + 1)]
    /\ snaps' = [a \in Accounts |-> Aged(snaps[a], SnapTtl)]
    /\ marks' = [s \in Syms |-> Aged(marks[s], MaxStale + 1)]
    /\ failed' = [s \in Syms |-> Expired(failed[s], Backoff)]
    /\ good' = [s \in Syms |-> Expired(good[s], MaxStale + 1)]
    /\ tried' = [s \in Syms |-> Expired(tried[s], Backoff)]
    /\ reader' = [r \in Readers |-> IF At(r, "idle") THEN reader[r] ELSE [reader[r] EXCEPT !.t = @ + 1]]
    /\ UNCHANGED <<configured, broker, doc, writer>>
-----------------------------------------------------------------------------
(* A request, and the account. *)

Set(r, rec) == reader' = [reader EXCEPT ![r] = rec]

Ended(q, res) == [q EXCEPT !.pc = "done", !.res = res]

\* slate_path_for(): whose document governs the account.
SlateOf(a) == a

\* No slate, or one that is not in force: nothing is compared, by design.
SlateStatus(r, a) ==
    LET q == [NoRequest EXCEPT !.kind = "recon", !.acct = a, !.of = SlateOf(a)]
        d == doc[SlateOf(a)]
    IN  /\ At(r, "idle") /\ <<r, "recon", a>> \in Asks
        /\ Set(r, IF d = None \/ ~d.force THEN Ended(q, "by design") ELSE [q EXCEPT !.pc = "rows"])
        /\ UNCHANGED <<outside, slow, caches>>

\* load_slate() opens the document again.
SlateRows(r) ==
    LET q == reader[r] IN
    /\ At(r, "rows")
    /\ Set(r, IF doc[q.of] = None THEN Ended(q, "failed")
              ELSE [q EXCEPT !.pc = "account", !.plan = doc[q.of].target])
    /\ UNCHANGED <<outside, slow, caches>>

\* load_snapshot(): the file, of the default account only.
FileRead(q) ==
    IF q.acct # Default \/ file = None THEN Ended(q, "failed")
    ELSE [q EXCEPT !.pc = "marks", !.snap = file]

\* get_snapshot(): the file without a credential, the cache, or else the broker.
SnapCheck(r, q) ==
    /\ Set(r, IF q.acct \notin configured THEN FileRead(q)
              ELSE IF snaps[q.acct] # None THEN [q EXCEPT !.pc = "marks", !.snap = snaps[q.acct]]
              ELSE [q EXCEPT !.pc = "cash", !.t = 0])
    /\ UNCHANGED <<outside, slow, caches>>

\* The pages begin with the account, the reconciliation comes to it.
Page(r, a) ==
    /\ At(r, "idle") /\ <<r, "page", a>> \in Asks
    /\ SnapCheck(r, [NoRequest EXCEPT !.kind = "page", !.acct = a])

ReconAccount(r) == At(r, "account") /\ SnapCheck(r, reader[r])

SnapFails(r) ==
    /\ reader[r].pc \in {"cash", "shares"} /\ Set(r, Ended(reader[r], "failed"))
    /\ UNCHANGED <<outside, slow, caches>>

\* fetch_snapshot(): the account first, the positions in a second call.
CashRead(r) ==
    /\ At(r, "cash")
    /\ Set(r, [reader[r] EXCEPT !.pc = "shares", !.got = broker[reader[r].acct].cash])
    /\ UNCHANGED <<outside, slow, caches>>

SharesRead(r) ==
    LET q == reader[r] IN
    /\ At(r, "shares")
    /\ Set(r, [q EXCEPT !.pc = "store", !.got = None,
                 !.snap = [acct |-> q.acct, shares |-> broker[q.acct].shares, cash |-> q.got,
                           at |-> 0, read |-> 0, src |-> "broker"]])
    /\ UNCHANGED <<outside, slow, caches>>

\* Mutant: one entry for all the accounts.
BugUnkeyed(a, snap) == snaps' = [x \in Accounts |-> snap]

\* The cache is keyed by account.
Keyed(a, snap) == snaps' = [snaps EXCEPT ![a] = snap]

\* Whoever comes last is cached, however old its answer is.
SnapStore(r) ==
    LET q == reader[r]
        snap == [q.snap EXCEPT !.read = q.t]
    IN  /\ At(r, "store")
        /\ Keyed(q.acct, snap)
        /\ Set(r, [q EXCEPT !.pc = "marks", !.snap = snap])
        /\ UNCHANGED <<outside, slow, marks, failed, good, tried>>
-----------------------------------------------------------------------------
(* The prices. *)

Held(snap) == {s \in Syms : snap.shares[s] > 0}

\* The last price, if it may still be served.
StaleOrNothing(s) ==
    IF marks[s] = None
    THEN [priced |-> FALSE, stale |-> FALSE, read |-> None, good |-> good[s], tried |-> tried[s]]
    ELSE [priced |-> TRUE, stale |-> TRUE, read |-> marks[s].read, good |-> None, tried |-> tried[s]]

Fresh(s) == marks[s] # None /\ marks[s].at < MarksTtl

\* Mutant: a request inside the backoff starts it again.
BugSlides(asked) == failed' = [s \in Syms |-> IF s \in asked /\ failed[s] # None THEN 0 ELSE failed[s]]

\* A request inside the backoff leaves it as it is.
Backs(asked) == UNCHANGED failed

\* On to the next name, or to the answer.
Onward(q) ==
    IF q.todo = {} THEN Ended([q EXCEPT !.got = None, !.t = 0], "ok")
    ELSE [q EXCEPT !.pc = "quote", !.got = None, !.t = 0]

\* get_marks_detailed(), under the lock: what can be served, and what to fetch.
MarksCheck(r) ==
    LET q == reader[r]
        held == Held(q.snap)
        todo == {s \in held : ~Fresh(s) /\ failed[s] = None}
        served == [s \in held \ todo |->
                     IF Fresh(s) THEN [priced |-> TRUE, stale |-> FALSE, read |-> marks[s].read, good |-> None, tried |-> None]
                     ELSE StaleOrNothing(s)]
    IN  /\ At(r, "marks")
        /\ Backs({s \in held : ~Fresh(s)})
        /\ Set(r, Onward([q EXCEPT !.marks = served, !.todo = todo]))
        /\ UNCHANGED <<outside, slow, snaps, marks, good, tried>>

\* _fetch_one(), outside the lock, for one name: the vendor answers, or the call or
\* the budget for it refuses.
Quote(r) ==
    LET q == reader[r] IN
    /\ At(r, "quote")
    /\ \E ok \in BOOLEAN :
          Set(r, [q EXCEPT !.pc = "keep", !.got = [sym |-> CHOOSE s \in q.todo : TRUE, ok |-> ok]])
    /\ UNCHANGED <<outside, slow, caches>>

\* Mutant: a failure is stored over the price, as the version before did.
BugOverwrites(s) == marks' = [marks EXCEPT ![s] = None]

\* A failure leaves the price there was.
KeptOnFailure(s) == UNCHANGED marks

\* The answer is stored; the page gets it, or what was known before.
QuoteKept(r) ==
    LET q == reader[r]
        s == q.got.sym
        mark == IF q.got.ok THEN [priced |-> TRUE, stale |-> FALSE, read |-> q.t, good |-> None, tried |-> None]
                ELSE [StaleOrNothing(s) EXCEPT !.tried = 0]
    IN  /\ At(r, "keep")
        /\ IF q.got.ok
           THEN /\ marks' = [marks EXCEPT ![s] = [at |-> 0, read |-> q.t]]
                /\ failed' = [failed EXCEPT ![s] = None]
                /\ good' = [good EXCEPT ![s] = 0] /\ UNCHANGED tried
           ELSE /\ KeptOnFailure(s)
                /\ failed' = [failed EXCEPT ![s] = 0]
                /\ tried' = [tried EXCEPT ![s] = 0] /\ UNCHANGED good
        /\ Set(r, Onward([q EXCEPT !.marks = [x \in DOMAIN @ \cup {s} |-> IF x = s THEN mark ELSE @[x]],
                                 !.todo = @ \ {s}]))
        /\ UNCHANGED <<outside, slow, snaps>>

Return(r) ==
    /\ At(r, "done") /\ Set(r, NoRequest)
    /\ UNCHANGED <<outside, slow, caches>>
-----------------------------------------------------------------------------
(* What is said: the pages, from the snapshot and the prices of the request. *)

Priced(q) == {s \in DOMAIN q.marks : q.marks[s].priced}

\* get_marks() and the account page: a price is a price, however old.
StalePrices(q) == \E s \in Held(q.snap) : s \notin Priced(q)

\* data_trust: the names priced from a cache the vendor would not refresh.
StalePriced(q) == {s \in DOMAIN q.marks : q.marks[s].stale}

\* account_totals(): the priced positions and the cash.
Worth(q, names) == MapThenSumSet(LAMBDA s : q.snap.shares[s], names)
Value(q) == Worth(q, Priced(q)) + q.snap.cash

\* weight_pct(): a share of the whole, known when there is a whole.
Weighed(q) == {s \in Priced(q) : Value(q) > 0}
Weight(q, n) == IF Value(q) > 0 THEN (100 * n) \div Value(q) ELSE 0

Near(q, s) == Weight(q, q.snap.shares[s]) - q.plan[s] \in (-Tolerance)..Tolerance

\* A target is met by a holding whose weight is known and close to it.
Matched(q, s) == s \in Weighed(q) /\ Near(q, s)

\* The rows of the reconciliation.
Missing(q) == DOMAIN q.plan \ Held(q.snap)
Drifted(q) == {s \in DOMAIN q.plan \cap Held(q.snap) : ~Matched(q, s)}
Unexpected(q) == Held(q.snap) \ DOMAIN q.plan

\* _run_checks(): the rules that weights decide; the stop needs what was paid.
Breaches(q) ==
    LET off == OffFactor \cap Held(q.snap) IN
    {c \in {"position", "cash", "off-factor"} :
        CASE c = "position" -> \E s \in Weighed(q) : Weight(q, q.snap.shares[s]) > MaxPosition
          [] c = "cash" -> Weight(q, q.snap.cash) \notin CashBand
          [] OTHER -> off \subseteq Weighed(q) /\ Weight(q, Worth(q, off)) < OffFloor}

\* reconcile_check.run(): what the cycle records.
InSync(q) == Missing(q) \cup Drifted(q) \cup Unexpected(q) \cup Breaches(q) = {}

\* is_stale(); what the cache still serves is far younger than the limit.
SnapshotStale(q) == q.snap.at > FileMaxAge
-----------------------------------------------------------------------------
\* What is complete is returned before anything else happens: nothing but its own
\* thread ever looks at it.
Next ==
    \/ \E r \in Readers : Return(r)
    \/ /\ \A r \in Readers : ~At(r, "done")
       /\ \/ \E a \in Accounts, f \in Fills : Fill(a, f)
          \/ \E a \in Accounts, e \in Edits : Edit(a, e)
          \/ WriterReads \/ WriterWrites \/ Tick
          \/ \E r \in Readers, a \in Accounts : SlateStatus(r, a) \/ Page(r, a)
          \/ \E r \in Readers :
                \/ SlateRows(r) \/ ReconAccount(r)
                \/ SnapFails(r) \/ CashRead(r) \/ SharesRead(r) \/ SnapStore(r)
                \/ MarksCheck(r) \/ Quote(r) \/ QuoteKept(r)

Spec == Init /\ [][Next]_vars
-----------------------------------------------------------------------------
TypeOK ==
    /\ configured \subseteq Accounts
    /\ \A a \in Accounts : broker[a] \in Books[a] /\ doc[a] \in Plans \cup {None}
    /\ \A a \in Accounts : snaps[a] # None => snaps[a].at < SnapTtl
    /\ \A s \in Syms : marks[s] # None => marks[s].at \in 0..MaxStale
    /\ \A s \in Syms : failed[s] \in {None} \cup 0..(Backoff - 1)
    /\ \A r \in Readers : reader[r].pc \in Waiting \cup {"idle", "rows", "account", "marks", "done"}
    /\ \A r \in Readers : reader[r].t \in 0..MaxFetch /\ reader[r].todo \subseteq Syms

Answers == {reader[r] : r \in {x \in Readers : reader[x].res = "ok"}}

\* Every number is of the account that was asked for, and it is judged by that
\* account's own slate or not at all (broker.py:60-65, slate.py:85-100).
OwnBook ==
    \A q \in Answers : q.snap.acct = q.acct /\ (q.kind = "recon" => q.of = q.acct)

\* A price that is not listed as stale, and an account that is not flagged, were
\* asked for within the time to live and the length of one read, also when an
\* older read came back after a newer one; no price is older than MaxStale.  Ages
\* are those at the look-up, as in the code: while the next name is fetched what the
\* request has already looked up gets no older.
AgesAreHonest ==
    \A q \in Answers :
        /\ ~SnapshotStale(q) => q.snap.read <= (IF q.snap.src = "file" THEN FileMaxAge ELSE SnapTtl - 1 + MaxFetch)
        /\ \A s \in Priced(q) : q.marks[s].read <= MaxStale + MaxFetch
        /\ \A s \in Priced(q) \ StalePriced(q) :
              q.marks[s].read <= (IF MarksTtl - 1 > 0 THEN MarksTtl - 1 ELSE 0) + MaxFetch

\* "In sync" is said of a book that was wholly priced: every holding is a target
\* near its weight of all that is held and the cash, and every target is held
\* (reconciliation.py:255-262, reconcile_check.py:80-88).
InSyncIsMeasured ==
    \A q \in Answers : q.kind = "recon" /\ InSync(q) =>
        /\ Priced(q) = DOMAIN q.plan /\ ~StalePrices(q)
        /\ LET whole == Worth(q, Held(q.snap)) + q.snap.cash
           IN  \A s \in Held(q.snap) : whole > 0 /\
                 (100 * q.snap.shares[s]) \div whole - q.plan[s] \in (-Tolerance)..Tolerance

\* The parts that are checked together: whose numbers, how old, how complete.
Inv == TypeOK /\ OwnBook /\ AgesAreHonest /\ InSyncIsMeasured

\* A name is without a price only if none arrived for MaxStale, whatever fetches
\* failed since and whichever thread they belonged to (marks.py:44-51).
NothingIsForgotten ==
    \A q \in Answers : \A s \in DOMAIN q.marks :
        ~q.marks[s].priced => q.marks[s].good = None

\* A name is stale or without a price only if a fetch of it failed less than the
\* backoff before: no number of requests in between puts the next try off
\* (marks.py:58-61, 118-127).
OnlyFailuresHoldBack ==
    \A q \in Answers : \A s \in DOMAIN q.marks :
        q.marks[s].stale \/ ~q.marks[s].priced => q.marks[s].tried # None
=============================================================================
