----------------------------- MODULE ViewsProofs -----------------------------
(***************************************************************************)
(* Proofs about Views for every number of threads, accounts and names, and *)
(* whatever is slow, fails or comes late: every number is of the account   *)
(* that was asked for, ages are true, agreement was measured, a price      *)
(* outlives the failures that follow it, and only a failure delays the     *)
(* next try.                                                               *)
(***************************************************************************)
EXTENDS Views, TLAPS

-----------------------------------------------------------------------------
(* The inductive invariant                                                 *)

IsSnapshot(e) == e = [acct |-> e.acct, shares |-> e.shares, cash |-> e.cash,
                      at |-> e.at, read |-> e.read, src |-> e.src]

\* An entry of the cache of accounts: asked for at most one read before it was
\* stored.
Cached(e, a) ==
    /\ IsSnapshot(e) /\ e.acct = a /\ e.src = "broker"
    /\ e.at \in 0..(SnapTtl - 1) /\ e.read \in Nat /\ e.read <= e.at + MaxFetch

FromFile(e) ==
    /\ IsSnapshot(e) /\ e.acct = Default /\ e.src = "file"
    /\ e.at \in Nat /\ e.read = e.at

\* The snapshot a request works with.
Taken(e, a) ==
    /\ IsSnapshot(e) /\ e.acct = a /\ e.at \in Nat /\ e.read \in Nat
    /\ \/ e.src = "file" /\ e.read = e.at
       \/ e.src = "broker" /\ e.read <= SnapTtl - 1 + MaxFetch

\* A price is cached while it is good to serve, and a name is held back only by
\* a failure of its own.
PriceInv(mark, fail, came, try) ==
    /\ mark # None => mark \in [at : 0..MaxStale, read : Nat] /\ mark.read <= mark.at + MaxFetch
    /\ came # None => mark # None /\ came = mark.at
    /\ fail # None => fail \in 0..(Backoff - 1) /\ try = fail

\* What a request says of a name.
MarkOk(m) ==
    /\ m.priced => m.read \in Nat /\ m.read <= MaxStale + MaxFetch
    /\ m.priced /\ ~m.stale => m.read <= MarksTtl - 1 + MaxFetch
    /\ ~m.priced => m.good = None
    /\ m.stale \/ ~m.priced => m.tried # None

IsRequest(q) == DOMAIN q = {"pc", "kind", "acct", "plan", "of", "snap", "todo", "marks", "got",
                            "t", "res"}

\* A request: whose numbers it has, and what it has said of the names so far.
RequestInv(q) ==
    /\ IsRequest(q)
    /\ q.pc \in Waiting \cup {"idle", "rows", "account", "marks", "done"}
    /\ q.t \in 0..MaxFetch /\ q.todo \subseteq Syms
    /\ q.res = "ok" => q.pc = "done"
    /\ q.kind = "recon" => q.of = q.acct
    /\ q.pc # "idle" => q.acct \in Accounts
    /\ q.pc \in {"store", "marks", "quote", "keep"} \/ q.res = "ok" => Taken(q.snap, q.acct)
    /\ q.pc = "store" => q.snap.at = 0 /\ q.snap.src = "broker"
    /\ q.pc \in {"quote", "keep"} \/ q.res = "ok" =>
         /\ DOMAIN q.marks \subseteq Held(q.snap)
         /\ \A s \in DOMAIN q.marks : MarkOk(q.marks[s])
    /\ q.pc \in {"quote", "keep"} => q.todo \subseteq Held(q.snap) /\ q.todo # {}
    /\ q.pc = "keep" => q.got.sym \in q.todo

CachesInv ==
    /\ snaps = [a \in Accounts |-> snaps[a]]
    /\ marks = [s \in Syms |-> marks[s]] /\ failed = [s \in Syms |-> failed[s]]
    /\ good = [s \in Syms |-> good[s]] /\ tried = [s \in Syms |-> tried[s]]
    /\ \A a \in Accounts : snaps[a] # None => Cached(snaps[a], a)
    /\ \A s \in Syms : PriceInv(marks[s], failed[s], good[s], tried[s])

OutsideInv ==
    /\ configured \subseteq Accounts
    /\ broker = [a \in Accounts |-> broker[a]] /\ doc = [a \in Accounts |-> doc[a]]
    /\ \A a \in Accounts : broker[a] \in Books[a] /\ doc[a] \in Plans \cup {None}
    /\ file # None => FromFile(file)

ReadersInv ==
    /\ reader = [r \in Readers |-> reader[r]]
    /\ \A r \in Readers : RequestInv(reader[r])

\* The strengthening of Inv, NothingIsForgotten and OnlyFailuresHoldBack that
\* the steps preserve.
IInv == OutsideInv /\ CachesInv /\ ReadersInv
-----------------------------------------------------------------------------
(* What a step leaves alone                                                *)

LEMMA InvInit == Init => IInv
<1> SUFFICES ASSUME Init PROVE IInv
  OBVIOUS
<1>1. OutsideInv
  <2>1. configured \subseteq Accounts /\ file = None
    BY CredentialsAreAccounts DEF Init
  <2>2. /\ broker = [a \in Accounts |-> broker[a]] /\ doc = [a \in Accounts |-> doc[a]]
        /\ \A a \in Accounts : broker[a] \in Books[a] /\ doc[a] \in Plans \cup {None}
    BY FillsAndEditsFit DEF Init
  <2> QED BY <2>1, <2>2 DEF OutsideInv
<1>2. CachesInv
  BY DEF Init, CachesInv, PriceInv
<1>3. RequestInv(NoRequest)
  <2>1. 0 \in 0..MaxFetch /\ None # "ok" /\ None # "recon"
    BY FetchTakesTime, NoneIsNull
  <2> QED BY <2>1 DEF RequestInv, IsRequest, NoRequest, Waiting
<1>4. ReadersInv
  BY <1>3 DEF Init, ReadersInv
<1> QED BY <1>1, <1>2, <1>4 DEF IInv

\* A step of one request, beside what it does to the caches.
LEMMA OneReader ==
    ASSUME IInv, NEW r \in Readers, NEW q, Set(r, q), RequestInv(q),
           UNCHANGED outside, CachesInv'
    PROVE  IInv'
<1>1. /\ configured' = configured /\ broker' = broker /\ doc' = doc /\ file' = file
      /\ reader' = [reader EXCEPT ![r] = q]
  BY DEF outside, Set
<1>2. OutsideInv'
  BY <1>1 DEF IInv, OutsideInv
<1>3. ReadersInv'
  BY <1>1 DEF IInv, ReadersInv
<1> QED BY <1>2, <1>3 DEF IInv

LEMMA CachesStay == ASSUME CachesInv, UNCHANGED caches PROVE CachesInv'
<1>1. /\ snaps' = snaps /\ marks' = marks /\ failed' = failed /\ good' = good
      /\ tried' = tried
  BY DEF caches
<1> QED BY <1>1 DEF CachesInv

LEMMA QuietReader ==
    ASSUME IInv, NEW r \in Readers, NEW q, Set(r, q), RequestInv(q),
           UNCHANGED <<outside, slow, caches>>
    PROVE  IInv'
<1>1. UNCHANGED outside /\ UNCHANGED caches
  OBVIOUS
<1>2. CachesInv'
  BY <1>1, CachesStay DEF IInv
<1> QED BY <1>1, <1>2, OneReader

\* A step of the world outside, which the caches and the requests do not see.
LEMMA OutsideStep ==
    ASSUME IInv, OutsideInv', UNCHANGED <<caches, reader>> PROVE IInv'
<1>1. UNCHANGED caches /\ reader' = reader
  OBVIOUS
<1>2. CachesInv'
  BY <1>1, CachesStay DEF IInv
<1>3. ReadersInv'
  BY <1>1 DEF IInv, ReadersInv
<1> QED BY <1>2, <1>3 DEF IInv

LEMMA FillStep ==
    ASSUME IInv, NEW a \in Accounts, NEW f \in Fills, Fill(a, f) PROVE IInv'
<1>1. /\ broker[a] = f[1] /\ broker' = [broker EXCEPT ![a] = f[2]]
      /\ configured' = configured /\ doc' = doc /\ file' = file
      /\ UNCHANGED <<caches, reader>>
  BY DEF Fill
<1>2. f[2] \in Books[a]
  BY <1>1, FillsAndEditsFit DEF IInv, OutsideInv
<1>3. /\ broker' = [x \in Accounts |-> broker'[x]]
      /\ \A x \in Accounts : broker'[x] \in Books[x]
  BY <1>1, <1>2 DEF IInv, OutsideInv
<1>4. OutsideInv'
  BY <1>1, <1>3 DEF IInv, OutsideInv
<1> QED BY <1>1, <1>4, OutsideStep

LEMMA EditStep ==
    ASSUME IInv, NEW a \in Accounts, NEW e \in Edits, Edit(a, e) PROVE IInv'
<1>1. /\ doc' = [doc EXCEPT ![a] = e[2]]
      /\ configured' = configured /\ broker' = broker /\ file' = file
      /\ UNCHANGED <<caches, reader>>
  BY DEF Edit
<1>2. /\ doc' = [x \in Accounts |-> doc'[x]]
      /\ \A x \in Accounts : doc'[x] \in Plans \cup {None}
  BY <1>1, FillsAndEditsFit DEF IInv, OutsideInv
<1>3. OutsideInv'
  BY <1>1, <1>2 DEF IInv, OutsideInv
<1> QED BY <1>1, <1>3, OutsideStep

LEMMA WriterStep ==
    ASSUME IInv, WriterReads \/ WriterWrites PROVE IInv'
<1> DEFINE new == [acct |-> Default, shares |-> broker[Default].shares, cash |-> writer,
                   at |-> 0, read |-> 0, src |-> "file"]
<1>1. /\ file' = file \/ file' = new
      /\ configured' = configured /\ broker' = broker /\ doc' = doc
      /\ UNCHANGED <<caches, reader>>
  BY DEF WriterReads, WriterWrites
<1>2. FromFile(new)
  BY DEF FromFile, IsSnapshot
<1> HIDE DEF new
<1>3. OutsideInv'
  BY <1>1, <1>2 DEF IInv, OutsideInv
<1> QED BY <1>1, <1>3, OutsideStep
-----------------------------------------------------------------------------
(* Time                                                                    *)

LEMMA PricesAge ==
    ASSUME NEW mark, NEW fail, NEW came, NEW try, PriceInv(mark, fail, came, try)
    PROVE  PriceInv(Aged(mark, MaxStale + 1), Expired(fail, Backoff),
                    Expired(came, MaxStale + 1), Expired(try, Backoff))
<1> DEFINE m == Aged(mark, MaxStale + 1)
           f == Expired(fail, Backoff)
           c == Expired(came, MaxStale + 1)
           t == Expired(try, Backoff)
<1>1. /\ MaxStale \in Nat \ {0} /\ Backoff \in Nat \ {0} /\ MaxFetch \in Nat /\ None \notin Nat
  BY TicksAreCounts, FetchTakesTime, NoneIsNull
<1>2. ASSUME m # None
      PROVE  /\ m \in [at : 0..MaxStale, read : Nat] /\ m.read <= m.at + MaxFetch
             /\ mark # None /\ m.at = mark.at + 1
  <2>1. /\ mark # None /\ mark.at + 1 < MaxStale + 1
        /\ mark \in [at : 0..MaxStale, read : Nat] /\ mark.read <= mark.at + MaxFetch
        /\ m = [mark EXCEPT !.at = @ + 1, !.read = @ + 1]
    <3>1. mark # None /\ ~(mark.at + 1 >= MaxStale + 1)
          /\ m = [mark EXCEPT !.at = @ + 1, !.read = @ + 1]
      BY <1>2 DEF Aged
    <3>2. mark \in [at : 0..MaxStale, read : Nat] /\ mark.read <= mark.at + MaxFetch
      BY <3>1 DEF PriceInv
    <3> QED BY <1>1, <3>1, <3>2
  <2>2. m.at = mark.at + 1 /\ m.read = mark.read + 1
        /\ mark.at \in 0..MaxStale /\ mark.read \in Nat
    BY <2>1
  <2>3. m.at \in 0..MaxStale /\ m.read \in Nat /\ m.read <= m.at + MaxFetch
    BY <1>1, <2>1, <2>2
  <2>4. m \in [at : 0..MaxStale, read : Nat]
    BY <2>1, <2>2, <2>3
  <2> QED BY <2>1, <2>2, <2>3, <2>4
<1>3. ASSUME c # None PROVE m # None /\ c = m.at
  <2>1. came # None /\ c = came + 1 /\ ~(came + 1 >= MaxStale + 1)
    BY <1>3 DEF Expired
  <2>2. mark # None /\ came = mark.at /\ mark \in [at : 0..MaxStale, read : Nat]
    BY <2>1 DEF PriceInv
  <2>3. m = [mark EXCEPT !.at = @ + 1, !.read = @ + 1]
    BY <2>1, <2>2 DEF Aged
  <2>4. m \in [at : Nat, read : Nat] /\ m.at = mark.at + 1
    <3>1. mark.at \in Nat /\ mark.read \in Nat /\ mark \in [at : Nat, read : Nat]
      BY <1>1, <2>2
    <3> HIDE DEF m
    <3>2. m = [at |-> mark.at + 1, read |-> mark.read + 1]
      BY <2>3, <3>1
    <3>3. mark.at + 1 \in Nat /\ mark.read + 1 \in Nat
      BY <3>1
    <3> QED BY <3>2, <3>3
  <2> QED BY <2>1, <2>2, <2>4, NoneIsNull
<1>4. ASSUME f # None PROVE f \in 0..(Backoff - 1) /\ t = f
  <2>1. fail # None /\ f = fail + 1 /\ ~(fail + 1 >= Backoff)
    BY <1>4 DEF Expired
  <2>2. fail \in 0..(Backoff - 1) /\ try = fail
    BY <2>1 DEF PriceInv
  <2>3. f \in 0..(Backoff - 1)
    BY <1>1, <2>1, <2>2
  <2> QED BY <2>2, <2>3
<1> HIDE DEF m, f, c, t
<1>5. PriceInv(m, f, c, t)
  BY <1>2, <1>3, <1>4 DEF PriceInv
<1> QED BY <1>5 DEF m, f, c, t

LEMMA SnapshotAges ==
    ASSUME NEW a, NEW e, e # None => Cached(e, a)
    PROVE  Aged(e, SnapTtl) # None => Cached(Aged(e, SnapTtl), a)
<1> DEFINE n == Aged(e, SnapTtl)
<1> SUFFICES ASSUME n # None PROVE Cached(n, a)
  OBVIOUS
<1>1. SnapTtl \in Nat \ {0} /\ MaxFetch \in Nat
  BY TicksAreCounts, FetchTakesTime
<1>2. e # None /\ ~(e.at + 1 >= SnapTtl) /\ n = [e EXCEPT !.at = @ + 1, !.read = @ + 1]
  BY DEF Aged
<1>3. /\ IsSnapshot(e) /\ e.acct = a /\ e.src = "broker"
      /\ e.at \in 0..(SnapTtl - 1) /\ e.read \in Nat /\ e.read <= e.at + MaxFetch
  BY <1>2 DEF Cached
<1>4. IsSnapshot(n) /\ n.acct = a /\ n.src = "broker" /\ n.at = e.at + 1 /\ n.read = e.read + 1
  BY <1>2, <1>3 DEF IsSnapshot
<1>5. n.at \in 0..(SnapTtl - 1) /\ n.read \in Nat /\ n.read <= n.at + MaxFetch
  BY <1>1, <1>2, <1>3, <1>4
<1> QED BY <1>4, <1>5 DEF Cached

LEMMA TickStep == ASSUME IInv, Tick PROVE IInv'
<1>1. CachesInv'
  <2>1. /\ snaps' = [a \in Accounts |-> Aged(snaps[a], SnapTtl)]
        /\ marks' = [s \in Syms |-> Aged(marks[s], MaxStale + 1)]
        /\ failed' = [s \in Syms |-> Expired(failed[s], Backoff)]
        /\ good' = [s \in Syms |-> Expired(good[s], MaxStale + 1)]
        /\ tried' = [s \in Syms |-> Expired(tried[s], Backoff)]
    BY DEF Tick
  <2>2. /\ snaps' = [a \in Accounts |-> snaps'[a]]
        /\ marks' = [s \in Syms |-> marks'[s]] /\ failed' = [s \in Syms |-> failed'[s]]
        /\ good' = [s \in Syms |-> good'[s]] /\ tried' = [s \in Syms |-> tried'[s]]
    BY <2>1
  <2>3. ASSUME NEW a \in Accounts PROVE snaps'[a] # None => Cached(snaps'[a], a)
    <3>1. snaps'[a] = Aged(snaps[a], SnapTtl) /\ (snaps[a] # None => Cached(snaps[a], a))
      BY <2>1 DEF IInv, CachesInv
    <3> QED BY <3>1, SnapshotAges
  <2>4. ASSUME NEW s \in Syms PROVE PriceInv(marks'[s], failed'[s], good'[s], tried'[s])
    <3>1. /\ marks'[s] = Aged(marks[s], MaxStale + 1) /\ failed'[s] = Expired(failed[s], Backoff)
          /\ good'[s] = Expired(good[s], MaxStale + 1) /\ tried'[s] = Expired(tried[s], Backoff)
      BY <2>1
    <3>2. PriceInv(marks[s], failed[s], good[s], tried[s])
      BY DEF IInv, CachesInv
    <3> QED BY <3>1, <3>2, PricesAge
  <2> QED BY <2>2, <2>3, <2>4 DEF CachesInv
<1>2. OutsideInv'
  <2>1. /\ configured' = configured /\ broker' = broker /\ doc' = doc
        /\ file' = IF file = None THEN None
                   ELSE [file EXCEPT !.at = Older(@, FileMaxAge + 1), !.read = Older(@, FileMaxAge + 1)]
    BY DEF Tick
  <2>2. ASSUME file' # None PROVE FromFile(file')
    <3>1. file # None /\ FromFile(file)
      BY <2>1, <2>2 DEF IInv, OutsideInv
    <3>2. file' = [file EXCEPT !.at = Older(@, FileMaxAge + 1), !.read = Older(@, FileMaxAge + 1)]
      BY <2>1, <3>1
    <3>3. /\ IsSnapshot(file') /\ file'.acct = Default /\ file'.src = "file"
          /\ file'.at = Older(file.at, FileMaxAge + 1)
          /\ file'.read = Older(file.read, FileMaxAge + 1)
      BY <3>1, <3>2 DEF FromFile, IsSnapshot
    <3>4. file'.at \in Nat /\ file'.read = file'.at
      BY <3>1, <3>3 DEF FromFile, Older
    <3> QED BY <3>3, <3>4 DEF FromFile
  <2> QED BY <2>1, <2>2 DEF IInv, OutsideInv
<1>3. ReadersInv'
  <2>1. /\ reader' = [r \in Readers |-> IF At(r, "idle") THEN reader[r]
                                        ELSE [reader[r] EXCEPT !.t = @ + 1]]
        /\ \A r \in Readers : At(r, "idle") \/ (reader[r].pc \in Waiting /\ reader[r].t < MaxFetch)
    BY DEF Tick
  <2>2. ASSUME NEW r \in Readers PROVE RequestInv(reader'[r])
    <3> DEFINE q == reader[r]
               n == [q EXCEPT !.t = @ + 1]
    <3>1. RequestInv(q)
      BY DEF IInv, ReadersInv
    <3>2. CASE At(r, "idle")
      BY <2>1, <3>1, <3>2
    <3>3. CASE ~At(r, "idle")
      <4>1. reader'[r] = n /\ q.t < MaxFetch /\ q.t \in 0..MaxFetch /\ MaxFetch \in Nat
        BY <2>1, <3>1, <3>3, FetchTakesTime DEF RequestInv
      <4>2. /\ IsRequest(n) /\ n.pc = q.pc /\ n.kind = q.kind /\ n.acct = q.acct /\ n.of = q.of
            /\ n.snap = q.snap /\ n.todo = q.todo /\ n.marks = q.marks /\ n.got = q.got
            /\ n.t = q.t + 1 /\ n.res = q.res
        BY <3>1 DEF RequestInv, IsRequest
      <4>3. n.t \in 0..MaxFetch
        BY <4>1, <4>2
      <4> HIDE DEF n, q
      <4>4. RequestInv(n)
        BY <3>1, <4>2, <4>3 DEF RequestInv
      <4> QED BY <4>1, <4>4
    <3> QED BY <3>2, <3>3
  <2>3. reader' = [r \in Readers |-> reader'[r]]
    BY <2>1
  <2> QED BY <2>2, <2>3 DEF ReadersInv
<1> QED BY <1>1, <1>2, <1>3 DEF IInv

-----------------------------------------------------------------------------
(* The requests                                                            *)

LEMMA RequestIs ==
    ASSUME IInv, NEW r \in Readers
    PROVE  RequestInv(reader[r]) /\ IsRequest(reader[r]) /\ 0 \in 0..MaxFetch
           /\ MaxFetch \in Nat /\ reader[r].t \in 0..MaxFetch /\ reader[r].todo \subseteq Syms
BY FetchTakesTime DEF IInv, ReadersInv, RequestInv

\* A request that ends without an answer says nothing.
LEMMA EndedIsEnded ==
    ASSUME NEW q, NEW res \in {"failed", "by design"}, IsRequest(q), q.t \in 0..MaxFetch,
           q.todo \subseteq Syms, q.kind = "recon" => q.of = q.acct, q.acct \in Accounts
    PROVE  RequestInv(Ended(q, res))
<1> DEFINE n == Ended(q, res)
<1>1. /\ IsRequest(n) /\ n.pc = "done" /\ n.kind = q.kind /\ n.acct = q.acct /\ n.of = q.of
      /\ n.snap = q.snap /\ n.todo = q.todo /\ n.marks = q.marks /\ n.got = q.got
      /\ n.t = q.t /\ n.res = res
  BY DEF IsRequest, Ended
<1> HIDE DEF n
<1>2. RequestInv(n)
  BY <1>1 DEF RequestInv
<1> QED BY <1>2 DEF n

LEMMA SlateStatusStep ==
    ASSUME IInv, NEW r \in Readers, NEW a \in Accounts, SlateStatus(r, a) PROVE IInv'
<1> DEFINE q == [NoRequest EXCEPT !.kind = "recon", !.acct = a, !.of = SlateOf(a)]
           n == [q EXCEPT !.pc = "rows"]
<1>1. /\ Set(r, Ended(q, "by design")) \/ Set(r, n)
      /\ UNCHANGED <<outside, slow, caches>>
  BY DEF SlateStatus
<1>2. /\ IsRequest(q) /\ q.kind = "recon" /\ q.acct = a /\ q.of = a /\ q.t = 0 /\ q.todo = {}
      /\ q.res = None
  BY DEF NoRequest, IsRequest, SlateOf
<1>3. /\ IsRequest(n) /\ n.pc = "rows" /\ n.kind = "recon" /\ n.acct = a /\ n.of = a /\ n.t = 0
      /\ n.todo = {} /\ n.res = None
  BY DEF NoRequest, IsRequest, SlateOf
<1>4. 0 \in 0..MaxFetch /\ None # "ok"
  BY FetchTakesTime, NoneIsNull
<1> HIDE DEF q, n
<1>5. RequestInv(Ended(q, "by design"))
  BY <1>2, <1>4, EndedIsEnded
<1>6. RequestInv(n)
  BY <1>3, <1>4 DEF RequestInv
<1> QED BY <1>1, <1>5, <1>6, QuietReader

LEMMA SlateRowsStep ==
    ASSUME IInv, NEW r \in Readers, SlateRows(r) PROVE IInv'
<1> DEFINE q == reader[r]
           n == [q EXCEPT !.pc = "account", !.plan = doc[q.of].target]
<1>1. /\ Set(r, Ended(q, "failed")) \/ Set(r, n)
      /\ UNCHANGED <<outside, slow, caches>>
  BY DEF SlateRows, At
<1>2. RequestInv(q) /\ q.pc = "rows"
  BY RequestIs DEF SlateRows, At
<1>3. /\ IsRequest(n) /\ n.pc = "account" /\ n.kind = q.kind /\ n.acct = q.acct /\ n.of = q.of
      /\ n.t = q.t /\ n.todo = q.todo /\ n.res = q.res
  BY <1>2 DEF RequestInv, IsRequest
<1> HIDE DEF q, n
<1>4. RequestInv(n)
  BY <1>2, <1>3 DEF RequestInv
<1>5. RequestInv(Ended(q, "failed"))
  BY <1>2, EndedIsEnded DEF RequestInv
<1> QED BY <1>1, <1>4, <1>5, QuietReader

\* The account, from the file, the cache, or by asking the broker.
LEMMA SnapCheckStep ==
    ASSUME IInv, NEW r \in Readers, NEW q, SnapCheck(r, q), IsRequest(q), q.t \in 0..MaxFetch,
           q.todo \subseteq Syms, q.kind = "recon" => q.of = q.acct, q.acct \in Accounts,
           q.res # "ok"
    PROVE  IInv'
<1> DEFINE hit(e) == [q EXCEPT !.pc = "marks", !.snap = e]
           ask == [q EXCEPT !.pc = "cash", !.t = 0]
<1>1. /\ Set(r, IF q.acct \notin configured THEN FileRead(q)
                ELSE IF snaps[q.acct] # None THEN hit(snaps[q.acct]) ELSE ask)
      /\ UNCHANGED <<outside, slow, caches>>
  BY DEF SnapCheck
<1>2. ASSUME NEW e, Taken(e, q.acct) PROVE RequestInv(hit(e))
  <2>1. /\ IsRequest(hit(e)) /\ hit(e).pc = "marks" /\ hit(e).kind = q.kind
        /\ hit(e).acct = q.acct /\ hit(e).of = q.of /\ hit(e).snap = e /\ hit(e).t = q.t
        /\ hit(e).todo = q.todo /\ hit(e).res = q.res
    BY DEF IsRequest
  <2> HIDE DEF hit
  <2> QED BY <1>2, <2>1 DEF RequestInv
<1>3. RequestInv(ask)
  <2>1. /\ IsRequest(ask) /\ ask.pc = "cash" /\ ask.kind = q.kind
        /\ ask.acct = q.acct /\ ask.of = q.of /\ ask.t = 0
        /\ ask.todo = q.todo /\ ask.res = q.res
    BY DEF IsRequest
  <2>2. 0 \in 0..MaxFetch
    BY FetchTakesTime
  <2> HIDE DEF ask
  <2> QED BY <2>1, <2>2 DEF RequestInv, Waiting
<1>4. RequestInv(FileRead(q))
  <2>1. CASE q.acct # Default \/ file = None
    <3>1. FileRead(q) = Ended(q, "failed")
      BY <2>1 DEF FileRead
    <3> QED BY <3>1, EndedIsEnded
  <2>2. CASE ~(q.acct # Default \/ file = None)
    <3>1. FileRead(q) = hit(file) /\ FromFile(file) /\ q.acct = Default
      BY <2>2 DEF FileRead, IInv, OutsideInv
    <3>2. Taken(file, q.acct)
      BY <3>1 DEF FromFile, Taken
    <3> QED BY <1>2, <3>1, <3>2
  <2> QED BY <2>1, <2>2
<1>5. ASSUME snaps[q.acct] # None PROVE RequestInv(hit(snaps[q.acct]))
  <2>1. Cached(snaps[q.acct], q.acct)
    BY <1>5 DEF IInv, CachesInv
  <2>2. Taken(snaps[q.acct], q.acct)
    <3> DEFINE e == snaps[q.acct]
    <3>1. /\ IsSnapshot(e) /\ e.acct = q.acct /\ e.src = "broker"
          /\ e.at \in 0..(SnapTtl - 1) /\ e.read \in Nat /\ e.read <= e.at + MaxFetch
      BY <2>1 DEF Cached
    <3>2. e.read <= SnapTtl - 1 + MaxFetch /\ e.at \in Nat
      BY <3>1, TicksAreCounts, FetchTakesTime
    <3> QED BY <3>1, <3>2 DEF Taken
  <2> QED BY <1>2, <2>2
<1> HIDE DEF hit, ask
<1>6. CASE q.acct \notin configured
  BY <1>1, <1>4, <1>6, QuietReader
<1>7. CASE q.acct \in configured /\ snaps[q.acct] # None
  BY <1>1, <1>5, <1>7, QuietReader
<1>8. CASE q.acct \in configured /\ snaps[q.acct] = None
  BY <1>1, <1>3, <1>8, QuietReader
<1> QED BY <1>6, <1>7, <1>8

LEMMA PageStep ==
    ASSUME IInv, NEW r \in Readers, NEW a \in Accounts, Page(r, a) PROVE IInv'
<1> DEFINE q == [NoRequest EXCEPT !.kind = "page", !.acct = a]
<1>1. SnapCheck(r, q)
  BY DEF Page
<1>2. /\ IsRequest(q) /\ q.kind = "page" /\ q.acct = a /\ q.t = 0 /\ q.todo = {}
      /\ q.res = None
  BY DEF NoRequest, IsRequest
<1>3. 0 \in 0..MaxFetch /\ None # "ok"
  BY FetchTakesTime, NoneIsNull
<1> HIDE DEF q
<1> QED BY <1>1, <1>2, <1>3, SnapCheckStep

LEMMA ReconAccountStep ==
    ASSUME IInv, NEW r \in Readers, ReconAccount(r) PROVE IInv'
<1>1. SnapCheck(r, reader[r]) /\ reader[r].pc = "account"
  BY DEF ReconAccount, At
<1>2. RequestInv(reader[r])
  BY RequestIs
<1>3. /\ IsRequest(reader[r]) /\ reader[r].t \in 0..MaxFetch /\ reader[r].todo \subseteq Syms
      /\ reader[r].kind = "recon" => reader[r].of = reader[r].acct
      /\ reader[r].acct \in Accounts /\ reader[r].res # "ok"
  BY <1>1, <1>2 DEF RequestInv
<1> QED BY <1>1, <1>3, SnapCheckStep

LEMMA SnapFailsStep ==
    ASSUME IInv, NEW r \in Readers, SnapFails(r) PROVE IInv'
<1>1. /\ reader[r].pc \in {"cash", "shares"} /\ Set(r, Ended(reader[r], "failed"))
      /\ UNCHANGED <<outside, slow, caches>>
  BY DEF SnapFails
<1>2. RequestInv(reader[r])
  BY RequestIs
<1>3. RequestInv(Ended(reader[r], "failed"))
  BY <1>1, <1>2, EndedIsEnded DEF RequestInv
<1> QED BY <1>1, <1>3, QuietReader

LEMMA CashReadStep ==
    ASSUME IInv, NEW r \in Readers, CashRead(r) PROVE IInv'
<1> DEFINE q == reader[r]
           n == [q EXCEPT !.pc = "shares", !.got = broker[q.acct].cash]
<1>1. q.pc = "cash" /\ Set(r, n) /\ UNCHANGED <<outside, slow, caches>> /\ RequestInv(q)
  BY RequestIs DEF CashRead, At
<1>2. /\ IsRequest(n) /\ n.pc = "shares" /\ n.kind = q.kind /\ n.acct = q.acct /\ n.of = q.of
      /\ n.t = q.t /\ n.todo = q.todo /\ n.res = q.res
  BY <1>1 DEF RequestInv, IsRequest
<1> HIDE DEF q, n
<1>3. RequestInv(n)
  BY <1>1, <1>2 DEF RequestInv, Waiting
<1> QED BY <1>1, <1>3, QuietReader

LEMMA SharesReadStep ==
    ASSUME IInv, NEW r \in Readers, SharesRead(r) PROVE IInv'
<1> DEFINE q == reader[r]
           e == [acct |-> q.acct, shares |-> broker[q.acct].shares, cash |-> q.got,
                 at |-> 0, read |-> 0, src |-> "broker"]
           n == [q EXCEPT !.pc = "store", !.got = None, !.snap = e]
<1>1. q.pc = "shares" /\ Set(r, n) /\ UNCHANGED <<outside, slow, caches>> /\ RequestInv(q)
  BY RequestIs DEF SharesRead, At
<1>2. /\ IsRequest(n) /\ n.pc = "store" /\ n.kind = q.kind /\ n.acct = q.acct /\ n.of = q.of
      /\ n.t = q.t /\ n.todo = q.todo /\ n.res = q.res /\ n.snap = e
  BY <1>1 DEF RequestInv, IsRequest
<1>3. Taken(e, q.acct) /\ e.at = 0 /\ e.src = "broker"
  <2>1. 0 <= SnapTtl - 1 + MaxFetch
    BY TicksAreCounts, FetchTakesTime
  <2> QED BY <2>1 DEF Taken, IsSnapshot
<1> HIDE DEF q, n, e
<1>4. RequestInv(n)
  BY <1>1, <1>2, <1>3 DEF RequestInv, Waiting
<1> QED BY <1>1, <1>4, QuietReader

\* The cache takes whoever comes last, under the account it was asked for.
LEMMA SnapStoreStep ==
    ASSUME IInv, NEW r \in Readers, SnapStore(r) PROVE IInv'
<1> DEFINE q == reader[r]
           e == [q.snap EXCEPT !.read = q.t]
           n == [q EXCEPT !.pc = "marks", !.snap = e]
<1>1. /\ q.pc = "store" /\ Set(r, n) /\ snaps' = [snaps EXCEPT ![q.acct] = e]
      /\ UNCHANGED outside /\ marks' = marks /\ failed' = failed /\ good' = good /\ tried' = tried
      /\ RequestInv(q)
  BY RequestIs DEF SnapStore, At, Keyed
<1>2. /\ IsRequest(n) /\ n.pc = "marks" /\ n.kind = q.kind /\ n.acct = q.acct /\ n.of = q.of
      /\ n.t = q.t /\ n.todo = q.todo /\ n.res = q.res /\ n.snap = e
  BY <1>1 DEF RequestInv, IsRequest
<1>3. q.t \in 0..MaxFetch /\ MaxFetch \in Nat /\ SnapTtl \in Nat \ {0}
  BY RequestIs, TicksAreCounts
<1>4. /\ Taken(q.snap, q.acct) /\ q.snap.at = 0 /\ q.snap.src = "broker" /\ q.acct \in Accounts
      /\ q.res # "ok"
  BY <1>1 DEF RequestInv
<1>5. IsSnapshot(e) /\ e.acct = q.acct /\ e.at = 0 /\ e.src = "broker" /\ e.read = q.t
  BY <1>4 DEF Taken, IsSnapshot
<1> HIDE DEF e
<1>6. Taken(e, q.acct) /\ Cached(e, q.acct)
  <2>1. /\ e.at \in Nat /\ e.at \in 0..(SnapTtl - 1) /\ e.read \in Nat
        /\ e.read <= e.at + MaxFetch /\ e.read <= SnapTtl - 1 + MaxFetch
    BY <1>3, <1>5
  <2> QED BY <1>5, <2>1 DEF Taken, Cached
<1>7. CachesInv'
  <2>1. /\ snaps' = [a \in Accounts |-> snaps'[a]]
        /\ \A a \in Accounts : snaps'[a] # None => Cached(snaps'[a], a)
    BY <1>1, <1>4, <1>6 DEF IInv, CachesInv
  <2> QED BY <1>1, <2>1 DEF IInv, CachesInv
<1> HIDE DEF q, n
<1>8. RequestInv(n)
  BY <1>1, <1>2, <1>4, <1>6 DEF RequestInv
<1> QED BY <1>1, <1>7, <1>8, OneReader

-----------------------------------------------------------------------------
(* The prices                                                              *)

\* The last price, or the word that there is none: true as long as something
\* says when the vendor failed.
LEMMA StaleIsOk ==
    ASSUME IInv, NEW s \in Syms, NEW m, m.tried # None,
           m.priced = StaleOrNothing(s).priced, m.stale = StaleOrNothing(s).stale,
           m.read = StaleOrNothing(s).read, m.good = StaleOrNothing(s).good
    PROVE  MarkOk(m)
<1>1. PriceInv(marks[s], failed[s], good[s], tried[s])
  BY DEF IInv, CachesInv
<1>2. MaxFetch \in Nat /\ MaxStale \in Nat
  BY FetchTakesTime, TicksAreCounts
<1>3. CASE marks[s] = None
  <2>1. m.priced = FALSE /\ m.stale = FALSE /\ m.good = good[s]
    BY <1>3 DEF StaleOrNothing
  <2>2. good[s] = None
    BY <1>1, <1>3 DEF PriceInv
  <2> QED BY <2>1, <2>2 DEF MarkOk
<1>4. CASE marks[s] # None
  <2>1. m.priced = TRUE /\ m.stale = TRUE /\ m.read = marks[s].read
    BY <1>4 DEF StaleOrNothing
  <2>2. marks[s].read \in Nat /\ marks[s].read <= marks[s].at + MaxFetch
        /\ marks[s].at \in 0..MaxStale
    BY <1>1, <1>4 DEF PriceInv
  <2>3. marks[s].read <= MaxStale + MaxFetch
    BY <1>2, <2>2
  <2> QED BY <2>1, <2>2, <2>3 DEF MarkOk
<1> QED BY <1>3, <1>4

LEMMA HeldBackIsOk ==
    ASSUME IInv, NEW s \in Syms, failed[s] # None PROVE MarkOk(StaleOrNothing(s))
<1>1. PriceInv(marks[s], failed[s], good[s], tried[s])
  BY DEF IInv, CachesInv
<1>2. tried[s] # None
  <2>1. tried[s] \in 0..(Backoff - 1) /\ Backoff \in Nat
    BY <1>1, TicksAreCounts DEF PriceInv
  <2> QED BY <2>1, NoneIsNull
<1>3. StaleOrNothing(s).tried = tried[s]
  BY DEF StaleOrNothing
<1> QED BY <1>2, <1>3, StaleIsOk

LEMMA FreshIsOk ==
    ASSUME IInv, NEW s \in Syms, Fresh(s)
    PROVE  MarkOk([priced |-> TRUE, stale |-> FALSE, read |-> marks[s].read, good |-> None,
                   tried |-> None])
<1>1. PriceInv(marks[s], failed[s], good[s], tried[s])
  BY DEF IInv, CachesInv
<1>2. MaxFetch \in Nat /\ MaxStale \in Nat /\ MarksTtl \in Nat
  BY FetchTakesTime, TicksAreCounts
<1>3. marks[s].read \in Nat /\ marks[s].read <= marks[s].at + MaxFetch
      /\ marks[s].at \in 0..MaxStale /\ marks[s].at < MarksTtl
  BY <1>1 DEF Fresh, PriceInv
<1>4. marks[s].read <= MaxStale + MaxFetch /\ marks[s].read <= MarksTtl - 1 + MaxFetch
  BY <1>2, <1>3
<1> QED BY <1>3, <1>4 DEF MarkOk

\* On to the next name, or to the answer.
LEMMA OnwardIsOk ==
    ASSUME NEW q, IsRequest(q), q.todo \subseteq Held(q.snap), q.res # "ok",
           q.kind = "recon" => q.of = q.acct, q.acct \in Accounts, Taken(q.snap, q.acct),
           DOMAIN q.marks \subseteq Held(q.snap), \A s \in DOMAIN q.marks : MarkOk(q.marks[s])
    PROVE  RequestInv(Onward(q))
<1> DEFINE e == [q EXCEPT !.got = None, !.t = 0]
           d == [e EXCEPT !.pc = "done", !.res = "ok"]
           n == [q EXCEPT !.pc = "quote", !.got = None, !.t = 0]
<1>1. 0 \in 0..MaxFetch /\ Held(q.snap) \subseteq Syms
  BY FetchTakesTime DEF Held
<1>2. CASE q.todo = {}
  <2>1. Onward(q) = d
    BY <1>2 DEF Onward, Ended
  <2>2. /\ IsRequest(d) /\ d.pc = "done" /\ d.kind = q.kind /\ d.acct = q.acct /\ d.of = q.of
        /\ d.snap = q.snap /\ d.t = 0 /\ d.todo = q.todo /\ d.marks = q.marks
    BY DEF IsRequest
  <2> HIDE DEF d
  <2>3. RequestInv(d)
    BY <1>1, <2>2 DEF RequestInv
  <2> QED BY <2>1, <2>3
<1>3. CASE q.todo # {}
  <2>1. Onward(q) = n
    BY <1>3 DEF Onward
  <2>2. /\ IsRequest(n) /\ n.pc = "quote" /\ n.kind = q.kind /\ n.acct = q.acct /\ n.of = q.of
        /\ n.snap = q.snap /\ n.t = 0 /\ n.todo = q.todo /\ n.marks = q.marks /\ n.res = q.res
    BY DEF IsRequest
  <2> HIDE DEF n
  <2>3. RequestInv(n)
    BY <1>1, <1>3, <2>2 DEF RequestInv, Waiting
  <2> QED BY <2>1, <2>3
<1> QED BY <1>2, <1>3

LEMMA MarksCheckStep ==
    ASSUME IInv, NEW r \in Readers, MarksCheck(r) PROVE IInv'
<1> DEFINE q == reader[r]
           held == Held(q.snap)
           todo == {s \in held : ~Fresh(s) /\ failed[s] = None}
           served == [s \in held \ todo |->
                        IF Fresh(s)
                        THEN [priced |-> TRUE, stale |-> FALSE, read |-> marks[s].read,
                              good |-> None, tried |-> None]
                        ELSE StaleOrNothing(s)]
           n == [q EXCEPT !.marks = served, !.todo = todo]
<1>1. q.pc = "marks" /\ Set(r, Onward(n)) /\ UNCHANGED <<outside, slow, caches>>
  BY DEF MarksCheck, At, Backs, caches
<1>2. RequestInv(q)
  BY RequestIs
<1>3. \A s \in DOMAIN served : MarkOk(served[s])
  <2>1. SUFFICES ASSUME NEW s \in held \ todo PROVE MarkOk(served[s])
    OBVIOUS
  <2>2. s \in Syms
    BY DEF Held
  <2>3. CASE Fresh(s)
    BY <2>2, <2>3, FreshIsOk
  <2>4. CASE ~Fresh(s)
    <3>1. failed[s] # None
      BY <2>4
    <3> QED BY <2>2, <2>4, <3>1, HeldBackIsOk
  <2> QED BY <2>3, <2>4
<1>4. DOMAIN served \subseteq held /\ todo \subseteq held
  OBVIOUS
<1> HIDE DEF served, todo
<1>5. /\ IsRequest(n) /\ n.kind = q.kind /\ n.acct = q.acct /\ n.of = q.of
      /\ n.snap = q.snap /\ n.t = q.t /\ n.todo = todo /\ n.marks = served /\ n.res = q.res
  BY <1>2 DEF RequestInv, IsRequest
<1> HIDE DEF n
<1>6. RequestInv(Onward(n))
  <2>1. /\ q.res # "ok" /\ (q.kind = "recon" => q.of = q.acct)
        /\ q.acct \in Accounts /\ Taken(q.snap, q.acct)
    BY <1>1, <1>2 DEF RequestInv
  <2> QED BY <1>3, <1>4, <1>5, <2>1, OnwardIsOk
<1> QED BY <1>1, <1>6, QuietReader

LEMMA QuoteStep ==
    ASSUME IInv, NEW r \in Readers, Quote(r) PROVE IInv'
<1> DEFINE q == reader[r]
<1>1. PICK ok \in BOOLEAN :
         Set(r, [q EXCEPT !.pc = "keep", !.got = [sym |-> CHOOSE s \in q.todo : TRUE, ok |-> ok]])
  BY DEF Quote
<1> DEFINE g == [sym |-> CHOOSE s \in q.todo : TRUE, ok |-> ok]
           n == [q EXCEPT !.pc = "keep", !.got = g]
<1>2. q.pc = "quote" /\ Set(r, n) /\ UNCHANGED <<outside, slow, caches>> /\ RequestInv(q)
  BY <1>1, RequestIs DEF Quote, At
<1>3. g.sym \in q.todo
  BY <1>2 DEF RequestInv
<1> HIDE DEF g
<1>4. /\ IsRequest(n) /\ n.pc = "keep" /\ n.kind = q.kind /\ n.acct = q.acct /\ n.of = q.of
      /\ n.snap = q.snap /\ n.t = q.t /\ n.todo = q.todo /\ n.marks = q.marks /\ n.res = q.res
      /\ n.got = g
  BY <1>2 DEF RequestInv, IsRequest
<1> HIDE DEF q, n
<1>5. RequestInv(n)
  BY <1>2, <1>3, <1>4 DEF RequestInv, Waiting
<1> QED BY <1>2, <1>5, QuietReader

\* The caches after an answer and after a failure.
LEMMA KeptPrices ==
    ASSUME IInv, NEW s \in Syms, NEW t \in 0..MaxFetch, snaps' = snaps,
           \/ /\ marks' = [marks EXCEPT ![s] = [at |-> 0, read |-> t]]
              /\ failed' = [failed EXCEPT ![s] = None]
              /\ good' = [good EXCEPT ![s] = 0] /\ tried' = tried
           \/ /\ marks' = marks /\ failed' = [failed EXCEPT ![s] = 0]
              /\ tried' = [tried EXCEPT ![s] = 0] /\ good' = good
    PROVE  CachesInv'
<1> DEFINE p == [at |-> 0, read |-> t]
<1>1. /\ MaxFetch \in Nat /\ MaxStale \in Nat /\ Backoff \in Nat \ {0} /\ None \notin Nat
      /\ None \notin [at : Nat, read : Nat]
  BY FetchTakesTime, TicksAreCounts, NoneIsNull
<1>2. p \in [at : 0..MaxStale, read : Nat] /\ p.at = 0 /\ p.read = t /\ p # None
      /\ p.read <= p.at + MaxFetch
  <2>1. 0 \in 0..MaxStale /\ t \in Nat /\ t <= 0 + MaxFetch
    BY <1>1
  <2>2. p \in [at : Nat, read : Nat]
    BY <2>1
  <2> QED BY <1>1, <2>1, <2>2
<1> HIDE DEF p
<1>3. /\ marks' = [x \in Syms |-> marks'[x]] /\ failed' = [x \in Syms |-> failed'[x]]
      /\ good' = [x \in Syms |-> good'[x]] /\ tried' = [x \in Syms |-> tried'[x]]
  BY DEF IInv, CachesInv
<1>4. ASSUME NEW x \in Syms PROVE PriceInv(marks'[x], failed'[x], good'[x], tried'[x])
  <2>1. PriceInv(marks[x], failed[x], good[x], tried[x])
    BY DEF IInv, CachesInv
  <2>2. CASE x # s
    <3>1. marks'[x] = marks[x] /\ failed'[x] = failed[x] /\ good'[x] = good[x]
          /\ tried'[x] = tried[x]
      BY <2>2 DEF IInv, CachesInv
    <3> QED BY <2>1, <3>1
  <2>3. CASE x = s /\ marks' = [marks EXCEPT ![s] = p] /\ failed' = [failed EXCEPT ![s] = None]
             /\ good' = [good EXCEPT ![s] = 0]
    <3>1. marks'[x] = p /\ failed'[x] = None /\ good'[x] = 0
      BY <2>3 DEF IInv, CachesInv
    <3> QED BY <1>2, <3>1 DEF PriceInv
  <2>4. CASE x = s /\ marks' = marks /\ failed' = [failed EXCEPT ![s] = 0]
             /\ tried' = [tried EXCEPT ![s] = 0] /\ good' = good
    <3>1. marks'[x] = marks[x] /\ failed'[x] = 0 /\ good'[x] = good[x] /\ tried'[x] = 0
      BY <2>4 DEF IInv, CachesInv
    <3>2. 0 \in 0..(Backoff - 1) /\ 0 # None
      BY <1>1
    <3> QED BY <2>1, <3>1, <3>2 DEF PriceInv
  <2> QED BY <2>2, <2>3, <2>4 DEF p
<1> QED BY <1>3, <1>4 DEF IInv, CachesInv

LEMMA QuoteKeptStep ==
    ASSUME IInv, NEW r \in Readers, QuoteKept(r) PROVE IInv'
<1> DEFINE q == reader[r]
           s == q.got.sym
           mark == IF q.got.ok
                   THEN [priced |-> TRUE, stale |-> FALSE, read |-> q.t, good |-> None, tried |-> None]
                   ELSE [StaleOrNothing(s) EXCEPT !.tried = 0]
           said == [x \in DOMAIN q.marks \cup {s} |-> IF x = s THEN mark ELSE q.marks[x]]
           n == [q EXCEPT !.marks = said, !.todo = q.todo \ {s}]
<1>1. q.pc = "keep" /\ Set(r, Onward(n)) /\ UNCHANGED outside /\ snaps' = snaps
  BY DEF QuoteKept, At
<1>2. /\ RequestInv(q) /\ q.t \in 0..MaxFetch /\ MaxFetch \in Nat
      /\ q.res # "ok" /\ (q.kind = "recon" => q.of = q.acct)
      /\ q.acct \in Accounts /\ Taken(q.snap, q.acct) /\ q.todo \subseteq Held(q.snap)
      /\ s \in q.todo /\ DOMAIN q.marks \subseteq Held(q.snap)
      /\ \A x \in DOMAIN q.marks : MarkOk(q.marks[x])
  BY <1>1, RequestIs DEF RequestInv
<1>3. s \in Syms /\ s \in Held(q.snap)
  BY <1>2 DEF Held
<1>4. CachesInv'
  <2>1. \/ /\ marks' = [marks EXCEPT ![s] = [at |-> 0, read |-> q.t]]
           /\ failed' = [failed EXCEPT ![s] = None]
           /\ good' = [good EXCEPT ![s] = 0] /\ tried' = tried
        \/ /\ marks' = marks /\ failed' = [failed EXCEPT ![s] = 0]
           /\ tried' = [tried EXCEPT ![s] = 0] /\ good' = good
    BY DEF QuoteKept, KeptOnFailure
  <2> QED BY <1>1, <1>2, <1>3, <2>1, KeptPrices
<1>5. MarkOk(mark)
  <2>1. CASE q.got.ok
    <3>1. mark = [priced |-> TRUE, stale |-> FALSE, read |-> q.t, good |-> None, tried |-> None]
      BY <2>1
    <3>2. q.t \in Nat /\ q.t <= MaxStale + MaxFetch /\ q.t <= MarksTtl - 1 + MaxFetch
      BY <1>2, TicksAreCounts
    <3> HIDE DEF mark
    <3> QED BY <3>1, <3>2 DEF MarkOk
  <2>2. CASE ~q.got.ok
    <3>1. 0 # None
      BY NoneIsNull
    <3> DEFINE b == StaleOrNothing(s)
    <3>2. DOMAIN b = {"priced", "stale", "read", "good", "tried"}
      BY DEF StaleOrNothing
    <3>3. mark = [b EXCEPT !.tried = 0]
      BY <2>2
    <3> HIDE DEF b
    <3>4. mark.tried = 0 /\ mark.priced = b.priced /\ mark.stale = b.stale
          /\ mark.read = b.read /\ mark.good = b.good
      BY <3>2, <3>3
    <3> HIDE DEF mark
    <3>5. mark.tried # None /\ mark.priced = StaleOrNothing(s).priced
          /\ mark.stale = StaleOrNothing(s).stale
          /\ mark.read = StaleOrNothing(s).read /\ mark.good = StaleOrNothing(s).good
      BY <3>1, <3>4 DEF b
    <3> QED BY <1>3, <3>5, StaleIsOk
  <2> QED BY <2>1, <2>2
<1> HIDE DEF mark
<1>6. /\ DOMAIN said = {s} \cup DOMAIN q.marks
      /\ \A x \in DOMAIN said : said[x] = IF x = s THEN mark ELSE q.marks[x]
  OBVIOUS
<1> HIDE DEF said
<1>7. /\ IsRequest(n) /\ n.kind = q.kind /\ n.acct = q.acct /\ n.of = q.of
      /\ n.snap = q.snap /\ n.todo = q.todo \ {s} /\ n.marks = said /\ n.res = q.res
  BY <1>2 DEF RequestInv, IsRequest
<1>8. /\ DOMAIN said \subseteq Held(q.snap) /\ \A x \in DOMAIN said : MarkOk(said[x])
      /\ q.todo \ {s} \subseteq Held(q.snap)
  BY <1>2, <1>3, <1>5, <1>6
<1> HIDE DEF n, q
<1>9. RequestInv(Onward(n))
  BY <1>2, <1>7, <1>8, OnwardIsOk
<1> QED BY <1>1, <1>4, <1>9, OneReader

LEMMA ReturnStep ==
    ASSUME IInv, NEW r \in Readers, Return(r) PROVE IInv'
<1>1. Set(r, NoRequest) /\ UNCHANGED <<outside, slow, caches>>
  BY DEF Return
<1>2. 0 \in 0..MaxFetch /\ None # "ok" /\ None # "recon"
  BY FetchTakesTime, NoneIsNull
<1>3. RequestInv(NoRequest)
  BY <1>2 DEF RequestInv, IsRequest, NoRequest, Waiting
<1> QED BY <1>1, <1>3, QuietReader
-----------------------------------------------------------------------------
(* Every step                                                              *)

LEMMA InvStep == IInv /\ [Next]_vars => IInv'
<1> SUFFICES ASSUME IInv, [Next]_vars PROVE IInv'
  OBVIOUS
<1>1. CASE \E r \in Readers : Return(r)
  BY <1>1, ReturnStep
<1>2. CASE \E a \in Accounts, f \in Fills : Fill(a, f)
  BY <1>2, FillStep
<1>3. CASE \E a \in Accounts, e \in Edits : Edit(a, e)
  BY <1>3, EditStep
<1>4. CASE WriterReads \/ WriterWrites
  BY <1>4, WriterStep
<1>5. CASE Tick
  BY <1>5, TickStep
<1>6. CASE \E r \in Readers, a \in Accounts : SlateStatus(r, a) \/ Page(r, a)
  BY <1>6, SlateStatusStep, PageStep
<1>7. CASE \E r \in Readers : SlateRows(r) \/ ReconAccount(r)
  BY <1>7, SlateRowsStep, ReconAccountStep
<1>8. CASE \E r \in Readers : SnapFails(r) \/ CashRead(r) \/ SharesRead(r) \/ SnapStore(r)
  BY <1>8, SnapFailsStep, CashReadStep, SharesReadStep, SnapStoreStep
<1>9. CASE \E r \in Readers : MarksCheck(r) \/ Quote(r) \/ QuoteKept(r)
  BY <1>9, MarksCheckStep, QuoteStep, QuoteKeptStep
<1>10. CASE UNCHANGED vars
  <2>1. /\ configured' = configured /\ broker' = broker /\ doc' = doc /\ file' = file
        /\ UNCHANGED caches /\ reader' = reader
    BY <1>10 DEF vars, outside
  <2>2. OutsideInv'
    BY <2>1 DEF IInv, OutsideInv
  <2> QED BY <2>1, <2>2, OutsideStep
<1> QED BY <1>1, <1>2, <1>3, <1>4, <1>5, <1>6, <1>7, <1>8, <1>9, <1>10 DEF Next
-----------------------------------------------------------------------------
(* What it says                                                            *)

\* Of an answer.
LEMMA AnswerIs ==
    ASSUME IInv, NEW q \in Answers
    PROVE  /\ Taken(q.snap, q.acct) /\ (q.kind = "recon" => q.of = q.acct)
           /\ DOMAIN q.marks \subseteq Held(q.snap)
           /\ \A s \in DOMAIN q.marks : MarkOk(q.marks[s])
<1>1. PICK r \in Readers : q = reader[r] /\ reader[r].res = "ok"
  BY DEF Answers
<1>2. RequestInv(q) /\ q.res = "ok"
  BY <1>1, RequestIs
<1> QED BY <1>2 DEF RequestInv

LEMMA InvTypeOK == IInv => TypeOK
<1> SUFFICES ASSUME IInv PROVE TypeOK
  OBVIOUS
<1>1. /\ configured \subseteq Accounts
      /\ \A a \in Accounts : broker[a] \in Books[a] /\ doc[a] \in Plans \cup {None}
  BY DEF IInv, OutsideInv
<1>2. ASSUME NEW a \in Accounts, snaps[a] # None PROVE snaps[a].at < SnapTtl
  <2>1. Cached(snaps[a], a)
    BY <1>2 DEF IInv, CachesInv
  <2>2. snaps[a].at \in 0..(SnapTtl - 1) /\ SnapTtl \in Nat
    BY <2>1, TicksAreCounts DEF Cached
  <2> QED BY <2>2
<1>3. ASSUME NEW s \in Syms
      PROVE  /\ marks[s] # None => marks[s].at \in 0..MaxStale
             /\ failed[s] \in {None} \cup 0..(Backoff - 1)
  <2>1. PriceInv(marks[s], failed[s], good[s], tried[s])
    BY DEF IInv, CachesInv
  <2> QED BY <2>1 DEF PriceInv
<1>4. ASSUME NEW r \in Readers
      PROVE  /\ reader[r].pc \in Waiting \cup {"idle", "rows", "account", "marks", "done"}
             /\ reader[r].t \in 0..MaxFetch /\ reader[r].todo \subseteq Syms
  <2>1. RequestInv(reader[r])
    BY RequestIs
  <2> QED BY <2>1 DEF RequestInv
<1> QED BY <1>1, <1>2, <1>3, <1>4 DEF TypeOK

LEMMA InvOwnBook == IInv => OwnBook
<1> SUFFICES ASSUME IInv, NEW q \in Answers
             PROVE  q.snap.acct = q.acct /\ (q.kind = "recon" => q.of = q.acct)
  BY DEF OwnBook
<1>1. Taken(q.snap, q.acct) /\ (q.kind = "recon" => q.of = q.acct)
  BY AnswerIs
<1> QED BY <1>1 DEF Taken

LEMMA InvAges == IInv => AgesAreHonest
<1> SUFFICES ASSUME IInv, NEW q \in Answers
             PROVE  /\ ~SnapshotStale(q) => q.snap.read <= (IF q.snap.src = "file" THEN FileMaxAge ELSE SnapTtl - 1 + MaxFetch)
                    /\ \A s \in Priced(q) : q.marks[s].read <= MaxStale + MaxFetch
                    /\ \A s \in Priced(q) \ StalePriced(q) :
                          q.marks[s].read <= (IF MarksTtl - 1 > 0 THEN MarksTtl - 1 ELSE 0) + MaxFetch
  BY DEF AgesAreHonest
<1>1. /\ Taken(q.snap, q.acct) /\ \A s \in DOMAIN q.marks : MarkOk(q.marks[s])
  BY AnswerIs
<1>2. FileMaxAge \in Nat /\ MarksTtl \in Nat \ {0} /\ MaxFetch \in Nat
  BY TicksAreCounts, FetchTakesTime
<1>3. ASSUME ~SnapshotStale(q)
      PROVE  q.snap.read <= (IF q.snap.src = "file" THEN FileMaxAge ELSE SnapTtl - 1 + MaxFetch)
  <2>1. q.snap.at \in Nat /\ q.snap.at <= FileMaxAge
    BY <1>1, <1>2, <1>3 DEF Taken, SnapshotStale
  <2>2. CASE q.snap.src = "file" /\ q.snap.read = q.snap.at
    BY <2>1, <2>2
  <2>3. CASE q.snap.src = "broker" /\ q.snap.read <= SnapTtl - 1 + MaxFetch
    BY <2>3
  <2> QED BY <1>1, <2>2, <2>3 DEF Taken
<1>4. ASSUME NEW s \in Priced(q) PROVE q.marks[s].read <= MaxStale + MaxFetch
  <2>1. MarkOk(q.marks[s]) /\ q.marks[s].priced
    BY <1>1, <1>4 DEF Priced
  <2> QED BY <2>1 DEF MarkOk
<1>5. ASSUME NEW s \in Priced(q) \ StalePriced(q)
      PROVE  q.marks[s].read <= (IF MarksTtl - 1 > 0 THEN MarksTtl - 1 ELSE 0) + MaxFetch
  <2>1. MarkOk(q.marks[s]) /\ q.marks[s].priced /\ ~q.marks[s].stale
    BY <1>1, <1>5 DEF Priced, StalePriced
  <2>2. q.marks[s].read <= MarksTtl - 1 + MaxFetch
    BY <2>1 DEF MarkOk
  <2>3. MarksTtl - 1 = (IF MarksTtl - 1 > 0 THEN MarksTtl - 1 ELSE 0)
    BY <1>2
  <2> QED BY <2>2, <2>3
<1> QED BY <1>3, <1>4, <1>5

\* When nothing is missing, drifted or unexpected, every holding is a target that
\* was priced: the whole that the weights are of is the whole of the book.
LEMMA InvMeasured == IInv => InSyncIsMeasured
<1> SUFFICES ASSUME IInv, NEW q \in Answers, q.kind = "recon", InSync(q)
             PROVE  /\ Priced(q) = DOMAIN q.plan /\ ~StalePrices(q)
                    /\ LET whole == Worth(q, Held(q.snap)) + q.snap.cash
                       IN  \A s \in Held(q.snap) : whole > 0 /\
                             (100 * q.snap.shares[s]) \div whole - q.plan[s] \in (-Tolerance)..Tolerance
  BY DEF InSyncIsMeasured
<1>1. DOMAIN q.marks \subseteq Held(q.snap)
  BY AnswerIs
<1>2. Missing(q) = {} /\ Drifted(q) = {} /\ Unexpected(q) = {}
  BY DEF InSync
<1>3. DOMAIN q.plan = Held(q.snap)
  BY <1>2 DEF Missing, Unexpected
<1>4. \A s \in Held(q.snap) : Matched(q, s)
  BY <1>2, <1>3 DEF Drifted
<1>5. Priced(q) = Held(q.snap)
  BY <1>1, <1>4 DEF Matched, Weighed, Priced
<1> DEFINE whole == Worth(q, Held(q.snap)) + q.snap.cash
<1>6. Value(q) = whole
  BY <1>5 DEF Value
<1>7. ASSUME NEW s \in Held(q.snap)
      PROVE  whole > 0 /\ (100 * q.snap.shares[s]) \div whole - q.plan[s] \in (-Tolerance)..Tolerance
  <2>1. Matched(q, s)
    BY <1>4
  <2>2. Value(q) > 0 /\ Near(q, s)
    BY <2>1 DEF Matched, Weighed
  <2>3. Weight(q, q.snap.shares[s]) = (100 * q.snap.shares[s]) \div Value(q)
    BY <2>2 DEF Weight
  <2>4. (100 * q.snap.shares[s]) \div Value(q) - q.plan[s] \in (-Tolerance)..Tolerance
    BY <2>2, <2>3 DEF Near
  <2> HIDE DEF whole
  <2> QED BY <1>6, <2>2, <2>4
<1>8. ~StalePrices(q)
  BY <1>5 DEF StalePrices
<1> QED BY <1>3, <1>5, <1>7, <1>8

LEMMA InvPrices == IInv => NothingIsForgotten /\ OnlyFailuresHoldBack
<1> SUFFICES ASSUME IInv, NEW q \in Answers, NEW s \in DOMAIN q.marks
             PROVE  /\ ~q.marks[s].priced => q.marks[s].good = None
                    /\ q.marks[s].stale \/ ~q.marks[s].priced => q.marks[s].tried # None
  BY DEF NothingIsForgotten, OnlyFailuresHoldBack
<1>1. MarkOk(q.marks[s])
  BY AnswerIs
<1> QED BY <1>1 DEF MarkOk

LEMMA IInvHolds == Spec => []IInv
<1> QED BY InvInit, InvStep, PTL DEF Spec

\* Every number is of the account that was asked for and judged by that account's
\* own slate; what is not called stale was asked for within the time to live and
\* the length of one read, also when an older read came back after a newer one;
\* and "in sync" is said only of a book that was wholly priced and close to its
\* targets, name by name.
THEOREM InvHolds == Spec => []Inv
<1>1. IInv => Inv
  BY InvTypeOK, InvOwnBook, InvAges, InvMeasured DEF Inv
<1> QED BY <1>1, IInvHolds, PTL

\* A name is without a price only if none arrived for MaxStale: no failure of the
\* vendor, of whichever thread, takes away a price that could still be served.
THEOREM PricesAreRemembered == Spec => []NothingIsForgotten
<1>1. IInv => NothingIsForgotten
  BY InvPrices
<1> QED BY <1>1, IInvHolds, PTL

\* A name is stale or without a price only if the vendor failed for it less than
\* the backoff before: requests in between do not put the next try off.
THEOREM FailuresHoldBack == Spec => []OnlyFailuresHoldBack
<1>1. IInv => OnlyFailuresHoldBack
  BY InvPrices
<1> QED BY <1>1, IInvHolds, PTL
=============================================================================
