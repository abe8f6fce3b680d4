------------------------- MODULE SettingsBookProofs -------------------------
(***************************************************************************)
(* Proofs about Settings and Book, two components that share nothing but   *)
(* this module.                                                            *)
(*                                                                         *)
(* Settings, for every set of threads, processes and values and every      *)
(* bound: the history tells the values in force, what a cache serves was   *)
(* in force as a whole, the cash band holds while every write was checked  *)
(* against current values, and only an overlap hides a write from the      *)
(* process that made it.                                                   *)
(*                                                                         *)
(* Book, for every calendar, closes, splits, judgments and number of runs  *)
(* and failures: exits are recorded, the mirror is one take of the         *)
(* account, marks are what the book was worth, and daily returns chain.    *)
(***************************************************************************)
EXTENDS Settings, Book, FiniteSetTheorems, WellFoundedInduction, TLAPS

-----------------------------------------------------------------------------
(***************************************************************************)
(* Part 1: Settings                                                        *)
(***************************************************************************)
-----------------------------------------------------------------------------
(* The history and the values it leads to                                  *)

\* A finite set of numbers has a greatest element.
LEMMA FiniteHasMax ==
    ASSUME NEW S, S \subseteq Int, IsFiniteSet(S), S # {}
    PROVE  \E m \in S : \A y \in S : m >= y
<1> DEFINE From(x) == {y \in S : y >= x}
           Tails == {From(x) : x \in S}
<1>1. IsWellFoundedOn(StrictSubsetOrdering(S), SUBSET S)
  BY FS_StrictSubsetOrderingWellFounded, FS_FiniteSubsetsOfFinite
<1>2. Tails \subseteq SUBSET S /\ Tails # {}
  OBVIOUS
<1>3. PICK t \in Tails : \A u \in Tails : <<u, t>> \notin StrictSubsetOrdering(S)
  <2> HIDE DEF Tails
  <2> QED BY <1>1, <1>2, WFMin
<1>4. PICK m \in S : t = From(m)
  BY <1>3
<1>5. ASSUME NEW y \in S PROVE m >= y
  <2>1. SUFFICES ASSUME y > m PROVE FALSE
    OBVIOUS
  <2>2. From(y) \subseteq From(m) /\ m \in From(m) /\ m \notin From(y)
    <3>1. y \in Int /\ m \in Int /\ \A z \in S : z \in Int
      OBVIOUS
    <3>2. m \in From(m) /\ m \notin From(y)
      BY <2>1, <3>1
    <3>3. ASSUME NEW z \in From(y) PROVE z \in From(m)
      <4>1. z \in S /\ z \in Int /\ z >= y
        BY <3>1
      <4>2. z >= m
        BY <4>1, <3>1, <2>1
      <4> QED BY <4>1, <4>2
    <3> QED BY <3>2, <3>3
  <2>3. <<From(y), From(m)>> \in StrictSubsetOrdering(S)
    BY <2>2 DEF StrictSubsetOrdering
  <2> QED BY <1>3, <1>4, <2>3
<1> QED BY <1>5

\* The changes of a key among the first n of a history, and what they lead to.
Changes(h, n, k) == {i \in 1..n : h[i].key = k}
ValueIn(h, n, k) ==
    IF Changes(h, n, k) = {} THEN Default[k] ELSE h[Max(Changes(h, n, k))].new
ValuesIn(h, n) == [k \in Keys |-> ValueIn(h, n, k)]

LEMMA LastChange ==
    ASSUME NEW h, NEW n \in Nat, NEW k \in Keys, Changes(h, n, k) # {}
    PROVE  /\ Max(Changes(h, n, k)) \in Changes(h, n, k)
           /\ Max(Changes(h, n, k)) \in 1..n
<1>1. Changes(h, n, k) \subseteq 1..n /\ 1..n \subseteq Int
  BY DEF Changes
<1>2. IsFiniteSet(Changes(h, n, k))
  BY <1>1, FS_Interval, FS_Subset
<1>3. \E m \in Changes(h, n, k) : \A y \in Changes(h, n, k) : m >= y
  BY <1>1, <1>2, FiniteHasMax
<1> QED BY <1>1, <1>3 DEF Max

\* The operator of the model, in terms of them.
LEMMA AfterIs ==
    ASSUME NEW n \in Nat
    PROVE  After(n) = ValuesIn(history, n)
<1>1. ASSUME NEW k \in Keys PROVE After(n)[k] = ValueIn(history, n, k)
  <2> DEFINE I == {x \in 1..n : history[x].key = k}
  <2>1. I = Changes(history, n, k)
    BY DEF Changes
  <2> HIDE DEF I
  <2>2. Changes(history, n, k) # {} => Max(Changes(history, n, k)) \in 1..n
    BY LastChange
  <2>3. (LET i == IF I # {} THEN Max(I) ELSE 0
         IN  IF i = 0 THEN Default[k] ELSE history[i].new) = ValueIn(history, n, k)
    BY <2>1, <2>2 DEF ValueIn
  <2> QED BY <2>3 DEF I, After, SelectLastInSubSeq
<1> QED BY <1>1 DEF After, ValuesIn

\* Without a change, the defaults are in force.
LEMMA DefaultsFirst == \A h : ValuesIn(h, 0) = Default
  BY ValuesAreNat DEF ValuesIn, ValueIn, Changes

\* The past does not change: a change that is appended leaves every earlier
\* state of the values what it was.
LEMMA PastStands ==
    ASSUME NEW h \in Seq(Change), NEW ch \in Change, NEW n \in 0..Len(h)
    PROVE  ValuesIn(Append(h, ch), n) = ValuesIn(h, n)
<1>1. n \in Nat /\ \A i \in 1..n : Append(h, ch)[i] = h[i]
  OBVIOUS
<1>2. ASSUME NEW k \in Keys PROVE ValueIn(Append(h, ch), n, k) = ValueIn(h, n, k)
  <2>1. Changes(Append(h, ch), n, k) = Changes(h, n, k)
    BY <1>1 DEF Changes
  <2>2. Changes(h, n, k) # {} => Max(Changes(h, n, k)) \in 1..n
    BY <1>1, LastChange
  <2> QED BY <1>1, <2>1, <2>2 DEF ValueIn
<1> QED BY <1>2 DEF ValuesIn

\* The last change is the value of its key, and of no other.
LEMMA LastChangeStands ==
    ASSUME NEW h \in Seq(Change), NEW ch \in Change
    PROVE  ValuesIn(Append(h, ch), Len(h) + 1) = [ValuesIn(h, Len(h)) EXCEPT ![ch.key] = ch.new]
<1> DEFINE n == Len(h)
           m == Len(h) + 1
           g == Append(h, ch)
<1>1. /\ n \in Nat /\ m \in Nat /\ m \in 1..m
      /\ g[m] = ch
      /\ \A i \in 1..n : g[i] = h[i]
      /\ 1..m = 1..n \cup {m}
  OBVIOUS
<1>2. ch.key \in Keys
  BY DEF Change
<1> HIDE DEF n, m, g
<1>3. ValueIn(g, m, ch.key) = ch.new
  <2>1. m \in Changes(g, m, ch.key)
    BY <1>1 DEF Changes
  <2>2. \A i \in Changes(g, m, ch.key) : i \in 1..m
    BY DEF Changes
  <2>3. Max(Changes(g, m, ch.key)) = m
    BY <1>1, <2>1, <2>2 DEF Max
  <2> QED BY <1>1, <2>1, <2>3 DEF ValueIn
<1>4. ASSUME NEW k \in Keys, k # ch.key PROVE ValueIn(g, m, k) = ValueIn(h, n, k)
  <2>1. Changes(g, m, k) = Changes(h, n, k)
    BY <1>1, <1>4 DEF Changes
  <2>2. Changes(h, n, k) # {} => Max(Changes(h, n, k)) \in 1..n
    BY <1>1, LastChange
  <2> QED BY <1>1, <2>1, <2>2 DEF ValueIn
<1>5. ValuesIn(g, m) = [ValuesIn(h, n) EXCEPT ![ch.key] = ch.new]
  BY <1>2, <1>3, <1>4 DEF ValuesIn
<1> QED BY <1>5 DEF n, m, g
-----------------------------------------------------------------------------
(* The inductive invariant                                                 *)

\* An answer is a state the table was in, or the defaults and labelled so.
Honest(h, a) ==
    /\ a.at <= Len(h)
    /\ a.view = IF a.source = "database" THEN ValuesIn(h, a.at) ELSE Default

\* A call that got past the lookup is about one parameter, and one that got
\* past the band check was checked against the answer it still holds.
CallSound(h, c) ==
    /\ Honest(h, c.got)
    /\ c.key # "all" => c.value \in Values
    /\ c.at \in {"check", "begin", "commit", "drop"} => c.key # "all"
    /\ c.at \in {"begin", "commit"} => ~Inverted([c.got.view EXCEPT ![c.key] = c.value])

\* What a call has read and not yet stored holds the last write of its own
\* process, unless the cache was dropped meanwhile.
ReadIsNew(c, t) ==
    c.at = "store" /\ c.got.source = "database" /\ t \notin late => c.got.at >= own[Home[t]]

\* The strengthening of Inv and OnlyOverlapHidesAWrite that the steps preserve.
IInv ==
    /\ TypeOK
    /\ ValuesIn(history, Len(history)) = Current
    /\ \A p \in Procs : Honest(history, cache[p].got) /\ own[p] <= Len(history)
    /\ \A t \in Threads : CallSound(history, thread[t]) /\ ReadIsNew(thread[t], t)
    /\ BandHeldWhenFresh
    /\ OnlyOverlapHidesAWrite

LEMMA DefaultsTyped == Defaults \in Answer /\ NoCall \in Call
<1>1. Default \in View /\ 0 \in 0..MaxWrites
  BY ValuesAreNat, BoundsAreNat DEF View
<1>2. Defaults \in Answer
  BY <1>1 DEF Defaults, Answer, Source
<1> QED BY <1>2 DEF NoCall, Call

LEMMA CurrentTyped == TypeOK => Current \in View
<1> SUFFICES ASSUME TypeOK PROVE Current \in View
  OBVIOUS
<1>1. ASSUME NEW k \in Keys
      PROVE  (IF table[k] = Unset THEN Default[k] ELSE table[k]) \in Values
  BY ValuesAreNat DEF TypeOK
<1> QED BY <1>1 DEF Current, View

LEMMA DefaultsSound == \A h \in Seq(Change) : Honest(h, Defaults) /\ CallSound(h, NoCall)
<1> SUFFICES ASSUME NEW h \in Seq(Change) PROVE Honest(h, Defaults) /\ CallSound(h, NoCall)
  OBVIOUS
<1>1. Len(h) \in Nat /\ Defaults.at = 0 /\ Defaults.view = Default /\ Defaults.source # "database"
  BY DEF Defaults
<1>2. Honest(h, Defaults)
  BY <1>1 DEF Honest
<1>3. NoCall.got = Defaults /\ NoCall.key = "all" /\ NoCall.at = "idle"
  BY DEF NoCall
<1> QED BY <1>2, <1>3 DEF CallSound

LEMMA InvInit == Init => IInv
<1> SUFFICES ASSUME Init PROVE IInv
  OBVIOUS
<1>0. Len(history) = 0 /\ history \in Seq(Change) /\ 0 \in 0..MaxWrites
  BY BoundsAreNat DEF Init
<1>1. TypeOK
  <2>1. [valid |-> FALSE, got |-> Defaults, age |-> 0] \in Cache
    BY DefaultsTyped, BoundsAreNat DEF Cache
  <2>2. /\ table \in [Keys -> Values \cup {Unset}]
        /\ cache \in [Procs -> Cache]
        /\ thread \in [Threads -> Call]
        /\ own \in [Procs -> 0..MaxWrites]
    BY <1>0, <2>1, DefaultsTyped DEF Init
  <2>3. raced \in [Procs -> BOOLEAN] /\ unsound \in BOOLEAN /\ late \subseteq Threads
    BY DEF Init
  <2>4. Len(history) <= MaxWrites
    BY <1>0, BoundsAreNat
  <2> QED BY <1>0, <2>2, <2>3, <2>4 DEF TypeOK
<1>2. Current = Default
  BY ValuesAreNat DEF Init, Current
<1>3. ValuesIn(history, Len(history)) = Current
  BY <1>0, <1>2, DefaultsFirst
<1>4. BandHeldWhenFresh
  <2>1. Default["floor"] \in Int /\ Default["ceiling"] \in Int
    <3>1. "floor" \in Keys /\ "ceiling" \in Keys
      BY DEF Keys
    <3>2. \A k \in Keys : Default[k] \in Values
      BY ValuesAreNat
    <3>3. Values \subseteq Int
      BY ValuesAreNat
    <3> QED BY <3>1, <3>2, <3>3
  <2>2. ~Inverted(Current)
    BY <1>2, <2>1, DefaultsAreABand DEF Inverted
  <2> QED BY <2>2 DEF BandHeldWhenFresh
<1>5. OnlyOverlapHidesAWrite
  BY DEF Init, OnlyOverlapHidesAWrite
<1>6. \A p \in Procs : Honest(history, cache[p].got) /\ own[p] <= Len(history)
  <2>1. \A p \in Procs : cache[p].got = Defaults /\ own[p] = 0
    BY DEF Init
  <2>2. Honest(history, Defaults)
    BY <1>0, DefaultsSound
  <2> QED BY <1>0, <2>1, <2>2
<1>7. \A t \in Threads : CallSound(history, thread[t]) /\ ReadIsNew(thread[t], t)
  <2>1. \A t \in Threads : thread[t] = NoCall /\ NoCall.at = "idle"
    BY DEF Init, NoCall
  <2> QED BY <1>0, <2>1, DefaultsSound DEF ReadIsNew
<1> QED BY <1>1, <1>3, <1>4, <1>5, <1>6, <1>7 DEF IInv
-----------------------------------------------------------------------------
(* The steps                                                               *)

\* A step that only moves one thread on, to a call that is sound.
LEMMA ThreadKeeps ==
    ASSUME IInv, NEW t \in Threads, NEW c \in Call, CallSound(history, c), ReadIsNew(c, t),
           Set(t, c), UNCHANGED <<table, history, cache, ghosts>>
    PROVE  IInv'
<1>1. /\ table' = table /\ history' = history /\ cache' = cache
      /\ own' = own /\ late' = late /\ raced' = raced /\ unsound' = unsound
  BY DEF ghosts
<1>2. thread' = [thread EXCEPT ![t] = c] /\ thread' \in [Threads -> Call]
  BY DEF Set, IInv, TypeOK
<1>3. TypeOK'
  BY <1>1, <1>2 DEF IInv, TypeOK
<1>4. \A u \in Threads : CallSound(history', thread'[u]) /\ ReadIsNew(thread[u], u)'
  BY <1>1, <1>2 DEF IInv, TypeOK, ReadIsNew
<1>5. BandHeldWhenFresh' /\ OnlyOverlapHidesAWrite' /\ Current' = Current
  BY <1>1 DEF IInv, Current, BandHeldWhenFresh, OnlyOverlapHidesAWrite
<1> QED BY <1>1, <1>3, <1>4, <1>5 DEF IInv

\* Where a lookup leads is sound: to the read of the table, or on with an
\* answer that is.
LEMMA WithSound ==
    ASSUME NEW h \in Seq(Change), NEW call \in Call, CallSound(h, call), call.at \in {"idle", "store"},
           NEW a \in Answer, Honest(h, a)
    PROVE  With(call, a) \in Call /\ CallSound(h, With(call, a)) /\ With(call, a).at # "store"
<1>1. CASE call.key = "all"
  <2>1. NoCall.at = "idle"
    BY DEF NoCall
  <2> QED BY <1>1, <2>1, DefaultsTyped, DefaultsSound DEF With
<1>2. CASE call.key # "all"
  <2> DEFINE c == [call EXCEPT !.at = "check", !.got = a]
  <2>1. /\ c \in Call /\ c.at = "check" /\ c.got = a
        /\ c.key = call.key /\ c.value = call.value
    BY DEF Call
  <2>2. With(call, a) = c
    BY <1>2 DEF With
  <2> HIDE DEF c
  <2> QED BY <1>2, <2>1, <2>2 DEF CallSound
<1> QED BY <1>1, <1>2

LEMMA LookupKeeps ==
    ASSUME IInv, NEW t \in Threads, NEW call \in Call, CallSound(history, call),
           call.at = "idle", Lookup(t, call)
    PROVE  IInv'
<1> DEFINE p == Home[t]
           load == [call EXCEPT !.at = "load"]
<1>1. p \in Procs /\ cache[p].got \in Answer /\ history \in Seq(Change)
  BY HomeIsProc DEF IInv, TypeOK, Cache
<1>2. load \in Call /\ CallSound(history, load) /\ load.at = "load"
  <2>1. /\ load \in Call /\ load.at = "load" /\ load.got = call.got
        /\ load.key = call.key /\ load.value = call.value
    BY DEF Call
  <2> HIDE DEF load
  <2> QED BY <2>1 DEF CallSound
<1>3. /\ With(call, cache[p].got) \in Call /\ CallSound(history, With(call, cache[p].got))
      /\ With(call, cache[p].got).at # "store"
  BY <1>1, WithSound DEF IInv
<1>4. UNCHANGED <<table, history, cache, ghosts>>
  BY DEF Lookup
<1>5. Set(t, load) \/ Set(t, With(call, cache[p].got))
  BY DEF Lookup
<1> HIDE DEF load, p
<1>6. ReadIsNew(load, t) /\ ReadIsNew(With(call, cache[p].got), t)
  BY <1>2, <1>3 DEF ReadIsNew
<1> QED BY <1>2, <1>3, <1>4, <1>5, <1>6, ThreadKeeps

LEMMA LoadKeeps == ASSUME IInv, NEW t \in Threads, Load(t) PROVE IInv'
<1> DEFINE answer == [view |-> Current, source |-> "database", at |-> Len(history)]
<1>1. thread[t] \in Call /\ CallSound(history, thread[t]) /\ thread[t].at = "load"
      /\ history \in Seq(Change)
  BY DEF IInv, TypeOK, Load
<1>2. answer \in Answer /\ Honest(history, answer) /\ answer.at >= own[Home[t]]
  <2>1. Current \in View /\ Len(history) \in 0..MaxWrites
    BY CurrentTyped, BoundsAreNat DEF IInv, TypeOK
  <2>2. own[Home[t]] \in Nat /\ own[Home[t]] <= Len(history)
    BY HomeIsProc, BoundsAreNat DEF IInv, TypeOK
  <2> QED BY <2>1, <2>2 DEF Answer, Source, Honest, IInv
<1>3. Defaults \in Answer /\ Honest(history, Defaults) /\ Defaults.source # "database"
  BY <1>1, DefaultsTyped, DefaultsSound DEF Defaults
<1>4. ASSUME NEW a \in Answer, Honest(history, a), a.source = "database" => a.at >= own[Home[t]]
      PROVE  LET c == [thread[t] EXCEPT !.at = "store", !.got = a]
             IN  c \in Call /\ CallSound(history, c) /\ ReadIsNew(c, t)
  <2> DEFINE c == [thread[t] EXCEPT !.at = "store", !.got = a]
  <2>1. /\ c \in Call /\ c.at = "store" /\ c.got = a
        /\ c.key = thread[t].key /\ c.value = thread[t].value
    BY <1>1 DEF Call
  <2> HIDE DEF c
  <2>2. c \in Call /\ CallSound(history, c) /\ ReadIsNew(c, t)
    BY <1>1, <1>4, <2>1 DEF CallSound, ReadIsNew
  <2> QED BY <2>2 DEF c
<1>5. UNCHANGED <<table, history, cache, ghosts>>
  BY DEF Load
<1>6. \E a \in {answer, Defaults} : Set(t, [thread[t] EXCEPT !.at = "store", !.got = a])
  BY DEF Load
<1> HIDE DEF answer
<1> QED BY <1>2, <1>3, <1>4, <1>5, <1>6, ThreadKeeps

LEMMA CheckBandKeeps == ASSUME IInv, NEW t \in Threads, CheckBand(t) PROVE IInv'
<1> DEFINE c == [thread[t] EXCEPT !.at = "begin"]
<1>1. thread[t] \in Call /\ CallSound(history, thread[t]) /\ thread[t].at = "check"
      /\ history \in Seq(Change)
  BY DEF IInv, TypeOK, CheckBand
<1>2. /\ c \in Call /\ c.at = "begin" /\ c.got = thread[t].got
      /\ c.key = thread[t].key /\ c.value = thread[t].value
  BY <1>1 DEF Call
<1>3. UNCHANGED <<table, history, cache, ghosts>>
  BY DEF CheckBand
<1>4. NoCall \in Call /\ CallSound(history, NoCall) /\ ReadIsNew(NoCall, t)
  BY <1>1, DefaultsTyped, DefaultsSound DEF NoCall, ReadIsNew
<1>5. CASE Inverted([thread[t].got.view EXCEPT ![thread[t].key] = thread[t].value])
  <2>1. Set(t, NoCall)
    BY <1>5 DEF CheckBand, Return
  <2> QED BY <1>3, <1>4, <2>1, ThreadKeeps
<1>6. CASE ~Inverted([thread[t].got.view EXCEPT ![thread[t].key] = thread[t].value])
  <2>1. Set(t, c)
    BY <1>6 DEF CheckBand
  <2> HIDE DEF c
  <2>2. CallSound(history, c) /\ ReadIsNew(c, t)
    BY <1>1, <1>2, <1>6 DEF CallSound, ReadIsNew
  <2> QED BY <1>2, <1>3, <2>1, <2>2, ThreadKeeps
<1> QED BY <1>5, <1>6

LEMMA ReadPreviousKeeps == ASSUME IInv, NEW t \in Threads, ReadPrevious(t) PROVE IInv'
<1> DEFINE c == [thread[t] EXCEPT !.at = "commit", !.old = table[thread[t].key]]
<1>1. thread[t] \in Call /\ CallSound(history, thread[t]) /\ thread[t].at = "begin"
      /\ history \in Seq(Change)
  BY DEF IInv, TypeOK, ReadPrevious
<1>2. thread[t].key \in Keys /\ table[thread[t].key] \in Values \cup {Unset}
  BY <1>1 DEF IInv, TypeOK, Call, CallSound
<1>3. /\ c \in Call /\ c.at = "commit" /\ c.got = thread[t].got
      /\ c.key = thread[t].key /\ c.value = thread[t].value
  BY <1>1, <1>2 DEF Call
<1>4. UNCHANGED <<table, history, cache, ghosts>>
  BY DEF ReadPrevious
<1>5. NoCall \in Call /\ CallSound(history, NoCall) /\ ReadIsNew(NoCall, t)
  BY <1>1, DefaultsTyped, DefaultsSound DEF NoCall, ReadIsNew
<1>6. Set(t, NoCall) \/ Set(t, c)
  BY DEF ReadPrevious, Return
<1> HIDE DEF c
<1>7. CallSound(history, c) /\ ReadIsNew(c, t)
  BY <1>1, <1>3 DEF CallSound, ReadIsNew
<1> QED BY <1>3, <1>4, <1>5, <1>6, <1>7, ThreadKeeps

LEMMA AbortWriteKeeps == ASSUME IInv, NEW t \in Threads, AbortWrite(t) PROVE IInv'
<1>1. NoCall \in Call /\ CallSound(history, NoCall) /\ ReadIsNew(NoCall, t)
  BY DefaultsTyped, DefaultsSound DEF IInv, TypeOK, NoCall, ReadIsNew
<1>2. UNCHANGED <<table, history, cache, ghosts>> /\ Set(t, NoCall)
  BY DEF AbortWrite, Return
<1> QED BY <1>1, <1>2, ThreadKeeps

\* The answer is cached: as honest as the call that read it, and as new
\* unless the process dropped its cache since.
LEMMA StoreKeeps == ASSUME IInv, NEW t \in Threads, Store(t) PROVE IInv'
<1> DEFINE p == Home[t]
           a == thread[t].got
           entry == [valid |-> TRUE, got |-> a, age |-> 0]
           c == With(thread[t], a)
<1>1. /\ p \in Procs /\ history \in Seq(Change)
      /\ thread[t] \in Call /\ CallSound(history, thread[t]) /\ thread[t].at = "store"
      /\ a \in Answer /\ Honest(history, a)
  BY HomeIsProc DEF IInv, TypeOK, Store, CallSound, Call
<1>2. c \in Call /\ CallSound(history, c) /\ c.at # "store"
  BY <1>1, WithSound
<1>3. /\ entry \in Cache /\ entry.got = a /\ entry.valid = TRUE
  BY <1>1, BoundsAreNat DEF Cache
<1>4. /\ table' = table /\ history' = history /\ own' = own /\ unsound' = unsound
      /\ thread' = [thread EXCEPT ![t] = c]
      /\ cache' = [cache EXCEPT ![p] = entry]
      /\ raced' = [raced EXCEPT ![p] = t \in late]
      /\ late' = late \ {t}
  BY DEF Store, Set
<1> HIDE DEF a, c, p, entry
<1>5. TypeOK'
  <2>1. thread' \in [Threads -> Call] /\ cache' \in [Procs -> Cache]
    BY <1>2, <1>3, <1>4 DEF IInv, TypeOK
  <2>2. raced' \in [Procs -> BOOLEAN] /\ late' \subseteq Threads
    <3>1. (t \in late) \in BOOLEAN
      OBVIOUS
    <3>2. PICK b \in BOOLEAN : raced' = [raced EXCEPT ![p] = b]
      BY <1>4, <3>1, Zenon
    <3>3. raced \in [Procs -> BOOLEAN]
      BY DEF IInv, TypeOK
    <3>4. late' \subseteq Threads
      BY <1>4 DEF IInv, TypeOK
    <3> QED BY <3>2, <3>3, <3>4
  <2> QED BY <1>4, <2>1, <2>2 DEF IInv, TypeOK
<1>6. \A u \in Threads : CallSound(history', thread'[u]) /\ ReadIsNew(thread[u], u)'
  <2> SUFFICES ASSUME NEW u \in Threads
               PROVE  CallSound(history', thread'[u]) /\ ReadIsNew(thread[u], u)'
    OBVIOUS
  <2>1. CASE u = t
    <3>1. thread'[u] = c
      BY <1>4, <2>1 DEF IInv, TypeOK
    <3> QED BY <1>2, <1>4, <3>1 DEF ReadIsNew
  <2>2. CASE u # t
    <3>1. thread'[u] = thread[u] /\ (u \in late' <=> u \in late)
      BY <1>4, <2>2 DEF IInv, TypeOK
    <3>2. ReadIsNew(thread[u], u)
      BY DEF IInv
    <3> QED BY <1>4, <3>1, <3>2 DEF IInv, ReadIsNew
  <2> QED BY <2>1, <2>2
<1>7. \A q \in Procs : Honest(history', cache'[q].got) /\ own'[q] <= Len(history')
  BY <1>1, <1>3, <1>4 DEF IInv, TypeOK
<1>8. BandHeldWhenFresh' /\ Current' = Current
  BY <1>4 DEF IInv, Current, BandHeldWhenFresh
<1>9. ASSUME NEW q \in Procs, cache'[q].valid, cache'[q].got.source = "database", ~raced'[q]
      PROVE  cache'[q].got.at >= own'[q]
  <2>1. CASE q = p
    <3>1. cache'[q].got = a /\ own'[q] = own[p]
      BY <1>3, <1>4, <2>1 DEF IInv, TypeOK
    <3>2. raced'[q] = (t \in late)
      <4>1. raced \in [Procs -> BOOLEAN]
        BY DEF IInv, TypeOK
      <4> QED BY <1>1, <1>4, <2>1, <4>1, Zenon
    <3>3. a.at >= own[p]
      <4>1. t \notin late
        BY <1>9, <3>2
      <4>2. ReadIsNew(thread[t], t)
        BY DEF IInv
      <4> QED BY <1>1, <1>9, <3>1, <4>1, <4>2 DEF ReadIsNew, a, p
    <3> QED BY <3>1, <3>3
  <2>2. CASE q # p
    <3>1. cache'[q] = cache[q] /\ raced'[q] = raced[q] /\ own'[q] = own[q]
      BY <1>4, <2>2 DEF IInv, TypeOK
    <3> QED BY <1>9, <3>1 DEF IInv, OnlyOverlapHidesAWrite
  <2> QED BY <2>1, <2>2
<1>10. OnlyOverlapHidesAWrite'
  BY <1>9 DEF OnlyOverlapHidesAWrite
<1>11. ValuesIn(history', Len(history')) = Current'
  BY <1>4, <1>8 DEF IInv
<1> QED BY <1>5, <1>6, <1>7, <1>8, <1>10, <1>11 DEF IInv

\* A change that is appended takes nothing from what earlier answers said.
LEMMA HonestStays ==
    ASSUME NEW h \in Seq(Change), NEW ch \in Change, NEW a \in Answer, Honest(h, a)
    PROVE  Honest(Append(h, ch), a)
<1>1. a.at \in 0..Len(h) /\ Len(Append(h, ch)) = Len(h) + 1 /\ Len(h) \in Nat
  BY DEF Honest, Answer
<1>2. ValuesIn(Append(h, ch), a.at) = ValuesIn(h, a.at)
  BY <1>1, PastStands
<1>3. a.at <= Len(Append(h, ch))
  BY <1>1
<1> QED BY <1>2, <1>3 DEF Honest

\* A write: the history goes on to the values now in force, and a band that
\* is inverted by it was checked against another end than the one it met.
LEMMA CommitWriteKeeps == ASSUME IInv, NEW t \in Threads, CommitWrite(t) PROVE IInv'
<1> DEFINE c == thread[t]
           k == thread[t].key
           v == thread[t].value
           ch == [key |-> k, old |-> thread[t].old, new |-> v]
           next == [thread[t] EXCEPT !.at = "drop"]
<1>1. /\ history \in Seq(Change) /\ c \in Call /\ CallSound(history, c)
      /\ c.at = "commit" /\ Len(history) < MaxWrites
  BY DEF IInv, TypeOK, CommitWrite
<1>2. k \in Keys /\ v \in Values /\ v # Unset
  <2>1. k \in Keys /\ v \in Values
    BY <1>1 DEF CallSound, Call
  <2>2. Values \subseteq Nat
    BY ValuesAreNat
  <2> QED BY <2>1, <2>2 DEF Unset
<1>3. ch \in Change /\ ch.key = k /\ ch.new = v
  BY <1>1, <1>2 DEF Change, Call
<1>4. /\ table' = [table EXCEPT ![k] = v]
      /\ history' = Append(history, ch)
      /\ unsound' = (unsound \/ c.got.view[Other(k)] # Current[Other(k)])
      /\ thread' = [thread EXCEPT ![t] = next] \/ thread' = [thread EXCEPT ![t] = NoCall]
      /\ cache' = cache /\ own' = own /\ late' = late /\ raced' = raced
  BY DEF CommitWrite, Set, Return
<1>5. /\ next \in Call /\ next.at = "drop" /\ next.got = c.got
      /\ next.key = k /\ next.value = v
  BY <1>1 DEF Call
<1>6. /\ history' \in Seq(Change) /\ Len(history') = Len(history) + 1
      /\ Len(history) \in Nat /\ Len(history') <= MaxWrites
  BY <1>1, <1>3, <1>4, BoundsAreNat
<1>7. CallSound(history, next)
  BY <1>1, <1>2, <1>5 DEF CallSound
<1> HIDE DEF ch, next
<1>8. Current' = [Current EXCEPT ![k] = v]
  <2>1. ASSUME NEW j \in Keys
        PROVE  (IF table'[j] = Unset THEN Default[j] ELSE table'[j])
                 = IF j = k THEN v ELSE Current[j]
    BY <1>2, <1>4 DEF IInv, TypeOK, Current
  <2> QED BY <1>2, <2>1 DEF Current
<1>9. TypeOK'
  <2>1. thread' \in [Threads -> Call]
    BY <1>4, <1>5, DefaultsTyped DEF IInv, TypeOK
  <2>2. table' \in [Keys -> Values \cup {Unset}]
    BY <1>2, <1>4 DEF IInv, TypeOK
  <2>3. unsound' \in BOOLEAN
    BY <1>4 DEF IInv, TypeOK
  <2> QED BY <1>4, <1>6, <2>1, <2>2, <2>3 DEF IInv, TypeOK
<1>10. ValuesIn(history', Len(history')) = Current'
  <2>1. ValuesIn(history', Len(history) + 1) = [ValuesIn(history, Len(history)) EXCEPT ![k] = v]
    BY <1>1, <1>3, <1>4, LastChangeStands
  <2> QED BY <1>6, <1>8, <2>1 DEF IInv
<1>11. ASSUME NEW a \in Answer, Honest(history, a) PROVE Honest(history', a)
  BY <1>1, <1>3, <1>4, <1>11, HonestStays
<1>12. ASSUME NEW x \in Call, CallSound(history, x) PROVE CallSound(history', x)
  <2>1. Honest(history', x.got)
    BY <1>11, <1>12 DEF CallSound, Call
  <2> QED BY <1>12, <2>1 DEF CallSound
<1>13. \A p \in Procs : Honest(history', cache'[p].got) /\ own'[p] <= Len(history')
  <2> SUFFICES ASSUME NEW p \in Procs
               PROVE  Honest(history', cache'[p].got) /\ own'[p] <= Len(history')
    OBVIOUS
  <2>1. cache[p].got \in Answer /\ own[p] \in Nat /\ own[p] <= Len(history)
    BY BoundsAreNat DEF IInv, TypeOK, Cache
  <2>2. Honest(history', cache[p].got)
    BY <1>11, <2>1 DEF IInv
  <2> QED BY <1>4, <1>6, <2>1, <2>2
<1>14. \A u \in Threads : CallSound(history', thread'[u])
  <2> SUFFICES ASSUME NEW u \in Threads PROVE CallSound(history', thread'[u])
    OBVIOUS
  <2>1. thread[u] \in Call /\ CallSound(history, thread[u])
    BY DEF IInv, TypeOK
  <2>2. thread'[u] \in {next, NoCall, thread[u]}
    BY <1>4 DEF IInv, TypeOK
  <2>3. CallSound(history, NoCall)
    BY <1>1, DefaultsSound
  <2> QED BY <1>5, <1>7, <1>12, <2>1, <2>2, <2>3, DefaultsTyped
<1>15. BandHeldWhenFresh'
  <2>1. SUFFICES ASSUME c.got.view[Other(k)] = Current[Other(k)] PROVE ~Inverted(Current')
    BY <1>4 DEF BandHeldWhenFresh
  <2>2. ~Inverted([c.got.view EXCEPT ![k] = v])
    BY <1>1 DEF CallSound
  <2>3. c.got.view \in View /\ Current \in View
    BY <1>1, CurrentTyped DEF IInv, Call, Answer
  <2>4. \A j \in Keys : Current'[j] = [c.got.view EXCEPT ![k] = v][j]
    BY <1>2, <1>8, <2>1, <2>3 DEF View, Keys, Other
  <2> QED BY <2>2, <2>4 DEF Inverted, Keys
<1>17. \A u \in Threads : ReadIsNew(thread[u], u)'
  <2> SUFFICES ASSUME NEW u \in Threads PROVE ReadIsNew(thread[u], u)'
    OBVIOUS
  <2>1. thread'[u] \in {next, NoCall, thread[u]}
    BY <1>4 DEF IInv, TypeOK
  <2>2. next.at # "store" /\ NoCall.at # "store"
    BY <1>5 DEF NoCall
  <2>3. ReadIsNew(thread[u], u)
    BY DEF IInv
  <2> QED BY <1>4, <2>1, <2>2, <2>3 DEF ReadIsNew
<1>16. OnlyOverlapHidesAWrite'
  BY <1>4 DEF IInv, OnlyOverlapHidesAWrite
<1> QED BY <1>9, <1>10, <1>13, <1>14, <1>15, <1>16, <1>17 DEF IInv

LEMMA DropCacheKeeps == ASSUME IInv, NEW t \in Threads, DropCache(t) PROVE IInv'
<1> DEFINE p == Home[t]
           entry == [cache[Home[t]] EXCEPT !.valid = FALSE]
<1>1. /\ p \in Procs /\ history \in Seq(Change) /\ cache[p] \in Cache
      /\ Len(history) \in 0..MaxWrites
  BY HomeIsProc, BoundsAreNat DEF IInv, TypeOK
<1>2. entry \in Cache /\ entry.got = cache[p].got /\ entry.valid = FALSE
  BY <1>1 DEF Cache
<1>3. /\ table' = table /\ history' = history /\ unsound' = unsound
      /\ thread' = [thread EXCEPT ![t] = NoCall]
      /\ cache' = [cache EXCEPT ![p] = entry]
      /\ own' = [own EXCEPT ![p] = Len(history)]
      /\ late' = late \cup {s \in Threads : Home[s] = p /\ thread[s].at = "store"}
      /\ raced' = [raced EXCEPT ![p] = FALSE]
  BY DEF DropCache, Return, Set
<1>4. NoCall \in Call /\ CallSound(history, NoCall)
  BY <1>1, DefaultsTyped, DefaultsSound
<1> HIDE DEF p, entry
<1>5. TypeOK'
  <2>1. thread' \in [Threads -> Call] /\ cache' \in [Procs -> Cache] /\ own' \in [Procs -> 0..MaxWrites]
    BY <1>1, <1>2, <1>3, <1>4 DEF IInv, TypeOK
  <2>2. raced' \in [Procs -> BOOLEAN] /\ late' \subseteq Threads
    BY <1>3 DEF IInv, TypeOK
  <2> QED BY <1>3, <2>1, <2>2 DEF IInv, TypeOK
<1>6. \A u \in Threads : CallSound(history', thread'[u])
  BY <1>3, <1>4 DEF IInv, TypeOK
<1>12. \A u \in Threads : ReadIsNew(thread[u], u)'
  <2> SUFFICES ASSUME NEW u \in Threads, thread'[u].at = "store", u \notin late',
                      thread'[u].got.source = "database"
               PROVE  thread'[u].got.at >= own'[Home[u]]
    BY DEF ReadIsNew
  <2>1. u # t /\ thread'[u] = thread[u] /\ u \notin late /\ Home[u] # p
    <3>1. NoCall.at # "store"
      BY DEF NoCall
    <3> QED BY <1>3, <3>1 DEF IInv, TypeOK
  <2>2. Home[u] \in Procs /\ own'[Home[u]] = own[Home[u]]
    BY <1>3, <2>1, HomeIsProc DEF IInv, TypeOK
  <2>3. ReadIsNew(thread[u], u)
    BY DEF IInv
  <2> QED BY <2>1, <2>2, <2>3 DEF ReadIsNew
<1>7. \A q \in Procs : Honest(history', cache'[q].got) /\ own'[q] <= Len(history')
  BY <1>1, <1>2, <1>3 DEF IInv, TypeOK
<1>8. BandHeldWhenFresh' /\ Current' = Current
  BY <1>3 DEF IInv, Current, BandHeldWhenFresh
<1>9. ASSUME NEW q \in Procs, cache'[q].valid, cache'[q].got.source = "database", ~raced'[q]
      PROVE  cache'[q].got.at >= own'[q]
  <2>1. q # p
    BY <1>2, <1>3, <1>9 DEF IInv, TypeOK
  <2>2. cache'[q] = cache[q] /\ raced'[q] = raced[q] /\ own'[q] = own[q]
    BY <1>3, <2>1 DEF IInv, TypeOK
  <2> QED BY <1>9, <2>2 DEF IInv, OnlyOverlapHidesAWrite
<1>10. OnlyOverlapHidesAWrite'
  BY <1>9 DEF OnlyOverlapHidesAWrite
<1>11. ValuesIn(history', Len(history')) = Current'
  BY <1>3, <1>8 DEF IInv
<1> QED BY <1>5, <1>6, <1>7, <1>8, <1>10, <1>11, <1>12 DEF IInv

LEMMA TickKeeps == ASSUME IInv, Tick PROVE IInv'
<1>1. /\ table' = table /\ history' = history /\ unsound' = unsound /\ thread' = thread
      /\ own' = own /\ late' = late /\ raced' = raced
  BY DEF Tick, ghosts
<1>2. ASSUME NEW p \in Procs
      PROVE  cache'[p] \in Cache /\ cache'[p].got = cache[p].got /\ cache'[p].valid = cache[p].valid
  <2>1. cache[p] \in Cache
    BY DEF IInv, TypeOK
  <2>2. cache[p].age \in 0..Ttl /\ Ttl \in Nat
    BY <2>1, BoundsAreNat DEF Cache
  <2>3. CASE cache[p].valid /\ cache[p].age < Ttl
    <3>1. cache'[p] = [cache[p] EXCEPT !.age = @ + 1]
      BY <2>3 DEF Tick
    <3>2. cache[p].age + 1 \in 0..Ttl
      BY <2>2, <2>3
    <3> QED BY <2>1, <3>1, <3>2 DEF Cache
  <2>4. CASE ~(cache[p].valid /\ cache[p].age < Ttl)
    BY <2>1, <2>4 DEF Tick
  <2> QED BY <2>3, <2>4
<1>3. cache' \in [Procs -> Cache]
  <2>1. DOMAIN cache' = Procs /\ cache' = [p \in Procs |-> cache'[p]]
    BY DEF Tick
  <2> QED BY <1>2, <2>1
<1>4. TypeOK'
  BY <1>1, <1>3 DEF IInv, TypeOK
<1>5. BandHeldWhenFresh' /\ Current' = Current
  BY <1>1 DEF IInv, Current, BandHeldWhenFresh
<1>6. OnlyOverlapHidesAWrite'
  BY <1>1, <1>2 DEF IInv, OnlyOverlapHidesAWrite
<1>7. \A u \in Threads : ReadIsNew(thread[u], u)'
  BY <1>1 DEF IInv, ReadIsNew
<1> QED BY <1>1, <1>2, <1>4, <1>5, <1>6, <1>7 DEF IInv
-----------------------------------------------------------------------------
(* The theorems                                                            *)

LEMMA InvStep == IInv /\ [Next]_vars => IInv'
<1> SUFFICES ASSUME IInv, [Next]_vars PROVE IInv'
  OBVIOUS
<1>1. CASE Tick
  BY <1>1, TickKeeps
<1>2. ASSUME NEW t \in Threads, Step(t) PROVE IInv'
  <2>1. history \in Seq(Change)
    BY DEF IInv, TypeOK
  <2>2. CASE GetAll(t)
    <3>1. NoCall \in Call /\ CallSound(history, NoCall) /\ NoCall.at = "idle"
      BY <2>1, DefaultsTyped, DefaultsSound DEF NoCall
    <3>2. Lookup(t, NoCall)
      BY <2>2 DEF GetAll
    <3> QED BY <3>1, <3>2, LookupKeeps
  <2>3. ASSUME NEW k \in Keys, NEW v \in Values, SetValue(t, k, v) PROVE IInv'
    <3> DEFINE call == [NoCall EXCEPT !.key = k, !.value = v]
    <3>1. /\ call \in Call /\ call.at = "idle" /\ call.got = Defaults
          /\ call.key = k /\ call.value = v
      BY DefaultsTyped DEF NoCall, Call
    <3>2. Lookup(t, call)
      BY <2>3 DEF SetValue
    <3>3. Honest(history, Defaults)
      BY <2>1, DefaultsSound
    <3> HIDE DEF call
    <3>4. CallSound(history, call)
      BY <3>1, <3>3 DEF CallSound
    <3> QED BY <3>1, <3>2, <3>4, LookupKeeps
  <2>4. CASE Load(t)
    BY <2>4, LoadKeeps
  <2>5. CASE Store(t)
    BY <2>5, StoreKeeps
  <2>6. CASE CheckBand(t)
    BY <2>6, CheckBandKeeps
  <2>7. CASE ReadPrevious(t)
    BY <2>7, ReadPreviousKeeps
  <2>8. CASE CommitWrite(t)
    BY <2>8, CommitWriteKeeps
  <2>9. CASE AbortWrite(t)
    BY <2>9, AbortWriteKeeps
  <2>10. CASE DropCache(t)
    BY <2>10, DropCacheKeeps
  <2> QED BY <1>2, <2>2, <2>3, <2>4, <2>5, <2>6, <2>7, <2>8, <2>9, <2>10 DEF Step
<1>3. CASE UNCHANGED vars
  <2>1. /\ table' = table /\ history' = history /\ cache' = cache /\ thread' = thread
        /\ own' = own /\ late' = late /\ raced' = raced /\ unsound' = unsound
    BY <1>3 DEF vars, ghosts
  <2>2. TypeOK' /\ BandHeldWhenFresh' /\ OnlyOverlapHidesAWrite' /\ Current' = Current
    BY <2>1 DEF IInv, TypeOK, BandHeldWhenFresh, OnlyOverlapHidesAWrite, Current
  <2>3. \A u \in Threads : ReadIsNew(thread[u], u)'
    BY <2>1 DEF IInv, ReadIsNew
  <2> QED BY <2>1, <2>2, <2>3 DEF IInv
<1> QED BY <1>1, <1>2, <1>3 DEF Next

LEMMA InvImplies == IInv => Inv /\ OnlyOverlapHidesAWrite
<1> SUFFICES ASSUME IInv PROVE Inv /\ OnlyOverlapHidesAWrite
  OBVIOUS
<1>1. history \in Seq(Change) /\ Len(history) \in Nat
  BY DEF IInv, TypeOK
<1>2. HistoryTracksValue
  BY <1>1, AfterIs DEF IInv, HistoryTracksValue
<1>3. ASSUME NEW a \in Answer, Honest(history, a)
      PROVE  a.view = IF a.source = "database" THEN After(a.at) ELSE Default
  <2>1. a.at \in Nat
    BY BoundsAreNat DEF Answer
  <2> QED BY <1>3, <2>1, AfterIs DEF Honest
<1>4. \A p \in Procs : cache[p].got \in Answer /\ Honest(history, cache[p].got)
  BY DEF IInv, TypeOK, Cache
<1>5. \A t \in Threads : thread[t].got \in Answer /\ Honest(history, thread[t].got)
  BY DEF IInv, TypeOK, Call, CallSound
<1>6. SourceIsHonest
  BY <1>3, <1>4, <1>5 DEF SourceIsHonest
<1> QED BY <1>2, <1>6 DEF IInv, Inv

LEMMA IInvHolds == Spec => []IInv
<1> QED BY InvInit, InvStep, PTL DEF Spec

\* The history tells the values in force, what a cache or a call holds was in
\* force as a whole or is the labelled defaults, and a band that no cash
\* position satisfies means that a write met another value than the one it
\* was checked against: whatever the threads, the processes and their caches.
THEOREM InvHolds == Spec => []Inv
<1>1. IInv => Inv
  BY InvImplies
<1> QED BY <1>1, IInvHolds, PTL

\* What a process caches from a read that began after a write of its own was
\* done holds that write, and what was read before it is dropped: only a read
\* that was between its SELECT and its store when the cache was dropped can
\* hide the write, and then until the entry dies.
THEOREM OwnWritesAreRead == Spec => []OnlyOverlapHidesAWrite
<1>1. IInv => OnlyOverlapHidesAWrite
  BY InvImplies
<1> QED BY <1>1, IInvHolds, PTL

-----------------------------------------------------------------------------
(***************************************************************************)
(* Part 2: Book                                                            *)
(***************************************************************************)
-----------------------------------------------------------------------------
(* The inductive invariant of Book                                         *)

PriceLike == Nat \cup {None}

AnyLot == [shares : Nat \ {0}, cost : Nat, exit : Days \cup {None}, price : Nat]

JobPcs == {"idle", "delete", "insert", "bars", "score", "mark", "value", "read", "write"}
Marking == {"value", "read", "write"}

JobType == [pc : JobPcs, mode : {None} \cup {h[1] : h \in ByHand} \cup {"live"}, acct : Nat,
            pos : Nat \X Nat, on : Nat, win : SUBSET Sessions, book : Books \cup {None},
            had : UNION {[B -> Nat] : B \in SUBSET Books},
            comp : UNION {[S -> PriceLike] : S \in SUBSET Sessions},
            seen : UNION {[S -> Nat] : S \in SUBSET Sessions}, pure : BOOLEAN]

\* The worth of a session that is over is known, and no close is of a day to come.
ClockInv ==
    /\ day \in Days /\ phase \in {"before", "shut"}
    /\ broker \in [held : Nat, cost : Nat, cash : Nat]
    /\ DOMAIN fair \subseteq UpTo(day)
    /\ phase = "before" => day \notin DOMAIN fair
    /\ phase = "shut" /\ day \in DOMAIN fair => fair[day] = broker.held * Quote[day] + broker.cash
    /\ bars \subseteq DOMAIN fair /\ splits \subseteq ExDates /\ faults \in 0..MaxFaults

\* Lots are of days gone by, the mirror has at most one open, the knowledge base
\* has one entry for each that is exited, and the sleeve's is never re-dated.
LotsInv ==
    /\ DOMAIN lots \subseteq Books \X Days
    /\ \A k \in DOMAIN lots : lots[k] \in AnyLot /\ k[2] <= day
    /\ \A k \in DOMAIN lots : lots[k].exit # None => k[2] <= lots[k].exit /\ lots[k].exit <= day
    /\ \A k, l \in OpenLots("real") : k = l
    /\ DOMAIN kb = {k \in DOMAIN lots : lots[k].exit # None} /\ \A k \in DOMAIN kb : kb[k] = 1
    /\ Of("sleeve") = {<<"sleeve", 1>>} /\ lots[<<"sleeve", 1>>].shares = Sleeve.shares
    /\ intact["sleeve"] => lots[<<"sleeve", 1>>].exit = None
    /\ cash \in [Books -> Nat] /\ cash["sleeve"] = Sleeve.cash
    /\ since \in [Books -> Days \cup {None}] /\ since["sleeve"] = 1
    /\ intact \in [Books -> BOOLEAN]

\* An exit that is about to commit has an open lot that no sync is taking away.
ExitInv ==
    /\ exit \in [pc : {"idle", "wait", "miss", "written"}, key : (Books \X Days) \cup {None}, date : Nat, price : Nat]
    /\ exit.pc \in {"wait", "written"} =>
         /\ exit.key \in DOMAIN lots /\ lots[exit.key].exit = None
         /\ exit.date \in Days /\ exit.key[2] <= exit.date /\ exit.date <= day
    /\ exit.pc = "wait" => exit.key[1] = "real"
    /\ exit.pc = "written" /\ exit.key[1] = "real" => job["night"].pc # "insert"

\* A process that marks is of a day gone by, and of portfolios there are.
JobOK(j) ==
    LET t == job[j]
    IN  /\ t \in JobType
        /\ t.pc = "insert" => t.on \in Days /\ t.on <= day
        /\ t.pc \in Marking =>
             /\ t.on \in Days /\ t.on <= day /\ t.book \in DOMAIN t.had /\ t.book \in Books
             /\ t.had["sleeve"] = Sleeve.cash /\ "sleeve" \in DOMAIN t.had
             /\ \A b \in DOMAIN t.had : since[b] # None
        /\ t.pc \in {"read", "write"} => DOMAIN t.comp \subseteq t.win

JobsInv ==
    /\ job \in [Jobs -> JobType] /\ \A j \in Jobs : JobOK(j)
    /\ job["hand"].pc \in {"idle"} \cup Marking
    /\ job["hand"].pc # "idle" => job["hand"].on = day

\* What the night's take was worth, from the fetch to the marks.
TakeInv ==
    LET t == job["night"]
    IN  t.pc \in {"delete", "insert"} /\ day \in DOMAIN fair =>
            /\ t.acct + t.pos[1] * Quote[day] = fair[day]
            /\ t.pc = "insert" => t.on = day

MirrorInv ==
    /\ job["night"].pc \in {"bars", "score", "mark"} => since["real"] # None
    /\ job["night"].pc \in {"bars", "score", "mark"} /\ intact["real"] /\ day \in DOMAIN fair =>
         \A k \in OpenLots("real") :
            k[2] = day /\ cash["real"] + lots[k].shares * Quote[day] = fair[day]
    /\ job["night"].pc \in {"score", "mark"} /\ intact["real"] => OpenLots("real") # {}

LoadedInv ==
    LET t == job["night"]
    IN  /\ t.pc \in Marking => t.win = {LatestSession(t.on)} /\ DOMAIN fair \subseteq 1..t.on
        /\ t.pc \in Marking /\ intact["real"] =>
             /\ "real" \in DOMAIN t.had
             /\ \A k \in Of("real") : k[2] <= t.on /\ (lots[k].exit # None => lots[k].exit <= t.on)
             /\ \E k \in OpenLots("real") : t.on \in DOMAIN fair =>
                   k[2] = t.on /\ t.had["real"] + lots[k].shares * Quote[t.on] = fair[t.on]

\* What has been computed is the book's worth.
ValueOK(j) ==
    job[j].pc \in {"read", "write"} /\ job[j].pure =>
        \A d \in DOMAIN job[j].comp : job[j].comp[d] # None =>
            /\ job[j].book = "real" /\ j = "night" /\ d = job[j].on =>
                 d \in DOMAIN fair /\ job[j].comp[d] = fair[d]
            /\ job[j].book = "sleeve" => job[j].comp[d] = SleeveWorth(d)

ValuesInv == \A j \in Jobs : ValueOK(j)

\* What has been stored as well.
StoredInv ==
    /\ DOMAIN marks \subseteq Books \X Sessions
    /\ \A k \in DOMAIN marks : marks[k].mv \in Nat /\ marks[k].on \in Days
    /\ \A k \in DOMAIN marks : marks[k].pure =>
        /\ k[1] = "real" /\ marks[k].by = "night" /\ marks[k].on = k[2] =>
             k[2] \in DOMAIN fair /\ marks[k].mv = fair[k[2]]
        /\ k[1] = "sleeve" => marks[k].mv = SleeveWorth(k[2])

\* What was read of the store is in it.
ReadOK(j) ==
    job[j].pc = "write" => \A s \in DOMAIN job[j].seen :
        <<job[j].book, s>> \in DOMAIN marks /\ job[j].seen[s] = marks[<<job[j].book, s>>].mv

\* The sessions a mark by hand has a value for, that are not of a day to come.
HandHas == {d \in DOMAIN job["hand"].comp : job["hand"].comp[d] # None /\ d <= job["hand"].on}

\* Beside a mark by hand the night stores nothing before a session the hand has
\* computed; and the hand has read all there is before it.
BesideInv ==
    /\ job["hand"].pc \in {"read", "write"} /\ job["hand"].pure /\ job["night"].pc \in Marking =>
         \A d \in HandHas, w \in job["night"].win : w >= d
    /\ job["hand"].pc = "write" /\ job["hand"].pure =>
         \A d \in HandHas, s \in Sessions :
            s < d /\ <<job["hand"].book, s>> \in DOMAIN marks => s \in DOMAIN job["hand"].seen

ChainInv == (\A j \in Jobs : ReadOK(j)) /\ BesideInv /\ ReturnsChain

BookIInv ==
    /\ ClockInv /\ LotsInv /\ ExitInv /\ ScoresAreEarned /\ JobsInv
    /\ TakeInv /\ MirrorInv /\ LoadedInv /\ ValuesInv /\ StoredInv /\ ChainInv

-----------------------------------------------------------------------------
(* Sums and products over finite sets                                      *)

\* Induction over the numbers, for a set of them.
LEMMA AllNumbers ==
    ASSUME NEW N, 0 \in N, \A n \in Nat : n \in N => n + 1 \in N
    PROVE  Nat \subseteq N
<1> SUFFICES ASSUME Nat \ N # {} PROVE FALSE
  OBVIOUS
<1> DEFINE Bad == Nat \ N
<1>1. PICK m \in Bad : \A y \in Bad : ~(<<y, m>> \in OpToRel(<, Nat))
  <2>1. Bad \subseteq Nat /\ Bad # {}
    OBVIOUS
  <2> HIDE DEF Bad
  <2> QED BY <2>1, NatLessThanWellFounded, WFMin
<1>2. m \in Nat /\ m # 0
  OBVIOUS
<1>3. m - 1 \in Nat /\ m - 1 < m /\ (m - 1) + 1 = m
  BY <1>2
<1>4. m - 1 \in Bad
  BY <1>2, <1>3
<1>5. <<m - 1, m>> \in OpToRel(<, Nat)
  BY <1>2, <1>3 DEF OpToRel
<1> QED BY <1>1, <1>4, <1>5

\* c tells an element of every subset of D; G has a set if it has what is left
\* of it; and f folds the subsets with e and o.
Picks(c, D) == \A s \in SUBSET D : s # {} => c[s] \in s
Climbs(G, c, D) == {} \in G /\ \A s \in SUBSET D : s # {} /\ s \ {c[s]} \in G => s \in G
FoldedBy(f, D, c, e, o) ==
    \A s \in SUBSET D : f[s] = IF s = {} THEN e ELSE o[<<c[s], f[s \ {c[s]}]>>]

\* Induction over the subsets of a finite set, by an element of each.
LEMMA AllSubsets ==
    ASSUME NEW D, IsFiniteSet(D), NEW c, Picks(c, D), NEW G, Climbs(G, c, D)
    PROVE  SUBSET D \subseteq G
<1> USE DEF Picks, Climbs
<1> DEFINE N == {n \in Nat : \A s \in SUBSET D : Cardinality(s) = n => s \in G}
<1>1. \A s \in SUBSET D : IsFiniteSet(s) /\ Cardinality(s) \in Nat
  BY FS_Subset, FS_CardinalityType
<1>2. 0 \in N
  BY <1>1, FS_EmptySet
<1>3. \A n \in Nat : n \in N => n + 1 \in N
  <2> SUFFICES ASSUME NEW n \in Nat, n \in N, NEW s \in SUBSET D, Cardinality(s) = n + 1
               PROVE  s \in G
    OBVIOUS
  <2>1. s # {}
    <3>1. n + 1 # 0
      OBVIOUS
    <3> QED BY <3>1, FS_EmptySet
  <2>2. c[s] \in s /\ s \ {c[s]} \in SUBSET D
    BY <2>1
  <2>3. Cardinality(s \ {c[s]}) = Cardinality(s) - 1
    BY <1>1, <2>2, FS_RemoveElement
  <2>4. Cardinality(s \ {c[s]}) = n
    BY <2>3
  <2> QED BY <2>1, <2>2, <2>4
<1>4. Nat \subseteq N
  <2> HIDE DEF N
  <2> QED BY <1>2, <1>3, AllNumbers
<1> QED BY <1>1, <1>4

\* What a fold over the subsets of a finite set is told by, exists.
LEMMA FoldExists ==
    ASSUME NEW D, IsFiniteSet(D), NEW c, Picks(c, D), NEW V, NEW e \in V, NEW o \in [D \X V -> V]
    PROVE  \E f \in [SUBSET D -> V] : FoldedBy(f, D, c, e, o)
<1> USE DEF Picks, FoldedBy
<1> DEFINE Level(n) == {s \in SUBSET D : Cardinality(s) <= n}
           Told(f, n) == \A s \in Level(n) : f[s] = IF s = {} THEN e ELSE o[<<c[s], f[s \ {c[s]}]>>]
           N == {n \in Nat : \E f \in [Level(n) -> V] : Told(f, n)}
<1>1. \A s \in SUBSET D : IsFiniteSet(s) /\ Cardinality(s) \in Nat
  BY FS_Subset, FS_CardinalityType
<1>2. ASSUME NEW s \in SUBSET D, s # {}
      PROVE  /\ c[s] \in D /\ s \ {c[s]} \in SUBSET D
             /\ Cardinality(s \ {c[s]}) = Cardinality(s) - 1
  <2>1. c[s] \in s
    BY <1>2
  <2> QED BY <1>1, <2>1, FS_RemoveElement
<1>3. 0 \in N
  <2>1. \A s \in Level(0) : s = {}
    BY <1>1, FS_EmptySet
  <2>2. [s \in Level(0) |-> e] \in [Level(0) -> V] /\ Told([s \in Level(0) |-> e], 0)
    BY <2>1
  <2> QED BY <2>2
<1>4. \A n \in Nat : n \in N => n + 1 \in N
  <2> SUFFICES ASSUME NEW n \in Nat, n \in N PROVE n + 1 \in N
    OBVIOUS
  <2>1. PICK f \in [Level(n) -> V] : Told(f, n)
    OBVIOUS
  <2>2. PICK g : g = [s \in Level(n + 1) |-> IF s = {} THEN e ELSE o[<<c[s], f[s \ {c[s]}]>>]]
    OBVIOUS
  <2>3. ASSUME NEW s \in Level(n + 1), s # {} PROVE s \ {c[s]} \in Level(n)
    <3>1. s \in SUBSET D /\ Cardinality(s) <= n + 1 /\ Cardinality(s) \in Nat
      BY <1>1
    <3>2. s \ {c[s]} \in SUBSET D /\ Cardinality(s \ {c[s]}) = Cardinality(s) - 1
      BY <1>2, <2>3, <3>1
    <3>3. Cardinality(s) - 1 <= n
      BY <3>1
    <3> QED BY <3>2, <3>3
  <2>4. \A s \in Level(n) : s \in Level(n + 1) /\ g[s] = f[s]
    <3>1. \A s \in Level(n) : s \in Level(n + 1)
      BY <1>1
    <3> QED BY <2>1, <2>2, <3>1
  <2>5. g \in [Level(n + 1) -> V]
    <3>1. ASSUME NEW s \in Level(n + 1), s # {} PROVE o[<<c[s], f[s \ {c[s]}]>>] \in V
      <4>1. c[s] \in D /\ f[s \ {c[s]}] \in V
        BY <1>2, <2>1, <2>3, <3>1
      <4> QED BY <4>1
    <3> QED BY <2>2, <3>1
  <2>6. Told(g, n + 1)
    <3> SUFFICES ASSUME NEW s \in Level(n + 1)
                 PROVE  g[s] = IF s = {} THEN e ELSE o[<<c[s], g[s \ {c[s]}]>>]
      OBVIOUS
    <3>1. CASE s = {}
      BY <2>2, <3>1
    <3>2. CASE s # {}
      <4>1. g[s \ {c[s]}] = f[s \ {c[s]}]
        BY <2>3, <2>4, <3>2
      <4>2. g[s] = o[<<c[s], f[s \ {c[s]}]>>]
        BY <2>2, <3>2
      <4> QED BY <3>2, <4>1, <4>2
    <3> QED BY <3>1, <3>2
  <2>7. n + 1 \in Nat
    OBVIOUS
  <2>8. \E h \in [Level(n + 1) -> V] : Told(h, n + 1)
    <3> HIDE DEF Told, Level
    <3> QED BY <2>5, <2>6
  <2> HIDE DEF Told, Level
  <2> QED BY <2>7, <2>8
<1>5. Cardinality(D) \in Nat /\ Cardinality(D) \in N
  <2>1. Nat \subseteq N
    <3> HIDE DEF N
    <3> QED BY <1>3, <1>4, AllNumbers
  <2> QED BY <1>1, <2>1
<1>6. Level(Cardinality(D)) = SUBSET D
  BY FS_Subset, <1>1
<1> QED BY <1>5, <1>6

LEMMA SumIs ==
    ASSUME NEW D, IsFiniteSet(D), NEW g \in [D -> Nat]
    PROVE  /\ SumFunction(g) \in Nat
           /\ D = {} => SumFunction(g) = 0
           /\ \A k : D = {k} => SumFunction(g) = g[k]
<1> DEFINE Eq(f) == f = [s \in SUBSET DOMAIN g |->
              IF s = {} THEN 0 ELSE g[CHOOSE x \in s : TRUE] + f[s \ {CHOOSE x \in s : TRUE}]]
<1>1. SumFunction(g) = (CHOOSE f : Eq(f))[DOMAIN g]
  BY DEF SumFunction, SumFunctionOnSet, FoldFunction, FoldFunctionOnSet, MapThenFoldSet
<1>2. PICK c : c = [s \in SUBSET D |-> CHOOSE x \in s : TRUE]
  OBVIOUS
<1>3. Picks(c, D) /\ \A s \in SUBSET D : s # {} => c[s] \in s
  BY <1>2 DEF Picks
<1>4. PICK V : V = Nat
  OBVIOUS
<1>5. 0 \in V /\ \A a, b \in V : a + b \in V
  BY <1>4
<1>6. PICK o : o = [p \in D \X V |-> g[p[1]] + p[2]]
  OBVIOUS
<1>7. o \in [D \X V -> V]
  BY <1>4, <1>5, <1>6
<1>8. PICK h \in [SUBSET D -> V] : FoldedBy(h, D, c, 0, o)
  BY <1>3, <1>5, <1>7, FoldExists
<1>9. \A s \in SUBSET D : s # {} => h[s] = g[c[s]] + h[s \ {c[s]}]
  <2> SUFFICES ASSUME NEW s \in SUBSET D, s # {} PROVE h[s] = g[c[s]] + h[s \ {c[s]}]
    OBVIOUS
  <2>1. c[s] \in D /\ h[s \ {c[s]}] \in V
    BY <1>3, <1>8
  <2>2. o[<<c[s], h[s \ {c[s]}]>>] = g[c[s]] + h[s \ {c[s]}]
    BY <1>6, <2>1
  <2> QED BY <1>8, <2>2 DEF FoldedBy
<1>10. Eq(h)
  <2>1. h = [s \in SUBSET D |-> IF s = {} THEN 0 ELSE g[c[s]] + h[s \ {c[s]}]]
    BY <1>8, <1>9 DEF FoldedBy
  <2> QED BY <1>2, <2>1
<1>11. PICK f : f = (CHOOSE x : Eq(x))
  OBVIOUS
<1>12. Eq(f)
  <2>1. \E x : Eq(x)
    BY <1>10
  <2> HIDE DEF Eq
  <2> QED BY <1>11, <2>1
<1>13. f = [s \in SUBSET D |-> IF s = {} THEN 0 ELSE g[c[s]] + f[s \ {c[s]}]]
  BY <1>2, <1>12
<1>14. f[{}] = 0 /\ \A s \in SUBSET D : s # {} => f[s] = g[c[s]] + f[s \ {c[s]}]
  BY <1>13
<1>15. SumFunction(g) = f[D]
  BY <1>1, <1>11
<1>16. PICK G : G = {s \in SUBSET D : f[s] \in V}
  OBVIOUS
<1>17. {} \in G
  BY <1>5, <1>14, <1>16
<1>18. \A s \in SUBSET D : s # {} /\ s \ {c[s]} \in G => s \in G
  <2> SUFFICES ASSUME NEW s \in SUBSET D, s # {}, s \ {c[s]} \in G PROVE f[s] \in V
    BY <1>16
  <2>1. g[c[s]] \in V /\ f[s \ {c[s]}] \in V
    BY <1>3, <1>4, <1>16
  <2>2. f[s] = g[c[s]] + f[s \ {c[s]}]
    BY <1>14
  <2>3. g[c[s]] + f[s \ {c[s]}] \in V
    BY <1>5, <2>1
  <2> QED BY <2>2, <2>3
<1>19. SUBSET D \subseteq G
  <2>1. Climbs(G, c, D)
    BY <1>17, <1>18 DEF Climbs
  <2> QED BY <1>3, <2>1, AllSubsets
<1>20. f[D] \in V
  BY <1>16, <1>19
<1>21. ASSUME NEW k, D = {k} PROVE f[D] = g[k]
  <2>1. c[D] = k /\ D \ {c[D]} = {} /\ D # {} /\ g[k] \in Nat
    BY <1>3, <1>21
  <2>2. f[D] = g[c[D]] + f[D \ {c[D]}]
    BY <1>14, <2>1
  <2>3. f[D \ {c[D]}] = 0
    BY <1>14, <2>1
  <2>4. f[D] = g[k] + 0
    BY <2>1, <2>2, <2>3
  <2> QED BY <2>1, <2>4
<1> QED BY <1>4, <1>14, <1>15, <1>20, <1>21

LEMMA ProductIs ==
    ASSUME NEW D, IsFiniteSet(D), NEW g \in [D -> Nat \ {0}]
    PROVE  /\ FoldFunction(LAMBDA r, acc : r * acc, 1, g) \in Nat \ {0}
           /\ D = {} => FoldFunction(LAMBDA r, acc : r * acc, 1, g) = 1
<1> DEFINE Eq(f) == f = [s \in SUBSET DOMAIN g |->
              IF s = {} THEN 1 ELSE g[CHOOSE x \in s : TRUE] * f[s \ {CHOOSE x \in s : TRUE}]]
<1>1. FoldFunction(LAMBDA r, acc : r * acc, 1, g) = (CHOOSE f : Eq(f))[DOMAIN g]
  BY DEF FoldFunction, FoldFunctionOnSet, MapThenFoldSet
<1>2. PICK c : c = [s \in SUBSET D |-> CHOOSE x \in s : TRUE]
  OBVIOUS
<1>3. Picks(c, D) /\ \A s \in SUBSET D : s # {} => c[s] \in s
  BY <1>2 DEF Picks
<1>4. PICK V : V = Nat \ {0}
  OBVIOUS
<1>5. 1 \in V /\ \A a, b \in V : a * b \in V
  BY <1>4
<1>6. PICK o : o = [p \in D \X V |-> g[p[1]] * p[2]]
  OBVIOUS
<1>7. o \in [D \X V -> V]
  BY <1>4, <1>5, <1>6
<1>8. PICK h \in [SUBSET D -> V] : FoldedBy(h, D, c, 1, o)
  BY <1>3, <1>5, <1>7, FoldExists
<1>9. \A s \in SUBSET D : s # {} => h[s] = g[c[s]] * h[s \ {c[s]}]
  <2> SUFFICES ASSUME NEW s \in SUBSET D, s # {} PROVE h[s] = g[c[s]] * h[s \ {c[s]}]
    OBVIOUS
  <2>1. c[s] \in D /\ h[s \ {c[s]}] \in V
    BY <1>3, <1>8
  <2>2. o[<<c[s], h[s \ {c[s]}]>>] = g[c[s]] * h[s \ {c[s]}]
    BY <1>6, <2>1
  <2> QED BY <1>8, <2>2 DEF FoldedBy
<1>10. Eq(h)
  <2>1. h = [s \in SUBSET D |-> IF s = {} THEN 1 ELSE g[c[s]] * h[s \ {c[s]}]]
    BY <1>8, <1>9 DEF FoldedBy
  <2> QED BY <1>2, <2>1
<1>11. PICK f : f = (CHOOSE x : Eq(x))
  OBVIOUS
<1>12. Eq(f)
  <2>1. \E x : Eq(x)
    BY <1>10
  <2> HIDE DEF Eq
  <2> QED BY <1>11, <2>1
<1>13. f = [s \in SUBSET D |-> IF s = {} THEN 1 ELSE g[c[s]] * f[s \ {c[s]}]]
  BY <1>2, <1>12
<1>14. f[{}] = 1 /\ \A s \in SUBSET D : s # {} => f[s] = g[c[s]] * f[s \ {c[s]}]
  BY <1>13
<1>15. FoldFunction(LAMBDA r, acc : r * acc, 1, g) = f[D]
  BY <1>1, <1>11
<1>16. PICK G : G = {s \in SUBSET D : f[s] \in V}
  OBVIOUS
<1>17. {} \in G
  BY <1>5, <1>14, <1>16
<1>18. \A s \in SUBSET D : s # {} /\ s \ {c[s]} \in G => s \in G
  <2> SUFFICES ASSUME NEW s \in SUBSET D, s # {}, s \ {c[s]} \in G PROVE f[s] \in V
    BY <1>16
  <2>1. g[c[s]] \in V /\ f[s \ {c[s]}] \in V
    BY <1>3, <1>4, <1>16
  <2>2. f[s] = g[c[s]] * f[s \ {c[s]}]
    BY <1>14
  <2>3. g[c[s]] * f[s \ {c[s]}] \in V
    BY <1>5, <2>1
  <2> QED BY <2>2, <2>3
<1>19. SUBSET D \subseteq G
  <2>1. Climbs(G, c, D)
    BY <1>17, <1>18 DEF Climbs
  <2> QED BY <1>3, <2>1, AllSubsets
<1>20. f[D] \in V
  BY <1>16, <1>19
<1> QED BY <1>4, <1>14, <1>15, <1>20

-----------------------------------------------------------------------------
(* The constants, and the calendar, splits and sums of Book                *)

LEMMA BookNumbers ==
    /\ Days \subseteq Nat \ {0} /\ IsFiniteSet(Days) /\ Sessions \subseteq Days /\ 1 \in Days
    /\ LastDay \in Nat /\ \A d \in Days : d <= LastDay
    /\ None \notin Int /\ None \notin Nat /\ None \notin Days /\ ExDates \subseteq Days
    /\ \A d \in Days : Quote[d] \in Nat \ {0} /\ Ratio[d] \in Nat \ {0}
    /\ Purse \in Nat /\ Horizon \in Nat \ {0} /\ MaxFaults \in Nat
    /\ Sleeve.shares \in Nat \ {0} /\ Sleeve.cost \in Nat /\ Sleeve.cash \in Nat
<1>1. LastDay \in Nat \ {0} /\ Sessions \subseteq Days /\ None \notin Int
  BY SessionsAreDays, NoneIsNoNumber
<1>2. Days \subseteq Nat \ {0} /\ IsFiniteSet(Days) /\ 1 \in Days /\ \A d \in Days : d <= LastDay
  BY <1>1, FS_Interval DEF Days
<1>3. None \notin Nat /\ None \notin Days
  <2>1. \A n \in Nat : n \in Int
    OBVIOUS
  <2> QED BY <1>1, <1>2, <2>1
<1>5. ExDates \subseteq Days
  BY DEF ExDates
<1>4. \A d \in Days : Quote[d] \in Nat \ {0} /\ Ratio[d] \in Nat \ {0}
  BY QuotesOfDays, RatiosOfDays
<1> QED BY <1>1, <1>2, <1>3, <1>4, <1>5, RatiosOfDays, HorizonAtLeastOne, FaultsBounded, SleeveIsALot

LEMMA LastOfDays ==
    ASSUME NEW S, S \subseteq Days, S # {}
    PROVE  Max(S) \in S /\ Max(S) \in Nat /\ \A y \in S : Max(S) >= y
<1>1. S \subseteq Int /\ IsFiniteSet(S) /\ S \subseteq Nat
  <2>1. IsFiniteSet(Days) /\ S \in SUBSET Days /\ Days \subseteq Nat
    BY BookNumbers
  <2>2. IsFiniteSet(S)
    BY <2>1, FS_Subset
  <2> QED BY <2>1, <2>2
<1>2. PICK m \in S : \A y \in S : m >= y
  BY <1>1, FiniteHasMax
<1>3. Max(S) \in S /\ \A y \in S : Max(S) >= y
  BY <1>2 DEF Max
<1> QED BY <1>1, <1>3

LEMMA FirstOfDays ==
    ASSUME NEW S, S \subseteq Days, S # {}
    PROVE  Min(S) \in S
<1>1. S \subseteq Nat
  BY BookNumbers
<1>2. PICK m \in S : \A y \in S : ~(<<y, m>> \in OpToRel(<, Nat))
  BY <1>1, NatLessThanWellFounded, WFMin
<1>3. \A y \in S : m <= y
  <2> SUFFICES ASSUME NEW y \in S PROVE m <= y
    OBVIOUS
  <2>1. m \in Nat /\ y \in Nat /\ <<y, m>> \notin OpToRel(<, Nat)
    BY <1>1, <1>2
  <2>2. ~(y < m)
    BY <2>1 DEF OpToRel
  <2>3. m \in Nat /\ y \in Nat
    BY <2>1
  <2> QED BY <2>2, <2>3
<1> QED BY <1>3 DEF Min

LEMMA LatestIs ==
    ASSUME NEW d \in Int
    PROVE  \/ LatestSession(d) = None /\ UpTo(d) = {}
           \/ /\ LatestSession(d) \in UpTo(d) /\ LatestSession(d) \in Sessions
              /\ LatestSession(d) \in Nat /\ LatestSession(d) # None /\ LatestSession(d) <= d
              /\ \A s \in Sessions : s <= d => s <= LatestSession(d)
<1>1. CASE UpTo(d) = {}
  BY <1>1 DEF LatestSession
<1>2. CASE UpTo(d) # {}
  <2>1. UpTo(d) \subseteq Days
    BY BookNumbers DEF UpTo
  <2>2. PICK m : m = Max(UpTo(d))
    OBVIOUS
  <2>3. m \in UpTo(d) /\ m \in Nat /\ \A y \in UpTo(d) : m >= y
    BY <1>2, <2>1, <2>2, LastOfDays
  <2>4. LatestSession(d) = m
    BY <1>2, <2>2 DEF LatestSession
  <2>5. m \in Sessions /\ m <= d
    BY <2>3 DEF UpTo
  <2>6. ASSUME NEW s \in Sessions, s <= d PROVE s <= m
    <3>1. s \in UpTo(d) /\ s \in Nat
      BY <2>6, BookNumbers DEF UpTo
    <3> QED BY <2>3, <3>1
  <2> QED BY <2>3, <2>4, <2>5, <2>6, BookNumbers
<1> QED BY <1>1, <1>2

LEMMA CarriedIs ==
    ASSUME NEW S, S \subseteq Days
    PROVE  Carried(S) \in Nat \ {0} /\ (S = {} => Carried(S) = 1)
<1>1. IsFiniteSet(S)
  BY BookNumbers, FS_Subset
<1>2. PICK g : g = [x \in S |-> Ratio[x]]
  OBVIOUS
<1>3. g \in [S -> Nat \ {0}]
  BY <1>2, BookNumbers
<1>4. /\ FoldFunction(LAMBDA r, acc : r * acc, 1, g) \in Nat \ {0}
      /\ S = {} => FoldFunction(LAMBDA r, acc : r * acc, 1, g) = 1
  BY <1>1, <1>3, ProductIs
<1> QED BY <1>2, <1>4 DEF Carried

LEMMA FactorIs ==
    ASSUME NEW S, S \subseteq Days, NEW a, NEW b
    PROVE  Factor(S, a, b) \in Nat \ {0} /\ (b \in Int /\ a = b => Factor(S, a, b) = 1)
<1>1. {x \in S : a < x /\ x <= b} \subseteq Days
  OBVIOUS
<1>2. ASSUME b \in Int, a = b PROVE {x \in S : a < x /\ x <= b} = {}
  <2> SUFFICES ASSUME NEW x \in S, a < x, x <= b PROVE FALSE
    OBVIOUS
  <2>1. x \in Nat
    BY BookNumbers
  <2> QED BY <1>2, <2>1
<1> QED BY <1>1, <1>2, CarriedIs DEF Factor

LEMMA FactorKnown ==
    ASSUME NEW S, S \subseteq ExDates, NEW w \in Nat, {x \in ExDates : x <= w} \subseteq S,
           NEW a, NEW d \in Nat, d <= w
    PROVE  Factor(S, a, d) = Factor(ExDates, a, d)
<1>1. {x \in S : a < x /\ x <= d} = {x \in ExDates : a < x /\ x <= d}
  <2> SUFFICES ASSUME NEW x \in ExDates, x <= d PROVE x \in S
    OBVIOUS
  <2>1. x \in Nat
    BY BookNumbers
  <2>2. x <= w
    BY <2>1
  <2> QED BY <2>2
<1> QED BY <1>1 DEF Factor

LEMMA KeptIs ==
    ASSUME NEW f, NEW g
    PROVE  /\ DOMAIN Kept(f, g) = DOMAIN f \cup DOMAIN g
           /\ \A x \in DOMAIN f : Kept(f, g)[x] = f[x]
           /\ \A x \in DOMAIN g \ DOMAIN f : Kept(f, g)[x] = g[x]
BY DEF Kept

-----------------------------------------------------------------------------
(* What a step that leaves the state of a part alone leaves of it          *)

LEMMA FaultsTyped ==
    ASSUME ClockInv, Fault \/ UNCHANGED faults PROVE faults' \in 0..MaxFaults
BY BookNumbers DEF ClockInv, Fault

LEMMA ClockFrame ==
    ASSUME ClockInv, UNCHANGED <<clock, broker, fair, prices>>, faults' \in 0..MaxFaults
    PROVE  ClockInv'
<1>1. day' = day /\ phase' = phase /\ broker' = broker /\ fair' = fair /\ bars' = bars /\ splits' = splits
  BY DEF clock, prices
<1> QED BY <1>1 DEF ClockInv, UpTo

LEMMA LotsFrame ==
    ASSUME LotsInv, day \in Nat, UNCHANGED <<book, kb>>, day' \in Nat, day' >= day
    PROVE  LotsInv'
<1>1. lots' = lots /\ cash' = cash /\ since' = since /\ intact' = intact /\ kb' = kb
  BY DEF book
<1>2. \A k \in DOMAIN lots : k[2] \in Nat /\ (lots[k].exit # None => lots[k].exit \in Nat)
  BY BookNumbers DEF LotsInv, AnyLot
<1>3. OpenLots("real")' = OpenLots("real") /\ Of("sleeve")' = Of("sleeve")
  BY <1>1 DEF OpenLots, Of
<1>4. \A k \in DOMAIN lots : k[2] <= day'
  BY <1>2 DEF LotsInv
<1>5. \A k \in DOMAIN lots : lots[k].exit # None => lots[k].exit <= day'
  BY <1>2 DEF LotsInv
<1> QED BY <1>1, <1>3, <1>4, <1>5 DEF LotsInv

LEMMA ExitFrame ==
    ASSUME ExitInv, day \in Nat, UNCHANGED <<exit, lots>>, day' \in Nat, day' >= day,
           job'["night"].pc # "insert" \/ job'["night"].pc = job["night"].pc
    PROVE  ExitInv'
<1>1. exit' = exit /\ lots' = lots
  OBVIOUS
<1>2. exit.pc \in {"wait", "written"} => exit.date <= day'
  BY BookNumbers DEF ExitInv
<1> QED BY <1>1, <1>2 DEF ExitInv

LEMMA ScoresFrame ==
    ASSUME ScoresAreEarned, UNCHANGED outcome, DOMAIN fair \subseteq DOMAIN fair'
    PROVE  ScoresAreEarned'
BY DEF ScoresAreEarned, LatestSession, UpTo

LEMMA JobFrame ==
    ASSUME NEW j \in Jobs, JobOK(j), job'[j] = job[j], day \in Nat, day' \in Nat, day' >= day,
           \A b \in Books : since[b] # None => since'[b] # None
    PROVE  JobOK(j)'
<1>1. PICK t : t = job[j]
  OBVIOUS
<1>2. t \in JobType /\ job'[j] = t
  BY <1>1 DEF JobOK
<1>7. \A n \in Days : n <= day => n <= day'
  <2> SUFFICES ASSUME NEW n \in Days, n <= day PROVE n <= day'
    OBVIOUS
  <2>1. n \in Nat
    BY BookNumbers
  <2> QED BY <2>1
<1>3. t.pc = "insert" => t.on \in Days /\ t.on <= day'
  <2>1. t.pc = "insert" => t.on \in Days /\ t.on <= day
    BY <1>1 DEF JobOK
  <2> QED BY <1>7, <2>1
<1>4. t.pc \in Marking => t.on <= day'
  <2>1. t.pc \in Marking => t.on \in Days /\ t.on <= day
    BY <1>1 DEF JobOK
  <2> QED BY <1>7, <2>1
<1>5. t.pc \in Marking => \A b \in DOMAIN t.had : since'[b] # None
  <2>1. DOMAIN t.had \subseteq Books
    BY <1>2 DEF JobType
  <2> QED BY <1>1, <2>1 DEF JobOK
<1>6. /\ t.pc \in Marking => t.on \in Days /\ t.book \in DOMAIN t.had /\ t.book \in Books
                             /\ t.had["sleeve"] = Sleeve.cash /\ "sleeve" \in DOMAIN t.had
      /\ t.pc \in {"read", "write"} => DOMAIN t.comp \subseteq t.win
  BY <1>1 DEF JobOK
<1> QED BY <1>2, <1>3, <1>4, <1>5, <1>6 DEF JobOK

LEMMA TakeFrame ==
    ASSUME TakeInv, job'["night"] = job["night"], UNCHANGED <<day, fair>>
    PROVE  TakeInv'
BY DEF TakeInv

LEMMA MirrorFrame ==
    ASSUME MirrorInv, job'["night"].pc = job["night"].pc, UNCHANGED <<day, fair, book>>
    PROVE  MirrorInv'
<1>1. day' = day /\ fair' = fair /\ lots' = lots /\ cash' = cash /\ since' = since /\ intact' = intact
  BY DEF book
<1>2. OpenLots("real")' = OpenLots("real")
  BY <1>1 DEF OpenLots
<1> QED BY <1>1, <1>2 DEF MirrorInv

LEMMA LoadedFrame ==
    ASSUME LoadedInv, job'["night"] = job["night"], UNCHANGED <<fair, book>>
    PROVE  LoadedInv'
<1>1. fair' = fair /\ lots' = lots /\ intact' = intact
  BY DEF book
<1>2. OpenLots("real")' = OpenLots("real") /\ Of("real")' = Of("real")
  BY <1>1 DEF OpenLots, Of
<1> QED BY <1>1, <1>2 DEF LoadedInv, LatestSession, UpTo

LEMMA ValueFrame ==
    ASSUME NEW j \in Jobs, ValueOK(j), job'[j] = job[j], DOMAIN fair \subseteq DOMAIN fair',
           \A d \in DOMAIN fair : fair'[d] = fair[d]
    PROVE  ValueOK(j)'
BY DEF ValueOK, SleeveWorth

LEMMA StoredFrame ==
    ASSUME StoredInv, UNCHANGED marks, DOMAIN fair \subseteq DOMAIN fair',
           \A d \in DOMAIN fair : fair'[d] = fair[d]
    PROVE  StoredInv'
BY DEF StoredInv, SleeveWorth

LEMMA ChainFrame ==
    ASSUME ChainInv, UNCHANGED <<job, marks>> PROVE ChainInv'
BY DEF ChainInv, ReadOK, BesideInv, HandHas, ReturnsChain, LatestSession, UpTo

\* A process whose next state does not mark owes nothing.
LEMMA JobLeaves ==
    ASSUME JobsInv, ValuesInv, ChainInv, day \in Nat,
           NEW j \in Jobs, NEW t \in JobType, t.pc \notin Marking, j = "hand" => t.pc = "idle",
           t.pc = "insert" => t.on \in Days /\ t.on <= day,
           job' = [job EXCEPT ![j] = t], UNCHANGED <<day, fair, marks>>,
           \A b \in Books : since[b] # None => since'[b] # None
    PROVE  JobsInv' /\ ValuesInv' /\ ChainInv'
<1>1. /\ job' \in [Jobs -> JobType] /\ job'[j] = t
      /\ \A i \in Jobs : i # j => job'[i] = job[i]
  BY DEF JobsInv
<1>2. t.pc \notin {"value", "read", "write"}
  BY DEF Marking
<1>3. JobOK(j)'
  BY <1>1, <1>2 DEF JobOK, Marking
<1>4. \A i \in Jobs : JobOK(i)'
  <2> SUFFICES ASSUME NEW i \in Jobs, i # j PROVE JobOK(i)'
    BY <1>3
  <2>1. JobOK(i) /\ job'[i] = job[i]
    BY <1>1 DEF JobsInv
  <2>2. day' \in Nat /\ day' >= day
    OBVIOUS
  <2> QED BY <2>1, <2>2, JobFrame
<1>5. job'["hand"].pc \in {"idle"} \cup Marking /\ (job'["hand"].pc # "idle" => job'["hand"].on = day')
  <2>1. CASE j = "hand"
    BY <1>1, <2>1
  <2>2. CASE j # "hand"
    BY <1>1, <2>2 DEF JobsInv, Jobs
  <2> QED BY <2>1, <2>2
<1>6. JobsInv'
  BY <1>1, <1>4, <1>5 DEF JobsInv
<1>7. ValuesInv'
  <2> SUFFICES ASSUME NEW i \in Jobs PROVE ValueOK(i)'
    BY DEF ValuesInv
  <2>1. CASE i = j
    BY <1>1, <1>2, <2>1 DEF ValueOK
  <2>2. CASE i # j
    <3>1. ValueOK(i) /\ job'[i] = job[i] /\ DOMAIN fair \subseteq DOMAIN fair'
      BY <1>1, <2>2 DEF ValuesInv
    <3>2. \A d \in DOMAIN fair : fair'[d] = fair[d]
      OBVIOUS
    <3> QED BY <3>1, <3>2, ValueFrame
  <2> QED BY <2>1, <2>2
<1>8. ChainInv'
  <2>1. \A i \in Jobs : ReadOK(i)'
    <3> SUFFICES ASSUME NEW i \in Jobs PROVE ReadOK(i)'
      OBVIOUS
    <3>1. CASE i = j
      BY <1>1, <1>2, <3>1 DEF ReadOK
    <3>2. CASE i # j
      BY <1>1, <3>2 DEF ReadOK, ChainInv
    <3> QED BY <3>1, <3>2
  <2>2. BesideInv'
    <3>1. CASE j = "hand"
      BY <1>1, <1>2, <3>1 DEF BesideInv
    <3>2. CASE j = "night"
      <4>1. job'["night"] = t /\ job'["hand"] = job["hand"]
        BY <1>1, <3>2 DEF Jobs
      <4>2. job'["night"].pc \notin Marking
        BY <1>2, <4>1 DEF Marking
      <4>3. HandHas' = HandHas
        BY <4>1 DEF HandHas
      <4> QED BY <4>1, <4>2, <4>3 DEF BesideInv, ChainInv
    <3> QED BY <3>1, <3>2 DEF Jobs
  <2>3. ReturnsChain'
    BY DEF ReturnsChain, ChainInv, LatestSession, UpTo
  <2> QED BY <2>1, <2>2, <2>3 DEF ChainInv
<1> QED BY <1>6, <1>7, <1>8

-----------------------------------------------------------------------------
(* The first state, the market and the broker                              *)

LEMMA NoJobTyped ==
    NoJob \in JobType /\ NoJob.pc = "idle" /\ NoExit.pc = "idle"
    /\ NoExit \in [pc : {"idle", "wait", "miss", "written"}, key : (Books \X Days) \cup {None}, date : Nat, price : Nat]
<1>1. DOMAIN <<>> = {}
  OBVIOUS
<1>2. <<>> \in UNION {[B -> Nat] : B \in SUBSET Books}
  OBVIOUS
<1>3. <<>> \in UNION {[S -> PriceLike] : S \in SUBSET Sessions}
  OBVIOUS
<1>4. <<>> \in UNION {[S -> Nat] : S \in SUBSET Sessions}
  OBVIOUS
<1>5. <<0, 0>> \in Nat \X Nat /\ TRUE \in BOOLEAN /\ "idle" \in JobPcs
  BY DEF JobPcs
<1> QED BY <1>2, <1>3, <1>4, <1>5 DEF NoJob, JobType, NoExit

LEMMA BookInitKeeps == BookInit => BookIInv
<1> SUFFICES ASSUME BookInit PROVE BookIInv
  OBVIOUS
<1>1. /\ day = 1 /\ phase = "before" /\ fair = <<>> /\ bars = {} /\ splits = {} /\ faults = 0
      /\ broker = [held |-> 0, cost |-> 0, cash |-> Purse]
      /\ marks = <<>> /\ outcome = [x \in Judgments |-> None] /\ kb = <<>> /\ exit = NoExit
  BY DEF BookInit
<1>2. \A j \in Jobs : job[j] = NoJob
  BY DEF BookInit
<1>3. DOMAIN fair = {} /\ DOMAIN marks = {} /\ DOMAIN kb = {}
  BY <1>1
<1>4. ClockInv
  <2>1. broker \in [held : Nat, cost : Nat, cash : Nat]
    BY <1>1, BookNumbers
  <2> QED BY <1>1, <1>3, <2>1, BookNumbers DEF ClockInv
<1>5. LotsInv
  <2>1. PICK l : l = Lot(Sleeve.shares, Sleeve.cost)
    OBVIOUS
  <2>2. l \in AnyLot /\ l.exit = None /\ l.shares = Sleeve.shares
    BY <2>1, BookNumbers DEF Lot, AnyLot
  <2>3. lots = [k \in {<<"sleeve", 1>>} |-> l]
    BY <2>1 DEF BookInit
  <2>4. DOMAIN lots = {<<"sleeve", 1>>} /\ lots[<<"sleeve", 1>>] = l
    BY <2>3
  <2>5. OpenLots("real") = {} /\ Of("sleeve") = {<<"sleeve", 1>>}
    BY <2>4 DEF OpenLots, Of
  <2>6. DOMAIN lots \subseteq Books \X Days
    BY <2>4, BookNumbers DEF Books
  <2>7. /\ cash \in [Books -> Nat] /\ cash["sleeve"] = Sleeve.cash
        /\ since \in [Books -> Days \cup {None}] /\ since["sleeve"] = 1
        /\ intact \in [Books -> BOOLEAN]
    <3>1. /\ cash = [b \in Books |-> IF b = "sleeve" THEN Sleeve.cash ELSE 0]
          /\ since = [b \in Books |-> IF b = "sleeve" THEN 1 ELSE None]
          /\ intact = [b \in Books |-> TRUE]
      BY DEF BookInit
    <3> QED BY <3>1, BookNumbers DEF Books
  <2>8. DOMAIN kb = {k \in DOMAIN lots : lots[k].exit # None}
    BY <1>3, <2>2, <2>4
  <2>9. \A k \in DOMAIN lots : lots[k] \in AnyLot /\ k[2] <= day /\ lots[k].exit = None
    BY <1>1, <2>2, <2>4
  <2> QED BY <1>3, <2>2, <2>4, <2>5, <2>6, <2>7, <2>8, <2>9 DEF LotsInv
<1>6. ExitInv
  <2>1. exit.pc \notin {"wait", "written"}
    BY <1>1, NoJobTyped
  <2> QED BY <1>1, <2>1, NoJobTyped DEF ExitInv
<1>7. ScoresAreEarned
  BY <1>1 DEF ScoresAreEarned
<1>8. JobsInv
  <2>1. job \in [Jobs -> JobType]
    BY NoJobTyped DEF BookInit
  <2>2. \A j \in Jobs : job[j].pc = "idle" /\ job[j] \in JobType
    BY <1>2, NoJobTyped
  <2> QED BY <2>1, <2>2 DEF JobsInv, JobOK, Marking, Jobs
<1>9. \A j \in Jobs : job[j].pc = "idle"
  BY <1>2, NoJobTyped
<1>10. TakeInv /\ MirrorInv /\ LoadedInv /\ ValuesInv
  BY <1>9 DEF TakeInv, MirrorInv, LoadedInv, ValuesInv, ValueOK, Marking, Jobs
<1>11. StoredInv
  BY <1>3 DEF StoredInv
<1>12. ChainInv
  BY <1>3, <1>9 DEF ChainInv, ReadOK, BesideInv, ReturnsChain, Jobs
<1> QED BY <1>4, <1>5, <1>6, <1>7, <1>8, <1>10, <1>11, <1>12 DEF BookIInv

\* A step of the clock or of the market, that no process takes.
LEMMA MarketMoves ==
    ASSUME BookIInv, ClockInv', UNCHANGED <<book, marks, outcome, kb, job, exit>>,
           day' >= day, job["hand"].pc # "idle" => day' = day,
           DOMAIN fair \subseteq DOMAIN fair', \A d \in DOMAIN fair : fair'[d] = fair[d],
           TakeInv', MirrorInv', LoadedInv'
    PROVE  BookIInv'
<1>1. day \in Nat /\ day' \in Nat
  BY BookNumbers DEF BookIInv, ClockInv
<1>2. LotsInv'
  BY <1>1, LotsFrame DEF BookIInv
<1>3. ExitInv'
  <2>1. UNCHANGED <<exit, lots>> /\ job'["night"].pc = job["night"].pc
    BY DEF book
  <2> QED BY <1>1, <2>1, ExitFrame DEF BookIInv
<1>4. ScoresAreEarned' /\ StoredInv' /\ ChainInv'
  <2>1. UNCHANGED <<job, marks>>
    OBVIOUS
  <2> QED BY <2>1, ScoresFrame, StoredFrame, ChainFrame DEF BookIInv
<1>5. JobsInv'
  <2>1. \A j \in Jobs : JobOK(j)'
    <3> SUFFICES ASSUME NEW j \in Jobs PROVE JobOK(j)'
      OBVIOUS
    <3>1. JobOK(j) /\ job'[j] = job[j] /\ \A b \in Books : since[b] # None => since'[b] # None
      BY DEF BookIInv, JobsInv, book
    <3> QED BY <1>1, <3>1, JobFrame
  <2>2. job' = job /\ job \in [Jobs -> JobType] /\ job["hand"].pc \in {"idle"} \cup Marking
    BY DEF BookIInv, JobsInv
  <2>3. job["hand"].pc # "idle" => job["hand"].on = day'
    BY DEF BookIInv, JobsInv
  <2> QED BY <2>1, <2>2, <2>3 DEF JobsInv
<1>6. ValuesInv'
  <2> SUFFICES ASSUME NEW j \in Jobs PROVE ValueOK(j)'
    BY DEF ValuesInv
  <2>1. ValueOK(j) /\ job'[j] = job[j]
    BY DEF BookIInv, ValuesInv
  <2> QED BY <2>1, ValueFrame
<1> QED BY <1>2, <1>3, <1>4, <1>5, <1>6 DEF BookIInv

\* Nothing of the night is under way: nothing is owed of it.
LEMMA NightIdle ==
    ASSUME job'["night"].pc = "idle" PROVE TakeInv' /\ MirrorInv' /\ LoadedInv'
BY DEF TakeInv, MirrorInv, LoadedInv, Marking

LEMMA SessionKeeps == ASSUME BookIInv, Session PROVE BookIInv'
<1>1. /\ phase = "before" /\ day \in Sessions /\ job["night"].pc = "idle" /\ phase' = "shut"
      /\ UNCHANGED <<day, prices, book, marks, outcome, kb, job, exit, bounds>>
      /\ fair' = Kept(fair, [d \in {day} |-> broker'.held * Quote[day] + broker'.cash])
  BY DEF Session
<1>2. ClockInv
  BY DEF BookIInv
<1>3. day \in Days /\ day - 1 \in Int
  BY <1>2, BookNumbers DEF ClockInv
<1>4. PICK p : p = FillPrice
  OBVIOUS
<1>5. p \in Nat
  <2>1. PICK y : y = LatestSession(day - 1)
    OBVIOUS
  <2>2. p = IF y = None THEN Quote[day] ELSE Quote[y] \div Factor(ExDates, y, day)
    BY <1>4, <2>1 DEF FillPrice
  <2>3. y = None \/ y \in Days
    BY <1>3, <2>1, LatestIs, BookNumbers
  <2>4. Quote[day] \in Nat /\ (y # None => Quote[y] \in Nat)
    BY <1>3, <2>3, BookNumbers
  <2>5. Factor(ExDates, y, day) \in Nat \ {0}
    BY BookNumbers, FactorIs
  <2> QED BY <2>2, <2>4, <2>5
<1>6. broker' \in [held : Nat, cost : Nat, cash : Nat]
  <2>1. PICK h, c, m : h = broker.held /\ c = broker.cost /\ m = broker.cash
    OBVIOUS
  <2>2. h \in Nat /\ c \in Nat /\ m \in Nat /\ broker \in [held : Nat, cost : Nat, cash : Nat]
    BY <1>2, <2>1 DEF ClockInv
  <2>3. \/ broker' = broker
        \/ broker' = [held |-> 0, cost |-> 0, cash |-> m + h * p]
        \/ m >= p /\ broker' = [held |-> h + 1, cost |-> c + p, cash |-> m - p]
    <3>1. broker' \in {broker, [held |-> 0, cost |-> 0, cash |-> broker.cash + broker.held * p]} \cup
            (IF broker.cash >= p /\ broker.held = 0
             THEN {[held |-> broker.held + 1, cost |-> broker.cost + p, cash |-> broker.cash - p]} ELSE {})
      BY <1>4 DEF Session
    <3> QED BY <2>1, <3>1
  <2>4. h * p \in Nat
    BY <1>5, <2>2
  <2>5. m + h * p \in Nat /\ h + 1 \in Nat /\ c + p \in Nat /\ (m >= p => m - p \in Nat)
    BY <1>5, <2>2, <2>4
  <2> QED BY <2>2, <2>3, <2>5
<1>7. day \notin DOMAIN fair
  BY <1>1, <1>2 DEF ClockInv
<1>8. PICK v : v = broker'.held * Quote[day] + broker'.cash
  OBVIOUS
<1>9. /\ DOMAIN fair' = DOMAIN fair \cup {day} /\ fair'[day] = v
      /\ \A d \in DOMAIN fair : fair'[d] = fair[d]
  <2>1. PICK g : g = [d \in {day} |-> v]
    OBVIOUS
  <2>2. fair' = Kept(fair, g) /\ DOMAIN g = {day} /\ g[day] = v
    BY <1>1, <1>8, <2>1
  <2>3. /\ DOMAIN Kept(fair, g) = DOMAIN fair \cup DOMAIN g
        /\ \A x \in DOMAIN fair : Kept(fair, g)[x] = fair[x]
        /\ \A x \in DOMAIN g \ DOMAIN fair : Kept(fair, g)[x] = g[x]
    BY KeptIs
  <2> QED BY <1>7, <2>2, <2>3
<1>10. ClockInv'
  <2>1. day' = day /\ bars' = bars /\ splits' = splits /\ faults' = faults
    BY <1>1 DEF prices, bounds
  <2>2. DOMAIN fair' \subseteq UpTo(day)
    BY <1>1, <1>2, <1>9, BookNumbers DEF ClockInv, UpTo
  <2>3. UpTo(day)' = UpTo(day)
    BY <2>1 DEF UpTo
  <2>4. fair'[day] = broker'.held * Quote[day] + broker'.cash
    BY <1>8, <1>9
  <2>5. bars \subseteq DOMAIN fair'
    BY <1>2, <1>9 DEF ClockInv
  <2> QED BY <1>1, <1>2, <1>6, <2>1, <2>2, <2>3, <2>4, <2>5 DEF ClockInv
<1>11. TakeInv' /\ MirrorInv' /\ LoadedInv'
  BY <1>1, NightIdle
<1>12. day' = day /\ day' >= day /\ DOMAIN fair \subseteq DOMAIN fair'
  BY <1>1, <1>2, <1>9, BookNumbers DEF ClockInv
<1> QED BY <1>1, <1>9, <1>10, <1>11, <1>12, MarketMoves

LEMMA HolidayKeeps == ASSUME BookIInv, Holiday PROVE BookIInv'
<1>1. /\ phase = "before" /\ day \notin Sessions /\ phase' = "shut"
      /\ UNCHANGED <<day, broker, fair, prices, book, marks, outcome, kb, job, exit, bounds>>
  BY DEF Holiday
<1>2. ClockInv
  BY DEF BookIInv
<1>3. ClockInv'
  <2>1. day' = day /\ bars' = bars /\ splits' = splits /\ faults' = faults /\ broker' = broker /\ fair' = fair
    BY <1>1 DEF prices, bounds
  <2>2. day \notin DOMAIN fair
    BY <1>1, <1>2 DEF ClockInv, UpTo
  <2> QED BY <1>1, <1>2, <2>1, <2>2 DEF ClockInv, UpTo
<1>4. TakeInv' /\ MirrorInv' /\ LoadedInv'
  BY <1>1, TakeFrame, MirrorFrame, LoadedFrame DEF BookIInv
<1>5. day' = day /\ day' >= day /\ fair' = fair
  BY <1>1, <1>2, BookNumbers DEF ClockInv
<1> QED BY <1>1, <1>3, <1>4, <1>5, MarketMoves

LEMMA MidnightKeeps == ASSUME BookIInv, Midnight PROVE BookIInv'
<1>1. /\ phase = "shut" /\ day < LastDay /\ job["hand"].pc = "idle" /\ exit.pc = "idle"
      /\ day' = day + 1 /\ phase' = "before"
      /\ broker' = [broker EXCEPT !.held = @ * Ratio[day + 1]]
      /\ UNCHANGED <<fair, prices, book, marks, outcome, kb, job, exit, bounds>>
  BY DEF Midnight
<1>2. ClockInv
  BY DEF BookIInv
<1>3. day \in Nat /\ day' \in Days /\ day' > day
  BY <1>1, <1>2, BookNumbers, SMTT(30) DEF ClockInv, Days
<1>4. \A d \in DOMAIN fair : d \in Nat /\ d <= day
  BY <1>2, BookNumbers DEF ClockInv, UpTo
<1>5. day' \notin DOMAIN fair
  BY <1>3, <1>4
<1>6. ClockInv'
  <2>1. bars' = bars /\ splits' = splits /\ faults' = faults /\ fair' = fair
    BY <1>1 DEF prices, bounds
  <2>2. broker' \in [held : Nat, cost : Nat, cash : Nat]
    <3>1. PICK r : r = Ratio[day + 1]
      OBVIOUS
    <3>2. broker \in [held : Nat, cost : Nat, cash : Nat] /\ r \in Nat
      BY <1>1, <1>2, <1>3, <3>1, BookNumbers DEF ClockInv
    <3>3. broker.held * r \in Nat
      BY <3>2
    <3>4. broker' = [broker EXCEPT !.held = broker.held * r]
      BY <1>1, <3>1
    <3> QED BY <3>2, <3>3, <3>4
  <2>3. UpTo(day)' = {s \in Sessions : s <= day'}
    BY DEF UpTo
  <2>4. DOMAIN fair \subseteq {s \in Sessions : s <= day'}
    BY <1>2, <1>3, <1>4 DEF ClockInv, UpTo
  <2> QED BY <1>1, <1>2, <1>3, <1>5, <2>1, <2>2, <2>3, <2>4 DEF ClockInv
<1>7. TakeInv' /\ MirrorInv'
  <2>1. job' = job /\ fair' = fair /\ lots' = lots /\ since' = since /\ intact' = intact
    BY <1>1 DEF book
  <2>2. OpenLots("real")' = OpenLots("real")
    BY <2>1 DEF OpenLots
  <2> QED BY <1>5, <2>1, <2>2 DEF BookIInv, TakeInv, MirrorInv
<1>8. LoadedInv'
  <2>1. UNCHANGED <<fair, book>> /\ job'["night"] = job["night"] /\ LoadedInv
    BY <1>1 DEF BookIInv
  <2> QED BY <2>1, LoadedFrame
<1>9. day' >= day /\ fair' = fair
  BY <1>1, <1>3, BookNumbers
<1> QED BY <1>1, <1>6, <1>7, <1>8, <1>9, MarketMoves

LEMMA LearnSplitKeeps == ASSUME BookIInv, NEW x \in Days, LearnSplit(x) PROVE BookIInv'
<1>1. /\ x \in ExDates /\ splits' = splits \cup {x}
      /\ UNCHANGED <<clock, broker, fair, bars, book, marks, outcome, kb, job, exit, bounds>>
  BY DEF LearnSplit
<1>2. day' = day /\ phase' = phase /\ faults' = faults /\ fair' = fair
  BY <1>1 DEF clock, bounds
<1>3. ClockInv'
  BY <1>1, <1>2 DEF BookIInv, ClockInv, UpTo
<1>4. TakeInv' /\ MirrorInv' /\ LoadedInv'
  BY <1>1, <1>2, TakeFrame, MirrorFrame, LoadedFrame DEF BookIInv
<1>5. day' >= day
  BY <1>2, BookNumbers DEF BookIInv, ClockInv
<1> QED BY <1>1, <1>2, <1>3, <1>4, <1>5, MarketMoves

-----------------------------------------------------------------------------
(* Exits by hand                                                           *)

\* The processes that mark, and what they stored, as they were.
LEMMA MarksStay ==
    ASSUME BookIInv, UNCHANGED <<clock, broker, fair, prices, since, marks, outcome, job>>,
           Fault \/ UNCHANGED faults
    PROVE  ClockInv' /\ ScoresAreEarned' /\ JobsInv' /\ TakeInv' /\ ValuesInv' /\ StoredInv' /\ ChainInv'
<1>1. day' = day /\ fair' = fair /\ since' = since /\ marks' = marks /\ job' = job
  BY DEF clock
<1>2. ClockInv'
  BY FaultsTyped, ClockFrame DEF BookIInv
<1>3. ScoresAreEarned' /\ StoredInv' /\ ChainInv' /\ TakeInv'
  BY <1>1, ScoresFrame, StoredFrame, ChainFrame, TakeFrame DEF BookIInv
<1>4. JobsInv'
  BY <1>1 DEF BookIInv, JobsInv, JobOK
<1>5. ValuesInv'
  BY <1>1 DEF BookIInv, ValuesInv, ValueOK, SleeveWorth
<1> QED BY <1>2, <1>3, <1>4, <1>5

LEMMA ExitMoves ==
    ASSUME BookIInv, ExitInv', UNCHANGED <<clock, broker, fair, prices, book, marks, outcome, kb, job>>,
           Fault \/ UNCHANGED faults
    PROVE  BookIInv'
<1>1. UNCHANGED <<clock, broker, fair, prices, since, marks, outcome, job>>
  BY DEF book
<1>2. ClockInv' /\ ScoresAreEarned' /\ JobsInv' /\ TakeInv' /\ ValuesInv' /\ StoredInv' /\ ChainInv'
  BY <1>1, MarksStay
<1>3. day \in Nat /\ day' = day /\ day' >= day
  BY BookNumbers DEF BookIInv, ClockInv, clock
<1>4. LotsInv'
  BY <1>3, LotsFrame DEF BookIInv
<1>5. MirrorInv' /\ LoadedInv'
  BY <1>3, MirrorFrame, LoadedFrame DEF BookIInv
<1> QED BY <1>2, <1>4, <1>5 DEF BookIInv

LEMMA ExitUpdateKeeps ==
    ASSUME BookIInv, NEW k \in DOMAIN lots, NEW date \in Days, NEW price \in Nat, ExitUpdate(k, date, price)
    PROVE  BookIInv'
<1>1. /\ k[2] <= date /\ date <= day
      /\ exit' = [key |-> k, date |-> date, price |-> price,
                  pc |-> IF lots[k].exit # None THEN "miss"
                         ELSE IF k[1] = "real" /\ job["night"].pc = "insert" THEN "wait"
                         ELSE "written"]
      /\ UNCHANGED <<clock, broker, fair, prices, book, marks, outcome, kb, job, faults>>
  BY DEF ExitUpdate
<1>2. lots' = lots /\ job' = job /\ day' = day
  BY <1>1 DEF book, clock
<1>3. k \in Books \X Days /\ date \in Days /\ date \in Nat
  BY BookNumbers DEF BookIInv, LotsInv
<1>4. /\ exit'.key = k /\ exit'.date = date /\ exit'.price = price /\ exit'.pc \in {"miss", "wait", "written"}
      /\ exit'.pc = "wait" => k[1] = "real"
      /\ exit'.pc \in {"wait", "written"} => lots[k].exit = None
      /\ exit'.pc = "written" => ~(k[1] = "real" /\ job["night"].pc = "insert")
  BY <1>1
<1>5. exit' \in [pc : {"idle", "wait", "miss", "written"}, key : (Books \X Days) \cup {None}, date : Nat, price : Nat]
  BY <1>1, <1>3
<1>6. ExitInv'
  BY <1>1, <1>2, <1>3, <1>4, <1>5 DEF ExitInv
<1> QED BY <1>1, <1>6, ExitMoves

LEMMA ExitWakesKeeps == ASSUME BookIInv, ExitWakes PROVE BookIInv'
<1>1. /\ exit.pc = "wait" /\ job["night"].pc # "insert" /\ exit' = [exit EXCEPT !.pc = "written"]
      /\ UNCHANGED <<clock, broker, fair, prices, book, marks, outcome, kb, job, bounds>>
  BY DEF ExitWakes
<1>2. lots' = lots /\ job' = job /\ day' = day /\ faults' = faults
  BY <1>1 DEF book, clock, bounds
<1>3. exit \in [pc : {"idle", "wait", "miss", "written"}, key : (Books \X Days) \cup {None}, date : Nat, price : Nat]
  BY DEF BookIInv, ExitInv
<1>4. /\ exit'.key = exit.key /\ exit'.date = exit.date /\ exit'.pc = "written"
      /\ exit' \in [pc : {"idle", "wait", "miss", "written"}, key : (Books \X Days) \cup {None}, date : Nat, price : Nat]
  BY <1>1, <1>3
<1>5. ExitInv'
  BY <1>1, <1>2, <1>4 DEF BookIInv, ExitInv
<1> QED BY <1>1, <1>2, <1>5, ExitMoves

LEMMA NoExitKeeps == ASSUME exit' = NoExit PROVE ExitInv'
<1>1. exit'.pc \notin {"wait", "written"}
  BY NoJobTyped
<1> QED BY <1>1, NoJobTyped DEF ExitInv

LEMMA ExitMissesKeeps == ASSUME BookIInv, ExitMisses PROVE BookIInv'
BY NoExitKeeps, ExitMoves DEF ExitMisses, bounds

LEMMA ExitCommitKeeps == ASSUME BookIInv, ExitCommit PROVE BookIInv'
<1>1. /\ exit.pc = "written" /\ exit' = NoExit
      /\ UNCHANGED <<clock, broker, fair, prices, cash, since, marks, outcome, job, runs>>
  BY DEF ExitCommit
<1>2. CASE Fault /\ UNCHANGED <<lots, intact, kb>>
  <2>1. UNCHANGED <<clock, broker, fair, prices, book, marks, outcome, kb, job>>
    BY <1>1, <1>2 DEF book
  <2> QED BY <1>1, <1>2, <2>1, NoExitKeeps, ExitMoves
<1>3. CASE /\ Recorded(exit.key) /\ UNCHANGED faults
           /\ intact' = [intact EXCEPT ![exit.key[1]] = FALSE]
  <2>1. PICK k, q : k = exit.key /\ q = exit.price
    OBVIOUS
  <2>2. /\ k \in DOMAIN lots /\ lots[k].exit = None /\ exit.date \in Days
        /\ k[2] <= exit.date /\ exit.date <= day
    BY <1>1, <2>1 DEF BookIInv, ExitInv
  <2>3. q \in Nat /\ None \notin Days
    BY <2>1, BookNumbers DEF BookIInv, ExitInv
  <2>4. /\ kb' = [x \in DOMAIN kb \cup {k} |-> (IF x \in DOMAIN kb THEN kb[x] ELSE 0) + (IF x = k THEN 1 ELSE 0)]
        /\ lots' = [lots EXCEPT ![k].exit = exit.date, ![k].price = q]
        /\ intact' = [intact EXCEPT ![k[1]] = FALSE]
    BY <1>3, <2>1 DEF Recorded
  <2>5. k[1] \in Books /\ k \in Books \X Days
    BY <2>2 DEF BookIInv, LotsInv
  <2>6. LotsInv
    BY DEF BookIInv
  <2>7. lots[k] \in AnyLot
    BY <2>2, <2>6 DEF LotsInv
  <2>8. PICK l : l = [lots[k] EXCEPT !.exit = exit.date, !.price = q]
    OBVIOUS
  <2>9. /\ l \in AnyLot /\ l.exit = exit.date /\ l.shares = lots[k].shares
        /\ DOMAIN lots' = DOMAIN lots /\ lots'[k] = l
        /\ \A x \in DOMAIN lots : x # k => lots'[x] = lots[x]
    BY <2>2, <2>3, <2>4, <2>7, <2>8 DEF AnyLot
  <2>10. l.exit # None
    BY <2>2, <2>3, <2>9
  <2>11. /\ day' = day /\ cash' = cash /\ since' = since /\ job' = job /\ fair' = fair
    BY <1>1 DEF clock
  <2>12. LotsInv'
    <3>1. \A x \in DOMAIN lots' : lots'[x] \in AnyLot /\ x[2] <= day'
      BY <2>6, <2>9, <2>11 DEF LotsInv
    <3>2. \A x \in DOMAIN lots' : lots'[x].exit # None => x[2] <= lots'[x].exit /\ lots'[x].exit <= day'
      BY <2>2, <2>6, <2>9, <2>11 DEF LotsInv
    <3>3. OpenLots("real")' \subseteq OpenLots("real")
      BY <2>9, <2>10 DEF OpenLots
    <3>4. DOMAIN kb' = {x \in DOMAIN lots' : lots'[x].exit # None}
      <4>1. DOMAIN kb' = DOMAIN kb \cup {k}
        BY <2>4
      <4>2. DOMAIN kb = {x \in DOMAIN lots : lots[x].exit # None}
        BY <2>6 DEF LotsInv
      <4> QED BY <2>2, <2>9, <2>10, <4>1, <4>2
    <3>5. \A x \in DOMAIN kb' : kb'[x] = 1
      <4>1. k \notin DOMAIN kb /\ \A x \in DOMAIN kb : kb[x] = 1
        BY <2>2, <2>6 DEF LotsInv
      <4> QED BY <2>4, <4>1
    <3>6. Of("sleeve")' = Of("sleeve")
      BY <2>9 DEF Of
    <3>7. <<"sleeve", 1>> \in DOMAIN lots /\ lots'[<<"sleeve", 1>>].shares = Sleeve.shares
      <4>1. <<"sleeve", 1>> \in DOMAIN lots /\ lots[<<"sleeve", 1>>].shares = Sleeve.shares
        BY <2>6 DEF LotsInv, Of
      <4> QED BY <2>9, <4>1
    <3>8. intact' \in [Books -> BOOLEAN]
      BY <2>4, <2>5, <2>6 DEF LotsInv
    <3>9. intact'["sleeve"] => lots'[<<"sleeve", 1>>].exit = None
      <4>1. CASE k = <<"sleeve", 1>>
        <5>1. k[1] = "sleeve" /\ "sleeve" \in DOMAIN intact
          BY <2>6, <4>1 DEF LotsInv, Books
        <5> QED BY <2>4, <5>1
      <4>2. CASE k # <<"sleeve", 1>>
        <5>1. lots'[<<"sleeve", 1>>] = lots[<<"sleeve", 1>>]
          BY <2>9, <3>7, <4>2
        <5>2. intact'["sleeve"] => intact["sleeve"]
          BY <2>4, <2>5, <2>6 DEF LotsInv
        <5> QED BY <2>6, <5>1, <5>2 DEF LotsInv
      <4> QED BY <4>1, <4>2
    <3>10. DOMAIN lots' \subseteq Books \X Days /\ \A x, y \in OpenLots("real")' : x = y
      BY <2>6, <2>9, <3>3 DEF LotsInv
    <3> QED BY <2>6, <2>11, <3>1, <3>2, <3>4, <3>5, <3>6, <3>7, <3>8, <3>9, <3>10 DEF LotsInv
  <2>13. ClockInv' /\ ScoresAreEarned' /\ JobsInv' /\ TakeInv' /\ ValuesInv' /\ StoredInv' /\ ChainInv'
    BY <1>1, <1>3, MarksStay
  <2>14. ExitInv'
    BY <1>1, NoExitKeeps
  <2>15. CASE k[1] = "real"
    <3>1. intact'["real"] = FALSE
      BY <2>4, <2>5, <2>6, <2>15 DEF LotsInv
    <3>2. MirrorInv' /\ LoadedInv'
      BY <2>11, <3>1 DEF BookIInv, MirrorInv, LoadedInv, LatestSession, UpTo
    <3> QED BY <2>12, <2>13, <2>14, <3>2 DEF BookIInv
  <2>16. CASE k[1] # "real"
    <3>1. intact'["real"] = intact["real"]
      BY <2>4, <2>6, <2>16 DEF LotsInv, Books
    <3>2. \A x \in DOMAIN lots : x[1] = "real" => lots'[x] = lots[x]
      BY <2>9, <2>16
    <3>3. OpenLots("real")' = OpenLots("real") /\ Of("real")' = Of("real")
      BY <2>9, <3>2 DEF OpenLots, Of
    <3>4. \A x \in Of("real") : lots'[x] = lots[x]
      BY <3>2 DEF Of
    <3>5. \A x \in OpenLots("real") : lots'[x] = lots[x]
      BY <3>2 DEF OpenLots
    <3>6. MirrorInv'
      BY <2>11, <3>1, <3>3, <3>5 DEF BookIInv, MirrorInv
    <3>7. LoadedInv'
      BY <2>11, <3>1, <3>3, <3>4, <3>5 DEF BookIInv, LoadedInv, LatestSession, UpTo
    <3> QED BY <2>12, <2>13, <2>14, <3>6, <3>7 DEF BookIInv
  <2> QED BY <2>15, <2>16
<1> QED BY <1>2, <1>3 DEF ExitCommit

-----------------------------------------------------------------------------
(* The nightly script up to the marks                                      *)

LEMMA PcTyped ==
    ASSUME NEW t \in JobType, NEW p \in JobPcs
    PROVE  [t EXCEPT !.pc = p] \in JobType
BY DEF JobType

\* The night goes on, before its marks, and leaves the books as they are.
LEMMA NightGoes ==
    ASSUME BookIInv, NEW t \in JobType, t.pc \notin Marking,
           t.pc = "insert" => t.on \in Days /\ t.on <= day,
           t.pc = "insert" => ~(exit.pc = "written" /\ exit.key[1] = "real"),
           job' = [job EXCEPT !["night"] = t],
           UNCHANGED <<clock, fair, book, marks, kb, exit>>,
           ClockInv', ScoresAreEarned', TakeInv', MirrorInv'
    PROVE  BookIInv'
<1>1. /\ day' = day /\ fair' = fair /\ lots' = lots /\ since' = since /\ marks' = marks /\ exit' = exit
      /\ UNCHANGED <<book, kb>>
  BY DEF clock, book
<1>2. day \in Nat /\ day' \in Nat /\ day' >= day
  BY <1>1, BookNumbers DEF BookIInv, ClockInv
<1>3. job'["night"] = t
  BY DEF BookIInv, JobsInv, Jobs
<1>4. LotsInv'
  BY <1>1, <1>2, LotsFrame DEF BookIInv
<1>5. ExitInv'
  BY <1>1, <1>3 DEF BookIInv, ExitInv
<1>6. JobsInv' /\ ValuesInv' /\ ChainInv'
  <2>1. /\ UNCHANGED <<day, fair, marks>> /\ \A b \in Books : since[b] # None => since'[b] # None
        /\ "night" \in Jobs /\ "night" # "hand"
    BY <1>1 DEF Jobs
  <2>2. JobsInv /\ ValuesInv /\ ChainInv
    BY DEF BookIInv
  <2> QED BY <1>2, <2>1, <2>2, JobLeaves
<1>7. LoadedInv'
  BY <1>3 DEF LoadedInv
<1>8. StoredInv'
  BY <1>1, StoredFrame DEF BookIInv
<1> QED BY <1>4, <1>5, <1>6, <1>7, <1>8 DEF BookIInv

\* A process that stops owes nothing.
LEMMA StopKeeps ==
    ASSUME BookIInv, NEW j \in Jobs, Stop(j), Fault \/ UNCHANGED faults,
           UNCHANGED <<clock, broker, fair, prices, book, marks, outcome, kb, exit>>
    PROVE  BookIInv'
<1>1. job' = [job EXCEPT ![j] = NoJob]
  BY DEF Stop
<1>2. day' = day /\ fair' = fair /\ lots' = lots /\ since' = since /\ marks' = marks /\ exit' = exit
  BY DEF clock, book
<1>3. day \in Nat /\ day' >= day /\ ClockInv' /\ ScoresAreEarned' /\ StoredInv'
  <2>1. day \in Nat
    BY BookNumbers DEF BookIInv, ClockInv
  <2> QED BY <1>2, <2>1, FaultsTyped, ClockFrame, ScoresFrame, StoredFrame DEF BookIInv
<1>4. LotsInv'
  BY <1>2, <1>3, LotsFrame DEF BookIInv
<1>5. JobsInv' /\ ValuesInv' /\ ChainInv'
  <2>1. /\ NoJob \in JobType /\ NoJob.pc \notin Marking /\ NoJob.pc = "idle" /\ NoJob.pc # "insert"
        /\ UNCHANGED <<day, fair, marks>> /\ \A b \in Books : since[b] # None => since'[b] # None
    BY <1>2, NoJobTyped DEF Marking
  <2>2. JobsInv /\ ValuesInv /\ ChainInv
    BY DEF BookIInv
  <2> QED BY <1>1, <1>3, <2>1, <2>2, JobLeaves
<1>6. job'["night"] = job["night"] \/ job'["night"].pc = "idle"
  BY <1>1, NoJobTyped DEF BookIInv, JobsInv, Jobs
<1>7. ExitInv'
  BY <1>2, <1>6 DEF BookIInv, ExitInv
<1>8. TakeInv' /\ MirrorInv' /\ LoadedInv'
  <2>1. CASE job'["night"].pc = "idle"
    BY <2>1, NightIdle
  <2>2. CASE job'["night"] = job["night"]
    <3>1. UNCHANGED <<day, fair, book>> /\ UNCHANGED <<day, fair>> /\ UNCHANGED <<fair, book>>
      BY <1>2
    <3> QED BY <2>2, <3>1, TakeFrame, MirrorFrame, LoadedFrame DEF BookIInv
  <2> QED BY <1>6, <2>1, <2>2
<1> QED BY <1>3, <1>4, <1>5, <1>7, <1>8 DEF BookIInv

LEMMA SyncFetchKeeps == ASSUME BookIInv, SyncFetch PROVE BookIInv'
<1>1. /\ phase = "shut"
      /\ job' = [job EXCEPT !["night"].pc = "delete", !["night"].acct = broker.cash,
                           !["night"].pos = <<broker.held, broker.cost>>]
      /\ UNCHANGED <<clock, broker, fair, prices, book, marks, outcome, kb, exit, faults>>
  BY DEF SyncFetch
<1>2. PICK o : o = job["night"]
  OBVIOUS
<1>3. PICK t : t = [o EXCEPT !.pc = "delete", !.acct = broker.cash, !.pos = <<broker.held, broker.cost>>]
  OBVIOUS
<1>4. job' = [job EXCEPT !["night"] = t]
  BY <1>1, <1>2, <1>3
<1>5. o \in JobType /\ job \in [Jobs -> JobType]
  BY <1>2 DEF BookIInv, JobsInv, Jobs
<1>6. broker.held \in Nat /\ broker.cost \in Nat /\ broker.cash \in Nat
  BY DEF BookIInv, ClockInv
<1>7. t \in JobType
  BY <1>3, <1>5, <1>6 DEF JobType, JobPcs
<1>8. t.pc = "delete" /\ t.acct = broker.cash /\ t.pos[1] = broker.held
  BY <1>3, <1>5 DEF JobType
<1>9. job'["night"] = t
  BY <1>4, <1>5 DEF Jobs
<1>10. day' = day /\ fair' = fair /\ day \in Days
  BY <1>1 DEF clock, BookIInv, ClockInv
<1>11. TakeInv'
  <2>1. ASSUME day \in DOMAIN fair PROVE broker.cash + broker.held * Quote[day] = fair[day]
    <3>1. fair[day] = broker.held * Quote[day] + broker.cash
      BY <1>1, <2>1 DEF BookIInv, ClockInv
    <3>2. PICK a : a = broker.held * Quote[day]
      OBVIOUS
    <3>3. a \in Nat
      BY <1>6, <1>10, <3>2, BookNumbers
    <3> QED BY <1>6, <3>1, <3>2, <3>3
  <2> QED BY <1>8, <1>9, <1>10, <2>1 DEF TakeInv
<1>12. MirrorInv' /\ t.pc \notin Marking
  BY <1>8, <1>9 DEF MirrorInv, Marking
<1>13. ClockInv' /\ ScoresAreEarned'
  BY <1>1, <1>10, FaultsTyped, ClockFrame, ScoresFrame DEF BookIInv
<1>14. UNCHANGED <<clock, fair, book, marks, kb, exit>> /\ t.pc # "insert"
  BY <1>1, <1>8
<1> QED BY <1>4, <1>7, <1>11, <1>12, <1>13, <1>14, NightGoes

LEMMA SyncDeleteKeeps == ASSUME BookIInv, SyncDelete PROVE BookIInv'
<1>1. /\ job["night"].pc = "delete" /\ ~(exit.pc = "written" /\ exit.key[1] = "real")
      /\ job' = [job EXCEPT !["night"].pc = "insert", !["night"].on = day]
      /\ UNCHANGED <<clock, broker, fair, prices, book, marks, outcome, kb, exit, bounds>>
  BY DEF SyncDelete
<1>2. PICK o : o = job["night"]
  OBVIOUS
<1>3. PICK t : t = [o EXCEPT !.pc = "insert", !.on = day]
  OBVIOUS
<1>4. job' = [job EXCEPT !["night"] = t]
  BY <1>1, <1>2, <1>3
<1>5. o \in JobType /\ job \in [Jobs -> JobType] /\ day \in Days /\ day \in Nat
  BY <1>2, BookNumbers DEF BookIInv, JobsInv, Jobs, ClockInv
<1>6. t \in JobType
  BY <1>3, <1>5 DEF JobType, JobPcs
<1>7. t.pc = "insert" /\ t.acct = o.acct /\ t.pos = o.pos /\ t.on = day
  BY <1>3, <1>5 DEF JobType
<1>8. job'["night"] = t
  BY <1>4, <1>5 DEF Jobs
<1>9. day' = day /\ fair' = fair /\ faults' = faults
  BY <1>1 DEF clock, bounds
<1>10. TakeInv'
  BY <1>1, <1>2, <1>7, <1>8, <1>9 DEF BookIInv, TakeInv
<1>11. MirrorInv' /\ t.pc \notin Marking
  BY <1>7, <1>8 DEF MirrorInv, Marking
<1>12. ClockInv' /\ ScoresAreEarned'
  BY <1>1, <1>9, FaultsTyped, ClockFrame, ScoresFrame DEF BookIInv
<1>13. UNCHANGED <<clock, fair, book, marks, kb, exit>> /\ t.on \in Days /\ t.on <= day
  BY <1>1, <1>5, <1>7
<1> QED BY <1>1, <1>4, <1>6, <1>10, <1>11, <1>12, <1>13, NightGoes

LEMMA SyncFailsKeeps == ASSUME BookIInv, SyncFails PROVE BookIInv'
BY StopKeeps DEF SyncFails, SyncFailed, Jobs

LEMMA LoadBarsKeeps == ASSUME BookIInv, LoadBars PROVE BookIInv'
<1>1. /\ job["night"].pc = "bars"
      /\ IF OpenLots("real") = {} THEN Stop("night") ELSE Go("night", "score")
      /\ UNCHANGED <<clock, broker, fair, splits, book, marks, outcome, kb, exit, runs>>
      /\ Fault \/ UNCHANGED faults
      /\ OpenLots("real") = {} => bars' = bars
      /\ bars' \subseteq bars \cup DOMAIN fair
  BY DEF LoadBars
<1>2. day' = day /\ phase' = phase /\ fair' = fair
  BY <1>1 DEF clock
<1>3. CASE OpenLots("real") = {}
  <2>1. UNCHANGED <<clock, broker, fair, prices, book, marks, outcome, kb, exit>> /\ Stop("night") /\ "night" \in Jobs
    BY <1>1, <1>3 DEF prices, Jobs
  <2> QED BY <1>1, <2>1, StopKeeps
<1>4. CASE OpenLots("real") # {}
  <2>1. PICK o : o = job["night"]
    OBVIOUS
  <2>2. PICK t : t = [o EXCEPT !.pc = "score"]
    OBVIOUS
  <2>3. job' = [job EXCEPT !["night"] = t]
    BY <1>1, <1>4, <2>1, <2>2 DEF Go
  <2>4. o \in JobType /\ job \in [Jobs -> JobType] /\ "score" \in JobPcs
    BY <2>1 DEF BookIInv, JobsInv, Jobs, JobPcs
  <2>5. t \in JobType /\ t.pc = "score"
    BY <2>2, <2>4, PcTyped DEF JobType
  <2>6. job'["night"] = t
    BY <2>3, <2>4 DEF Jobs
  <2>7. TakeInv' /\ t.pc \notin Marking
    BY <2>5, <2>6 DEF TakeInv, Marking
  <2>8. MirrorInv'
    <3>1. cash' = cash /\ since' = since /\ intact' = intact /\ lots' = lots
      BY <1>1 DEF book
    <3>2. OpenLots("real")' = OpenLots("real")
      BY <3>1 DEF OpenLots
    <3> QED BY <1>1, <1>2, <1>4, <2>5, <2>6, <3>1, <3>2 DEF BookIInv, MirrorInv
  <2>9. ClockInv'
    <3>1. faults' \in 0..MaxFaults
      BY <1>1, FaultsTyped DEF BookIInv
    <3> QED BY <1>1, <1>2, <3>1 DEF BookIInv, ClockInv, UpTo
  <2>10. ScoresAreEarned' /\ UNCHANGED <<clock, fair, book, marks, kb, exit>> /\ t.pc # "insert"
    BY <1>1, <1>2, <2>5, ScoresFrame DEF BookIInv
  <2> QED BY <2>3, <2>5, <2>7, <2>8, <2>9, <2>10, NightGoes
<1> QED BY <1>3, <1>4

LEMMA GradedOnIs ==
    ASSUME NEW p \in Nat, GradedOn(p) # None
    PROVE  Cardinality({s \in Sessions : p < s /\ s <= GradedOn(p)}) = Horizon
<1>1. PICK far : far = {s \in Sessions : Cardinality({x \in Sessions : p < x /\ x <= s}) = Horizon}
  OBVIOUS
<1>2. GradedOn(p) = IF p = None \/ far = {} THEN None ELSE Min(far)
  BY <1>1 DEF GradedOn
<1>3. far # {} /\ GradedOn(p) = Min(far)
  BY <1>2
<1>4. far \subseteq Days
  BY <1>1, BookNumbers
<1>5. Min(far) \in far
  BY <1>3, <1>4, FirstOfDays
<1> QED BY <1>1, <1>3, <1>5

LEMMA ScoreKeeps == ASSUME BookIInv, Score PROVE BookIInv'
<1>1. /\ job["night"].pc = "score" /\ Go("night", "mark")
      /\ UNCHANGED <<clock, broker, fair, prices, book, marks, kb, exit, runs>>
      /\ Fault \/ UNCHANGED faults
      /\ outcome' = [x \in Judgments |-> Graded(x)] \/ UNCHANGED outcome
  BY DEF Score
<1>2. day' = day /\ fair' = fair
  BY <1>1 DEF clock
<1>3. ScoresAreEarned'
  <2>1. CASE UNCHANGED outcome
    BY <1>2, <2>1, ScoresFrame DEF BookIInv
  <2>2. CASE outcome' = [x \in Judgments |-> Graded(x)]
    <3> SUFFICES ASSUME NEW x \in Judgments, outcome'[x] # None
                 PROVE  /\ outcome'[x].exit \in DOMAIN fair'
                        /\ Cardinality({s \in Sessions : outcome'[x].entry < s /\ s <= outcome'[x].exit}) = Horizon
                        /\ outcome'[x].entry = LatestSession(x[1])
                        /\ outcome'[x].good = (IF x[2] = "sell"
                              THEN Quote[outcome'[x].exit] < Quote[outcome'[x].entry]
                              ELSE Quote[outcome'[x].exit] > Quote[outcome'[x].entry])
      BY DEF ScoresAreEarned, LatestSession, UpTo
    <3>1. outcome'[x] = Graded(x)
      BY <2>2
    <3>2. PICK p, q : p = LatestSession(x[1]) /\ q = GradedOn(p)
      OBVIOUS
    <3>3. CASE outcome[x] = None /\ x[1] <= day /\ {p, q} \subseteq bars
      <4>1. outcome'[x] = [entry |-> p, exit |-> q, good |-> Correct(x[2], Quote[p], Quote[q])]
        BY <3>1, <3>2, <3>3 DEF Graded
      <4>2. p \in DOMAIN fair /\ q \in DOMAIN fair
        BY <3>3 DEF BookIInv, ClockInv
      <4>3. p \in Nat /\ q # None
        BY <4>2, BookNumbers DEF BookIInv, ClockInv, UpTo
      <4>4. Cardinality({s \in Sessions : p < s /\ s <= q}) = Horizon
        BY <3>2, <4>3, GradedOnIs
      <4> QED BY <1>2, <3>2, <4>1, <4>2, <4>4 DEF Correct
    <3>4. CASE ~(outcome[x] = None /\ x[1] <= day /\ {p, q} \subseteq bars)
      <4>1. outcome'[x] = outcome[x]
        BY <3>1, <3>2, <3>4 DEF Graded
      <4> QED BY <1>2, <4>1 DEF BookIInv, ScoresAreEarned
    <3> QED BY <3>3, <3>4
  <2> QED BY <1>1, <2>1, <2>2
<1>4. PICK o : o = job["night"]
  OBVIOUS
<1>5. PICK t : t = [o EXCEPT !.pc = "mark"]
  OBVIOUS
<1>6. job' = [job EXCEPT !["night"] = t]
  BY <1>1, <1>4, <1>5 DEF Go
<1>7. o \in JobType /\ job \in [Jobs -> JobType] /\ "mark" \in JobPcs
  BY <1>4 DEF BookIInv, JobsInv, Jobs, JobPcs
<1>8. t \in JobType /\ t.pc = "mark"
  BY <1>5, <1>7, PcTyped DEF JobType
<1>9. job'["night"] = t
  BY <1>6, <1>7 DEF Jobs
<1>10. TakeInv' /\ t.pc \notin Marking
  BY <1>8, <1>9 DEF TakeInv, Marking
<1>11. MirrorInv'
  <2>1. cash' = cash /\ since' = since /\ intact' = intact /\ lots' = lots
    BY <1>1 DEF book
  <2>2. OpenLots("real")' = OpenLots("real")
    BY <2>1 DEF OpenLots
  <2> QED BY <1>1, <1>2, <1>8, <1>9, <2>1, <2>2 DEF BookIInv, MirrorInv
<1>12. ClockInv'
  BY <1>1, FaultsTyped, ClockFrame DEF BookIInv
<1>13. UNCHANGED <<clock, fair, book, marks, kb, exit>> /\ t.pc # "insert"
  BY <1>1, <1>8
<1> QED BY <1>3, <1>6, <1>8, <1>10, <1>11, <1>12, <1>13, NightGoes

\* The mirror is replaced: the open lots go, the holding of the take comes, and
\* what was exited stays.
LEMMA MirrorReplaced ==
    ASSUME BookIInv, NEW n \in Days, n <= day, NEW held \in Nat, NEW cost \in Nat,
           NEW kept, DOMAIN kept = DOMAIN lots \ OpenLots("real"),
           \A k \in DOMAIN kept : kept[k] = lots[k],
           held > 0 => <<"real", n>> \notin DOMAIN kept,
           NEW g, g = [k \in {<<"real", n>>} |-> Lot(held, cost)],
           held = 0 => lots' = kept, held > 0 => lots' = Kept(kept, g)
    PROVE  /\ DOMAIN lots' \subseteq Books \X Days
           /\ \A k \in DOMAIN kept : k \in DOMAIN lots' /\ lots'[k] = lots[k]
           /\ \A k \in DOMAIN lots' \ DOMAIN kept : k = <<"real", n>> /\ held > 0
                   /\ lots'[k] \in AnyLot /\ lots'[k].exit = None /\ lots'[k].shares = held
           /\ \A k \in DOMAIN lots' : k[1] = "real" /\ lots'[k].exit = None =>
                   k = <<"real", n>> /\ held > 0 /\ lots'[k].shares = held
<1>1. PICK key : key = <<"real", n>>
  OBVIOUS
<1>2. key \in Books \X Days /\ DOMAIN lots \subseteq Books \X Days
  BY <1>1 DEF Books, BookIInv, LotsInv
<1>3. PICK l : l = Lot(held, cost)
  OBVIOUS
<1>4. held > 0 => l \in AnyLot /\ l.exit = None /\ l.shares = held
  BY <1>3 DEF Lot, AnyLot
<1>6. DOMAIN g = {key} /\ g[key] = l
  BY <1>1, <1>3
<1>7. (held = 0 => lots' = kept) /\ (held > 0 => lots' = Kept(kept, g))
  OBVIOUS
<1>8. /\ DOMAIN Kept(kept, g) = DOMAIN kept \cup DOMAIN g
      /\ \A x \in DOMAIN kept : Kept(kept, g)[x] = kept[x]
      /\ \A x \in DOMAIN g \ DOMAIN kept : Kept(kept, g)[x] = g[x]
  BY DEF Kept
<1>9. /\ DOMAIN kept = DOMAIN lots \ OpenLots("real")
      /\ \A k \in DOMAIN kept : kept[k] = lots[k]
  OBVIOUS
<1>10. \A k \in DOMAIN kept : k \in DOMAIN lots' /\ lots'[k] = lots[k]
  <2>1. held = 0 \/ held > 0
    OBVIOUS
  <2> QED BY <1>7, <1>8, <1>9, <2>1
<1>11. \A k \in DOMAIN lots' \ DOMAIN kept : held > 0 /\ k = key /\ lots'[k] = l
  <2>1. held = 0 \/ held > 0
    OBVIOUS
  <2> QED BY <1>1, <1>6, <1>7, <1>8, <2>1
<1>12. DOMAIN lots' \subseteq Books \X Days
  BY <1>2, <1>9, <1>11
<1>13. ASSUME NEW k \in DOMAIN lots', k[1] = "real", lots'[k].exit = None
       PROVE  k = key /\ held > 0 /\ lots'[k] = l
  <2>1. k \in DOMAIN lots' /\ k[1] = "real" /\ lots'[k].exit = None
    BY <1>13
  <2>2. k \notin DOMAIN kept
    <3>1. SUFFICES ASSUME k \in DOMAIN kept PROVE FALSE
      OBVIOUS
    <3>2. k \in DOMAIN lots /\ k \notin OpenLots("real") /\ lots[k].exit = None
      BY <1>9, <1>10, <2>1, <3>1
    <3> QED BY <2>1, <3>2 DEF OpenLots
  <2> QED BY <1>11, <2>1, <2>2
<1> QED BY <1>1, <1>4, <1>9, <1>10, <1>11, <1>12, <1>13

\* A mirror that is committed, whether the script goes on or ends.
LEMMA MirroredKeeps ==
    ASSUME BookIInv, job["night"].pc = "insert", NEW held \in Nat, Mirrored(held),
           held > 0 => <<"real", job["night"].on>> \notin DOMAIN lots \ OpenLots("real"),
           NEW u \in JobType, u.pc = "idle" \/ (u.pc = "bars" /\ held = job["night"].pos[1]),
           job' = [job EXCEPT !["night"] = u], Fault \/ UNCHANGED faults,
           UNCHANGED <<clock, broker, fair, prices, marks, outcome, kb>>
    PROVE  BookIInv'
<1>1. PICK t : t = job["night"]
  OBVIOUS
<1>3. PICK kept : kept = [k \in DOMAIN lots \ OpenLots("real") |-> lots[k]]
  OBVIOUS
<1>4. t.pc = "insert" /\ UNCHANGED <<clock, broker, fair, prices, marks, outcome, kb>>
  BY <1>1
<1>5. /\ t \in JobType /\ t.on \in Days /\ t.on <= day /\ job \in [Jobs -> JobType]
  BY <1>1, <1>4 DEF BookIInv, JobsInv, JobOK, Jobs
<1>6. t.pos[1] \in Nat /\ t.pos[2] \in Nat /\ t.acct \in Nat
  BY <1>5 DEF JobType
<1>7. day' = day /\ fair' = fair /\ marks' = marks /\ kb' = kb
  BY <1>4 DEF clock
<1>8. /\ lots' = IF held > 0 THEN Kept(kept, [k \in {<<"real", t.on>>} |-> Lot(held, t.pos[2])]) ELSE kept
      /\ cash' = [cash EXCEPT !["real"] = t.acct]
      /\ since' = [since EXCEPT !["real"] = IF @ = None THEN t.on ELSE @]
      /\ intact' = [intact EXCEPT !["real"] = TRUE]
      /\ exit' = IF exit.pc = "wait" THEN [exit EXCEPT !.pc = "miss"] ELSE exit
  BY <1>1, <1>3 DEF Mirrored, Replaced
<1>10. PICK n, cost : n = t.on /\ cost = t.pos[2]
  OBVIOUS
<1>28. PICK g : g = [k \in {<<"real", n>>} |-> Lot(held, cost)]
  OBVIOUS
<1>11. /\ n \in Days /\ n <= day /\ cost \in Nat
       /\ held > 0 => <<"real", n>> \notin DOMAIN kept
       /\ held = 0 => lots' = kept
       /\ held > 0 => lots' = Kept(kept, g)
  BY <1>1, <1>3, <1>5, <1>6, <1>8, <1>10, <1>28
<1>29. DOMAIN kept = DOMAIN lots \ OpenLots("real") /\ \A k \in DOMAIN kept : kept[k] = lots[k]
  BY <1>3
<1>12. /\ DOMAIN lots' \subseteq Books \X Days
       /\ \A k \in DOMAIN kept : k \in DOMAIN lots' /\ lots'[k] = lots[k]
       /\ \A k \in DOMAIN lots' \ DOMAIN kept : k = <<"real", n>> /\ held > 0
                  /\ lots'[k] \in AnyLot /\ lots'[k].exit = None /\ lots'[k].shares = held
       /\ \A k \in DOMAIN lots' : k[1] = "real" /\ lots'[k].exit = None =>
                  k = <<"real", n>> /\ held > 0 /\ lots'[k].shares = held
  BY <1>11, <1>28, <1>29, MirrorReplaced, SMTT(30)
<1>13. LotsInv /\ ClockInv /\ TakeInv /\ ExitInv
  BY DEF BookIInv
<1>14. since["real"] \in Days \cup {None} /\ DOMAIN since = Books
  BY <1>13 DEF LotsInv, Books
<1>15. /\ cash' \in [Books -> Nat] /\ cash'["sleeve"] = Sleeve.cash /\ cash'["real"] = t.acct
  BY <1>6, <1>8, <1>13 DEF LotsInv, Books
<1>16. /\ since' \in [Books -> Days \cup {None}] /\ since'["sleeve"] = 1 /\ since'["real"] # None
       /\ \A b \in Books : since[b] # None => since'[b] # None
  <2>1. n \in Days /\ n # None
    BY <1>11, BookNumbers
  <2> QED BY <1>8, <1>10, <1>13, <1>14, <2>1 DEF LotsInv, Books
<1>17. intact' \in [Books -> BOOLEAN] /\ intact'["sleeve"] = intact["sleeve"]
  BY <1>8, <1>13 DEF LotsInv, Books
<1>18. LotsInv'
  <2>1. ASSUME NEW k \in DOMAIN lots'
        PROVE  /\ lots'[k] \in AnyLot /\ k[2] <= day'
               /\ lots'[k].exit # None => k[2] <= lots'[k].exit /\ lots'[k].exit <= day'
    <3>1. CASE k \in DOMAIN kept
      <4>1. k \in DOMAIN lots /\ lots'[k] = lots[k]
        BY <1>12, <1>29, <3>1
      <4> QED BY <1>7, <1>13, <4>1 DEF LotsInv
    <3>2. CASE k \notin DOMAIN kept
      <4>1. k = <<"real", n>> /\ lots'[k] \in AnyLot /\ lots'[k].exit = None
        BY <1>12, <3>2
      <4> QED BY <1>7, <1>11, <4>1
    <3> QED BY <3>1, <3>2
  <2>2. \A k, l \in OpenLots("real")' : k = l
    BY <1>12 DEF OpenLots
  <2>3. \A k \in DOMAIN lots : k \in DOMAIN kept \/ (lots[k].exit = None /\ k[1] = "real")
    BY <1>29 DEF OpenLots
  <2>4. DOMAIN kb' = {k \in DOMAIN lots' : lots'[k].exit # None}
    <3>1. DOMAIN kb = {k \in DOMAIN lots : lots[k].exit # None}
      BY <1>13 DEF LotsInv
    <3>2. \A k \in DOMAIN kept : k \in DOMAIN lots
      BY <1>29
    <3>3. \A k : (k \in DOMAIN lots' /\ lots'[k].exit # None) <=> (k \in DOMAIN lots /\ lots[k].exit # None)
      BY <1>12, <2>3, <3>2
    <3> QED BY <1>7, <3>1, <3>3
  <2>5. \A k \in DOMAIN kb' : kb'[k] = 1
    BY <1>7, <1>13 DEF LotsInv
  <2>6. Of("sleeve")' = Of("sleeve")
    <3>1. \A k : (k \in DOMAIN lots' /\ k[1] = "sleeve") <=> (k \in DOMAIN lots /\ k[1] = "sleeve")
      <4>1. \A k \in DOMAIN lots' : k \in DOMAIN kept \/ k[1] = "real"
        BY <1>12
      <4>2. \A k \in DOMAIN kept : k \in DOMAIN lots /\ k \in DOMAIN lots'
        BY <1>12, <1>29
      <4> QED BY <2>3, <4>1, <4>2
    <3> QED BY <3>1 DEF Of
  <2>7. lots'[<<"sleeve", 1>>] = lots[<<"sleeve", 1>>]
    <3>1. <<"sleeve", 1>> \in DOMAIN lots
      BY <1>13 DEF LotsInv, Of
    <3> QED BY <1>12, <2>3, <3>1
  <2>8. /\ Of("sleeve") = {<<"sleeve", 1>>} /\ lots[<<"sleeve", 1>>].shares = Sleeve.shares
        /\ intact["sleeve"] => lots[<<"sleeve", 1>>].exit = None
    BY <1>13 DEF LotsInv
  <2> QED BY <1>12, <1>15, <1>16, <1>17, <2>1, <2>2, <2>4, <2>5, <2>6, <2>7, <2>8 DEF LotsInv
<1>22. job'["night"] = u
  BY <1>5 DEF Jobs
<1>23. ExitInv'
  <2>1. /\ exit \in [pc : {"idle", "wait", "miss", "written"}, key : (Books \X Days) \cup {None}, date : Nat, price : Nat]
        /\ exit.pc = "written" => exit.key \in DOMAIN lots /\ exit.key[1] # "real"
        /\ exit.pc = "written" => lots[exit.key].exit = None
        /\ exit.pc = "written" => exit.date \in Days /\ exit.key[2] <= exit.date /\ exit.date <= day
    BY <1>1, <1>4, <1>13 DEF ExitInv
  <2>2. CASE exit.pc = "wait"
    <3>1. exit' = [exit EXCEPT !.pc = "miss"]
      BY <1>8, <2>2
    <3>2. /\ exit'.pc = "miss"
          /\ exit' \in [pc : {"idle", "wait", "miss", "written"}, key : (Books \X Days) \cup {None}, date : Nat, price : Nat]
      BY <2>1, <3>1
    <3> QED BY <3>2 DEF ExitInv
  <2>3. CASE exit.pc # "wait"
    <3>1. exit' = exit
      BY <1>8, <2>3
    <3>2. ASSUME exit.pc = "written" PROVE exit.key \in DOMAIN lots' /\ lots'[exit.key].exit = None
      <4>1. exit.key \in DOMAIN kept
        BY <1>29, <2>1, <3>2 DEF OpenLots
      <4> QED BY <1>12, <2>1, <3>2, <4>1
    <3> QED BY <1>7, <2>1, <2>3, <3>1, <3>2 DEF ExitInv
  <2> QED BY <2>2, <2>3
<1>24. ClockInv' /\ ScoresAreEarned' /\ StoredInv'
  BY <1>4, <1>7, <1>13, FaultsTyped, ClockFrame, ScoresFrame, StoredFrame DEF BookIInv
<1>25. JobsInv' /\ ValuesInv' /\ ChainInv'
  <2>1. /\ UNCHANGED <<day, fair, marks>> /\ "night" \in Jobs /\ "night" # "hand" /\ day \in Nat
        /\ u.pc \notin Marking /\ u.pc # "insert"
    BY <1>7, <1>13, BookNumbers DEF Jobs, Marking, ClockInv
  <2>2. JobsInv /\ ValuesInv /\ ChainInv
    BY DEF BookIInv
  <2> QED BY <1>16, <2>1, <2>2, JobLeaves
<1>26. TakeInv' /\ LoadedInv'
  BY <1>22 DEF TakeInv, LoadedInv, Marking
<1>27. MirrorInv'
  <2>1. ASSUME u.pc = "bars", day \in DOMAIN fair, NEW k \in OpenLots("real")'
        PROVE  k[2] = day /\ cash'["real"] + lots'[k].shares * Quote[day] = fair[day]
    <3>1. t.acct + t.pos[1] * Quote[day] = fair[day] /\ t.on = day
      BY <1>1, <1>4, <1>13, <2>1 DEF TakeInv
    <3>2. k = <<"real", n>> /\ lots'[k].shares = held
      BY <1>12, <2>1 DEF OpenLots
    <3> QED BY <1>1, <1>10, <1>15, <2>1, <3>1, <3>2
  <2> QED BY <1>7, <1>16, <1>22, <2>1 DEF MirrorInv
<1> QED BY <1>18, <1>23, <1>24, <1>25, <1>26, <1>27 DEF BookIInv

LEMMA SyncInsertKeeps == ASSUME BookIInv, SyncInsert PROVE BookIInv'
<1>1. PICK t : t = job["night"]
  OBVIOUS
<1>2. /\ t.pc = "insert"
      /\ UNCHANGED <<clock, broker, fair, prices, marks, outcome, kb, bounds>>
      /\ IF t.pos[1] > 0 /\ <<"real", t.on>> \in DOMAIN lots \ OpenLots("real")
         THEN Stop("night") /\ UNCHANGED <<book, exit>>
         ELSE Mirrored(t.pos[1]) /\ Go("night", "bars")
  BY <1>1 DEF SyncInsert, Replaced
<1>3. /\ t \in JobType /\ "bars" \in JobPcs /\ UNCHANGED faults /\ "night" \in Jobs
      /\ t.pos[1] \in Nat
  BY <1>1, <1>2 DEF BookIInv, JobsInv, JobType, JobPcs, Jobs, bounds
<1>4. CASE t.pos[1] > 0 /\ <<"real", t.on>> \in DOMAIN lots \ OpenLots("real")
  <2>1. Stop("night") /\ UNCHANGED <<clock, broker, fair, prices, book, marks, outcome, kb, exit>>
    BY <1>2, <1>4
  <2> QED BY <1>3, <2>1, StopKeeps
<1>5. CASE ~(t.pos[1] > 0 /\ <<"real", t.on>> \in DOMAIN lots \ OpenLots("real"))
  <2>1. Mirrored(t.pos[1]) /\ Go("night", "bars")
    BY <1>2, <1>5
  <2>2. PICK u : u = [t EXCEPT !.pc = "bars"]
    OBVIOUS
  <2>3. u \in JobType /\ u.pc = "bars"
    BY <1>3, <2>2, PcTyped DEF JobType
  <2>4. job' = [job EXCEPT !["night"] = u]
    BY <1>1, <2>1, <2>2 DEF Go
  <2> QED BY <1>1, <1>2, <1>3, <1>5, <2>1, <2>3, <2>4, MirroredKeeps
<1> QED BY <1>4, <1>5

LEMMA SyncUnlistedKeeps == ASSUME BookIInv, SyncUnlisted PROVE BookIInv'
<1>1. /\ job["night"].pc = "insert" /\ Fault /\ Mirrored(0)
      /\ UNCHANGED <<clock, broker, fair, prices, marks, outcome, kb>>
      /\ job' = [job EXCEPT !["night"] = NoJob]
  BY DEF SyncUnlisted, SyncFailed, Stop
<1>2. 0 \in Nat /\ ~(0 > 0)
  OBVIOUS
<1>3. NoJob \in JobType /\ NoJob.pc = "idle"
  BY NoJobTyped
<1>4. 0 > 0 => <<"real", job["night"].on>> \notin DOMAIN lots \ OpenLots("real")
  BY <1>2
<1> QED BY <1>1, <1>2, <1>3, <1>4, MirroredKeeps

-----------------------------------------------------------------------------
(* The value of a session                                                  *)

LEMMA LotsFinite ==
    ASSUME LotsInv, NEW b \in Books, NEW S, S \subseteq Of(b)
    PROVE  IsFiniteSet(S)
<1>1. IsFiniteSet(Books \X Days)
  <2>1. IsFiniteSet({"real"}) /\ IsFiniteSet({"real"} \cup {"sleeve"})
    BY FS_Singleton, FS_AddElement
  <2>2. Books = {"real"} \cup {"sleeve"}
    BY DEF Books
  <2> QED BY <2>1, <2>2, BookNumbers, FS_Product
<1>2. S \in SUBSET (Books \X Days)
  BY DEF LotsInv, Of
<1> QED BY <1>1, <1>2, FS_Subset

LEMMA SharesTyped ==
    ASSUME LotsInv, ClockInv, NEW k \in DOMAIN lots, NEW d
    PROVE  Shares(k, d) \in Nat
<1>1. lots[k].shares \in Nat
  BY DEF LotsInv, AnyLot
<1>2. splits \subseteq Days
  BY BookNumbers DEF ClockInv
<1>3. Factor(splits, k[2], d) \in Nat
  BY <1>2, FactorIs
<1> QED BY <1>1, <1>3 DEF Shares

\* The cash of a day: typed, and the balance when nothing has moved since.
LEMMA CashIs ==
    ASSUME LotsInv, ClockInv, NEW b \in Books, NEW had \in Nat, NEW d \in Days
    PROVE  /\ CashAt(b, had, d) \in Int
           /\ {x \in Of(b) : x[2] > d} = {} /\ {x \in Of(b) : lots[x].exit # None /\ lots[x].exit > d} = {}
              => CashAt(b, had, d) = had
<1>1. PICK S : S = {x \in Of(b) : x[2] > d}
  OBVIOUS
<1>2. PICK T : T = {x \in Of(b) : lots[x].exit # None /\ lots[x].exit > d}
  OBVIOUS
<1>3. PICK f : f = [k \in S |-> lots[k].cost]
  OBVIOUS
<1>4. PICK g : g = [k \in T |-> Shares(k, lots[k].exit) * lots[k].price]
  OBVIOUS
<1>5. CashAt(b, had, d) = had + SumFunction(f) - SumFunction(g)
  BY <1>1, <1>2, <1>3, <1>4 DEF CashAt
<1>6. IsFiniteSet(S) /\ IsFiniteSet(T)
  BY <1>1, <1>2, LotsFinite
<1>7. S \subseteq DOMAIN lots /\ T \subseteq DOMAIN lots
  BY <1>1, <1>2 DEF Of
<1>8. f \in [S -> Nat]
  BY <1>3, <1>7 DEF LotsInv, AnyLot
<1>9. g \in [T -> Nat]
  <2> SUFFICES ASSUME NEW k \in T PROVE Shares(k, lots[k].exit) * lots[k].price \in Nat
    BY <1>4
  <2>1. Shares(k, lots[k].exit) \in Nat
    BY <1>7, SharesTyped
  <2>2. lots[k].price \in Nat
    BY <1>7 DEF LotsInv, AnyLot
  <2> QED BY <2>1, <2>2
<1>10. /\ SumFunction(f) \in Nat /\ (S = {} => SumFunction(f) = 0)
       /\ SumFunction(g) \in Nat /\ (T = {} => SumFunction(g) = 0)
  BY <1>6, <1>8, <1>9, SumIs
<1> QED BY <1>1, <1>2, <1>5, <1>10

LEMMA HeldSum ==
    ASSUME LotsInv, ClockInv, NEW b \in Books, NEW d,
           NEW S, S = {x \in Of(b) : HeldOn(x, d)}, NEW g, g = [k \in S |-> Shares(k, d)]
    PROVE  SumFunction(g) \in Nat /\ \A k : S = {k} => SumFunction(g) = Shares(k, d)
<1>1. IsFiniteSet(S) /\ S \subseteq DOMAIN lots
  <2>1. S \subseteq Of(b)
    OBVIOUS
  <2>2. Of(b) \subseteq DOMAIN lots
    BY DEF Of
  <2> QED BY <2>1, <2>2, LotsFinite
<1>2. g \in [S -> Nat]
  BY <1>1, SharesTyped
<1>3. SumFunction(g) \in Nat /\ \A k : S = {k} => SumFunction(g) = g[k]
  BY <1>1, <1>2, SumIs
<1> QED BY <1>3

LEMMA ValuedIs ==
    ASSUME LotsInv, ClockInv, NEW b \in Books, NEW had \in Nat, NEW d \in Days
    PROVE  /\ Valued(b, had, d) \in Nat \cup {None, Refused}
           /\ Valued(b, had, d) \notin {None, Refused} => Priced(b, d)
<1>1. PICK c : c = CashAt(b, had, d)
  OBVIOUS
<1>2. c \in Int
  BY <1>1, CashIs
<1>3. PICK S : S = {x \in Of(b) : HeldOn(x, d)}
  OBVIOUS
<1>4. PICK g : g = [k \in S |-> Shares(k, d)]
  OBVIOUS
<1>5. SumFunction(g) \in Nat
  BY <1>3, <1>4, HeldSum
<1>6. PICK v : v = Quote[d] * SumFunction(g)
  OBVIOUS
<1>7. v \in Nat
  BY <1>5, <1>6, BookNumbers
<1>8. Valued(b, had, d) = IF c < 0 THEN Refused ELSE IF ~Priced(b, d) THEN None
                          ELSE c + (IF d \in bars THEN v ELSE 0)
  BY <1>1, <1>3, <1>4, <1>6 DEF Valued
<1>9. ~(c < 0) => c \in Nat /\ c + v \in Nat /\ c + 0 \in Nat
  BY <1>2, <1>7
<1> QED BY <1>8, <1>9

\* The book holds one lot that day, and no cash has moved since.
LEMMA OneLotValue ==
    ASSUME LotsInv, ClockInv, NEW b \in Books, NEW had \in Nat, NEW d \in Days, NEW k \in Of(b),
           {x \in Of(b) : x[2] > d} = {}, {x \in Of(b) : lots[x].exit # None /\ lots[x].exit > d} = {},
           {x \in Of(b) : HeldOn(x, d)} = {k}, Valued(b, had, d) # None
    PROVE  d \in bars /\ Valued(b, had, d) = had + Quote[d] * Shares(k, d)
<1>1. PICK c : c = CashAt(b, had, d)
  OBVIOUS
<1>2. c = had /\ ~(c < 0)
  BY <1>1, CashIs
<1>3. PICK S : S = {x \in Of(b) : HeldOn(x, d)}
  OBVIOUS
<1>4. PICK g : g = [x \in S |-> Shares(x, d)]
  OBVIOUS
<1>5. SumFunction(g) = Shares(k, d)
  BY <1>3, <1>4, HeldSum
<1>6. PICK v : v = Quote[d] * SumFunction(g)
  OBVIOUS
<1>7. Valued(b, had, d) = IF c < 0 THEN Refused ELSE IF ~Priced(b, d) THEN None
                          ELSE c + (IF d \in bars THEN v ELSE 0)
  BY <1>1, <1>3, <1>4, <1>6 DEF Valued
<1>8. Priced(b, d)
  BY <1>2, <1>7
<1>9. HeldOn(k, d)
  OBVIOUS
<1>10. d \in bars
  BY <1>8, <1>9 DEF Priced
<1> QED BY <1>2, <1>5, <1>6, <1>7, <1>8, <1>10

LEMMA SleeveValue ==
    ASSUME BookIInv, intact["sleeve"], NEW w \in Nat, {x \in ExDates : x <= w} \subseteq splits,
           NEW d \in Days, d <= w, Valued("sleeve", Sleeve.cash, d) # None
    PROVE  Valued("sleeve", Sleeve.cash, d) = SleeveWorth(d)
<1>1. PICK k : k = <<"sleeve", 1>>
  OBVIOUS
<1>2. /\ Of("sleeve") = {k} /\ lots[k].shares = Sleeve.shares /\ lots[k].exit = None
      /\ LotsInv /\ ClockInv
  BY <1>1 DEF BookIInv, LotsInv
<1>3. d \in Nat /\ 1 <= d /\ k[2] = 1 /\ "sleeve" \in Books /\ Sleeve.cash \in Nat
  BY <1>1, BookNumbers DEF Books
<1>4. {x \in Of("sleeve") : x[2] > d} = {}
  BY <1>2, <1>3
<1>5. {x \in Of("sleeve") : lots[x].exit # None /\ lots[x].exit > d} = {}
  BY <1>2
<1>6. {x \in Of("sleeve") : HeldOn(x, d)} = {k}
  BY <1>2, <1>3 DEF HeldOn
<1>7. Valued("sleeve", Sleeve.cash, d) = Sleeve.cash + Quote[d] * Shares(k, d)
  <2>1. k \in Of("sleeve")
    BY <1>2
  <2> QED BY <1>2, <1>3, <1>4, <1>5, <1>6, <2>1, OneLotValue
<1>8. Shares(k, d) = Sleeve.shares * Factor(ExDates, 1, d)
  <2>1. splits \subseteq ExDates
    BY <1>2 DEF ClockInv
  <2>2. Factor(splits, 1, d) = Factor(ExDates, 1, d)
    BY <1>3, <2>1, FactorKnown
  <2> QED BY <1>2, <1>3, <2>2 DEF Shares
<1>9. PICK a, n, q, m : a = Factor(ExDates, 1, d) /\ n = Sleeve.shares /\ q = Quote[d] /\ m = Sleeve.cash
  OBVIOUS
<1>10. a \in Nat /\ n \in Nat /\ q \in Nat /\ m \in Nat
  <2>1. Factor(ExDates, 1, d) \in Nat
    BY BookNumbers, FactorIs
  <2> QED BY <1>9, <2>1, BookNumbers
<1>11. m + q * (n * a) = n * a * q + m
  BY <1>10
<1> QED BY <1>7, <1>8, <1>9, <1>11 DEF SleeveWorth

LEMMA RealValue ==
    ASSUME BookIInv, intact["real"], NEW t, t = job["night"], t.pc \in Marking,
           Valued("real", t.had["real"], t.on) # None
    PROVE  t.on \in DOMAIN fair /\ Valued("real", t.had["real"], t.on) = fair[t.on]
<1>1. PICK n, had : n = t.on /\ had = t.had["real"]
  OBVIOUS
<1>2. LotsInv /\ ClockInv /\ LoadedInv /\ JobOK("night")
  BY DEF BookIInv, JobsInv, Jobs
<1>3. /\ "real" \in DOMAIN t.had
      /\ \A k \in Of("real") : k[2] <= n /\ (lots[k].exit # None => lots[k].exit <= n)
  BY <1>1, <1>2 DEF LoadedInv
<1>4. PICK k \in OpenLots("real") : n \in DOMAIN fair =>
                   k[2] = n /\ had + lots[k].shares * Quote[n] = fair[n]
  BY <1>1, <1>2 DEF LoadedInv
<1>5. n \in Days /\ n \in Nat /\ had \in Nat /\ "real" \in Books
  <2>1. t \in JobType /\ t.on \in Days
    BY <1>2 DEF JobOK
  <2>2. had \in Nat
    BY <1>1, <1>3, <2>1 DEF JobType
  <2> QED BY <1>1, <2>1, <2>2, BookNumbers DEF Books
<1>6. \A x \in Of("real") : x[2] \in Nat /\ lots[x].exit \in Nat \cup {None}
  BY <1>2, BookNumbers DEF Of, LotsInv, AnyLot
<1>7. {x \in Of("real") : x[2] > n} = {}
  BY <1>3, <1>5, <1>6
<1>8. {x \in Of("real") : lots[x].exit # None /\ lots[x].exit > n} = {}
  BY <1>3, <1>5, <1>6
<1>9. k \in Of("real") /\ lots[k].exit = None
  BY <1>4 DEF OpenLots, Of
<1>10. {x \in Of("real") : HeldOn(x, n)} = {k}
  <2>1. HeldOn(k, n)
    BY <1>3, <1>9 DEF HeldOn
  <2>2. ASSUME NEW x \in Of("real"), HeldOn(x, n) PROVE x = k
    <3>1. lots[x].exit = None
      BY <1>8, <2>2 DEF HeldOn
    <3>2. x \in OpenLots("real")
      BY <2>2, <3>1 DEF OpenLots, Of
    <3> QED BY <1>2, <1>4, <3>2 DEF LotsInv
  <2> QED BY <1>9, <2>1, <2>2
<1>11. n \in bars /\ Valued("real", had, n) = had + Quote[n] * Shares(k, n)
  <2>1. Valued("real", had, n) # None
    BY <1>1
  <2> QED BY <1>2, <1>5, <1>7, <1>8, <1>9, <1>10, <2>1, OneLotValue
<1>12. n \in DOMAIN fair
  BY <1>2, <1>11 DEF ClockInv
<1>13. PICK s, q : s = lots[k].shares /\ q = Quote[n]
  OBVIOUS
<1>14. s \in Nat /\ q \in Nat
  BY <1>2, <1>5, <1>9, <1>13, BookNumbers DEF Of, LotsInv, AnyLot
<1>15. Shares(k, n) = s
  <2>1. splits \subseteq Days
    BY <1>2, BookNumbers DEF ClockInv
  <2>2. Factor(splits, k[2], n) = 1
    <3>1. k[2] = n /\ n \in Int
      BY <1>4, <1>5, <1>12
    <3>2. Factor(splits, n, n) = 1
      BY <2>1, <3>1, FactorIs
    <3> QED BY <3>1, <3>2
  <2>3. s * 1 = s
    BY <1>14
  <2> QED BY <1>13, <2>2, <2>3 DEF Shares
<1>16. q * s = s * q
  BY <1>14
<1> QED BY <1>1, <1>4, <1>11, <1>12, <1>13, <1>15, <1>16

-----------------------------------------------------------------------------
(* The marks                                                               *)

\* A process turns to a portfolio, or stops: what is left to show of the step.
LEMMA JobTurns ==
    ASSUME BookIInv, NEW j \in Jobs, NEW t \in JobType, t.pc \in {"idle"} \cup Marking,
           job' = [job EXCEPT ![j] = t],
           UNCHANGED <<clock, broker, fair, prices, book, outcome, kb, exit>>, Fault \/ UNCHANGED faults,
           t.pc \in Marking =>
             /\ t.on \in Days /\ t.on <= day /\ t.book \in DOMAIN t.had /\ t.book \in Books
             /\ t.had["sleeve"] = Sleeve.cash /\ "sleeve" \in DOMAIN t.had
             /\ \A b \in DOMAIN t.had : since[b] # None,
           t.pc \in {"read", "write"} => DOMAIN t.comp \subseteq t.win,
           j = "hand" /\ t.pc # "idle" => t.on = day,
           ValueOK(j)', LoadedInv', StoredInv', ChainInv'
    PROVE  BookIInv'
<1>1. /\ day' = day /\ fair' = fair /\ lots' = lots /\ since' = since /\ exit' = exit /\ outcome' = outcome
      /\ UNCHANGED <<book, kb>>
  BY DEF clock, book
<1>2. day \in Nat /\ day' \in Nat /\ day' >= day
  BY <1>1, BookNumbers DEF BookIInv, ClockInv
<1>3. /\ job' \in [Jobs -> JobType] /\ job'[j] = t /\ \A i \in Jobs : i # j => job'[i] = job[i]
  BY DEF BookIInv, JobsInv
<1>4. t.pc \notin {"insert", "delete", "bars", "score", "mark"}
  BY DEF Marking
<1>5. LotsInv' /\ ScoresAreEarned' /\ ClockInv'
  BY <1>1, <1>2, LotsFrame, ScoresFrame, FaultsTyped, ClockFrame DEF BookIInv
<1>6. ExitInv'
  <2>1. job'["night"].pc # "insert" \/ job'["night"].pc = job["night"].pc
    BY <1>3, <1>4 DEF Jobs
  <2>2. ExitInv /\ UNCHANGED <<exit, lots>>
    BY <1>1 DEF BookIInv
  <2> QED BY <1>2, <2>1, <2>2, ExitFrame
<1>7. JobsInv'
  <2>1. JobOK(j)'
    BY <1>1, <1>3, <1>4 DEF JobOK
  <2>2. \A i \in Jobs : JobOK(i)'
    <3> SUFFICES ASSUME NEW i \in Jobs, i # j PROVE JobOK(i)'
      BY <2>1
    <3>1. JobOK(i) /\ job'[i] = job[i] /\ \A b \in Books : since[b] # None => since'[b] # None
      BY <1>1, <1>3 DEF BookIInv, JobsInv
    <3> QED BY <1>2, <3>1, JobFrame
  <2>3. job'["hand"].pc \in {"idle"} \cup Marking /\ (job'["hand"].pc # "idle" => job'["hand"].on = day')
    <3>1. CASE j = "hand"
      BY <1>1, <1>3, <3>1
    <3>2. CASE j # "hand"
      BY <1>1, <1>3, <3>2 DEF BookIInv, JobsInv, Jobs
    <3> QED BY <3>1, <3>2
  <2> QED BY <1>3, <2>2, <2>3 DEF JobsInv
<1>8. TakeInv' /\ MirrorInv'
  <2>1. CASE j = "night"
    BY <1>3, <1>4, <2>1 DEF TakeInv, MirrorInv
  <2>2. CASE j # "night"
    <3>1. job'["night"] = job["night"]
      BY <1>3, <2>2 DEF Jobs
    <3>2. UNCHANGED <<day, fair>> /\ UNCHANGED <<day, fair, book>>
      BY <1>1
    <3> QED BY <3>1, <3>2, TakeFrame, MirrorFrame DEF BookIInv
  <2> QED BY <2>1, <2>2
<1>9. ValuesInv'
  <2> SUFFICES ASSUME NEW i \in Jobs, i # j PROVE ValueOK(i)'
    BY DEF ValuesInv
  <2>1. ValueOK(i) /\ job'[i] = job[i] /\ DOMAIN fair \subseteq DOMAIN fair'
    BY <1>1, <1>3 DEF BookIInv, ValuesInv
  <2>2. \A d \in DOMAIN fair : fair'[d] = fair[d]
    BY <1>1
  <2> QED BY <2>1, <2>2, ValueFrame
<1> QED BY <1>5, <1>6, <1>7, <1>8, <1>9 DEF BookIInv

\* What a process that marks brings along.
LEMMA MarkerIs ==
    ASSUME BookIInv, NEW j \in Jobs, NEW t, t = job[j], t.pc \in Marking
    PROVE  /\ t \in JobType /\ t.on \in Days /\ t.on <= day /\ t.book \in DOMAIN t.had /\ t.book \in Books
           /\ t.had["sleeve"] = Sleeve.cash /\ "sleeve" \in DOMAIN t.had
           /\ \A b \in DOMAIN t.had : since[b] # None
           /\ t.pc \in {"read", "write"} => DOMAIN t.comp \subseteq t.win
           /\ j = "hand" => t.on = day
<1>1. JobOK(j) /\ (j = "hand" /\ job["hand"].pc # "idle" => job["hand"].on = day)
  BY DEF BookIInv, JobsInv
<1>2. t.pc # "idle"
  BY DEF Marking
<1> QED BY <1>1, <1>2 DEF JobOK

\* It goes on with what it has loaded.
LEMMA LoadedStays ==
    ASSUME BookIInv, NEW j \in Jobs, NEW o, o = job[j], o.pc \in Marking, NEW t,
           t.pc \in {"idle"} \cup Marking,
           t.pc \in Marking => t.on = o.on /\ t.win = o.win /\ t.had = o.had,
           job' = [job EXCEPT ![j] = t], UNCHANGED <<fair, book>>
    PROVE  LoadedInv'
<1>1. LoadedInv /\ job \in [Jobs -> JobType]
  BY DEF BookIInv, JobsInv
<1>2. CASE j = "night"
  <2>1. job'["night"] = t
    BY <1>1, <1>2 DEF Jobs
  <2>2. fair' = fair /\ lots' = lots /\ intact' = intact
    BY DEF book
  <2>3. OpenLots("real")' = OpenLots("real") /\ Of("real")' = Of("real")
    BY <2>2 DEF OpenLots, Of
  <2> QED BY <1>1, <1>2, <2>1, <2>2, <2>3 DEF LoadedInv, LatestSession, UpTo
<1>3. CASE j # "night"
  <2>1. job'["night"] = job["night"]
    BY <1>1, <1>3 DEF Jobs
  <2> QED BY <1>1, <2>1, LoadedFrame
<1> QED BY <1>2, <1>3

LEMMA MarkBegins ==
    ASSUME BookIInv, NEW j \in Jobs, NEW mode \in {None} \cup {h[1] : h \in ByHand} \cup {"live"},
           NEW win \in SUBSET Sessions, MarkBegin(j, mode, win),
           j = "night" => job["night"].pc = "mark" /\ win = {LatestSession(day)},
           UNCHANGED <<clock, broker, fair, prices, book, marks, outcome, kb, exit, faults>>
    PROVE  BookIInv'
<1>1. PICK B : B = {x \in Books : since[x] # None}
  OBVIOUS
<1>2. PICK had : had = [b \in B |-> cash[b]]
  OBVIOUS
<1>3. PICK t : t = [NoJob EXCEPT !.pc = "value", !.mode = mode, !.win = win, !.on = day, !.book = "sleeve", !.had = had]
  OBVIOUS
<1>4. job' = [job EXCEPT ![j] = t]
  BY <1>1, <1>2, <1>3 DEF MarkBegin
<1>5. /\ day' = day /\ fair' = fair /\ lots' = lots /\ since' = since /\ cash' = cash /\ intact' = intact
      /\ marks' = marks
  BY DEF clock, book
<1>6. day \in Days /\ day \in Nat /\ LotsInv /\ ClockInv
  BY BookNumbers DEF BookIInv, ClockInv
<1>7. "sleeve" \in B /\ B \in SUBSET Books /\ \A b \in B : since[b] # None
  BY <1>1, <1>6, BookNumbers DEF Books, LotsInv
<1>8. had \in UNION {[S -> Nat] : S \in SUBSET Books} /\ had["sleeve"] = Sleeve.cash /\ DOMAIN had = B
  <2>1. had \in [B -> Nat]
    BY <1>2, <1>6, <1>7 DEF LotsInv
  <2> QED BY <1>2, <1>6, <1>7, <2>1 DEF LotsInv
<1>9. t \in JobType
  <2>1. "value" \in JobPcs /\ "sleeve" \in Books /\ NoJob \in JobType
    BY NoJobTyped DEF JobPcs, Books
  <2> QED BY <1>3, <1>6, <1>8, <2>1 DEF JobType
<1>10. t.pc = "value" /\ t.win = win /\ t.on = day /\ t.book = "sleeve" /\ t.had = had
  BY <1>3 DEF NoJob
<1>11. job'[j] = t /\ \A i \in Jobs : i # j => job'[i] = job[i]
  BY <1>4 DEF BookIInv, JobsInv
<1>12. t.pc \in Marking /\ t.pc \in {"idle"} \cup Marking /\ t.pc \notin {"read", "write"}
  BY <1>10 DEF Marking
<1>13. ValueOK(j)' /\ ReadOK(j)'
  BY <1>11, <1>12 DEF ValueOK, ReadOK
<1>14. StoredInv'
  BY <1>5, StoredFrame DEF BookIInv
<1>15. ChainInv'
  <2>1. \A i \in Jobs : ReadOK(i)'
    BY <1>5, <1>11, <1>13 DEF BookIInv, ChainInv, ReadOK
  <2>2. ReturnsChain'
    BY <1>5 DEF BookIInv, ChainInv, ReturnsChain, LatestSession, UpTo
  <2>3. BesideInv'
    <3>1. CASE j = "hand"
      BY <1>11, <1>12, <3>1 DEF BesideInv
    <3>2. CASE j = "night"
      <4>1. job'["night"] = t /\ job'["hand"] = job["hand"]
        BY <1>11, <3>2 DEF Jobs
      <4>2. HandHas' = HandHas
        BY <4>1 DEF HandHas
      <4>3. ASSUME job["hand"].pc \in {"read", "write"}, NEW d \in HandHas, NEW w \in t.win PROVE w >= d
        <5>1. PICK h : h = job["hand"]
          OBVIOUS
        <5>2. h.pc \in Marking /\ "hand" \in Jobs
          BY <4>3, <5>1 DEF Marking, Jobs
        <5>3. h \in JobType /\ h.on = day /\ DOMAIN h.comp \subseteq h.win
          BY <4>3, <5>1, <5>2, MarkerIs
        <5>4. d \in Sessions /\ d <= day
          BY <5>1, <5>3 DEF HandHas, JobType
        <5>5. w = LatestSession(day)
          BY <1>10, <3>2, <4>3
        <5>6. d \in UpTo(day) /\ day \in Int
          BY <1>6, <5>4 DEF UpTo
        <5>7. w \in Nat /\ d <= w /\ d \in Nat
          BY <5>4, <5>5, <5>6, LatestIs, BookNumbers
        <5> QED BY <5>7
      <4>4. BesideInv
        BY DEF BookIInv, ChainInv
      <4> QED BY <1>5, <4>1, <4>2, <4>3, <4>4 DEF BesideInv
    <3> QED BY <3>1, <3>2 DEF Jobs
  <2> QED BY <2>1, <2>2, <2>3 DEF ChainInv
<1>16. LoadedInv'
  <2>1. CASE j = "night"
    <3>1. job'["night"] = t /\ job["night"].pc = "mark" /\ MirrorInv
      BY <1>11, <2>1 DEF BookIInv
    <3>2. since["real"] # None /\ (intact["real"] => OpenLots("real") # {})
      BY <3>1 DEF MirrorInv
    <3>3. intact["real"] /\ day \in DOMAIN fair => \A k \in OpenLots("real") :
                   k[2] = day /\ cash["real"] + lots[k].shares * Quote[day] = fair[day]
      BY <3>1 DEF MirrorInv
    <3>4. "real" \in DOMAIN t.had /\ t.had["real"] = cash["real"]
      BY <1>1, <1>2, <1>10, <3>2 DEF Books
    <3>5. DOMAIN fair \subseteq 1..day
      <4> SUFFICES ASSUME NEW n \in DOMAIN fair PROVE n \in 1..day
        OBVIOUS
      <4>1. n \in Days /\ n <= day
        BY <1>6, BookNumbers DEF ClockInv, UpTo
      <4>2. n \in Nat \ {0}
        BY <4>1, BookNumbers
      <4> QED BY <1>6, <4>1, <4>2
    <3>6. OpenLots("real")' = OpenLots("real") /\ Of("real")' = Of("real")
      BY <1>5 DEF OpenLots, Of
    <3>7. \A k \in Of("real") : k[2] <= day /\ (lots[k].exit # None => lots[k].exit <= day)
      BY <1>6 DEF Of, LotsInv
    <3>8. intact["real"] => \E k \in OpenLots("real") : day \in DOMAIN fair =>
                   k[2] = day /\ t.had["real"] + lots[k].shares * Quote[day] = fair[day]
      <4> SUFFICES ASSUME intact["real"] PROVE \E k \in OpenLots("real") : day \in DOMAIN fair =>
                   k[2] = day /\ t.had["real"] + lots[k].shares * Quote[day] = fair[day]
        OBVIOUS
      <4>1. PICK k \in OpenLots("real") : TRUE
        BY <3>2
      <4>2. day \in DOMAIN fair => k[2] = day /\ t.had["real"] + lots[k].shares * Quote[day] = fair[day]
        BY <3>3, <3>4
      <4> QED BY <4>2
    <3>9. t.win = {LatestSession(t.on)}
      BY <1>10, <2>1
    <3> QED BY <1>5, <1>10, <3>1, <3>4, <3>5, <3>6, <3>7, <3>8, <3>9 DEF LoadedInv, LatestSession, UpTo
  <2>2. CASE j # "night"
    <3>1. job'["night"] = job["night"] /\ UNCHANGED <<fair, book>> /\ LoadedInv
      BY <1>11, <2>2 DEF Jobs, BookIInv
    <3> QED BY <3>1, LoadedFrame
  <2> QED BY <2>1, <2>2
<1>17. t.on <= day /\ t.book \in DOMAIN t.had /\ t.book \in Books
  BY <1>6, <1>7, <1>8, <1>10
<1>18. UNCHANGED <<clock, broker, fair, prices, book, outcome, kb, exit>>
  OBVIOUS
<1> QED BY <1>4, <1>6, <1>7, <1>8, <1>9, <1>10, <1>12, <1>13, <1>14, <1>15, <1>16, <1>17, <1>18, JobTurns

LEMMA NightMarkKeeps == ASSUME BookIInv, NightMark PROVE BookIInv'
<1>1. PICK d : d = LatestSession(day)
  OBVIOUS
<1>2. /\ job["night"].pc = "mark"
      /\ IF d # None /\ day - d <= 3 THEN MarkBegin("night", "live", {d}) ELSE Stop("night")
      /\ UNCHANGED <<clock, broker, fair, prices, book, marks, outcome, kb, exit, bounds>>
  BY <1>1 DEF NightMark
<1>3. faults' = faults /\ "night" \in Jobs /\ day \in Int
  BY <1>2, BookNumbers DEF bounds, Jobs, BookIInv, ClockInv
<1>4. CASE d # None /\ day - d <= 3
  <2>1. {d} \in SUBSET Sessions /\ MarkBegin("night", "live", {d}) /\ {d} = {LatestSession(day)}
    BY <1>1, <1>2, <1>3, <1>4, LatestIs
  <2>2. UNCHANGED <<clock, broker, fair, prices, book, marks, outcome, kb, exit, faults>>
    BY <1>2, <1>3
  <2>3. "live" \in {None} \cup {h[1] : h \in ByHand} \cup {"live"}
    OBVIOUS
  <2> QED BY <1>2, <1>3, <2>1, <2>2, <2>3, MarkBegins
<1>5. CASE ~(d # None /\ day - d <= 3)
  <2>1. Stop("night") /\ UNCHANGED <<clock, broker, fair, prices, book, marks, outcome, kb, exit>>
    BY <1>2, <1>5
  <2> QED BY <1>3, <2>1, StopKeeps
<1> QED BY <1>4, <1>5

LEMMA HandMarkKeeps == ASSUME BookIInv, NEW h \in ByHand, HandMark(h[1], h[2], h[3]) PROVE BookIInv'
<1>1. PICK win : win = {s \in Sessions : h[2] <= s /\ s <= h[3]}
  OBVIOUS
<1>2. PICK mode : mode = h[1]
  OBVIOUS
<1>3. /\ MarkBegin("hand", mode, win) /\ win \in SUBSET Sessions
      /\ UNCHANGED <<clock, broker, fair, prices, book, marks, outcome, kb, exit, faults>>
  BY <1>1, <1>2 DEF HandMark
<1>4. mode \in {None} \cup {x[1] : x \in ByHand} \cup {"live"} /\ "hand" \in Jobs /\ "hand" # "night"
  BY <1>2 DEF Jobs
<1> QED BY <1>3, <1>4, MarkBegins

LEMMA DiesKeeps == ASSUME BookIInv, NEW j \in Jobs, Dies(j) PROVE BookIInv'
BY StopKeeps DEF Dies

\* On to the next portfolio, or the end.
LEMMA NextBookIs ==
    ASSUME BookIInv, NEW j \in Jobs, NEW o, o = job[j], o.pc \in Marking, NextBook(j)
    PROVE  \E t \in JobType :
              /\ job' = [job EXCEPT ![j] = t] /\ t.pc \in {"idle", "value"}
              /\ t.pc = "value" => /\ t.on = o.on /\ t.win = o.win /\ t.had = o.had
                                   /\ t.book = "real" /\ "real" \in DOMAIN o.had
<1>1. o \in JobType
  BY MarkerIs
<1>2. CASE o.book = "sleeve" /\ "real" \in DOMAIN o.had
  <2>1. PICK t : t = [o EXCEPT !.pc = "value", !.book = "real", !.comp = <<>>, !.seen = <<>>]
    OBVIOUS
  <2>2. job' = [job EXCEPT ![j] = t]
    BY <1>2, <2>1 DEF NextBook
  <2>3. t \in JobType
    <3>1. /\ "value" \in JobPcs /\ "real" \in Books
          /\ <<>> \in UNION {[S -> PriceLike] : S \in SUBSET Sessions}
          /\ <<>> \in UNION {[S -> Nat] : S \in SUBSET Sessions}
      BY NoJobTyped DEF NoJob, JobType, JobPcs, Books
    <3> QED BY <1>1, <2>1, <3>1 DEF JobType
  <2>4. t.pc = "value" /\ t.on = o.on /\ t.win = o.win /\ t.had = o.had /\ t.book = "real"
    BY <1>1, <2>1 DEF JobType
  <2> QED BY <1>2, <2>2, <2>3, <2>4
<1>3. CASE ~(o.book = "sleeve" /\ "real" \in DOMAIN o.had)
  <2>1. job' = [job EXCEPT ![j] = NoJob]
    BY <1>3 DEF NextBook, Stop
  <2> QED BY <2>1, NoJobTyped
<1> QED BY <1>2, <1>3

\* A process that goes on, or is done, and whose marks are as they should be.
LEMMA JobAdvances ==
    ASSUME BookIInv, NEW j \in Jobs, NEW o, o = job[j], o.pc \in Marking,
           NEW t \in JobType, t.pc \in {"idle"} \cup Marking,
           t.pc \in Marking => t.on = o.on /\ t.win = o.win /\ t.had = o.had
                               /\ t.book \in DOMAIN o.had /\ t.book \in Books,
           t.pc \in {"read", "write"} => DOMAIN t.comp \subseteq t.win,
           job' = [job EXCEPT ![j] = t],
           UNCHANGED <<clock, broker, fair, prices, book, outcome, kb, exit>>, Fault \/ UNCHANGED faults,
           ValueOK(j)', StoredInv', ChainInv'
    PROVE  BookIInv'
<1>1. /\ o \in JobType /\ o.on \in Days /\ o.on <= day
      /\ o.had["sleeve"] = Sleeve.cash /\ "sleeve" \in DOMAIN o.had
      /\ \A b \in DOMAIN o.had : since[b] # None
      /\ j = "hand" => o.on = day
  BY MarkerIs
<1>2. UNCHANGED <<fair, book>>
  OBVIOUS
<1>3. t.pc \in Marking => t.on = o.on /\ t.win = o.win /\ t.had = o.had
  OBVIOUS
<1>4. LoadedInv'
  BY <1>2, <1>3, LoadedStays
<1>5. t.pc \in Marking =>
             /\ t.on \in Days /\ t.on <= day /\ t.book \in DOMAIN t.had /\ t.book \in Books
             /\ t.had["sleeve"] = Sleeve.cash /\ "sleeve" \in DOMAIN t.had
             /\ \A b \in DOMAIN t.had : since[b] # None
  BY <1>1
<1>6. j = "hand" /\ t.pc # "idle" => t.on = day
  BY <1>1, <1>3
<1> QED BY <1>4, <1>5, <1>6, JobTurns

\* While nothing is stored, the chain of the marks stays, if what the process has
\* read and computed is in order.
LEMMA ChainGoes ==
    ASSUME BookIInv, NEW j \in Jobs, NEW o, o = job[j], o.pc \in Marking,
           NEW t, t.pc \in {"idle"} \cup Marking,
           t.pc \in Marking => t.win = o.win,
           job' = [job EXCEPT ![j] = t], marks' = marks, ReadOK(j)', j = "hand" => BesideInv'
    PROVE  ChainInv'
<1>1. job \in [Jobs -> JobType] /\ ChainInv
  BY DEF BookIInv, JobsInv
<1>2. job'[j] = t /\ \A i \in Jobs : i # j => job'[i] = job[i]
  BY <1>1
<1>3. \A i \in Jobs : ReadOK(i)'
  BY <1>1, <1>2 DEF ChainInv, ReadOK
<1>4. BesideInv'
  <2>1. CASE j = "hand"
    BY <2>1
  <2>2. CASE j = "night"
    <3>1. job'["night"] = t /\ job'["hand"] = job["hand"]
      BY <1>2, <2>2 DEF Jobs
    <3>2. HandHas' = HandHas
      BY <3>1 DEF HandHas
    <3>3. job["night"].pc \in Marking
      BY <2>2
    <3>4. job'["night"].pc \in Marking => job'["night"].win = job["night"].win
      BY <2>2, <3>1
    <3>5. BesideInv
      BY <1>1 DEF ChainInv
    <3> QED BY <3>1, <3>2, <3>3, <3>4, <3>5 DEF BesideInv
  <2> QED BY <2>1, <2>2 DEF Jobs
<1>5. ReturnsChain'
  BY <1>1 DEF ChainInv, ReturnsChain, LatestSession, UpTo
<1> QED BY <1>3, <1>4, <1>5 DEF ChainInv

\* Beside the night, a value by hand is of a session that the night's is not before.
LEMMA ValueBeside ==
    ASSUME BookIInv, NEW b \in Books, intact[b], NEW had \in Nat, NEW d \in Sessions,
           Valued(b, had, d) \notin {None, Refused}, b = "sleeve" => d >= 1,
           job["night"].pc \in Marking, NEW w \in job["night"].win
    PROVE  w >= d
<1>1. PICK n : n = job["night"].on
  OBVIOUS
<1>2. LotsInv /\ ClockInv /\ LoadedInv
  BY DEF BookIInv
<1>3. n \in Days /\ n \in Nat /\ d \in Days /\ d \in Nat
  BY <1>1, MarkerIs, BookNumbers DEF Jobs
<1>4. w = LatestSession(n) /\ DOMAIN fair \subseteq 1..n
  BY <1>1, <1>2 DEF LoadedInv
<1>5. Priced(b, d)
  BY <1>2, <1>3, ValuedIs
<1>6. d \in bars => d <= n
  BY <1>2, <1>3, <1>4 DEF ClockInv
<1>7. d <= n
  <2>1. CASE b = "sleeve"
    <3>1. PICK k : k = <<"sleeve", 1>>
      OBVIOUS
    <3>2. k \in Of("sleeve") /\ lots[k].exit = None /\ k[2] = 1
      BY <1>2, <2>1, <3>1 DEF LotsInv
    <3>3. HeldOn(k, d)
      BY <1>3, <2>1, <3>2 DEF HeldOn
    <3> QED BY <1>5, <1>6, <2>1, <3>2, <3>3 DEF Priced
  <2>2. CASE b = "real"
    <3>1. PICK k \in OpenLots("real") : TRUE
      BY <1>2, <2>2 DEF LoadedInv
    <3>2. k \in Of("real") /\ lots[k].exit = None /\ k[2] \in Nat
      BY <1>2, BookNumbers DEF OpenLots, Of, LotsInv
    <3>3. k[2] <= n
      BY <1>1, <1>2, <2>2, <3>2 DEF LoadedInv
    <3>4. CASE k[2] <= d
      <4>1. HeldOn(k, d)
        BY <3>2, <3>4 DEF HeldOn
      <4> QED BY <1>5, <1>6, <2>2, <3>2, <4>1 DEF Priced
    <3>5. CASE ~(k[2] <= d)
      BY <1>3, <3>2, <3>3, <3>5
    <3> QED BY <3>4, <3>5
  <2> QED BY <2>1, <2>2 DEF Books
<1>8. n \in Int /\ d \in UpTo(n)
  BY <1>3, <1>7 DEF UpTo
<1>9. w \in Nat /\ d <= w
  BY <1>3, <1>4, <1>7, <1>8, LatestIs
<1> QED BY <1>3, <1>9

LEMMA MarkValueKeeps == ASSUME BookIInv, NEW j \in Jobs, MarkValue(j) PROVE BookIInv'
<1>1. PICK o : o = job[j]
  OBVIOUS
<1>2. PICK b : b = o.book
  OBVIOUS
<1>3. PICK w : w = Window(j)
  OBVIOUS
<1>4. PICK comp : comp = [d \in w |-> Valued(b, o.had[b], d)]
  OBVIOUS
<1>5. PICK pure : pure = (intact[b] /\ (b = "sleeve" => {x \in ExDates : x <= Max(w)} \subseteq splits))
  OBVIOUS
<1>6. /\ o.pc = "value"
      /\ IF w = {} \/ \E d \in w : comp[d] = Refused THEN NextBook(j)
         ELSE job' = [job EXCEPT ![j].pc = "read", ![j].comp = comp, ![j].pure = pure]
      /\ UNCHANGED <<clock, broker, fair, prices, book, marks, outcome, kb, exit, bounds>>
  BY <1>1, <1>2, <1>3, <1>4, <1>5 DEF MarkValue
<1>7. o.pc \in Marking
  BY <1>6 DEF Marking
<1>8. /\ o \in JobType /\ o.on \in Days /\ o.on <= day /\ b \in DOMAIN o.had /\ b \in Books
      /\ o.had["sleeve"] = Sleeve.cash
  BY <1>1, <1>2, <1>7, MarkerIs
<1>9. /\ fair' = fair /\ marks' = marks /\ faults' = faults /\ intact' = intact
      /\ UNCHANGED <<clock, broker, fair, prices, book, outcome, kb, exit>>
  BY <1>6 DEF bounds, book
<1>10. StoredInv'
  BY <1>9, StoredFrame DEF BookIInv
<1>11. CASE w = {} \/ \E d \in w : comp[d] = Refused
  <2>1. NextBook(j)
    BY <1>6, <1>11
  <2>2. PICK t \in JobType :
              /\ job' = [job EXCEPT ![j] = t] /\ t.pc \in {"idle", "value"}
              /\ t.pc = "value" => /\ t.on = o.on /\ t.win = o.win /\ t.had = o.had
                                   /\ t.book = "real" /\ "real" \in DOMAIN o.had
    BY <1>1, <1>7, <2>1, NextBookIs
  <2>3. t.pc \in {"idle"} \cup Marking /\ (t.pc \in Marking => t.pc = "value") /\ t.pc \notin {"read", "write"}
    BY <2>2 DEF Marking
  <2>4. job'[j] = t /\ "real" \in Books
    BY <2>2 DEF BookIInv, JobsInv, Books
  <2>5. ValueOK(j)' /\ ReadOK(j)' /\ (j = "hand" => BesideInv')
    BY <2>3, <2>4 DEF ValueOK, ReadOK, BesideInv
  <2>6. ChainInv'
    BY <1>1, <1>7, <1>9, <2>2, <2>3, <2>5, ChainGoes
  <2>7. t.pc \in Marking => t.on = o.on /\ t.win = o.win /\ t.had = o.had
                               /\ t.book \in DOMAIN o.had /\ t.book \in Books
    BY <2>2, <2>3, <2>4
  <2> QED BY <1>1, <1>7, <1>9, <1>10, <2>2, <2>3, <2>5, <2>6, <2>7, JobAdvances
<1>12. CASE ~(w = {} \/ \E d \in w : comp[d] = Refused)
  <2>1. PICK t : t = [o EXCEPT !.pc = "read", !.comp = comp, !.pure = pure]
    OBVIOUS
  <2>2. job' = [job EXCEPT ![j] = t]
    BY <1>1, <1>6, <1>12, <2>1
  <2>3. w \subseteq o.win /\ w \subseteq Sessions /\ w \subseteq Days
    BY <1>1, <1>3, <1>8, BookNumbers DEF Window, JobType
  <2>4. o.had[b] \in Nat
    BY <1>8 DEF JobType
  <2>5. LotsInv /\ ClockInv
    BY DEF BookIInv
  <2>6. \A d \in w : comp[d] = Valued(b, o.had[b], d) /\ comp[d] \in PriceLike
    <3> SUFFICES ASSUME NEW d \in w PROVE comp[d] = Valued(b, o.had[b], d) /\ comp[d] \in PriceLike
      OBVIOUS
    <3>1. Valued(b, o.had[b], d) \in Nat \cup {None, Refused}
      BY <1>8, <2>3, <2>4, <2>5, ValuedIs
    <3> QED BY <1>4, <1>12, <3>1 DEF PriceLike
  <2>7. t \in JobType
    <3>1. comp \in UNION {[S -> PriceLike] : S \in SUBSET Sessions}
      <4>1. comp \in [w -> PriceLike]
        BY <1>4, <2>6
      <4> QED BY <2>3, <4>1
    <3>2. "read" \in JobPcs /\ pure \in BOOLEAN
      BY <1>5, <1>8, <2>5 DEF JobPcs, LotsInv
    <3> QED BY <1>8, <2>1, <3>1, <3>2 DEF JobType
  <2>8. /\ t.pc = "read" /\ t.comp = comp /\ t.pure = pure /\ t.on = o.on /\ t.win = o.win
        /\ t.had = o.had /\ t.book = b
    BY <1>2, <1>8, <2>1 DEF JobType
  <2>9. job'[j] = t /\ DOMAIN comp = w /\ \A i \in Jobs : i # j => job'[i] = job[i]
    BY <1>4, <2>2 DEF BookIInv, JobsInv
  <2>10. ASSUME pure, NEW d \in w, comp[d] # None, b = "real", j = "night", d = o.on
         PROVE  d \in DOMAIN fair /\ comp[d] = fair[d]
    <3>1. intact["real"]
      BY <1>5, <2>10
    <3>2. comp[d] = Valued("real", o.had["real"], o.on) /\ o = job["night"]
      BY <1>1, <2>6, <2>10
    <3>3. Valued("real", o.had["real"], o.on) # None
      BY <2>10, <3>2
    <3> QED BY <1>7, <2>10, <3>1, <3>2, <3>3, RealValue
  <2>11. ASSUME pure, NEW d \in w, comp[d] # None, b = "sleeve" PROVE comp[d] = SleeveWorth(d)
    <3>1. intact["sleeve"] /\ {x \in ExDates : x <= Max(w)} \subseteq splits
      BY <1>5, <2>11
    <3>2. Max(w) \in Nat /\ Max(w) >= d
      BY <2>3, LastOfDays
    <3>3. PICK m : m = Max(w)
      OBVIOUS
    <3>4. m \in Nat /\ {x \in ExDates : x <= m} \subseteq splits /\ d <= m /\ d \in Days
      BY <2>3, <3>1, <3>2, <3>3, BookNumbers
    <3>5. comp[d] = Valued("sleeve", Sleeve.cash, d) /\ Valued("sleeve", Sleeve.cash, d) # None
      BY <1>8, <2>6, <2>11
    <3> QED BY <3>1, <3>4, <3>5, SleeveValue
  <2>12. ValueOK(j)'
    BY <1>9, <2>8, <2>9, <2>10, <2>11 DEF ValueOK, SleeveWorth
  <2>13. ReadOK(j)'
    BY <2>8, <2>9 DEF ReadOK
  <2>14. j = "hand" => BesideInv'
    <3> SUFFICES ASSUME j = "hand" PROVE BesideInv'
      OBVIOUS
    <3>1. job'["hand"] = t /\ job'["night"] = job["night"]
      BY <2>9 DEF Jobs
    <3>2. ASSUME pure, job["night"].pc \in Marking, NEW d \in w, comp[d] # None, NEW u \in job["night"].win
          PROVE  u >= d
      <4>0. intact[b]
        BY <1>5, <3>2
      <4>3. d \in Sessions /\ d \in Days
        BY <2>3, <3>2
      <4>4. d \in Nat /\ d >= 1
        <5>1. d \in Nat \ {0}
          BY <4>3, BookNumbers DEF Days
        <5> QED BY <5>1
      <4>1. intact[b] /\ d \in Sessions /\ d >= 1
        BY <4>0, <4>3, <4>4
      <4>2. Valued(b, o.had[b], d) \notin {None, Refused}
        BY <1>12, <2>6, <3>2
      <4> QED BY <1>8, <2>4, <3>2, <4>1, <4>2, ValueBeside
    <3>3. HandHas' \subseteq {d \in w : comp[d] # None}
      BY <2>8, <2>9, <3>1 DEF HandHas
    <3> QED BY <2>8, <3>1, <3>2, <3>3 DEF BesideInv
  <2>15. t.pc \in {"idle"} \cup Marking /\ (t.pc \in {"read", "write"} => DOMAIN t.comp \subseteq t.win)
    BY <2>3, <2>8, <2>9 DEF Marking
  <2>16. ChainInv'
    BY <1>1, <1>7, <1>9, <2>2, <2>8, <2>13, <2>14, <2>15, ChainGoes
  <2> QED BY <1>1, <1>7, <1>8, <1>9, <1>10, <2>2, <2>7, <2>8, <2>12, <2>15, <2>16, JobAdvances
<1> QED BY <1>11, <1>12

LEMMA MarkReadKeeps == ASSUME BookIInv, NEW j \in Jobs, MarkRead(j) PROVE BookIInv'
<1>1. PICK o : o = job[j]
  OBVIOUS
<1>2. PICK b : b = o.book
  OBVIOUS
<1>3. PICK seen : seen = [d \in {s \in Sessions : <<b, s>> \in DOMAIN marks} |-> marks[<<b, d>>].mv]
  OBVIOUS
<1>4. PICK t : t = [o EXCEPT !.pc = "write", !.seen = seen]
  OBVIOUS
<1>5. /\ o.pc = "read" /\ job' = [job EXCEPT ![j] = t]
      /\ UNCHANGED <<clock, broker, fair, prices, book, marks, outcome, kb, exit, bounds>>
  BY <1>1, <1>2, <1>3, <1>4 DEF MarkRead
<1>6. o.pc \in Marking
  BY <1>5 DEF Marking
<1>7. /\ o \in JobType /\ b \in DOMAIN o.had /\ b \in Books /\ DOMAIN o.comp \subseteq o.win
  BY <1>1, <1>2, <1>5, <1>6, MarkerIs
<1>8. /\ fair' = fair /\ marks' = marks /\ faults' = faults
      /\ UNCHANGED <<clock, broker, fair, prices, book, outcome, kb, exit>>
  BY <1>5 DEF bounds
<1>9. StoredInv'
  BY <1>8, StoredFrame DEF BookIInv
<1>10. t \in JobType
  <2>1. seen \in UNION {[S -> Nat] : S \in SUBSET Sessions}
    <3>1. PICK S : S = {s \in Sessions : <<b, s>> \in DOMAIN marks}
      OBVIOUS
    <3>2. S \in SUBSET Sessions /\ \A d \in S : marks[<<b, d>>].mv \in Nat
      BY <3>1 DEF BookIInv, StoredInv
    <3>3. seen \in [S -> Nat]
      BY <1>3, <3>1, <3>2
    <3> QED BY <3>2, <3>3
  <2>2. "write" \in JobPcs
    BY DEF JobPcs
  <2> QED BY <1>4, <1>7, <2>1, <2>2 DEF JobType
<1>11. /\ t.pc = "write" /\ t.seen = seen /\ t.comp = o.comp /\ t.pure = o.pure /\ t.on = o.on
       /\ t.win = o.win /\ t.had = o.had /\ t.book = b
  BY <1>2, <1>4, <1>7 DEF JobType
<1>12. job'[j] = t /\ \A i \in Jobs : i # j => job'[i] = job[i]
  BY <1>5 DEF BookIInv, JobsInv
<1>13. ValueOK(j)'
  <2>1. ValueOK(j)
    BY DEF BookIInv, ValuesInv
  <2> QED BY <1>1, <1>2, <1>5, <1>8, <1>11, <1>12, <2>1 DEF ValueOK, SleeveWorth
<1>14. ReadOK(j)'
  BY <1>3, <1>8, <1>11, <1>12 DEF ReadOK
<1>15. j = "hand" => BesideInv'
  <2> SUFFICES ASSUME j = "hand" PROVE BesideInv'
    OBVIOUS
  <2>1. job'["hand"] = t /\ job'["night"] = job["night"] /\ job["hand"] = o
    BY <1>1, <1>12 DEF Jobs
  <2>2. HandHas' = HandHas
    BY <1>11, <2>1 DEF HandHas
  <2>3. HandHas \subseteq Sessions
    BY <1>7, <2>1 DEF HandHas, JobType
  <2>4. o.pure /\ job["night"].pc \in Marking => \A d \in HandHas, w \in job["night"].win : w >= d
    BY <1>5, <2>1 DEF BookIInv, ChainInv, BesideInv
  <2>5. \A s \in Sessions : <<b, s>> \in DOMAIN marks => s \in DOMAIN seen
    BY <1>3
  <2> QED BY <1>8, <1>11, <2>1, <2>2, <2>4, <2>5 DEF BesideInv
<1>16. t.pc \in {"idle"} \cup Marking /\ (t.pc \in {"read", "write"} => DOMAIN t.comp \subseteq t.win)
  BY <1>7, <1>11 DEF Marking
<1>17. ChainInv'
  BY <1>1, <1>5, <1>6, <1>8, <1>11, <1>14, <1>15, <1>16, ChainGoes
<1>18. t.pc \in Marking => t.on = o.on /\ t.win = o.win /\ t.had = o.had
                               /\ t.book \in DOMAIN o.had /\ t.book \in Books
  BY <1>7, <1>11
<1> QED BY <1>1, <1>5, <1>6, <1>8, <1>9, <1>10, <1>13, <1>16, <1>17, <1>18, JobAdvances

\* What a row keeps of the session before it.
LEMMA PreviousIs ==
    ASSUME NEW j \in Jobs, NEW t, t = job[j], NEW d, NEW p, p = LatestSession(d - 1),
           Previous(j, d) # None
    PROVE  /\ p # None
           /\ \/ p \in DOMAIN t.seen /\ Previous(j, d) = t.seen[p]
              \/ p \notin DOMAIN t.seen /\ p \in DOMAIN t.comp /\ Previous(j, d) = t.comp[p]
<1>1. Previous(j, d) = IF p = None THEN None ELSE IF p \in DOMAIN t.seen THEN t.seen[p]
                       ELSE IF p \in DOMAIN t.comp THEN t.comp[p] ELSE None
  BY DEF Previous
<1> QED BY <1>1

\* The rows of one write: each is of a session it has a value for, and the value
\* before it is stored, or is stored with it, or is refused: of a changed book only.
RowsOf(t) == {d \in DOMAIN t.comp : t.comp[d] # None /\ d \notin DOMAIN t.seen}

LEMMA RowsChain ==
    ASSUME BookIInv, NEW j \in Jobs, NEW t, t = job[j], t.pc = "write",
           \A d \in RowsOf(t) : d <= t.on,
           NEW d \in RowsOf(t), NEW p, p = LatestSession(d - 1), Previous(j, d) # None
    PROVE  \/ <<t.book, p>> \in DOMAIN marks /\ Previous(j, d) = marks[<<t.book, p>>].mv
           \/ p \in RowsOf(t) /\ <<t.book, p>> \notin DOMAIN marks /\ Previous(j, d) = t.comp[p]
           \/ <<t.book, p>> \in DOMAIN marks /\ Beaten(j, d) /\ ~t.pure
<1>1. t.pc \in Marking
  BY DEF Marking
<1>2. t \in JobType /\ t.on \in Days /\ DOMAIN t.comp \subseteq t.win /\ t.book \in Books
  BY <1>1, MarkerIs
<1>3. d \in DOMAIN t.comp /\ d \in Sessions /\ t.comp[d] # None
  BY <1>2 DEF RowsOf, JobType
<1>4. d \in Nat /\ d - 1 \in Int /\ d <= t.on /\ t.on \in Nat
  <2>1. d \in Nat /\ t.on \in Nat
    BY <1>2, <1>3, BookNumbers
  <2> QED BY <2>1
<1>5. CASE p \in DOMAIN t.seen /\ Previous(j, d) = t.seen[p]
  <2>1. ReadOK(j)
    BY DEF BookIInv, ChainInv
  <2> QED BY <1>5, <2>1 DEF ReadOK
<1>6. CASE p \notin DOMAIN t.seen /\ p \in DOMAIN t.comp /\ Previous(j, d) = t.comp[p]
  <2>1. p \in RowsOf(t)
    BY <1>6 DEF RowsOf
  <2>2. p # None
    BY PreviousIs
  <2>3. p \in Sessions /\ p \in Nat /\ p <= d - 1
    BY <1>4, <2>2, LatestIs DEF UpTo
  <2>4. p < d
    BY <1>4, <2>3
  <2>5. CASE j = "night"
    <3>1. t.win = {LatestSession(t.on)}
      BY <1>1, <2>5 DEF BookIInv, LoadedInv
    <3>2. p = d
      BY <1>2, <1>3, <1>6, <3>1
    <3> QED BY <1>4, <2>4, <3>2
  <2>6. CASE j = "hand" /\ t.pure
    <3>1. d \in HandHas
      BY <1>3, <1>4, <2>6 DEF HandHas
    <3>2. BesideInv /\ job["hand"] = t
      BY <2>6 DEF BookIInv, ChainInv
    <3>3. <<t.book, p>> \notin DOMAIN marks
      BY <1>6, <2>3, <2>4, <2>6, <3>1, <3>2 DEF BesideInv
    <3> QED BY <1>6, <2>1, <3>3
  <2>7. CASE ~t.pure
    <3>1. <<t.book, p>> \in DOMAIN marks => Beaten(j, d)
      BY <1>6 DEF Beaten
    <3> QED BY <1>6, <2>1, <2>7, <3>1
  <2> QED BY <2>5, <2>6, <2>7 DEF Jobs
<1> QED BY <1>5, <1>6, PreviousIs

\* The rows of one write.
KeysOf(b, rows) == {<<b, d>> : d \in rows}

NewRow(o, j, d, pr) ==
    [mv |-> o.comp[d], kind |-> o.mode, by |-> j, on |-> o.on, pure |-> o.pure,
     beaten |-> Beaten(j, d), prev |-> IF pr[d] = 0 THEN None ELSE pr[d]]

NewRows(o, j, b, rows, pr) == [k \in KeysOf(b, rows) |-> NewRow(o, j, k[2], pr)]

\* What it holds for each session.
LEMMA NewRowsAre ==
    ASSUME NEW o, NEW j, NEW b, NEW rows, NEW pr
    PROVE  /\ DOMAIN NewRows(o, j, b, rows, pr) = KeysOf(b, rows)
           /\ \A d \in rows : NewRows(o, j, b, rows, pr)[<<b, d>>] = NewRow(o, j, d, pr)
<1>1. \A d \in rows : <<b, d>> \in KeysOf(b, rows) /\ <<b, d>>[2] = d
  BY DEF KeysOf
<1> QED BY <1>1 DEF NewRows

\* The rows keep what was stored as it should be.
LEMMA StoredOn ==
    ASSUME BookIInv, NEW j \in Jobs, NEW o, o = job[j], o.pc = "write", NEW b, b = o.book,
           fair' = fair,
           DOMAIN marks' = DOMAIN marks \cup KeysOf(b, RowsOf(o)),
           \A k \in DOMAIN marks : marks'[k] = marks[k],
           \A d \in RowsOf(o) : <<b, d>> \notin DOMAIN marks =>
                LET m == marks'[<<b, d>>]
                IN  m.mv = o.comp[d] /\ m.by = j /\ m.on = o.on /\ m.pure = o.pure
    PROVE  StoredInv'
<1>1. o.pc \in Marking
  BY DEF Marking
<1>2. o \in JobType /\ o.on \in Days /\ b \in Books
  BY <1>1, MarkerIs
<1>3. RowsOf(o) \subseteq Sessions
  BY <1>2 DEF RowsOf, JobType
<1>4. \A d \in RowsOf(o) : o.comp[d] \in Nat
  <2> SUFFICES ASSUME NEW d \in RowsOf(o) PROVE o.comp[d] \in Nat
    OBVIOUS
  <2>1. d \in DOMAIN o.comp /\ o.comp[d] # None
    BY DEF RowsOf
  <2>2. o.comp \in UNION {[S -> PriceLike] : S \in SUBSET Sessions}
    BY <1>2 DEF JobType
  <2>3. o.comp[d] \in PriceLike
    BY <2>1, <2>2
  <2> QED BY <2>1, <2>3 DEF PriceLike
<1>5. StoredInv /\ ValueOK(j)
  BY DEF BookIInv, ValuesInv
<1>6. \A d \in RowsOf(o) : o.pure =>
         /\ b = "real" /\ j = "night" /\ d = o.on => d \in DOMAIN fair /\ o.comp[d] = fair[d]
         /\ b = "sleeve" => o.comp[d] = SleeveWorth(d)
  BY <1>5 DEF ValueOK, RowsOf
<1>7. DOMAIN marks' \subseteq Books \X Sessions
  <2>1. \A d \in RowsOf(o) : <<b, d>> \in Books \X Sessions
    BY <1>2, <1>3
  <2> QED BY <1>5, <2>1 DEF StoredInv, KeysOf
<1>8. ASSUME NEW k \in DOMAIN marks'
      PROVE  /\ marks'[k].mv \in Nat /\ marks'[k].on \in Days
             /\ marks'[k].pure =>
                  /\ k[1] = "real" /\ marks'[k].by = "night" /\ marks'[k].on = k[2] =>
                       k[2] \in DOMAIN fair /\ marks'[k].mv = fair[k[2]]
                  /\ k[1] = "sleeve" => marks'[k].mv = SleeveWorth(k[2])
  <2>1. CASE k \in DOMAIN marks
    <3>1. marks'[k] = marks[k]
      BY <2>1
    <3> QED BY <1>5, <2>1, <3>1 DEF StoredInv
  <2>2. CASE k \notin DOMAIN marks
    <3>1. PICK d \in RowsOf(o) : k = <<b, d>>
      BY <2>2 DEF KeysOf
    <3>2. k[1] = b /\ k[2] = d
      BY <3>1
    <3>3. marks'[k].mv = o.comp[d] /\ marks'[k].by = j /\ marks'[k].on = o.on /\ marks'[k].pure = o.pure
      BY <2>2, <3>1
    <3> QED BY <1>2, <1>4, <1>6, <3>2, <3>3
  <2> QED BY <2>1, <2>2
<1> QED BY <1>7, <1>8 DEF StoredInv, SleeveWorth

\* Returns chain on.
LEMMA ChainedOn ==
    ASSUME BookIInv, NEW j \in Jobs, NEW o, o = job[j], o.pc = "write", NEW b, b = o.book,
           \A d \in RowsOf(o) : d <= o.on,
           DOMAIN marks' = DOMAIN marks \cup KeysOf(b, RowsOf(o)),
           \A k \in DOMAIN marks : marks'[k] = marks[k],
           \A d \in RowsOf(o) : <<b, d>> \notin DOMAIN marks =>
                LET m == marks'[<<b, d>>]
                IN  /\ m.mv = o.comp[d] /\ m.pure = o.pure /\ m.beaten = Beaten(j, d)
                    /\ m.prev # None => m.prev = Previous(j, d)
    PROVE  ReturnsChain'
<1>1. ASSUME NEW k \in DOMAIN marks', marks'[k].prev # None,
             NEW p, p = LatestSession(k[2] - 1)
      PROVE  /\ <<k[1], p>> \in DOMAIN marks'
             /\ marks'[k].prev = marks'[<<k[1], p>>].mv \/ (marks'[k].beaten /\ ~marks'[k].pure)
  <2>1. CASE k \in DOMAIN marks
    <3>1. marks'[k] = marks[k] /\ ReturnsChain
      BY <2>1 DEF BookIInv, ChainInv
    <3>2. marks[k].prev # None
      BY <1>1, <3>1
    <3>3. /\ <<k[1], p>> \in DOMAIN marks
          /\ marks[k].prev = marks[<<k[1], p>>].mv \/ (marks[k].beaten /\ ~marks[k].pure)
      BY <1>1, <2>1, <3>1, <3>2 DEF ReturnsChain
    <3> QED BY <3>1, <3>3
  <2>2. CASE k \notin DOMAIN marks
    <3>1. PICK d \in RowsOf(o) : k = <<b, d>>
      BY <2>2 DEF KeysOf
    <3>2. k[1] = b /\ k[2] = d
      BY <3>1
    <3>3. /\ marks'[k].mv = o.comp[d] /\ marks'[k].pure = o.pure /\ marks'[k].beaten = Beaten(j, d)
          /\ marks'[k].prev # None => marks'[k].prev = Previous(j, d)
      BY <2>2, <3>1
    <3>4. marks'[k].prev = Previous(j, d) /\ Previous(j, d) # None
      BY <1>1, <3>3
    <3>5. p = LatestSession(d - 1)
      BY <1>1, <3>2
    <3>6. \/ <<o.book, p>> \in DOMAIN marks /\ Previous(j, d) = marks[<<o.book, p>>].mv
          \/ p \in RowsOf(o) /\ <<o.book, p>> \notin DOMAIN marks /\ Previous(j, d) = o.comp[p]
          \/ <<o.book, p>> \in DOMAIN marks /\ Beaten(j, d) /\ ~o.pure
      BY <3>4, <3>5, RowsChain
    <3>7. CASE <<b, p>> \in DOMAIN marks /\ Previous(j, d) = marks[<<b, p>>].mv
      BY <3>2, <3>4, <3>7
    <3>8. CASE p \in RowsOf(o) /\ <<b, p>> \notin DOMAIN marks /\ Previous(j, d) = o.comp[p]
      <4>1. marks'[<<b, p>>].mv = o.comp[p]
        BY <3>8 DEF KeysOf
      <4>2. <<b, p>> \in DOMAIN marks'
        BY <3>8 DEF KeysOf
      <4> QED BY <3>2, <3>4, <3>8, <4>1, <4>2
    <3>9. CASE <<b, p>> \in DOMAIN marks /\ Beaten(j, d) /\ ~o.pure
      BY <3>2, <3>3, <3>9
    <3> QED BY <3>6, <3>7, <3>8, <3>9
  <2> QED BY <2>1, <2>2
<1>2. ASSUME NEW x PROVE LatestSession(x)' = LatestSession(x)
  BY DEF LatestSession, UpTo
<1> QED BY <1>1 DEF ReturnsChain, LatestSession, UpTo

LEMMA BesideOn ==
    ASSUME BookIInv, NEW j \in Jobs, NEW o, o = job[j], o.pc = "write", NEW b, b = o.book,
           NEW t \in JobType, t.pc \in {"idle", "value"},
           t.pc = "value" => t.win = o.win, job' = [job EXCEPT ![j] = t], ReturnsChain',
           DOMAIN marks' = DOMAIN marks \cup KeysOf(b, RowsOf(o)),
           \A k \in DOMAIN marks : marks'[k] = marks[k]
    PROVE  ChainInv'
<1>1. job'[j] = t /\ \A i \in Jobs : i # j => job'[i] = job[i]
  BY DEF BookIInv, JobsInv
<1>2. (\A i \in Jobs : ReadOK(i)) /\ BesideInv
  BY DEF BookIInv, ChainInv
<1>3. \A i \in Jobs : ReadOK(i)'
  <2> SUFFICES ASSUME NEW i \in Jobs PROVE ReadOK(i)'
    OBVIOUS
  <2>1. CASE i = j
    BY <1>1, <2>1 DEF ReadOK
  <2>2. CASE i # j
    BY <1>1, <1>2, <2>2 DEF ReadOK
  <2> QED BY <2>1, <2>2
<1>4. BesideInv'
  <2>1. CASE j = "hand"
    <3>1. job'["hand"].pc \notin {"read", "write"}
      BY <1>1, <2>1
    <3> QED BY <3>1 DEF BesideInv
  <2>2. CASE j = "night"
    <3>1. job'["hand"] = job["hand"] /\ job'["night"] = t /\ job["night"] = o
      BY <1>1, <2>2 DEF Jobs
    <3>2. HandHas' = HandHas
      BY <3>1 DEF HandHas
    <3>3. o.pc \in Marking /\ (t.pc \in Marking => t.win = o.win)
      BY DEF Marking
    <3>4. o \in JobType /\ DOMAIN o.comp \subseteq o.win
      BY <3>3, MarkerIs
    <3>5. job["hand"].pc \in {"read", "write"} /\ job["hand"].pure => \A d \in HandHas, w \in o.win : w >= d
      BY <1>2, <3>1, <3>3 DEF BesideInv
    <3>6. ASSUME job["hand"].pc = "write", job["hand"].pure, NEW d \in HandHas, NEW s \in Sessions, s < d,
                 <<job["hand"].book, s>> \in DOMAIN marks'
          PROVE  s \in DOMAIN job["hand"].seen
      <4>1. CASE <<job["hand"].book, s>> \in DOMAIN marks
        BY <1>2, <3>6, <4>1 DEF BesideInv
      <4>2. CASE <<job["hand"].book, s>> \notin DOMAIN marks
        <5>1. PICK w \in RowsOf(o) : <<job["hand"].book, s>> = <<b, w>>
          BY <3>6, <4>2 DEF KeysOf
        <5>2. s = w /\ w \in o.win
          BY <3>4, <5>1 DEF RowsOf
        <5>3. s >= d
          BY <3>5, <3>6, <5>2
        <5>4. d \in Nat /\ s \in Nat
          <6>1. job["hand"] \in JobType
            BY DEF BookIInv, JobsInv, Jobs
          <6>2. d \in Sessions
            BY <6>1 DEF HandHas, JobType
          <6> QED BY <6>2, BookNumbers
        <5> QED BY <3>6, <5>3, <5>4
      <4> QED BY <4>1, <4>2
    <3> QED BY <3>1, <3>2, <3>3, <3>5, <3>6 DEF BesideInv
  <2> QED BY <2>1, <2>2 DEF Jobs
<1> QED BY <1>3, <1>4 DEF ChainInv

LEMMA MarkWriteKeeps == ASSUME BookIInv, NEW j \in Jobs, MarkWrite(j) PROVE BookIInv'
<1>1. PICK o : o = job[j]
  OBVIOUS
<1>2. PICK b : b = o.book
  OBVIOUS
<1>3. PICK pr : pr = [d \in RowsOf(o) |-> Previous(j, d)]
  OBVIOUS
<1>4. /\ o.pc = "write"
      /\ IF \E d \in RowsOf(o) : d > o.on THEN Stop(j) /\ UNCHANGED marks
         ELSE /\ marks' = Kept(marks, NewRows(o, j, b, RowsOf(o), pr))
              /\ NextBook(j)
      /\ UNCHANGED <<clock, broker, fair, prices, book, outcome, kb, exit, bounds>>
  <2>1. NewRows(o, j, b, RowsOf(o), pr)
        = [k \in KeysOf(b, RowsOf(o)) |->
                       [mv |-> o.comp[k[2]], kind |-> o.mode, by |-> j, on |-> o.on, pure |-> o.pure, beaten |-> Beaten(j, k[2]),
                        prev |-> IF Previous(j, k[2]) = 0 THEN None ELSE Previous(j, k[2])]]
    <3> SUFFICES ASSUME NEW k \in KeysOf(b, RowsOf(o))
                 PROVE  NewRow(o, j, k[2], pr)
                        = [mv |-> o.comp[k[2]], kind |-> o.mode, by |-> j, on |-> o.on, pure |-> o.pure, beaten |-> Beaten(j, k[2]),
                           prev |-> IF Previous(j, k[2]) = 0 THEN None ELSE Previous(j, k[2])]
      BY DEF NewRows
    <3>1. PICK d \in RowsOf(o) : k = <<b, d>>
      BY DEF KeysOf
    <3>2. k[2] = d /\ pr[d] = Previous(j, d)
      BY <1>3, <3>1
    <3> QED BY <3>2 DEF NewRow
  <2> QED BY <1>1, <1>2, <2>1 DEF MarkWrite, RowsOf, KeysOf
<1>5. /\ fair' = fair /\ faults' = faults
      /\ UNCHANGED <<clock, broker, fair, prices, book, outcome, kb, exit>>
  BY <1>4 DEF bounds
<1>6. o.pc \in Marking
  BY <1>4 DEF Marking
<1>7. CASE \E d \in RowsOf(o) : d > o.on
  <2>1. Stop(j) /\ UNCHANGED marks
    BY <1>4, <1>7
  <2> QED BY <1>5, <2>1, StopKeeps
<1>8. CASE ~\E d \in RowsOf(o) : d > o.on
  <2>1. NextBook(j)
    BY <1>4, <1>8
  <2>2. marks' = Kept(marks, NewRows(o, j, b, RowsOf(o), pr))
    BY <1>4, <1>8
  <2>20. PICK g : g = NewRows(o, j, b, RowsOf(o), pr)
    OBVIOUS
  <2>21. DOMAIN g = KeysOf(b, RowsOf(o)) /\ \A d \in RowsOf(o) : g[<<b, d>>] = NewRow(o, j, d, pr)
    BY <2>20, NewRowsAre
  <2>22. marks' = Kept(marks, g)
    BY <2>2, <2>20
  <2>23. /\ DOMAIN marks' = DOMAIN marks \cup DOMAIN g
         /\ \A k \in DOMAIN marks : marks'[k] = marks[k]
         /\ \A k \in DOMAIN g \ DOMAIN marks : marks'[k] = g[k]
    BY <2>22 DEF Kept
  <2>3. /\ DOMAIN marks' = DOMAIN marks \cup KeysOf(b, RowsOf(o))
        /\ \A k \in DOMAIN marks : marks'[k] = marks[k]
        /\ \A d \in RowsOf(o) : <<b, d>> \notin DOMAIN marks => marks'[<<b, d>>] = NewRow(o, j, d, pr)
    <3>1. \A d \in RowsOf(o) : <<b, d>> \in DOMAIN g
      BY <2>21 DEF KeysOf
    <3> QED BY <2>21, <2>23, <3>1
  <2>4. \A d \in RowsOf(o) : d <= o.on
    <3>1. o \in JobType /\ o.on \in Days
      BY <1>1, <1>6, MarkerIs
    <3>2. RowsOf(o) \subseteq Sessions
      BY <3>1 DEF RowsOf, JobType
    <3>3. o.on \in Nat /\ \A d \in RowsOf(o) : d \in Nat
      BY <3>1, <3>2, BookNumbers
    <3> QED BY <1>8, <3>3
  <2>5. PICK t \in JobType :
              /\ job' = [job EXCEPT ![j] = t] /\ t.pc \in {"idle", "value"}
              /\ t.pc = "value" => /\ t.on = o.on /\ t.win = o.win /\ t.had = o.had
                                   /\ t.book = "real" /\ "real" \in DOMAIN o.had
    BY <1>1, <1>6, <2>1, NextBookIs
  <2>6. t.pc \in {"idle"} \cup Marking /\ (t.pc \in Marking => t.pc = "value") /\ t.pc \notin {"read", "write"}
    BY <2>5 DEF Marking
  <2>7. job'[j] = t /\ "real" \in Books
    BY <2>5 DEF BookIInv, JobsInv, Books
  <2>8. ValueOK(j)'
    BY <2>6, <2>7 DEF ValueOK
  <2>9. \A d \in RowsOf(o) : <<b, d>> \notin DOMAIN marks =>
                LET m == marks'[<<b, d>>]
                IN  m.mv = o.comp[d] /\ m.by = j /\ m.on = o.on /\ m.pure = o.pure
    <3> SUFFICES ASSUME NEW d \in RowsOf(o), <<b, d>> \notin DOMAIN marks, NEW m, m = marks'[<<b, d>>]
                 PROVE  m.mv = o.comp[d] /\ m.by = j /\ m.on = o.on /\ m.pure = o.pure
      BY Zenon
    <3>1. m = NewRow(o, j, d, pr)
      BY <2>3
    <3> QED BY <3>1 DEF NewRow
  <2>10. \A d \in RowsOf(o) : <<b, d>> \notin DOMAIN marks =>
                LET m == marks'[<<b, d>>]
                IN  /\ m.mv = o.comp[d] /\ m.pure = o.pure /\ m.beaten = Beaten(j, d)
                    /\ m.prev # None => m.prev = Previous(j, d)
    <3> SUFFICES ASSUME NEW d \in RowsOf(o), <<b, d>> \notin DOMAIN marks, NEW m, m = marks'[<<b, d>>]
                 PROVE  /\ m.mv = o.comp[d] /\ m.pure = o.pure /\ m.beaten = Beaten(j, d)
                        /\ m.prev # None => m.prev = Previous(j, d)
      BY Zenon
    <3>1. m = NewRow(o, j, d, pr)
      BY <2>3
    <3>2. PICK p : p = IF pr[d] = 0 THEN None ELSE pr[d]
      OBVIOUS
    <3>3. p # None => p = Previous(j, d)
      BY <1>3, <3>2
    <3>4. m = [mv |-> o.comp[d], kind |-> o.mode, by |-> j, on |-> o.on, pure |-> o.pure,
              beaten |-> Beaten(j, d), prev |-> p]
      BY <3>1, <3>2 DEF NewRow
    <3> QED BY <3>3, <3>4
  <2>17. o.pc = "write" /\ fair' = fair
    BY <1>4, <1>5
  <2>18. /\ DOMAIN marks' = DOMAIN marks \cup KeysOf(b, RowsOf(o))
         /\ \A k \in DOMAIN marks : marks'[k] = marks[k]
    BY <2>3
  <2>19. t \in JobType /\ job' = [job EXCEPT ![j] = t] /\ t.pc \in {"idle", "value"}
    BY <2>5
  <2>11. StoredInv'
    BY <1>1, <1>2, <2>17, <2>18, <2>9, StoredOn
  <2>12. ReturnsChain'
    BY <1>1, <1>2, <2>17, <2>18, <2>4, <2>10, ChainedOn
  <2>13. t.pc = "value" => t.win = o.win
    BY <2>5
  <2>15. ChainInv'
    BY <1>1, <1>2, <2>12, <2>13, <2>17, <2>18, <2>19, BesideOn
  <2>16. t.pc \in Marking => t.on = o.on /\ t.win = o.win /\ t.had = o.had
                               /\ t.book \in DOMAIN o.had /\ t.book \in Books
    BY <2>5, <2>6, <2>7
  <2> QED BY <1>1, <1>5, <1>6, <2>5, <2>6, <2>8, <2>11, <2>15, <2>16, JobAdvances
<1> QED BY <1>7, <1>8
-----------------------------------------------------------------------------
(* The invariant holds                                                     *)

LEMMA BookStutters == ASSUME BookIInv, UNCHANGED bookVars PROVE BookIInv'
<1>1. UNCHANGED <<clock, broker, fair, prices, book, marks, outcome, kb, job, exit, bounds>>
  BY DEF bookVars
<1>2. day' = day /\ faults' = faults
  BY <1>1 DEF clock, bounds
<1>3. ClockInv'
  BY <1>1, <1>2, FaultsTyped, ClockFrame DEF BookIInv
<1>4. TakeInv' /\ MirrorInv' /\ LoadedInv'
  BY <1>1, <1>2, TakeFrame, MirrorFrame, LoadedFrame DEF BookIInv
<1>5. day' >= day
  BY <1>2, BookNumbers DEF BookIInv, ClockInv
<1> QED BY <1>1, <1>2, <1>3, <1>4, <1>5, MarketMoves

LEMMA BookGoesOn == BookIInv /\ [BookNext]_bookVars => BookIInv'
<1> SUFFICES ASSUME BookIInv, [BookNext]_bookVars PROVE BookIInv'
  OBVIOUS
<1>1. CASE Session \/ Holiday \/ Midnight
  BY <1>1, SessionKeeps, HolidayKeeps, MidnightKeeps
<1>2. ASSUME NEW x \in Days, LearnSplit(x) PROVE BookIInv'
  BY <1>2, LearnSplitKeeps
<1>3. CASE SyncFetch \/ SyncDelete \/ SyncInsert \/ SyncUnlisted \/ SyncFails
  BY <1>3, SyncFetchKeeps, SyncDeleteKeeps, SyncInsertKeeps, SyncUnlistedKeeps, SyncFailsKeeps
<1>4. CASE LoadBars \/ Score \/ NightMark
  BY <1>4, LoadBarsKeeps, ScoreKeeps, NightMarkKeeps
<1>5. ASSUME NEW h \in ByHand, HandMark(h[1], h[2], h[3]) PROVE BookIInv'
  BY <1>5, HandMarkKeeps
<1>6. ASSUME NEW j \in Jobs, MarkValue(j) \/ MarkRead(j) \/ MarkWrite(j) \/ Dies(j) PROVE BookIInv'
  BY <1>6, MarkValueKeeps, MarkReadKeeps, MarkWriteKeeps, DiesKeeps
<1>7. ASSUME NEW k \in DOMAIN lots, NEW x \in ExitsOn, ExitUpdate(k, x[1], x[2]) PROVE BookIInv'
  <2>1. x[1] \in Days /\ x[2] \in Nat
    BY ExitsOnDays
  <2> QED BY <1>7, <2>1, ExitUpdateKeeps
<1>8. CASE ExitWakes \/ ExitMisses \/ ExitCommit
  BY <1>8, ExitWakesKeeps, ExitMissesKeeps, ExitCommitKeeps
<1>9. CASE UNCHANGED bookVars
  BY <1>9, BookStutters
<1> QED BY <1>1, <1>2, <1>3, <1>4, <1>5, <1>6, <1>7, <1>8, <1>9 DEF BookNext

\* The inductive invariant: the clock, the lots and the exits; the processes that
\* mark, with what each has taken, valued and read; and what is stored.
THEOREM BookIInvHolds == BookSpec => []BookIInv
  BY BookInitKeeps, BookGoesOn, PTL DEF BookSpec
-----------------------------------------------------------------------------
(* What the invariant says                                                 *)

LEMMA BookTyped == BookIInv => BookTypeOK
<1> SUFFICES ASSUME BookIInv PROVE BookTypeOK
  OBVIOUS
<1>1. ClockInv /\ LotsInv /\ ExitInv /\ StoredInv
  BY DEF BookIInv
<1>2. UpTo(day) \subseteq Sessions
  BY DEF UpTo
<1>3. /\ day \in Days /\ phase \in {"before", "shut"}
      /\ broker \in [held : Nat, cost : Nat, cash : Nat]
      /\ DOMAIN fair \subseteq Sessions /\ bars \subseteq DOMAIN fair /\ splits \subseteq ExDates
      /\ faults \in 0..MaxFaults
  BY <1>1, <1>2 DEF ClockInv
<1>4. ASSUME NEW k \in DOMAIN lots
      PROVE  lots[k].shares > 0 /\ (lots[k].exit # None => lots[k].exit >= k[2])
  <2>1. lots[k] \in AnyLot /\ k \in Books \X Days /\ (lots[k].exit # None => k[2] <= lots[k].exit)
    BY <1>1 DEF LotsInv
  <2>2. lots[k].shares \in Nat \ {0} /\ (lots[k].exit # None => lots[k].exit \in Nat) /\ k[2] \in Nat
    BY <2>1, BookNumbers DEF AnyLot
  <2> QED BY <2>1, <2>2
<1>5. DOMAIN lots \subseteq Books \X Days /\ DOMAIN kb \subseteq Books \X Days
      /\ cash \in [Books -> Nat] /\ since \in [Books -> Days \cup {None}]
  BY <1>1 DEF LotsInv
<1>6. DOMAIN marks \subseteq Books \X Sessions
      /\ \A k \in DOMAIN marks : marks[k].mv >= 0 /\ marks[k].on \in Days
  BY <1>1 DEF StoredInv
<1>7. exit.pc \in {"idle", "wait", "miss", "written"}
  BY <1>1 DEF ExitInv
<1> QED BY <1>3, <1>4, <1>5, <1>6, <1>7 DEF BookTypeOK

LEMMA AtMostOne ==
    ASSUME NEW S, \A k, l \in S : k = l PROVE Cardinality(S) <= 1
<1>1. CASE S = {}
  BY <1>1, FS_EmptySet
<1>2. CASE S # {}
  <2>1. PICK k \in S : S = {k}
    BY <1>2
  <2>2. Cardinality({k}) = 1
    BY FS_Singleton
  <2> QED BY <2>1, <2>2
<1> QED BY <1>1, <1>2

\* A lot is exited exactly when the knowledge base says so, the mirror holds at
\* most one lot of a security, and grades are over a window that is over
\* (outcomes.py, sync_real_portfolio.py, score_judgments.py): for any calendar,
\* closes, splits, judgments and number of runs and failures.
THEOREM BookInvHolds == BookSpec => []BookInv
<1>1. BookIInv => BookInv
  <2> SUFFICES ASSUME BookIInv PROVE BookInv
    OBVIOUS
  <2>1. LotsInv /\ ScoresAreEarned
    BY DEF BookIInv
  <2>2. ExitsAreRecorded
    BY <2>1 DEF LotsInv, ExitsAreRecorded
  <2>3. OneTake
    <3>1. \A k, l \in OpenLots("real") : k = l
      BY <2>1 DEF LotsInv
    <3> QED BY <3>1, AtMostOne DEF OneTake
  <2> QED BY <2>1, <2>2, <2>3, BookTyped DEF BookInv
<1> QED BY <1>1, BookIInvHolds, PTL

\* What is marked on the evening of a session is what the account was worth at its
\* close, and the sleeve is worth what its holder has, whoever marks it and
\* whenever (mark_portfolios.py:9-30): the mirror, the bars and the cash are of one
\* take, however the exits, the splits and the other process fall between.
THEOREM MarksAreTheBookHolds == BookSpec => []MarksAreTheBook
<1>1. BookIInv => MarksAreTheBook
  BY DEF BookIInv, StoredInv, MarksAreTheBook
<1> QED BY <1>1, BookIInvHolds, PTL

\* A daily return is taken against the stored value of the session just before,
\* whatever runs wrote the two (mark_portfolios.py:55-65), but for a run over a
\* book exited by hand or split unheard of whose own row of that session was
\* refused: on any other book what the two processes compute is the same, or they
\* cannot meet, as the night stores nothing before a session the hand has computed.
THEOREM ReturnsChainHolds == BookSpec => []ReturnsChain
<1>1. BookIInv => ReturnsChain
  BY DEF BookIInv, ChainInv
<1> QED BY <1>1, BookIInvHolds, PTL
=============================================================================
