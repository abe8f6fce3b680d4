------------------------------- MODULE Settings ------------------------------
(***************************************************************************)
(* The operator-tunable parameters (backend/app/services/settings_store.py *)
(* over migration 019): the table and its append-only history, the ten     *)
(* second cache each process keeps in front of them, and set_value(),      *)
(* which checks the cash band against what get_all() returns and then      *)
(* writes in a transaction of its own.  The threads of the web process and *)
(* the cycle job, a process with a cache of its own, run the same code; so *)
(* every lock, statement and cache access below may be interleaved.        *)
(*                                                                         *)
(* The two ends of the cash band are the parameters here; any other takes  *)
(* the same path without the band check.  A value outside its own bounds,  *)
(* or not a number, is refused before anything is read.                    *)
(***************************************************************************)
EXTENDS Integers, Sequences, SequencesExt

CONSTANTS
    Threads,    \* threads that call get_all() or set_value(), one call at a time
    Procs,      \* processes
    Home,       \* the process of each thread
    Writers,    \* threads that may call set_value(): those that serve requests
    Values,     \* the values within the bounds of both parameters
    Default,    \* the compiled default of each parameter
    Ttl,        \* _CACHE_TTL_SECONDS, in ticks
    MaxWrites,  \* bound on the number of changes stored
    DbMayFail   \* TRUE when a statement, or the answer to a commit, may be lost

Keys == {"floor", "ceiling"}
Unset == -1   \* no row for the key

ASSUME HomeIsProc == Home \in [Threads -> Procs] /\ Writers \subseteq Threads
ASSUME ValuesAreNat == Values \subseteq Nat /\ Default \in [Keys -> Values]
ASSUME DefaultsAreABand == Default["floor"] <= Default["ceiling"]
ASSUME BoundsAreNat == Ttl \in Nat \ {0} /\ MaxWrites \in Nat /\ DbMayFail \in BOOLEAN

VARIABLES
    table,    \* app_settings
    history,  \* app_settings_history, in the order of its ids
    cache,    \* _cache of each process
    thread,   \* the call each thread is making
    own,      \* how long the history was when a process last dropped its cache
    late,     \* the threads of a process that had read the table, and had not
              \* stored what they read, when the process dropped its cache
    raced,    \* whether it was one of those that filled its process's cache
    unsound   \* a write was validated against values that were not current

vars == <<table, history, cache, thread, own, late, raced, unsound>>
ghosts == <<own, late, raced, unsound>>
-----------------------------------------------------------------------------
View == [Keys -> Values]
Source == {"database", "defaults"}

\* What get_all() returns.  at is how many changes the history held when the
\* table was read; the code keeps no such number.
Answer == [view : View, source : Source, at : 0..MaxWrites]
Cache == [valid : BOOLEAN, got : Answer, age : 0..Ttl]
Defaults == [view |-> Default, source |-> "defaults", at |-> 0]

Change == [key : Keys, old : Values \cup {Unset}, new : Values]

Call == [at : {"idle", "load", "store", "check", "begin", "commit", "drop"},
         key : Keys \cup {"all"}, value : Values \cup {Unset},
         got : Answer, old : Values \cup {Unset}]
NoCall == [at |-> "idle", key |-> "all", value |-> Unset, got |-> Defaults, old |-> Unset]

TypeOK ==
    /\ table \in [Keys -> Values \cup {Unset}]
    /\ history \in Seq(Change) /\ Len(history) <= MaxWrites
    /\ cache \in [Procs -> Cache]
    /\ thread \in [Threads -> Call]
    /\ own \in [Procs -> 0..MaxWrites]
    /\ late \subseteq Threads
    /\ raced \in [Procs -> BOOLEAN]
    /\ unsound \in BOOLEAN

Init ==
    /\ table = [k \in Keys |-> Unset]
    /\ history = <<>>
    /\ cache = [p \in Procs |-> [valid |-> FALSE, got |-> Defaults, age |-> 0]]
    /\ thread = [t \in Threads |-> NoCall]
    /\ own = [p \in Procs |-> 0]
    /\ late = {}
    /\ raced = [p \in Procs |-> FALSE]
    /\ unsound = FALSE
-----------------------------------------------------------------------------
Set(t, c) == thread' = [thread EXCEPT ![t] = c]
Return(t) == Set(t, NoCall)

\* The values in force: a key without a row has its default.
Current == [k \in Keys |-> IF table[k] = Unset THEN Default[k] ELSE table[k]]

\* Where a call goes once it has an answer: get_all() returns, set_value()
\* goes on to its band check.
With(call, answer) ==
    IF call.key = "all" THEN NoCall ELSE [call EXCEPT !.at = "check", !.got = answer]

\* Mutant: a hit makes the entry young again.
BugSlidingExpiry(t, call) ==
    LET p == Home[t]
        hit == cache[p].valid /\ cache[p].age < Ttl
    IN  /\ thread[t].at = "idle"
        /\ Set(t, IF hit THEN With(call, cache[p].got) ELSE [call EXCEPT !.at = "load"])
        /\ cache' = IF hit THEN [cache EXCEPT ![p].age = 0] ELSE cache
        /\ UNCHANGED <<table, history, ghosts>>

\* A call begins with a look at the cache under the lock: a young entry is
\* the answer, otherwise the table has to be read.
Lookup(t, call) ==
    /\ thread[t].at = "idle"
    /\ LET c == cache[Home[t]]
       IN  Set(t, IF c.valid /\ c.age < Ttl THEN With(call, c.got)
                                            ELSE [call EXCEPT !.at = "load"])
    /\ UNCHANGED <<table, history, cache, ghosts>>

GetAll(t) == Lookup(t, NoCall)

SetValue(t, k, v) ==
    /\ t \in Writers
    /\ Len(history) < MaxWrites
    /\ Lookup(t, [NoCall EXCEPT !.key = k, !.value = v])

\* SELECT key, value: the lock is not held.  DbUnavailable gives the compiled
\* defaults, and says so.
Load(t) ==
    /\ thread[t].at = "load"
    /\ \/ Set(t, [thread[t] EXCEPT !.at = "store",
                     !.got = [view |-> Current, source |-> "database", at |-> Len(history)]])
       \/ DbMayFail /\ Set(t, [thread[t] EXCEPT !.at = "store", !.got = Defaults])
    /\ UNCHANGED <<table, history, cache, ghosts>>

\* The answer is cached, whatever happened since it was read: defaults too.
Store(t) ==
    LET p == Home[t]
        c == thread[t]
    IN  /\ c.at = "store"
        /\ cache' = [cache EXCEPT ![p] = [valid |-> TRUE, got |-> c.got, age |-> 0]]
        /\ raced' = [raced EXCEPT ![p] = t \in late]
        /\ late' = late \ {t}
        /\ Set(t, With(c, c.got))
        /\ UNCHANGED <<table, history, own, unsound>>
-----------------------------------------------------------------------------
(* set_value()                                                             *)

Other(k) == IF k = "floor" THEN "ceiling" ELSE "floor"
Inverted(view) == view["floor"] > view["ceiling"]

\* _reject_inverted_band(): the new value against the other end of the band,
\* as get_all() returned it.
CheckBand(t) ==
    /\ thread[t].at = "check"
    /\ LET c == thread[t]
       IN  IF Inverted([c.got.view EXCEPT ![c.key] = c.value])
             THEN Return(t)
             ELSE Set(t, [c EXCEPT !.at = "begin"])
    /\ UNCHANGED <<table, history, cache, ghosts>>

\* The transaction reads the previous value: none changed, nothing to write,
\* and the cache is left as it is.
ReadPrevious(t) ==
    /\ thread[t].at = "begin"
    /\ LET c == thread[t]
       IN  IF table[c.key] = c.value
             THEN Return(t)
             ELSE Set(t, [c EXCEPT !.at = "commit", !.old = table[c.key]])
    /\ UNCHANGED <<table, history, cache, ghosts>>

\* Mutant: the value and its history are two transactions.
BugHistoryApart(t) ==
    LET c == thread[t]
    IN  /\ c.at = "commit"
        /\ Len(history) < MaxWrites
        /\ table' = [table EXCEPT ![c.key] = c.value]
        /\ \/ history' = Append(history, [key |-> c.key, old |-> c.old, new |-> c.value])
           \/ DbMayFail /\ UNCHANGED history
        /\ Set(t, [c EXCEPT !.at = "drop"])
        /\ UNCHANGED <<cache, ghosts>>

\* The upsert takes the row's lock and the history row is appended with it,
\* so changes of a key commit in the order of their history ids; but another
\* writer may have committed since the previous value was read.  The commit
\* may succeed with its answer lost: the caller is told nothing was saved,
\* and the cache is not dropped.
CommitWrite(t) ==
    LET c == thread[t]
    IN  /\ c.at = "commit"
        /\ Len(history) < MaxWrites
        /\ table' = [table EXCEPT ![c.key] = c.value]
        /\ history' = Append(history, [key |-> c.key, old |-> c.old, new |-> c.value])
        /\ unsound' = (unsound \/ c.got.view[Other(c.key)] # Current[Other(c.key)])
        /\ \/ Set(t, [c EXCEPT !.at = "drop"])
           \/ DbMayFail /\ Return(t)
        /\ UNCHANGED <<cache, own, late, raced>>

\* The database refuses: rolled back, 503.
AbortWrite(t) ==
    /\ DbMayFail
    /\ thread[t].at \in {"begin", "commit"}
    /\ Return(t)
    /\ UNCHANGED <<table, history, cache, ghosts>>

\* Mutant: the process that wrote keeps its cache.
BugKeepCache(t) ==
    /\ thread[t].at = "drop"
    /\ own' = [own EXCEPT ![Home[t]] = Len(history)]
    /\ Return(t)
    /\ UNCHANGED <<table, history, cache, late, raced, unsound>>

\* _cache = None, under the lock, once the transaction is over.
DropCache(t) ==
    /\ thread[t].at = "drop"
    /\ cache' = [cache EXCEPT ![Home[t]].valid = FALSE]
    /\ own' = [own EXCEPT ![Home[t]] = Len(history)]
    /\ late' = late \cup {s \in Threads : Home[s] = Home[t] /\ thread[s].at = "store"}
    /\ raced' = [raced EXCEPT ![Home[t]] = FALSE]
    /\ Return(t)
    /\ UNCHANGED <<table, history, unsound>>

Tick ==
    /\ \E p \in Procs : cache[p].valid /\ cache[p].age < Ttl
    /\ cache' = [p \in Procs |-> IF cache[p].valid /\ cache[p].age < Ttl
                                   THEN [cache[p] EXCEPT !.age = @ + 1] ELSE cache[p]]
    /\ UNCHANGED <<table, history, thread, ghosts>>
-----------------------------------------------------------------------------
Step(t) ==
    \/ GetAll(t) \/ \E k \in Keys, v \in Values : SetValue(t, k, v)
    \/ Load(t) \/ Store(t)
    \/ CheckBand(t) \/ ReadPrevious(t) \/ CommitWrite(t) \/ AbortWrite(t) \/ DropCache(t)

Next == Tick \/ \E t \in Threads : Step(t)

Spec == Init /\ [][Next]_vars

\* Time passes; nobody is obliged to read or to write.
FairSpec == Spec /\ WF_vars(Tick)
-----------------------------------------------------------------------------
(* What must hold                                                          *)

\* The values in force once the first n changes of the history were made.
After(n) ==
    [k \in Keys |->
        LET i == SelectLastInSubSeq(history, 1, n, LAMBDA ch : ch.key = k)
        IN  IF i = 0 THEN Default[k] ELSE history[i].new]

\* The last change of a key in the history is its value: an auditor who reads
\* the history by id knows what was in force after every write.
HistoryTracksValue == After(Len(history)) = Current

\* What a cache or a call holds is a state the table really was in, whole, or
\* the defaults and labelled so: never a mixture, never defaults passed off
\* as the operator's values.
SourceIsHonest ==
    \A a \in {cache[p].got : p \in Procs} \cup {thread[t].got : t \in Threads} :
        a.view = IF a.source = "database" THEN After(a.at) ELSE Default

\* As long as every write was validated against the values it met, the band
\* is one that some cash position can satisfy.
BandHeldWhenFresh == Inverted(Current) => unsound

\* The parts that are checked together: the history and the values agree,
\* defaults are labelled, and the band is one.
Inv == TypeOK /\ HistoryTracksValue /\ SourceIsHonest /\ BandHeldWhenFresh

\* What a process reads from the table after a write of its own is done, and
\* caches, holds that write, and nothing read before the write stays in its
\* cache: only a read that was under way when the cache was dropped can put
\* the older values back.
OnlyOverlapHidesAWrite ==
    \A p \in Procs :
        cache[p].valid /\ cache[p].got.source = "database" /\ ~raced[p]
            => cache[p].got.at >= own[p]

\* A cache entry older than the table stops being served, in every process.
Serves(p) == cache[p].valid /\ cache[p].age < Ttl
StaleCacheDies ==
    \A p \in Procs : Serves(p) /\ cache[p].got.at < Len(history) ~> ~Serves(p)
-----------------------------------------------------------------------------
(* What the repository says and the code does not do                       *)

\* settings_store.py:194 "Refuse a write that would leave a floor above its
\* ceiling."
BandNeverInverted == ~Inverted(Current)

\* settings_store.py:256 "the next read must see this, not a value up to 10s
\* stale": a read that overlaps the write stores its older values afterwards,
\* and the next reads are given those.
NextReadSeesWrite ==
    \A p \in Procs :
        cache[p].valid /\ cache[p].got.source = "database" => cache[p].got.at >= own[p]
=============================================================================
