---------------------------- MODULE ArchiveProofs ----------------------------
(***************************************************************************)
(* Proofs about Archive for every length of the archive, every number of   *)
(* identities and whatever is true of the symbol: no adjustment factor     *)
(* looks ahead, an adjust that ran undisturbed is right, an audit files    *)
(* every hole for what it is, decisions stand, and, as long as the archive *)
(* is loaded in order and FMP's dates are not ahead of it, a symbol and a  *)
(* date lead to one identity.                                              *)
(***************************************************************************)
EXTENDS Archive, FiniteSetTheorems, TLAPS

-----------------------------------------------------------------------------
(* The inductive invariant                                                 *)

Commands == {"idle", "audit", "provider", "splice", "mark", "refactor", "reset", "fill"}
Stages == {"refactor", "reset", "fill"}

Job == [cmd : Commands, rows : SUBSET Row, fails : (-1)..(AbortAfter - 1),
        to : Dates \cup {None}]

Typed == TypeOK /\ job \in Job

\* A row that was never used has left nothing behind.
NoTrace == \A i \in Ids \ Used :
    sec[i].died = None /\ own[i] = {} /\ \A s \in Dates : audit[i][s].resume = None

\* A factor belongs to a bar, and what is folded into it lies between the bar
\* and the recorded bound, which never passes the archive's end.
FactorInv ==
    /\ asOf = None \/ asOf \in Covered
    /\ job.cmd \in Stages => job.to = asOf
    /\ \A i \in Ids, d \in Dates : factor[i][d] # Unset =>
          d \in own[i] /\ \A x \in factor[i][d] : d < x /\ x <= asOf

Right(i, d) == factor[i][d] = Between(i, d, asOf)

\* What each of the three statements of an adjust has done.
AdjustInv == adjusted =>
    /\ job.cmd \notin Stages => \A i \in Ids : \A d \in own[i] : Right(i, d)
    /\ job.cmd \in {"reset", "fill"} =>
          \A i \in Ids : splits[i] # {} => \A d \in own[i] : Right(i, d)
    /\ job.cmd = "fill" =>
          \A i \in Ids : splits[i] = {} => \A d \in own[i] : factor[i][d] \in {Unset, {}}

FiledRight(h) ==
    /\ audit[h.id][h.last].resume = h.next
    /\ IF InBand(h.id, h.last, h.next)
       THEN audit[h.id][h.last].kind \notin {"pending_review", "none"}
       ELSE audit[h.id][h.last].kind \notin {"halt_consistent", "none"}

AuditInv == audited =>
    /\ job.cmd = "audit" => job.rows = Found
    /\ job.cmd # "audit" => \A h \in Found : FiledRight(h)

\* What a run has read and not yet dealt with is on file.
RowsInv ==
    /\ \A h \in job.rows : h.id \in Used
    /\ job.cmd \in {"provider", "splice", "mark"} =>
          \A h \in job.rows : audit[h.id][h.last].resume = h.next

\* The day files that are loaded are the first ones, every identity has a bar and
\* no bar is of another day.
InOrder ==
    /\ torn = {} /\ \A d \in loaded : 1..d \subseteq loaded
    /\ \A i \in Ids : own[i] \subseteq loaded
    /\ \A i \in Used : own[i] # {}

\* A hole that was found stays one until it is spliced.
HolesStand ==
    /\ job.cmd = "audit" => \A h \in job.rows : Hole(h.id, h.last, h.next)
    /\ \A i \in Ids, s \in Dates : audit[i][s].resume # None =>
          /\ {s, audit[i][s].resume} \subseteq loaded
          /\ {s, audit[i][s].resume} \subseteq own[i] => Hole(i, s, audit[i][s].resume)

\* The identity is dead and has no bar after s.
Ends(i, s) == i \in Used /\ sec[i].died # None /\ Bars(i, s + 1, Last) = {}

SplicesStand ==
    /\ \A i \in Ids, s \in Dates : audit[i][s].kind = "spliced" => Ends(i, s)
    /\ job.cmd = "mark" => \A h \in NextSplice : Ends(h.id, h.last)

OrderlyInv == Orderly => InOrder /\ HolesStand /\ SplicesStand

\* Who is dead stays dead in all that is still to be loaded.
DatesInv == Orderly /\ ~misdated =>
    /\ AsOfDateResolves
    /\ \A i, j \in Live : i = j
    /\ \A i \in Used \ Live : \A d \in Dates \ loaded : sec[i].died <= d

\* The strengthening of Inv, AuditSeesAll and OrderlyDatesResolve that the
\* steps preserve.
IInv == /\ Typed /\ NoTrace /\ FactorInv /\ AdjustInv /\ AuditInv /\ RowsInv
        /\ OrderlyInv /\ DatesInv
-----------------------------------------------------------------------------
(* First, last and next                                                    *)

LEMMA Bounds ==
    /\ Last \in Nat \ {0} /\ MaxIds \in Nat \ {0} /\ AbortAfter \in Nat \ {0}
    /\ {Floor, Confirm, Window, MinGap} \subseteq Nat
    /\ None \notin Dates /\ None \notin ExDates /\ Unset \notin SUBSET ExDates
    /\ Dates \subseteq ExDates /\ Dates \subseteq Nat /\ ExDates \subseteq Nat /\ Ids \subseteq Nat
<1>1. /\ Last \in Nat \ {0} /\ MaxIds \in Nat \ {0} /\ AbortAfter \in Nat \ {0}
      /\ {Floor, Confirm, Window, MinGap} \subseteq Nat
  BY BoundsAreNat
<1>2. /\ None \notin Dates /\ None \notin ExDates /\ None \in Unset
      /\ Dates \subseteq ExDates /\ Dates \subseteq Nat /\ ExDates \subseteq Nat /\ Ids \subseteq Nat
  BY <1>1 DEF None, Dates, ExDates, Unset, Ids
<1> QED BY <1>1, <1>2

LEMMA MinIs ==
    ASSUME NEW S, S \subseteq Nat, S # {}
    PROVE  Min(S) \in S /\ \A y \in S : Min(S) <= y
<1>1. PICK x \in S : \A y \in S : ~(<<y, x>> \in OpToRel(<, Nat))
  BY NatLessThanWellFounded, WFMin
<1>2. ASSUME NEW y \in S PROVE x <= y
  <2>1. x \in Nat /\ y \in Nat /\ <<y, x>> \notin OpToRel(<, Nat)
    BY <1>1
  <2>2. ~(y < x)
    BY <2>1 DEF OpToRel
  <2>3. x \in Nat /\ y \in Nat
    BY <2>1
  <2> QED BY <2>2, <2>3
<1> QED BY <1>2 DEF Min

LEMMA MaxIs ==
    ASSUME NEW S, S \subseteq Dates, S # {}
    PROVE  Max(S) \in S /\ \A y \in S : Max(S) >= y
<1> DEFINE T == {n \in Nat : Last - n \in S}
<1>1. Last \in Nat /\ \A x \in S : x \in Nat /\ x <= Last
  BY Bounds DEF Dates
<1>2. T \subseteq Nat /\ T # {}
  <2>1. PICK x \in S : TRUE
    OBVIOUS
  <2>2. Last - x \in Nat /\ Last - (Last - x) = x
    BY <1>1
  <2>3. Last - x \in T
    BY <2>2
  <2> QED BY <2>3
<1>3. Min(T) \in T /\ \A y \in T : Min(T) <= y
  <2> HIDE DEF T
  <2> QED BY <1>2, MinIs
<1>4. PICK n \in T : \A y \in T : n <= y
  BY <1>3
<1>5. ASSUME NEW y \in S PROVE Last - n >= y
  <2>1. y \in Nat /\ y <= Last /\ n \in Nat
    BY <1>1, <1>4
  <2>2. Last - y \in Nat /\ Last - (Last - y) = y
    BY <1>1, <2>1
  <2>3. n <= Last - y
    BY <1>4, <2>2
  <2> QED BY <1>1, <2>1, <2>3
<1>6. \E x \in S : \A y \in S : x >= y
  BY <1>4, <1>5
<1> QED BY <1>6 DEF Max

\* The row a new identity gets.
LEMMA FreshIs == ASSUME Ids # Used PROVE Fresh \in Ids \ Used
<1>1. Ids \ Used \subseteq Nat /\ Ids \ Used # {}
  BY Bounds DEF Used
<1> QED BY <1>1, MinIs DEF Fresh

LEMMA LastBarIs ==
    ASSUME Typed, NEW i \in HasBars
    PROVE  LastBar(i) \in own[i] /\ LastBar(i) \in Dates /\ \A d \in own[i] : d <= LastBar(i)
<1>1. own[i] \subseteq Dates /\ own[i] # {}
  BY DEF HasBars, Used, Typed, TypeOK
<1>2. Max(own[i]) \in own[i] /\ \A d \in own[i] : Max(own[i]) >= d
  BY <1>1, MaxIs
<1>3. \A d \in own[i] : d <= Max(own[i])
  BY <1>1, <1>2, Bounds
<1> QED BY <1>1, <1>2, <1>3 DEF LastBar

LEMMA EndIs ==
    ASSUME Typed, Covered # {}
    PROVE  ArchiveEnd \in Covered /\ ArchiveEnd \in Dates /\ \A d \in Covered : d <= ArchiveEnd
<1>1. Covered \subseteq Dates
  BY DEF Covered, Typed, TypeOK
<1>2. ArchiveEnd \in Covered /\ \A d \in Covered : ArchiveEnd >= d
  BY <1>1, MaxIs DEF ArchiveEnd
<1>3. \A d \in Covered : d <= ArchiveEnd
  BY <1>1, <1>2, Bounds
<1> QED BY <1>1, <1>2, <1>3
-----------------------------------------------------------------------------
(* What holds at the start, and what a step leaves alone                   *)

LEMMA InvInit == Init => IInv
<1> SUFFICES ASSUME Init PROVE IInv
  OBVIOUS
<1>1. /\ world \in Worlds /\ torn = world.torn /\ loaded = {}
      /\ sec = [i \in Ids |-> NoRow] /\ own = [i \in Ids |-> {}]
      /\ factor = [i \in Ids |-> [d \in Dates |-> Unset]]
      /\ splits = [i \in Ids |-> {}] /\ asOf = None
      /\ audit = [i \in Ids |-> [d \in Dates |-> NoEntry]]
      /\ job = Idle /\ audited = FALSE /\ adjusted = FALSE /\ misdated = FALSE
  BY DEF Init
<1>2. job.cmd = "idle" /\ job.rows = {} /\ job.fails = 0 /\ job.to = None /\ job \in Job
  <2>1. 0 \in (-1)..(AbortAfter - 1) /\ 0 \in (-1)..AbortAfter
    BY Bounds
  <2> QED BY <1>1, <2>1 DEF Idle, Job, Commands
<1>3. \A i \in Ids : /\ sec[i] = NoRow /\ own[i] = {}
                     /\ \A d \in Dates : factor[i][d] = Unset /\ audit[i][d] = NoEntry
  BY <1>1
<1>4. \A i \in Ids, d \in Dates : audit[i][d].resume = None /\ audit[i][d].kind = "none"
  BY <1>3 DEF NoEntry
<1>5. Used = {} /\ Live = {}
  BY <1>3 DEF Used, Live, NoRow
<1>6. TypeOK
  <2>1. NoRow \in [first : Dates \cup {None}, died : 0..(Last + 1), typed : BOOLEAN]
    BY Bounds DEF NoRow, None
  <2>2. NoEntry \in [resume : Dates \cup {None}, kind : NonTerminal \cup Terminal \cup {"none"}]
    BY DEF NoEntry
  <2>3. 0 \in (-1)..AbortAfter
    BY Bounds
  <2> QED BY <1>1, <1>2, <2>1, <2>2, <2>3 DEF TypeOK
<1>7. NoTrace
  BY <1>3, <1>4 DEF NoTrace, NoRow
<1>8. FactorInv
  BY <1>1, <1>2, <1>3 DEF FactorInv, Stages
<1>9. AdjustInv /\ AuditInv /\ RowsInv
  BY <1>1, <1>2 DEF AdjustInv, AuditInv, RowsInv
<1>10. OrderlyInv
  <2>1. Orderly => InOrder
    BY <1>1, <1>3, <1>5 DEF Orderly, InOrder
  <2>2. HolesStand /\ SplicesStand
    BY <1>2, <1>4 DEF HolesStand, SplicesStand
  <2> QED BY <2>1, <2>2 DEF OrderlyInv
<1>11. DatesInv
  BY <1>3, <1>5 DEF DatesInv, AsOfDateResolves
<1> QED BY <1>2, <1>6, <1>7, <1>8, <1>9, <1>10, <1>11 DEF IInv, Typed

LEMMA NoTraceStays ==
    ASSUME NoTrace, UNCHANGED <<sec, own, audit>> PROVE NoTrace'
<1>1. sec' = sec /\ own' = own /\ audit' = audit /\ Used' = Used
  BY DEF Used
<1> QED BY <1>1 DEF NoTrace

LEMMA FactorStays ==
    ASSUME FactorInv, UNCHANGED <<loaded, own, factor, asOf>>,
           job'.cmd \notin Stages \/ job' = job
    PROVE  FactorInv'
<1>1. own' = own /\ factor' = factor /\ asOf' = asOf /\ Covered' = Covered
  BY DEF Covered
<1> QED BY <1>1 DEF FactorInv

LEMMA AdjustStays ==
    ASSUME AdjustInv, UNCHANGED <<own, factor, splits, asOf>>,
           adjusted' => adjusted /\ (job' = job \/ {job.cmd, job'.cmd} \cap Stages = {})
    PROVE  AdjustInv'
<1>1. own' = own /\ factor' = factor /\ splits' = splits /\ asOf' = asOf
      /\ \A i, d : Right(i, d)' = Right(i, d)
  BY DEF Right, Between
<1>2. CASE job' = job
  BY <1>1, <1>2 DEF AdjustInv
<1>3. CASE {job.cmd, job'.cmd} \cap Stages = {}
  <2>1. job.cmd \notin Stages /\ job'.cmd \notin Stages /\ job'.cmd \notin {"reset", "fill"}
    BY <1>3 DEF Stages
  <2> QED BY <1>1, <2>1 DEF AdjustInv
<1>4. CASE ~adjusted'
  BY <1>4 DEF AdjustInv
<1> QED BY <1>2, <1>3, <1>4

LEMMA FoundStays ==
    ASSUME UNCHANGED <<world, loaded, own, splits, audit>>
    PROVE  Found' = Found /\ \A h : FiledRight(h)' = FiledRight(h)
<1>1. world' = world /\ own' = own /\ splits' = splits /\ audit' = audit /\ Covered' = Covered
  BY DEF Covered
<1> QED BY <1>1 DEF Found, FiledRight, Hole, Bars, Missed, InBand, Raw

LEMMA AuditStays ==
    ASSUME AuditInv, UNCHANGED <<world, loaded, own, splits, audit>>,
           audited' => audited /\ (job' = job \/ (job.cmd # "audit" /\ job'.cmd # "audit"))
    PROVE  AuditInv'
<1>1. CASE audited' /\ job' = job
  BY <1>1, FoundStays DEF AuditInv
<1>2. CASE audited' /\ job.cmd # "audit" /\ job'.cmd # "audit"
  BY <1>2, FoundStays DEF AuditInv
<1>3. CASE ~audited'
  BY <1>3 DEF AuditInv
<1> QED BY <1>1, <1>2, <1>3

LEMMA RowsStay == ASSUME RowsInv, UNCHANGED <<sec, audit, job>> PROVE RowsInv'
<1>1. Used' = Used /\ audit' = audit /\ job' = job
  BY DEF Used
<1> QED BY <1>1 DEF RowsInv

LEMMA DatesStay ==
    ASSUME DatesInv, UNCHANGED <<world, misdated, loaded, sec, own>> PROVE DatesInv'
<1>1. /\ world' = world /\ misdated' = misdated /\ loaded' = loaded /\ own' = own /\ sec' = sec
      /\ Used' = Used
  BY DEF Used
<1>2. Live' = Live /\ Orderly' = Orderly /\ AsOfDateResolves' = AsOfDateResolves
  BY <1>1 DEF Live, Orderly, AsOfDateResolves, AliveOn
<1> QED BY <1>1, <1>2 DEF DatesInv

\* The parts of OrderlyInv about what is loaded and what is on file.
LEMMA OrderlyStays ==
    ASSUME OrderlyInv, UNCHANGED <<world, torn, loaded, sec, own, audit>>,
           \/ job' = job
           \/ job'.cmd \notin {"audit", "mark"}
    PROVE  OrderlyInv'
<1>1. /\ world' = world /\ torn' = torn /\ loaded' = loaded /\ own' = own /\ sec' = sec
      /\ audit' = audit /\ Used' = Used
  BY DEF Used
<1>2. /\ Orderly' = Orderly /\ InOrder' = InOrder
      /\ \A i, s, r : Hole(i, s, r)' = Hole(i, s, r)
      /\ \A i, s : Ends(i, s)' = Ends(i, s)
  BY <1>1 DEF Orderly, InOrder, Hole, Ends, Bars
<1>3. CASE job' = job
  <2>1. NextSplice' = NextSplice
    BY <1>3 DEF NextSplice
  <2> QED BY <1>1, <1>2, <1>3, <2>1 DEF OrderlyInv, HolesStand, SplicesStand
<1>4. CASE job'.cmd \notin {"audit", "mark"}
  BY <1>1, <1>2, <1>4 DEF OrderlyInv, HolesStand, SplicesStand
<1> QED BY <1>3, <1>4
-----------------------------------------------------------------------------
(* The loaders                                                             *)

\* What the invariant says of the types, as facts.
LEMMA Types ==
    ASSUME Typed
    PROVE  /\ world \in World /\ torn \subseteq world.torn /\ loaded \subseteq Dates
           /\ sec \in [Ids -> [first : Dates \cup {None}, died : 0..(Last + 1), typed : BOOLEAN]]
           /\ own \in [Ids -> SUBSET Dates]
           /\ factor \in [Ids -> [Dates -> (SUBSET ExDates) \cup {Unset}]]
           /\ splits \in [Ids -> SUBSET ExDates] /\ asOf \in Dates \cup {None}
           /\ audit \in [Ids -> [Dates -> [resume : Dates \cup {None},
                                           kind : NonTerminal \cup Terminal \cup {"none"}]]]
           /\ job \in Job /\ Used \subseteq Ids /\ Live \subseteq Used /\ Covered \subseteq Dates
           /\ \A i \in Ids : /\ sec[i].first \in Dates \cup {None} /\ sec[i].died \in 0..(Last + 1)
                             /\ sec[i].typed \in BOOLEAN /\ own[i] \subseteq Dates
<1>1. TypeOK /\ job \in Job /\ world \in World
  BY WorldsAreWorlds DEF Typed, TypeOK
<1>2. Used \subseteq Ids /\ Live \subseteq Used /\ Covered \subseteq Dates
  BY <1>1 DEF Used, Live, Covered, TypeOK
<1> QED BY <1>1, <1>2 DEF TypeOK

\* The type invariant from the fields of the job.
LEMMA TypedFrom ==
    ASSUME Typed, job' \in Job,
           world' = world, torn' \subseteq torn, loaded' \subseteq Dates,
           sec' \in [Ids -> [first : Dates \cup {None}, died : 0..(Last + 1), typed : BOOLEAN]],
           own' \in [Ids -> SUBSET Dates],
           factor' \in [Ids -> [Dates -> (SUBSET ExDates) \cup {Unset}]],
           splits' \in [Ids -> SUBSET ExDates], asOf' \in Dates \cup {None},
           audit' \in [Ids -> [Dates -> [resume : Dates \cup {None},
                                         kind : NonTerminal \cup Terminal \cup {"none"}]]],
           {audited', adjusted', misdated'} \subseteq BOOLEAN
    PROVE  Typed'
<1>1. /\ job'.rows \subseteq Row /\ job'.fails \in (-1)..AbortAfter
      /\ job'.to \in Dates \cup {None} /\ job'.cmd \in Commands
  <2>1. AbortAfter \in Nat
    BY Bounds
  <2> QED BY <2>1 DEF Job
<1>2. world \in Worlds /\ torn \subseteq world.torn
  BY DEF Typed, TypeOK
<1> QED BY <1>1, <1>2 DEF Typed, TypeOK, Commands

LEMMA HolderIs ==
    ASSUME Typed, NEW i \in Holder PROVE i \in Ids /\ (i \in Live \/ (i \notin Used /\ Live = {}))
<1>1. CASE Live # {}
  BY <1>1, Types DEF Holder
<1>2. CASE Live = {}
  BY <1>2, FreshIs DEF Holder
<1> QED BY <1>1, <1>2

\* A day that may be loaded comes after all that is.
LEMMA NextIsLast ==
    ASSUME Typed, InOrder, NEW d \in Dates, NextFile(d)
    PROVE  \A e \in loaded : e < d
<1>1. ASSUME NEW e \in loaded, ~(e < d) PROVE FALSE
  <2>1. e \in Nat /\ d \in Nat /\ d >= 1 /\ d <= e
    BY <1>1, Types, Bounds DEF Dates
  <2>2. d \in 1..e
    BY <2>1
  <2> QED BY <2>2 DEF InOrder, NextFile
<1> QED BY <1>1

LEMMA LoadFileKeeps ==
    ASSUME IInv, NEW d \in Dates, LoadFile(d) PROVE IInv'
<1>1. /\ NextFile(d) /\ loaded' = loaded \cup {d} /\ d \notin loaded /\ d \in Nat /\ d # None
      /\ world' = world /\ torn' = torn /\ factor' = factor /\ splits' = splits /\ asOf' = asOf
      /\ audit' = audit /\ job' = job /\ misdated' = misdated /\ audited' = FALSE /\ adjusted' = FALSE
  BY Bounds DEF LoadFile, NextFile, Stale
<1>2. PICK i \in Ids :
        /\ own' = own /\ sec' = sec
        \/ /\ i \in Live \/ (i \notin Used /\ Live = {})
           /\ d \notin own[i] /\ own' = [own EXCEPT ![i] = @ \cup {d}]
           /\ sec' = [sec EXCEPT ![i].first = IF @ = None THEN d ELSE @]
  <2>1. CASE d \in world.prints
    BY <2>1, HolderIs DEF LoadFile, IInv
  <2>2. CASE d \notin world.prints
    <3>1. 1 \in Ids
      BY Bounds DEF Ids
    <3> QED BY <2>2, <3>1 DEF LoadFile
  <2> QED BY <2>1, <2>2
<1>3. /\ Typed /\ NoTrace /\ FactorInv /\ RowsInv /\ OrderlyInv /\ DatesInv
  BY DEF IInv
\* What the step does to each identity.
<1>4. /\ \A j \in Ids : /\ sec'[j].died = sec[j].died /\ sec'[j].typed = sec[j].typed
                        /\ j \in Used => sec'[j] = sec[j]
                        /\ j # i => sec'[j] = sec[j] /\ own'[j] = own[j]
                        /\ own[j] \subseteq own'[j] /\ own'[j] \subseteq own[j] \cup {d}
      /\ own'[i] # own[i] => /\ i \in Live \/ (i \notin Used /\ Live = {})
                             /\ own'[i] = own[i] \cup {d}
                             /\ i \notin Used => sec'[i].first = d
      /\ own'[i] = own[i] => sec' = sec /\ own' = own
      /\ sec' \in [Ids -> [first : Dates \cup {None}, died : 0..(Last + 1), typed : BOOLEAN]]
      /\ own' \in [Ids -> SUBSET Dates]
  <2>1. CASE own' = own /\ sec' = sec
    BY <2>1, <1>3, Types
  <2>2. CASE /\ i \in Live \/ (i \notin Used /\ Live = {})
             /\ d \notin own[i] /\ own' = [own EXCEPT ![i] = @ \cup {d}]
             /\ sec' = [sec EXCEPT ![i].first = IF @ = None THEN d ELSE @]
    <3>1. /\ own'[i] = own[i] \cup {d} /\ \A j \in Ids \ {i} : own'[j] = own[j] /\ sec'[j] = sec[j]
          /\ own' \in [Ids -> SUBSET Dates]
      BY <2>2, <1>3, Types
    <3>2. /\ sec'[i].first = (IF sec[i].first = None THEN d ELSE sec[i].first)
          /\ sec'[i].died = sec[i].died /\ sec'[i].typed = sec[i].typed
          /\ sec' \in [Ids -> [first : Dates \cup {None}, died : 0..(Last + 1), typed : BOOLEAN]]
          /\ (sec[i].first # None => sec'[i] = sec[i])
      BY <2>2, <1>3, Types, SMTT(30)
    <3> QED BY <2>2, <3>1, <3>2 DEF Used
  <2> QED BY <1>2, <2>1, <2>2
<1>5. /\ \A j \in Ids : j \in Used' <=> (j \in Used \/ (j = i /\ own'[i] # own[i]))
      /\ \A j \in Ids : j \in Live' <=> (j \in Live \/ (j = i /\ own'[i] # own[i]))
  <2>1. \A j \in Ids : j \in Used' <=> sec'[j].first # None
    BY DEF Used
  <2>2. \A j \in Ids : j \in Used <=> sec[j].first # None
    BY DEF Used
  <2>3. \A j \in Ids : j \in Used' <=> (j \in Used \/ (j = i /\ own'[i] # own[i]))
    BY <2>1, <2>2, <1>1, <1>4
  <2>4. \A j \in Ids : j \in Live' <=> j \in Used' /\ sec[j].died = None
    BY <1>4 DEF Live, Used
  <2>5. \A j \in Ids : j \in Live <=> j \in Used /\ sec[j].died = None
    BY DEF Live, Used
  <2>6. i \notin Used => sec[i].died = None
    BY <1>3 DEF NoTrace
  <2> QED BY <2>3, <2>4, <2>5, <2>6, <1>4
<1>6. Typed'
  <2>1. loaded' \subseteq Dates
    BY <1>1, <1>3, Types
  <2>2. misdated' \in BOOLEAN
    BY <1>1, <1>3 DEF Typed, TypeOK
  <2> QED BY <1>1, <1>3, <1>4, <2>1, <2>2, Types, TypedFrom
<1>7. NoTrace'
  BY <1>1, <1>3, <1>4, <1>5 DEF NoTrace
<1>8. FactorInv'
  <2>1. Covered \subseteq Covered'
    BY <1>1, <1>4 DEF Covered
  <2>2. \A j \in Ids : own[j] \subseteq own'[j]
    BY <1>4
  <2> QED BY <2>1, <2>2, <1>1, <1>3 DEF FactorInv
<1>9. AdjustInv' /\ AuditInv' /\ RowsInv'
  <2>1. RowsInv'
    <3>1. \A h \in job.rows : h.id \in Used /\ h.id \in Ids
      BY <1>3, Types DEF RowsInv
    <3>2. \A h \in job.rows : h.id \in Used'
      BY <3>1, <1>5
    <3> QED BY <3>2, <1>1, <1>3 DEF RowsInv
  <2> QED BY <2>1, <1>1 DEF AdjustInv, AuditInv
<1>10. ASSUME Orderly'
       PROVE  /\ InOrder /\ HolesStand /\ SplicesStand /\ InOrder' /\ Orderly
              /\ \A e \in loaded : e < d
  <2>1. Orderly /\ InOrder /\ HolesStand /\ SplicesStand
    BY <1>1, <1>3, <1>10 DEF OrderlyInv, Orderly
  <2>2. \A e \in loaded : e < d
    BY <2>1, <1>1, <1>3, NextIsLast
  <2>3. \A e \in loaded' : 1..e \subseteq loaded'
    <3>1. 1..d \subseteq loaded'
      <4>1. \A e \in 1..d : e = d \/ e \in 1..(d - 1)
        BY <1>1
      <4> QED BY <4>1, <1>1, <2>1 DEF NextFile, InOrder
    <3> QED BY <3>1, <1>1, <2>1 DEF InOrder
  <2>4. \A j \in Ids : own'[j] \subseteq loaded'
    BY <1>1, <1>4, <2>1 DEF InOrder
  <2>5. \A j \in Used' : own'[j] # {}
    <3>1. ASSUME NEW j \in Used' PROVE own'[j] # {}
      <4>1. j \in Ids
        BY DEF Used
      <4>2. CASE j \in Used
        BY <4>1, <4>2, <2>1, <1>4 DEF InOrder
      <4>3. CASE j = i /\ own'[i] # own[i]
        BY <4>3, <1>4
      <4> QED BY <4>1, <4>2, <4>3, <1>5
    <3> QED BY <3>1
  <2>6. InOrder'
    BY <2>1, <2>3, <2>4, <2>5, <1>1 DEF InOrder
  <2> QED BY <2>1, <2>2, <2>6
<1>11. ASSUME Orderly' PROVE HolesStand' /\ SplicesStand'
  <2>1. InOrder /\ HolesStand /\ SplicesStand /\ \A e \in loaded : e < d
    BY <1>10, <1>11
  <2>2. ASSUME NEW j \in Ids, NEW s \in Dates, NEW r \in Dates, Hole(j, s, r) PROVE Hole(j, s, r)'
    <3>1. {s, r} \subseteq own[j] /\ s < r /\ Bars(j, s + 1, r - 1) = {} /\ r \in loaded
      BY <2>1, <2>2 DEF Hole, InOrder
    <3>2. r < d /\ r \in Nat /\ s \in Nat /\ d \in Nat
      BY <2>1, <3>1, Bounds
    <3>3. ~(d <= r - 1)
      BY <3>2
    <3>4. Bars(j, s + 1, r - 1)' = {}
      BY <3>1, <3>3, <1>4 DEF Bars
    <3> QED BY <3>1, <3>4, <1>4 DEF Hole
  <2>3. ASSUME NEW j \in Ids, NEW s \in Dates, Ends(j, s) PROVE Ends(j, s)'
    <3>1. j \in Used /\ j \notin Live /\ j \in Used'
      BY <2>3, <1>5 DEF Ends, Live
    <3>2. own'[j] = own[j] /\ sec'[j] = sec[j]
      BY <3>1, <1>4
    <3> QED BY <2>3, <3>1, <3>2 DEF Ends, Bars
  <2>4. HolesStand'
    <3>1. ASSUME job.cmd = "audit", NEW h \in job.rows PROVE Hole(h.id, h.last, h.next)'
      <4>1. h.id \in Ids /\ h.last \in Dates /\ h.next \in Dates
        BY <1>3, Types DEF Job, Row
      <4>2. Hole(h.id, h.last, h.next)
        BY <2>1, <3>1 DEF HolesStand
      <4> QED BY <4>1, <4>2, <2>2
    <3>2. ASSUME NEW j \in Ids, NEW s \in Dates, audit[j][s].resume # None
          PROVE  /\ {s, audit[j][s].resume} \subseteq loaded'
                 /\ {s, audit[j][s].resume} \subseteq own'[j] => Hole(j, s, audit[j][s].resume)'
      <4>0. PICK r \in Dates : r = audit[j][s].resume
        BY <3>2, <1>3, Types
      <4>1. {s, r} \subseteq loaded /\ ({s, r} \subseteq own[j] => Hole(j, s, r))
        BY <4>0, <2>1, <3>2 DEF HolesStand
      <4>2. {s, r} \subseteq own'[j] => {s, r} \subseteq own[j]
        BY <4>1, <1>1, <1>4
      <4>3. {s, r} \subseteq own'[j] => Hole(j, s, r)'
        BY <4>1, <4>2, <2>2
      <4>4. {s, r} \subseteq loaded'
        BY <4>1, <1>1
      <4> QED BY <4>0, <4>3, <4>4, <1>1
    <3> QED BY <3>1, <3>2, <1>1 DEF HolesStand
  <2>5. SplicesStand'
    <3>1. NextSplice' = NextSplice /\ \A h \in NextSplice : h.id \in Ids /\ h.last \in Dates
      BY <1>1, <1>3, Types DEF NextSplice, Job, Row
    <3> QED BY <3>1, <1>1, <2>1, <2>3 DEF SplicesStand
  <2> QED BY <2>4, <2>5
<1>12. DatesInv'
  <2> SUFFICES ASSUME Orderly', ~misdated'
               PROVE  /\ AsOfDateResolves' /\ \A j, k \in Live' : j = k
                      /\ \A j \in (Used \ Live)' : \A e \in (Dates \ loaded)' : sec'[j].died <= e
    BY DEF DatesInv
  <2>1. /\ Orderly /\ InOrder /\ AsOfDateResolves /\ \A e \in loaded : e < d
        /\ \A j, k \in Live : j = k
        /\ \A j \in Used \ Live : \A e \in Dates \ loaded : sec[j].died <= e
    BY <1>1, <1>3, <1>10 DEF DatesInv
  <2>2. \A j, k \in Live' : j = k
    <3>1. \A j \in Live' : j \in Ids
      BY DEF Live, Used
    <3> QED BY <3>1, <2>1, <1>4, <1>5
  <2>3. \A j \in (Used \ Live)' : \A e \in (Dates \ loaded)' : sec'[j].died <= e
    <3>1. ASSUME NEW j \in (Used \ Live)' PROVE j \in Used \ Live /\ j \in Ids
      BY <1>5 DEF Used
    <3>2. (Dates \ loaded)' \subseteq Dates \ loaded
      BY <1>1
    <3> QED BY <3>1, <3>2, <2>1, <1>4
  <2>4. AsOfDateResolves'
    <3> SUFFICES ASSUME NEW e \in Dates, NEW x \in Ids, e \in own'[x], NEW j \in Ids
                 PROVE  AliveOn(j, e)' <=> j = x
      BY DEF AsOfDateResolves
    <3>1. e \in Nat /\ d \in Nat
      BY Bounds, <1>1
    <3>2. CASE e \in own[x]
      <4>1. e < d /\ (AliveOn(j, e) <=> j = x)
        BY <3>2, <2>1 DEF InOrder, AsOfDateResolves
      <4>2. CASE j \in Used
        <5>1. AliveOn(j, e)' <=> AliveOn(j, e)
          BY <4>2, <1>4, <1>5 DEF AliveOn
        <5> QED BY <4>1, <5>1
      <4>3. CASE j \notin Used
        <5>1. j # x
          BY <4>3, <3>2, <1>3 DEF NoTrace
        <5>2. ~(d <= e)
          BY <3>1, <4>1
        <5>3. j \in Used' => sec'[j].first = d
          BY <4>3, <1>4, <1>5
        <5> QED BY <5>1, <5>2, <5>3 DEF AliveOn
      <4> QED BY <4>2, <4>3
    <3>3. CASE e \notin own[x]
      <4>1. e = d /\ x = i /\ own'[i] # own[i]
        BY <3>3, <1>4
      <4>2. (x \in Live \/ (x \notin Used /\ Live = {})) /\ x \in Used' /\ sec'[x].died = None
        <5>1. x \in Live \/ (x \notin Used /\ Live = {})
          BY <4>1, <1>4
        <5>2. sec[x].died = None
          BY <5>1, <1>3 DEF Live, NoTrace
        <5> QED BY <5>1, <5>2, <4>1, <1>4, <1>5
      <4>3. sec'[x].first <= d
        <5>1. CASE x \in Used
          <6>1. PICK f \in own[x] : TRUE
            BY <5>1, <2>1 DEF InOrder
          <6>2. f \in Dates /\ f < d
            BY <6>1, <2>1, <1>3, Types DEF InOrder
          <6>3. sec[x].first <= f
            BY <6>1, <6>2, <2>1 DEF AsOfDateResolves, AliveOn
          <6>4. sec[x].first \in Nat /\ f \in Nat
            <7>1. sec[x].first \in Dates \cup {None} /\ f \in Dates
              BY <6>2, <1>3, Types
            <7>2. 0 \in Nat /\ Dates \subseteq Nat
              BY Bounds
            <7> QED BY <7>1, <7>2 DEF None
          <6>5. sec'[x] = sec[x]
            BY <5>1, <1>4
          <6> QED BY <6>2, <6>3, <6>4, <6>5, <3>1
        <5>2. CASE x \notin Used
          BY <5>2, <4>1, <1>4, <3>1
        <5> QED BY <5>1, <5>2
      <4>4. ASSUME j # x PROVE ~AliveOn(j, e)'
        <5>1. j \notin Used => j \notin Used'
          BY <4>1, <4>4, <1>5
        <5>2. j \in Used => j \notin Live
          BY <4>2, <4>4, <2>1
        <5>3. j \in Used => sec'[j].died # None /\ sec'[j].died <= d /\ sec'[j].died \in Nat
          <6> SUFFICES ASSUME j \in Used PROVE sec'[j].died # None /\ sec'[j].died <= d /\ sec'[j].died \in Nat
            OBVIOUS
          <6>1. sec[j].died # None /\ sec[j].died <= d /\ sec[j].died \in 0..(Last + 1)
            BY <5>2, <2>1, <1>1, <1>3, Types DEF Live
          <6> QED BY <6>1, <1>4, Bounds
        <5>4. j \in Used => ~(d < sec'[j].died)
          BY <5>3, <3>1
        <5> QED BY <5>1, <5>3, <5>4, <4>1 DEF AliveOn
      <4> QED BY <4>1, <4>2, <4>3, <4>4 DEF AliveOn
    <3> QED BY <3>2, <3>3
  <2> QED BY <2>2, <2>3, <2>4
<1>13. OrderlyInv'
  BY <1>10, <1>11 DEF OrderlyInv
<1> QED BY <1>6, <1>7, <1>8, <1>9, <1>12, <1>13 DEF IInv
LEMMA LoadFmpKeeps ==
    ASSUME IInv, NEW i \in Ids, LoadFmp(i) PROVE IInv'
<1>1. PICK new \in SUBSET Dates : own' = [own EXCEPT ![i] = @ \cup new]
  <2>1. world.prints \subseteq Dates
    BY Types DEF IInv, World
  <2> QED BY <2>1 DEF LoadFmp
<1>2. /\ i \in Used /\ ~Orderly /\ ~Orderly'
      /\ world' = world /\ torn' = torn /\ loaded' = loaded /\ sec' = sec /\ factor' = factor
      /\ splits' = splits /\ asOf' = asOf /\ audit' = audit /\ job' = job
      /\ misdated' = misdated /\ audited' = FALSE /\ adjusted' = FALSE
      /\ Used' = Used
  BY DEF LoadFmp, Stale, Orderly, Used
<1>3. Typed /\ NoTrace /\ FactorInv /\ RowsInv
  BY DEF IInv
<1>4. /\ own' \in [Ids -> SUBSET Dates] /\ \A j \in Ids : own[j] \subseteq own'[j]
      /\ \A j \in Ids \ {i} : own'[j] = own[j]
  BY <1>1, <1>3, Types
<1>5. Typed'
  <2>1. misdated \in BOOLEAN
    BY <1>3 DEF Typed, TypeOK
  <2> QED BY <2>1, <1>2, <1>3, <1>4, Types, TypedFrom
<1>6. NoTrace'
  BY <1>2, <1>3, <1>4 DEF NoTrace
<1>7. FactorInv'
  <2>1. Covered \subseteq Covered'
    BY <1>2, <1>4 DEF Covered
  <2> QED BY <2>1, <1>2, <1>3, <1>4 DEF FactorInv
<1>8. RowsInv'
  BY <1>2, <1>3 DEF RowsInv
<1> QED BY <1>2, <1>5, <1>6, <1>7, <1>8 DEF IInv, AdjustInv, AuditInv, OrderlyInv, DatesInv

LEMMA RecopyKeeps ==
    ASSUME IInv, NEW d \in Dates, Recopy(d) PROVE IInv'
<1>1. /\ torn' = torn \ {d} /\ d \in torn /\ world' = world /\ loaded' = loaded /\ sec' = sec
      /\ own' = own /\ factor' = factor /\ splits' = splits /\ asOf' = asOf /\ audit' = audit
      /\ job' = job /\ audited' = audited /\ adjusted' = adjusted /\ misdated' = misdated
  BY DEF Recopy
<1>2. Typed /\ NoTrace /\ FactorInv /\ AdjustInv /\ AuditInv /\ RowsInv
  BY DEF IInv
<1>3. ~Orderly'
  BY <1>1, <1>2, Types DEF Orderly
<1>4. Typed'
  <2>1. {audited, adjusted, misdated} \subseteq BOOLEAN
    BY <1>2 DEF Typed, TypeOK
  <2> QED BY <2>1, <1>1, <1>2, Types, TypedFrom
<1>5. NoTrace' /\ FactorInv' /\ AdjustInv' /\ AuditInv' /\ RowsInv'
  BY <1>1, <1>2, NoTraceStays, FactorStays, AdjustStays, AuditStays, RowsStay
<1> QED BY <1>3, <1>4, <1>5 DEF IInv, OrderlyInv, DatesInv
-----------------------------------------------------------------------------
(* The audit                                                               *)

LEMMA IdleIs == Idle \in Job /\ Idle.cmd = "idle" /\ Idle.rows = {} /\ Idle.to = None
<1>1. 0 \in (-1)..(AbortAfter - 1)
  BY Bounds
<1> QED BY <1>1 DEF Idle, Job, Commands

\* A job that begins with nothing dealt with.
LEMMA JobIs ==
    ASSUME NEW c \in Commands, NEW R \in SUBSET Row, NEW t \in Dates \cup {None}
    PROVE  [cmd |-> c, rows |-> R, fails |-> 0, to |-> t] \in Job
<1>1. 0 \in (-1)..(AbortAfter - 1)
  BY Bounds
<1> QED BY <1>1 DEF Job

LEMMA AuditReadKeeps == ASSUME IInv, AuditRead PROVE IInv'
<1>1. /\ job = Idle /\ job' = [Idle EXCEPT !.cmd = "audit", !.rows = Found] /\ audited' = TRUE
      /\ world' = world /\ torn' = torn /\ loaded' = loaded /\ sec' = sec
      /\ own' = own /\ factor' = factor /\ splits' = splits /\ asOf' = asOf /\ audit' = audit
      /\ adjusted' = adjusted /\ misdated' = misdated /\ Used' = Used
  BY DEF AuditRead, Used
<1>2. Typed /\ NoTrace /\ FactorInv /\ AdjustInv /\ RowsInv /\ OrderlyInv /\ DatesInv
  BY DEF IInv
<1>3. job' \in Job /\ job'.cmd = "audit" /\ job'.rows = Found /\ job.cmd = "idle"
  <2>1. Found \in SUBSET Row /\ "audit" \in Commands /\ None \in Dates \cup {None}
    BY DEF Found, Commands
  <2>2. job' = [cmd |-> "audit", rows |-> Found, fails |-> 0, to |-> None]
    BY <1>1 DEF Idle
  <2>3. job' \in Job
    BY <2>1, <2>2, JobIs
  <2> QED BY <2>2, <2>3, <1>1, IdleIs
<1>4. Typed'
  <2>1. {adjusted, misdated} \subseteq BOOLEAN
    BY <1>2 DEF Typed, TypeOK
  <2> QED BY <2>1, <1>1, <1>2, <1>3, Types, TypedFrom
<1>5. NoTrace' /\ FactorInv' /\ AdjustInv' /\ DatesInv'
  <2>1. job'.cmd \notin Stages /\ {job.cmd, job'.cmd} \cap Stages = {}
    BY <1>3 DEF Stages
  <2> QED BY <2>1, <1>1, <1>2, NoTraceStays, FactorStays, AdjustStays, DatesStay
<1>6. AuditInv'
  <2>1. Found' = Found
    BY <1>1, FoundStays
  <2> QED BY <2>1, <1>3 DEF AuditInv
<1>7. RowsInv'
  <2>1. \A h \in Found : h.id \in Ids /\ own[h.id] # {}
    BY DEF Found, Row, Hole
  <2>2. \A h \in Found : h.id \in Used
    BY <2>1, <1>2 DEF NoTrace
  <2> QED BY <2>2, <1>1, <1>3 DEF RowsInv
<1>8. OrderlyInv'
  <2>1. /\ Orderly' = Orderly /\ InOrder' = InOrder
        /\ \A i, s, r : Hole(i, s, r)' = Hole(i, s, r)
        /\ \A i, s : Ends(i, s)' = Ends(i, s)
    BY <1>1 DEF Orderly, InOrder, Hole, Ends, Bars
  <2>2. \A h \in job'.rows : Hole(h.id, h.last, h.next)
    BY <1>3 DEF Found
  <2> QED BY <2>1, <2>2, <1>1, <1>2, <1>3 DEF OrderlyInv, HolesStand, SplicesStand
<1> QED BY <1>4, <1>5, <1>6, <1>7, <1>8 DEF IInv

\* A hole has one end.
LEMMA HoleEnds ==
    ASSUME Typed, NEW i \in Ids, NEW s \in Dates, NEW r \in Dates, NEW x \in Dates,
           Hole(i, s, r), Hole(i, s, x)
    PROVE  r = x
<1>1. /\ r \in own[i] /\ x \in own[i] /\ s < r /\ s < x
      /\ Bars(i, s + 1, r - 1) = {} /\ Bars(i, s + 1, x - 1) = {}
  BY DEF Hole
<1>2. r \in Nat /\ s \in Nat /\ x \in Nat
  BY Bounds
<1>3. ~(s + 1 <= r /\ r <= x - 1) /\ ~(s + 1 <= x /\ x <= r - 1)
  BY <1>1 DEF Bars
<1> QED BY <1>1, <1>2, <1>3

LEMMA MergedIs ==
    ASSUME NEW old \in NonTerminal \cup Terminal \cup {"none"},
           NEW seen \in {"halt_consistent", "pending_review"}
    PROVE  /\ Merged(old, seen) \in NonTerminal \cup Terminal
           /\ Merged(old, seen) = "spliced" => old = "spliced"
           /\ old \in {"spliced", "halt_accepted"} => Merged(old, seen) = old
           /\ seen = "halt_consistent" => Merged(old, seen) \notin {"pending_review", "none"}
           /\ seen = "pending_review" => Merged(old, seen) \notin {"halt_consistent", "none"}
<1> QED BY DEF Merged, Kept, NonTerminal, Terminal

LEMMA AuditWriteKeeps == ASSUME IInv, AuditWrite PROVE IInv'
<1> DEFINE Seen(i, s, r) == IF InBand(i, s, r) THEN "halt_consistent" ELSE "pending_review"
           At(i, s) == {h \in job.rows : h.id = i /\ h.last = s}
<1>1. /\ job.cmd = "audit"
      /\ world' = world /\ torn' = torn /\ loaded' = loaded /\ sec' = sec
      /\ own' = own /\ factor' = factor /\ splits' = splits /\ asOf' = asOf
      /\ audited' = audited /\ adjusted' = adjusted /\ misdated' = misdated /\ Used' = Used
  BY DEF AuditWrite, Used
<1>2. Typed /\ NoTrace /\ FactorInv /\ AdjustInv /\ AuditInv /\ RowsInv /\ OrderlyInv /\ DatesInv
  BY DEF IInv
\* What the upsert leaves in each place.
<1>3. ASSUME NEW i \in Ids, NEW s \in Dates
      PROVE  /\ At(i, s) = {} => audit'[i][s] = audit[i][s]
             /\ At(i, s) # {} => \E h \in At(i, s) :
                   /\ audit'[i][s].resume = h.next
                   /\ audit'[i][s].kind = Merged(audit[i][s].kind, Seen(i, s, h.next))
  <2>1. CASE At(i, s) = {}
    BY <2>1 DEF AuditWrite
  <2>2. CASE At(i, s) # {}
    <3>1. PICK h : h = CHOOSE x \in job.rows : x.id = i /\ x.last = s
      OBVIOUS
    <3>2. h \in job.rows /\ h.id = i /\ h.last = s
      BY <2>2, <3>1
    <3>3. audit'[i][s] = [resume |-> h.next,
                          kind |-> Merged(audit[i][s].kind, Seen(i, s, h.next))]
      <4>1. \E x \in job.rows : x.id = i /\ x.last = s
        BY <2>2
      <4> QED BY <4>1, <3>1 DEF AuditWrite
    <3> QED BY <2>2, <3>2, <3>3
  <2> QED BY <2>1, <2>2
<1>4. ASSUME NEW i \in Ids, NEW s \in Dates
      PROVE  /\ audit'[i][s] \in [resume : Dates \cup {None}, kind : NonTerminal \cup Terminal \cup {"none"}]
             /\ audit'[i][s].kind = "spliced" => audit[i][s].kind = "spliced"
  <2>1. audit[i][s] \in [resume : Dates \cup {None}, kind : NonTerminal \cup Terminal \cup {"none"}]
    BY <1>2, Types
  <2>2. CASE At(i, s) = {}
    BY <1>3, <2>1, <2>2
  <2>3. CASE At(i, s) # {}
    <3>1. PICK h \in At(i, s) :
             /\ audit'[i][s].resume = h.next
             /\ audit'[i][s].kind = Merged(audit[i][s].kind, Seen(i, s, h.next))
      BY <1>3, <2>3
    <3>2. h.next \in Dates
      BY <1>2, Types DEF Job, Row
    <3>3. /\ Merged(audit[i][s].kind, Seen(i, s, h.next)) \in NonTerminal \cup Terminal
          /\ Merged(audit[i][s].kind, Seen(i, s, h.next)) = "spliced" => audit[i][s].kind = "spliced"
      BY <2>1, MergedIs
    <3>4. audit'[i][s] = [resume |-> h.next,
                          kind |-> Merged(audit[i][s].kind, Seen(i, s, h.next))]
      <4>1. PICK g : g = CHOOSE x \in job.rows : x.id = i /\ x.last = s
        OBVIOUS
      <4>2. audit'[i][s] = [resume |-> g.next,
                            kind |-> Merged(audit[i][s].kind, Seen(i, s, g.next))]
        <5>1. \E x \in job.rows : x.id = i /\ x.last = s
          BY <2>3
        <5> QED BY <4>1, <5>1 DEF AuditWrite
      <4> QED BY <4>2, <3>1
    <3> HIDE DEF Seen
    <3> QED BY <3>1, <3>2, <3>3, <3>4
  <2> QED BY <2>2, <2>3
<1>5. audit' \in [Ids -> [Dates -> [resume : Dates \cup {None},
                                    kind : NonTerminal \cup Terminal \cup {"none"}]]]
  <2>1. \E f : audit' = [i \in Ids |-> [s \in Dates |-> f[i][s]]]
    <3>1. audit' = [i \in Ids |-> [s \in Dates |-> audit'[i][s]]]
      BY DEF AuditWrite
    <3> QED BY <3>1
  <2> QED BY <2>1, <1>4
\* The run ends, or goes on to rows that are on file.
<1>6. \/ job' = Idle
      \/ job'.cmd = "provider" /\ \E targets : job'.rows = Filed(audit', targets) /\ job' \in Job
  <2>1. ASSUME NEW targets PROVE Filed(audit', targets) \in SUBSET Row
    BY DEF Filed
  <2>2. \/ job' = Idle
        \/ \E targets : job' = [Idle EXCEPT !.cmd = "provider", !.rows = Filed(audit', targets)]
    BY DEF AuditWrite
  <2>3. "provider" \in Commands
    BY DEF Commands
  <2>4. CASE \E targets : job' = [Idle EXCEPT !.cmd = "provider", !.rows = Filed(audit', targets)]
    <3>1. PICK targets : job' = [Idle EXCEPT !.cmd = "provider", !.rows = Filed(audit', targets)]
      BY <2>4
    <3>2. PICK R \in SUBSET Row : R = Filed(audit', targets)
      BY <2>1
    <3>3. job' = [cmd |-> "provider", rows |-> R, fails |-> 0, to |-> None]
      BY <3>1, <3>2 DEF Idle
    <3>4. job'.cmd = "provider" /\ job'.rows = R /\ job' \in Job
      BY <2>3, <3>3, JobIs
    <3> QED BY <3>2, <3>4
  <2> QED BY <2>2, <2>4
<1>7. /\ job' \in Job /\ job'.cmd \in {"idle", "provider"}
      /\ \A h \in job'.rows : h \in Row /\ audit'[h.id][h.last].resume = h.next
  BY <1>6, IdleIs DEF Filed
<1>8. Typed'
  <2>1. {audited, adjusted, misdated} \subseteq BOOLEAN
    BY <1>2 DEF Typed, TypeOK
  <2> QED BY <2>1, <1>1, <1>2, <1>5, <1>7, Types, TypedFrom
<1>9. NoTrace'
  <2>1. ASSUME NEW i \in Ids \ Used, NEW s \in Dates PROVE audit'[i][s].resume = None
    <3>1. At(i, s) = {}
      BY <1>2 DEF RowsInv
    <3> QED BY <3>1, <1>2, <1>3 DEF NoTrace
  <2> QED BY <2>1, <1>1, <1>2 DEF NoTrace
<1>10. FactorInv' /\ AdjustInv' /\ DatesInv'
  <2>1. job'.cmd \notin Stages /\ {job.cmd, job'.cmd} \cap Stages = {}
    BY <1>1, <1>7 DEF Stages
  <2> QED BY <2>1, <1>1, <1>2, FactorStays, AdjustStays, DatesStay
<1>11. AuditInv'
  <2> SUFFICES ASSUME audited PROVE \A h \in Found' : FiledRight(h)'
    BY <1>1, <1>7 DEF AuditInv
  <2>1. job.rows = Found
    BY <1>1, <1>2 DEF AuditInv
  <2>2. Found' = Found /\ \A i, s, r : InBand(i, s, r)' = InBand(i, s, r)
    <3>1. Covered' = Covered
      BY <1>1 DEF Covered
    <3> QED BY <3>1, <1>1 DEF Found, Hole, Bars, Missed, InBand, Raw
  <2>3. ASSUME NEW h \in Found PROVE FiledRight(h)'
    <3>1. h \in Row /\ h.id \in Ids /\ h.last \in Dates /\ h.next \in Dates /\ Hole(h.id, h.last, h.next)
      BY DEF Found, Row
    <3>2. At(h.id, h.last) # {}
      BY <2>1
    <3>3. PICK g \in At(h.id, h.last) :
             /\ audit'[h.id][h.last].resume = g.next
             /\ audit'[h.id][h.last].kind = Merged(audit[h.id][h.last].kind, Seen(h.id, h.last, g.next))
      BY <3>1, <3>2, <1>3
    <3>4. g.next = h.next
      <4>1. g.id = h.id /\ g.last = h.last /\ g.next \in Dates /\ Hole(g.id, g.last, g.next)
        BY <2>1 DEF Found, Row
      <4> QED BY <4>1, <3>1, <1>2, HoleEnds
    <3>5. audit[h.id][h.last].kind \in NonTerminal \cup Terminal \cup {"none"}
      BY <3>1, <1>2, Types
    <3>6. CASE InBand(h.id, h.last, h.next)
      <4>1. audit'[h.id][h.last].kind \notin {"pending_review", "none"}
        BY <3>3, <3>4, <3>5, <3>6, MergedIs
      <4> QED BY <4>1, <3>3, <3>4, <3>6, <2>2 DEF FiledRight
    <3>7. CASE ~InBand(h.id, h.last, h.next)
      <4>1. audit'[h.id][h.last].kind \notin {"halt_consistent", "none"}
        BY <3>3, <3>4, <3>5, <3>7, MergedIs
      <4> QED BY <4>1, <3>3, <3>4, <3>7, <2>2 DEF FiledRight
    <3> QED BY <3>6, <3>7
  <2> QED BY <2>2, <2>3
<1>12. RowsInv'
  <2>1. \A h \in job'.rows : h.id \in Used
    <3>1. ASSUME NEW h \in job'.rows PROVE h.id \in Used
      <4>1. h.id \in Ids /\ h.last \in Dates /\ h.next \in Dates /\ audit'[h.id][h.last].resume = h.next
        BY <1>7 DEF Row
      <4> QED BY <4>1, <1>1, <1>9, Bounds, ZenonT(60) DEF NoTrace
    <3> QED BY <3>1
  <2> QED BY <2>1, <1>1, <1>7 DEF RowsInv
<1>13. OrderlyInv'
  <2> SUFFICES ASSUME Orderly' PROVE InOrder' /\ HolesStand' /\ SplicesStand'
    BY DEF OrderlyInv
  <2>1. /\ InOrder /\ HolesStand /\ SplicesStand
    BY <1>1, <1>2 DEF OrderlyInv, Orderly
  <2>2. /\ InOrder'
        /\ \A i, s, r : Hole(i, s, r)' <=> {s, r} \subseteq own[i] /\ s < r /\ Bars(i, s + 1, r - 1) = {}
        /\ \A i, s : Ends(i, s)' = Ends(i, s)
    BY <1>1, <2>1 DEF InOrder, Hole, Ends, Bars
  <2>3. HolesStand'
    <3>1. ASSUME NEW i \in Ids, NEW s \in Dates, audit'[i][s].resume # None
          PROVE  /\ {s, audit'[i][s].resume} \subseteq loaded'
                 /\ {s, audit'[i][s].resume} \subseteq own'[i] => Hole(i, s, audit[i][s].resume)'
      <4>0. PICK r : r = audit'[i][s].resume
        OBVIOUS
      <4>1. CASE At(i, s) = {}
        <5>1. r = audit[i][s].resume
          BY <4>0, <4>1, <1>3
        <5>2. {s, r} \subseteq loaded /\ ({s, r} \subseteq own[i] => Hole(i, s, r))
          BY <5>1, <4>0, <3>1, <2>1 DEF HolesStand
        <5> QED BY <5>2, <4>0, <1>1, <2>2 DEF Hole
      <4>2. CASE At(i, s) # {}
        <5>1. PICK h \in At(i, s) : r = h.next
          BY <4>0, <4>2, <1>3
        <5>2. Hole(i, s, r)
          BY <5>1, <1>1, <2>1 DEF HolesStand
        <5>3. {s, r} \subseteq loaded
          BY <5>2, <2>1 DEF Hole, InOrder
        <5> QED BY <5>2, <5>3, <4>0, <1>1, <2>2 DEF Hole
      <4> QED BY <4>1, <4>2
    <3> QED BY <3>1, <1>7 DEF HolesStand
  <2>4. SplicesStand'
    BY <2>1, <2>2, <1>4, <1>7 DEF SplicesStand
  <2> QED BY <2>2, <2>3, <2>4
<1> QED BY <1>8, <1>9, <1>10, <1>11, <1>12, <1>13 DEF IInv
-----------------------------------------------------------------------------
(* Steps that change the job alone, or what the audit says of a hole       *)

\* What the rows of a job may be.
OnFile(q) == \A h \in q.rows : h.id \in Used /\ audit[h.id][h.last].resume = h.next

LEMMA JobStep ==
    ASSUME IInv, UNCHANGED <<world, torn, loaded, sec, own, factor, splits, asOf, audit, misdated>>,
           job' \in Job, job'.cmd \notin Stages \cup {"audit", "mark"}, OnFile(job'),
           audited' \in BOOLEAN, adjusted' \in BOOLEAN,
           audited' => audited /\ job.cmd # "audit", adjusted' => adjusted /\ job.cmd \notin Stages
    PROVE  IInv'
<1>1. /\ world' = world /\ torn' = torn /\ loaded' = loaded /\ sec' = sec
      /\ own' = own /\ factor' = factor /\ splits' = splits /\ asOf' = asOf /\ audit' = audit
      /\ misdated' = misdated /\ Used' = Used
  BY DEF Used
<1>2. Typed /\ NoTrace /\ FactorInv /\ AdjustInv /\ AuditInv /\ RowsInv /\ OrderlyInv /\ DatesInv
  BY DEF IInv
<1>3. Typed'
  <2>1. misdated \in BOOLEAN
    BY <1>2 DEF Typed, TypeOK
  <2> QED BY <2>1, <1>1, <1>2, Types, TypedFrom
<1>4. NoTrace' /\ DatesInv' /\ FactorInv' /\ OrderlyInv'
  BY <1>1, <1>2, NoTraceStays, DatesStay, FactorStays, OrderlyStays
<1>5. AdjustInv'
  <2>1. adjusted' => adjusted /\ {job.cmd, job'.cmd} \cap Stages = {}
    OBVIOUS
  <2> QED BY <2>1, <1>1, <1>2, AdjustStays
<1>6. AuditInv'
  BY <1>1, <1>2, AuditStays
<1>7. RowsInv'
  BY <1>1 DEF RowsInv, OnFile
<1> QED BY <1>3, <1>4, <1>5, <1>6, <1>7 DEF IInv

LEMMA IdleOnFile == OnFile(Idle)
<1> QED BY IdleIs DEF OnFile

\* The rows of some dispositions, as a job.
LEMMA FiledOnFile ==
    ASSUME Typed, NoTrace, NEW q, NEW targets, q.rows \subseteq Filed(audit, targets)
    PROVE  OnFile(q)
<1>1. ASSUME NEW h \in Filed(audit, targets)
      PROVE  h.id \in Used /\ audit[h.id][h.last].resume = h.next
  <2>1. h \in Row /\ audit[h.id][h.last].resume = h.next
    BY DEF Filed
  <2>2. h.id \in Ids /\ h.last \in Dates /\ h.next \in Dates
    BY <2>1 DEF Row
  <2> QED BY <2>1, <2>2, Bounds DEF NoTrace
<1> QED BY <1>1 DEF OnFile

LEMMA LessOnFile ==
    ASSUME RowsInv, job.cmd \in {"provider", "splice", "mark"}, NEW q, q.rows \subseteq job.rows
    PROVE  OnFile(q)
<1> QED BY DEF RowsInv, OnFile

LEMMA CommandSets ==
    /\ "idle" \notin Stages \cup {"audit", "mark"} /\ "splice" \notin Stages \cup {"audit", "mark"}
    /\ "provider" \notin Stages \cup {"audit", "mark"}
    /\ Stages = {"refactor", "reset", "fill"} /\ {"audit", "provider", "splice", "mark", "idle"} \subseteq Commands
    /\ Stages \subseteq Commands
<1> QED BY DEF Stages, Commands

LEMMA RunEndsKeeps == ASSUME IInv, RunEnds PROVE IInv'
<1>1. /\ job' = Idle /\ job.cmd \notin Stages \cup {"audit"} /\ {audited', adjusted'} \subseteq BOOLEAN
      /\ audited' = audited /\ adjusted' = adjusted
      /\ UNCHANGED <<world, torn, loaded, sec, own, factor, splits, asOf, audit, misdated>>
  BY CommandSets DEF RunEnds, IInv, Typed, TypeOK
<1>2. OnFile(job')
  BY <1>1, IdleOnFile DEF OnFile
<1> QED BY <1>1, <1>2, IdleIs, CommandSets, JobStep

LEMMA SpliceRefusedKeeps == ASSUME IInv, SpliceRefused PROVE IInv'
<1>1. /\ job' = Idle /\ job.cmd \notin Stages \cup {"audit"} /\ {audited', adjusted'} \subseteq BOOLEAN
      /\ audited' = audited /\ adjusted' = adjusted
      /\ UNCHANGED <<world, torn, loaded, sec, own, factor, splits, asOf, audit, misdated>>
  BY CommandSets DEF SpliceRefused, IInv, Typed, TypeOK
<1>2. OnFile(job')
  BY <1>1, IdleOnFile DEF OnFile
<1> QED BY <1>1, <1>2, IdleIs, CommandSets, JobStep

LEMMA KilledKeeps == ASSUME IInv, Killed PROVE IInv'
<1>1. /\ job' = Idle /\ {audited', adjusted'} \subseteq BOOLEAN
      /\ audited' => audited /\ job.cmd # "audit"
      /\ adjusted' => adjusted /\ job.cmd \notin Stages
      /\ UNCHANGED <<world, torn, loaded, sec, own, factor, splits, asOf, audit, misdated>>
  BY CommandSets DEF Killed, IInv, Typed, TypeOK
<1>2. OnFile(job')
  BY <1>1, IdleOnFile DEF OnFile
<1> QED BY <1>1, <1>2, IdleIs, CommandSets, JobStep

LEMMA SpliceBeginKeeps == ASSUME IInv, SpliceBegin PROVE IInv'
<1>1. /\ job = Idle /\ job.cmd \notin Stages \cup {"audit"} /\ {audited', adjusted'} \subseteq BOOLEAN
      /\ audited' = audited /\ adjusted' = adjusted
      /\ UNCHANGED <<world, torn, loaded, sec, own, factor, splits, asOf, audit, misdated>>
  BY IdleIs, CommandSets DEF SpliceBegin, IInv, Typed, TypeOK
<1>2. PICK wanted : job' = [Idle EXCEPT !.cmd = "splice", !.rows = Filed(audit, wanted)]
  BY DEF SpliceBegin
<1>3. Filed(audit, wanted) \in SUBSET Row
  BY DEF Filed
<1>4. job' \in Job /\ job'.cmd = "splice" /\ job'.rows = Filed(audit, wanted)
  <2>1. job' = [cmd |-> "splice", rows |-> Filed(audit, wanted), fails |-> 0, to |-> None]
    BY <1>2 DEF Idle
  <2>2. job' \in Job
    BY <2>1, <1>3, JobIs, CommandSets
  <2> QED BY <2>1, <2>2
<1>5. OnFile(job')
  BY <1>4, FiledOnFile DEF IInv, OnFile
<1> QED BY <1>1, <1>4, <1>5, CommandSets, JobStep

LEMMA SpliceSkipKeeps == ASSUME IInv, SpliceSkip PROVE IInv'
<1>1. /\ job.cmd = "splice" /\ {audited', adjusted'} \subseteq BOOLEAN
      /\ audited' = audited /\ adjusted' = adjusted
      /\ UNCHANGED <<world, torn, loaded, sec, own, factor, splits, asOf, audit, misdated>>
  BY DEF SpliceSkip, IInv, Typed, TypeOK
<1>2. PICK h : job' = [job EXCEPT !.rows = @ \ {h}]
  BY DEF SpliceSkip
<1>3. job' \in Job /\ job'.cmd = "splice" /\ job'.rows \subseteq job.rows
  BY <1>1, <1>2 DEF IInv, Typed, Job
<1>4. OnFile(job')
  BY <1>1, <1>3, LessOnFile DEF IInv, OnFile
<1> QED BY <1>1, <1>3, <1>4, CommandSets, JobStep

\* A step that says something new of a hole: not that nobody has looked at it, nor
\* that it is a halt; and "spliced" only of an identity that ends there.
Settled == (NonTerminal \cup Terminal) \ {"pending_review", "halt_consistent"}

LEMMA KindStep ==
    ASSUME IInv, UNCHANGED <<world, torn, loaded, sec, own, factor, splits, asOf,
                             audited, adjusted, misdated>>,
           audit' \in [Ids -> [Dates -> [resume : Dates \cup {None},
                                         kind : NonTerminal \cup Terminal \cup {"none"}]]],
           \A i \in Ids, s \in Dates :
              /\ audit'[i][s].resume = audit[i][s].resume
              /\ audit'[i][s].kind = audit[i][s].kind \/ audit'[i][s].kind \in Settled
              /\ Orderly /\ audit'[i][s].kind = "spliced" => audit[i][s].kind = "spliced" \/ Ends(i, s),
           \/ job' = job
           \/ /\ job' \in Job /\ OnFile(job') /\ {job.cmd, job'.cmd} \cap (Stages \cup {"audit"}) = {}
              /\ job'.cmd # "mark"
    PROVE  IInv'
<1>1. /\ world' = world /\ torn' = torn /\ loaded' = loaded /\ sec' = sec
      /\ own' = own /\ factor' = factor /\ splits' = splits /\ asOf' = asOf
      /\ audited' = audited /\ adjusted' = adjusted /\ misdated' = misdated /\ Used' = Used
  BY DEF Used
<1>2. Typed /\ NoTrace /\ FactorInv /\ AdjustInv /\ AuditInv /\ RowsInv /\ OrderlyInv /\ DatesInv
  BY DEF IInv
<1>3. /\ job' \in Job
      /\ job' = job \/ {job.cmd, job'.cmd} \cap Stages = {}
      /\ job' = job \/ (job.cmd # "audit" /\ job'.cmd # "audit")
      /\ job'.cmd \notin Stages \/ job' = job
  BY <1>2 DEF Typed
<1>4. Typed'
  <2>1. {audited, adjusted, misdated} \subseteq BOOLEAN
    BY <1>2 DEF Typed, TypeOK
  <2> QED BY <2>1, <1>1, <1>2, <1>3, Types, TypedFrom
<1>5. NoTrace' /\ DatesInv' /\ FactorInv' /\ AdjustInv'
  <2>1. NoTrace'
    BY <1>1, <1>2 DEF NoTrace
  <2> QED BY <2>1, <1>1, <1>2, <1>3, DatesStay, FactorStays, AdjustStays
<1>6. AuditInv'
  <2>1. Found' = Found /\ \A i, s, r : InBand(i, s, r)' = InBand(i, s, r)
    <3>1. Covered' = Covered
      BY <1>1 DEF Covered
    <3> QED BY <3>1, <1>1 DEF Found, Hole, Bars, Missed, InBand, Raw
  <2>2. ASSUME NEW h \in Found, FiledRight(h) PROVE FiledRight(h)'
    <3>1. h.id \in Ids /\ h.last \in Dates
      BY DEF Found, Row
    <3>2. /\ audit'[h.id][h.last].resume = audit[h.id][h.last].resume
          /\ audit'[h.id][h.last].kind = audit[h.id][h.last].kind \/ audit'[h.id][h.last].kind \in Settled
      BY <3>1
    <3>3. {"pending_review", "none", "halt_consistent"} \cap Settled = {}
      BY DEF Settled, NonTerminal, Terminal
    <3> QED BY <2>1, <2>2, <3>2, <3>3 DEF FiledRight
  <2> QED BY <2>1, <2>2, <1>1, <1>2, <1>3 DEF AuditInv
<1>7. RowsInv'
  <2>1. ASSUME NEW h \in job'.rows PROVE h.id \in Ids /\ h.last \in Dates
    BY <1>3 DEF Job, Row
  <2>2. CASE job' = job
    BY <2>1, <2>2, <1>1, <1>2 DEF RowsInv
  <2>3. CASE OnFile(job')
    BY <2>1, <2>3, <1>1 DEF RowsInv, OnFile
  <2> QED BY <2>2, <2>3
<1>8. OrderlyInv'
  <2> SUFFICES ASSUME Orderly' PROVE InOrder' /\ HolesStand' /\ SplicesStand'
    BY DEF OrderlyInv
  <2>1. /\ InOrder /\ HolesStand /\ SplicesStand /\ Orderly
    BY <1>1, <1>2 DEF OrderlyInv, Orderly
  <2>2. /\ InOrder'
        /\ \A i, s, r : Hole(i, s, r)' <=> {s, r} \subseteq own[i] /\ s < r /\ Bars(i, s + 1, r - 1) = {}
        /\ \A i, s : Ends(i, s)' = Ends(i, s)
    BY <1>1, <2>1 DEF InOrder, Hole, Ends, Bars
  <2>3. HolesStand'
    <3>1. job'.cmd = "audit" => \A h \in job'.rows : Hole(h.id, h.last, h.next)'
      BY <1>3, <2>1, <2>2 DEF HolesStand, Hole
    <3>2. ASSUME NEW i \in Ids, NEW s \in Dates, audit'[i][s].resume # None
          PROVE  /\ {s, audit'[i][s].resume} \subseteq loaded'
                 /\ {s, audit'[i][s].resume} \subseteq own'[i] => Hole(i, s, audit[i][s].resume)'
      <4>1. PICK r : r = audit'[i][s].resume /\ r = audit[i][s].resume
        OBVIOUS
      <4>2. {s, r} \subseteq loaded /\ ({s, r} \subseteq own[i] => Hole(i, s, r))
        BY <4>1, <3>2, <2>1 DEF HolesStand
      <4>3. {s, r} \subseteq own[i] => Hole(i, s, r)'
        BY <4>2, <2>2 DEF Hole
      <4> QED BY <4>1, <4>2, <4>3, <1>1
    <3> QED BY <3>1, <3>2 DEF HolesStand
  <2>4. SplicesStand'
    <3>1. ASSUME NEW i \in Ids, NEW s \in Dates, audit'[i][s].kind = "spliced" PROVE Ends(i, s)
      BY <3>1, <2>1 DEF SplicesStand
    <3>2. job'.cmd = "mark" => NextSplice' = NextSplice /\ job.cmd = "mark"
      BY DEF NextSplice
    <3> QED BY <3>1, <3>2, <2>1, <2>2 DEF SplicesStand
  <2> QED BY <2>2, <2>3, <2>4
<1> QED BY <1>4, <1>5, <1>6, <1>7, <1>8 DEF IInv

\* What a disposition changes.
LEMMA DisposeIs ==
    ASSUME Typed, NEW i \in Ids, NEW s \in Dates, NEW kind \in NonTerminal \cup Terminal, Dispose(i, s, kind)
    PROVE  /\ audit' \in [Ids -> [Dates -> [resume : Dates \cup {None},
                                            kind : NonTerminal \cup Terminal \cup {"none"}]]]
           /\ \A j \in Ids, x \in Dates :
                 /\ audit'[j][x].resume = audit[j][x].resume
                 /\ (j # i \/ x # s) => audit'[j][x].kind = audit[j][x].kind
           /\ audit'[i][s].kind = kind
<1>1. audit \in [Ids -> [Dates -> [resume : Dates \cup {None},
                                   kind : NonTerminal \cup Terminal \cup {"none"}]]]
  BY Types
<1>2. audit' = [audit EXCEPT ![i] = [audit[i] EXCEPT ![s] = [audit[i][s] EXCEPT !.kind = kind]]]
  BY DEF Dispose
<1>3. PICK e : e = [audit[i][s] EXCEPT !.kind = kind]
  OBVIOUS
<1>4. /\ e.resume = audit[i][s].resume /\ e.kind = kind
      /\ e \in [resume : Dates \cup {None}, kind : NonTerminal \cup Terminal \cup {"none"}]
  BY <1>1, <1>3
<1>5. PICK f : f = [audit[i] EXCEPT ![s] = e]
  OBVIOUS
<1>6. /\ f \in [Dates -> [resume : Dates \cup {None}, kind : NonTerminal \cup Terminal \cup {"none"}]]
      /\ f[s] = e /\ \A x \in Dates \ {s} : f[x] = audit[i][x]
  BY <1>1, <1>4, <1>5
<1>7. audit' = [audit EXCEPT ![i] = f]
  BY <1>2, <1>3, <1>5
<1>8. audit'[i] = f /\ \A j \in Ids \ {i} : audit'[j] = audit[j]
  BY <1>1, <1>7
<1> QED BY <1>1, <1>4, <1>6, <1>7, <1>8
LEMMA ProviderAnswersKeeps == ASSUME IInv, ProviderAnswers PROVE IInv'
<1>1. /\ job.cmd = "provider" /\ Typed /\ RowsInv
      /\ UNCHANGED <<world, torn, loaded, sec, own, factor, splits, asOf, audited, adjusted, misdated>>
  BY DEF ProviderAnswers, IInv
<1>2. PICK h \in job.rows : /\ Dispose(h.id, h.last, Evidence(h.last, h.next))
                            /\ job' = [job EXCEPT !.rows = @ \ {h}, !.fails = -1]
  BY DEF ProviderAnswers
<1>3. h.id \in Ids /\ h.last \in Dates
  BY <1>1, Types DEF Job, Row
<1>4. PICK kind \in (NonTerminal \cup Terminal) \cap Settled :
        kind # "spliced" /\ Dispose(h.id, h.last, kind)
  BY <1>2 DEF Evidence, NonTerminal, Terminal, Settled
<1>5. job' \in Job /\ job'.cmd = "provider" /\ job'.rows \subseteq job.rows
  <2>1. -1 \in (-1)..(AbortAfter - 1)
    BY Bounds
  <2> QED BY <1>1, <1>2, <2>1, Types DEF Job
<1>6. OnFile(job')
  BY <1>1, <1>5, LessOnFile DEF OnFile
<1> QED BY <1>1, <1>3, <1>4, <1>5, <1>6, DisposeIs, KindStep, CommandSets

LEMMA ProviderFailsKeeps == ASSUME IInv, ProviderFails PROVE IInv'
<1>1. /\ job.cmd = "provider" /\ Typed /\ RowsInv
      /\ UNCHANGED <<world, torn, loaded, sec, own, factor, splits, asOf, audited, adjusted, misdated>>
  BY DEF ProviderFails, IInv
<1>2. CASE job' = Idle /\ UNCHANGED audit
  <2>1. /\ audited' = audited /\ adjusted' = adjusted /\ {audited, adjusted} \subseteq BOOLEAN
        /\ OnFile(job') /\ job'.cmd = "idle" /\ job' \in Job
    BY <1>1, <1>2, IdleOnFile, IdleIs DEF Typed, TypeOK, OnFile
  <2> QED BY <1>1, <1>2, <2>1, CommandSets, JobStep
<1>3. CASE \E h \in job.rows :
             /\ Dispose(h.id, h.last, "provider_unresolvable") /\ job.fails + 1 # AbortAfter
             /\ job' = [job EXCEPT !.rows = @ \ {h}, !.fails = IF @ < 0 THEN @ ELSE @ + 1]
  <2>1. PICK h \in job.rows :
             /\ Dispose(h.id, h.last, "provider_unresolvable") /\ job.fails + 1 # AbortAfter
             /\ job' = [job EXCEPT !.rows = @ \ {h}, !.fails = IF @ < 0 THEN @ ELSE @ + 1]
    BY <1>3
  <2>2. h.id \in Ids /\ h.last \in Dates
    BY <1>1, Types DEF Job, Row
  <2>3. "provider_unresolvable" \in (NonTerminal \cup Terminal) \cap Settled
    BY DEF NonTerminal, Terminal, Settled
  <2>4. job' \in Job /\ job'.cmd = "provider" /\ job'.rows \subseteq job.rows
    <3>1. PICK n : n = IF job.fails < 0 THEN job.fails ELSE job.fails + 1
      OBVIOUS
    <3>2. n \in (-1)..(AbortAfter - 1)
      <4>1. job.fails \in (-1)..(AbortAfter - 1) /\ AbortAfter \in Nat
        BY <1>1, Types, Bounds DEF Job
      <4> QED BY <4>1, <3>1, <2>1
    <3>3. job' = [job EXCEPT !.rows = @ \ {h}, !.fails = n]
      BY <2>1, <3>1
    <3> QED BY <3>2, <3>3, <1>1, Types DEF Job
  <2>5. OnFile(job')
    BY <1>1, <2>4, LessOnFile DEF OnFile
  <2> QED BY <1>1, <2>1, <2>2, <2>3, <2>4, <2>5, DisposeIs, KindStep, CommandSets
<1> QED BY <1>2, <1>3 DEF ProviderFails

LEMMA SpliceMarkKeeps == ASSUME IInv, SpliceMark PROVE IInv'
<1>1. /\ job.cmd = "mark" /\ Typed /\ RowsInv /\ OrderlyInv
      /\ UNCHANGED <<world, torn, loaded, sec, own, factor, splits, asOf, audited, adjusted, misdated>>
  BY DEF SpliceMark, IInv
<1>2. PICK h \in NextSplice : /\ Dispose(h.id, h.last, "spliced")
                              /\ job' = [job EXCEPT !.cmd = "splice", !.rows = @ \ {h}]
  BY DEF SpliceMark
<1>3. h \in job.rows /\ h.id \in Ids /\ h.last \in Dates
  BY <1>1, Types DEF Job, Row, NextSplice
<1>4. "spliced" \in (NonTerminal \cup Terminal) \cap Settled
  BY DEF NonTerminal, Terminal, Settled
<1>5. Orderly => Ends(h.id, h.last)
  BY <1>1, <1>2 DEF OrderlyInv, SplicesStand
<1>6. job' \in Job /\ job'.cmd = "splice" /\ job'.rows \subseteq job.rows
  BY <1>1, <1>2, CommandSets, Types DEF Job
<1>7. OnFile(job')
  BY <1>1, <1>6, LessOnFile DEF OnFile
<1>8. /\ audit' \in [Ids -> [Dates -> [resume : Dates \cup {None},
                                       kind : NonTerminal \cup Terminal \cup {"none"}]]]
      /\ \A j \in Ids, x \in Dates :
            /\ audit'[j][x].resume = audit[j][x].resume
            /\ (j # h.id \/ x # h.last) => audit'[j][x].kind = audit[j][x].kind
      /\ audit'[h.id][h.last].kind = "spliced"
  BY <1>1, <1>2, <1>3, <1>4, DisposeIs
<1> QED BY <1>1, <1>4, <1>5, <1>6, <1>7, <1>8, KindStep, CommandSets

LEMMA CloseByFormKeeps == ASSUME IInv, CloseByForm PROVE IInv'
<1>1. /\ job' = job /\ Typed
      /\ UNCHANGED <<world, torn, loaded, sec, own, factor, splits, asOf, audited, adjusted, misdated>>
  BY DEF CloseByForm, IInv
<1>2. "non_common_instrument" \in (NonTerminal \cup Terminal) \cap Settled
  BY DEF NonTerminal, Terminal, Settled
<1>3. ASSUME NEW i \in Ids, NEW s \in Dates
      PROVE  /\ audit'[i][s] \in [resume : Dates \cup {None}, kind : NonTerminal \cup Terminal \cup {"none"}]
             /\ audit'[i][s].resume = audit[i][s].resume
             /\ audit'[i][s].kind = audit[i][s].kind \/ audit'[i][s].kind = "non_common_instrument"
  <2>1. audit[i][s] \in [resume : Dates \cup {None}, kind : NonTerminal \cup Terminal \cup {"none"}]
    BY <1>1, Types
  <2>2. audit'[i][s] = audit[i][s] \/ audit'[i][s] = [audit[i][s] EXCEPT !.kind = "non_common_instrument"]
    BY DEF CloseByForm
  <2> QED BY <2>1, <2>2, <1>2
<1>4. audit' \in [Ids -> [Dates -> [resume : Dates \cup {None},
                                    kind : NonTerminal \cup Terminal \cup {"none"}]]]
  <2>1. \E f : audit' = [i \in Ids |-> [s \in Dates |-> f[i][s]]]
    <3>1. audit' = [i \in Ids |-> [s \in Dates |-> audit'[i][s]]]
      BY DEF CloseByForm
    <3> QED BY <3>1
  <2> QED BY <2>1, <1>3
<1> QED BY <1>1, <1>2, <1>3, <1>4, KindStep

LEMMA AcceptKeeps ==
    ASSUME IInv, NEW i \in Ids, NEW s \in Dates, Accept(i, s) PROVE IInv'
<1>1. /\ job' = job /\ Typed /\ Dispose(i, s, "halt_accepted")
      /\ UNCHANGED <<world, torn, loaded, sec, own, factor, splits, asOf, audited, adjusted, misdated>>
  BY DEF Accept, IInv
<1>2. "halt_accepted" \in (NonTerminal \cup Terminal) \cap Settled
  BY DEF NonTerminal, Terminal, Settled
<1> QED BY <1>1, <1>2, DisposeIs, KindStep
-----------------------------------------------------------------------------
(* The splice                                                              *)

LEMMA SpliceKeeps ==
    ASSUME IInv, NEW i \in Ids, NEW s \in own[i], NEW r \in own[i], Ids # Used,
           Orderly => Hole(i, s, r), SpliceOne(i, s, r),
           UNCHANGED <<world, torn, loaded, asOf, audit, misdated>>,
           \/ job' = job /\ job.cmd = "idle"
           \/ /\ job.cmd = "splice" /\ job' = [job EXCEPT !.cmd = "mark"]
              /\ \A h \in NextSplice : h.id = i /\ h.last = s
    PROVE  IInv'
<1>1. /\ world' = world /\ torn' = torn /\ loaded' = loaded /\ asOf' = asOf /\ audit' = audit
      /\ misdated' = misdated /\ audited' = FALSE /\ adjusted' = FALSE
  BY DEF SpliceOne, Stale
<1>2. Typed /\ NoTrace /\ FactorInv /\ RowsInv /\ OrderlyInv /\ DatesInv
  BY DEF IInv
<1>3. PICK n \in Ids \ Used : n = Fresh
  BY FreshIs
<1>4. s \in Dates /\ r \in Dates /\ s \in Nat /\ r \in Nat /\ r # None /\ i \in Used /\ n # i
  <2>1. s \in Dates /\ r \in Dates
    BY <1>2, Types
  <2>2. i \in Used
    BY <1>2 DEF NoTrace
  <2> QED BY <2>1, <2>2, <1>3, Bounds
\* What the step does to each identity.
<1>5. PICK moved \in SUBSET own[i] : moved = {d \in own[i] : d >= r}
  OBVIOUS
<1>6. /\ sec' = [sec EXCEPT ![i].died = s + 1,
                            ![n] = [first |-> r, died |-> sec[i].died, typed |-> FALSE]]
      /\ own' = [own EXCEPT ![i] = @ \ moved, ![n] = moved]
      /\ factor' = [factor EXCEPT
             ![i] = [d \in Dates |-> IF d \in moved THEN Unset ELSE @[d]],
             ![n] = [d \in Dates |-> IF d \in moved THEN factor[i][d] ELSE Unset]]
      /\ splits' = [splits EXCEPT ![i] = {}, ![n] = splits[i]]
  BY <1>3, <1>5 DEF SpliceOne
<1>7. /\ own' \in [Ids -> SUBSET Dates] /\ own'[i] = own[i] \ moved /\ own'[n] = moved
      /\ \A j \in Ids \ {i, n} : own'[j] = own[j]
  BY <1>2, <1>4, <1>6, Types
<1>8. /\ sec' \in [Ids -> [first : Dates \cup {None}, died : 0..(Last + 1), typed : BOOLEAN]]
      /\ sec'[i].first = sec[i].first /\ sec'[i].died = s + 1
      /\ sec'[n].first = r /\ sec'[n].died = sec[i].died
      /\ \A j \in Ids \ {i, n} : sec'[j] = sec[j]
  <2>1. s + 1 \in 0..(Last + 1)
    BY <1>4, Bounds DEF Dates
  <2>2. sec \in [Ids -> [first : Dates \cup {None}, died : 0..(Last + 1), typed : BOOLEAN]]
    BY <1>2, Types
  <2>3. PICK q : q = [sec[i] EXCEPT !.died = s + 1]
    OBVIOUS
  <2>4. /\ q.first = sec[i].first /\ q.died = s + 1
        /\ q \in [first : Dates \cup {None}, died : 0..(Last + 1), typed : BOOLEAN]
    BY <2>1, <2>2, <2>3
  <2>5. PICK p : p = [first |-> r, died |-> sec[i].died, typed |-> FALSE]
    OBVIOUS
  <2>6. /\ p.first = r /\ p.died = sec[i].died
        /\ p \in [first : Dates \cup {None}, died : 0..(Last + 1), typed : BOOLEAN]
    BY <2>2, <2>5, <1>4
  <2>7. sec' = [sec EXCEPT ![i] = q, ![n] = p]
    BY <1>6, <2>3, <2>5
  <2>8. sec'[i] = q /\ sec'[n] = p /\ \A j \in Ids \ {i, n} : sec'[j] = sec[j]
    BY <1>4, <2>2, <2>7
  <2> QED BY <2>2, <2>4, <2>6, <2>7, <2>8
<1>9. /\ factor' \in [Ids -> [Dates -> (SUBSET ExDates) \cup {Unset}]]
      /\ \A d \in Dates : /\ factor'[i][d] = IF d \in moved THEN Unset ELSE factor[i][d]
                          /\ factor'[n][d] = IF d \in moved THEN factor[i][d] ELSE Unset
      /\ \A j \in Ids \ {i, n} : factor'[j] = factor[j]
  <2>1. factor \in [Ids -> [Dates -> (SUBSET ExDates) \cup {Unset}]]
    BY <1>2, Types
  <2>2. PICK a : a = [d \in Dates |-> IF d \in moved THEN Unset ELSE factor[i][d]]
    OBVIOUS
  <2>3. PICK b : b = [d \in Dates |-> IF d \in moved THEN factor[i][d] ELSE Unset]
    OBVIOUS
  <2>4. a \in [Dates -> (SUBSET ExDates) \cup {Unset}] /\ b \in [Dates -> (SUBSET ExDates) \cup {Unset}]
    BY <2>1, <2>2, <2>3
  <2>5. factor' = [factor EXCEPT ![i] = a, ![n] = b]
    BY <1>6, <2>2, <2>3
  <2>6. /\ factor'[i] = a /\ factor'[n] = b /\ \A j \in Ids \ {i, n} : factor'[j] = factor[j]
        /\ factor' \in [Ids -> [Dates -> (SUBSET ExDates) \cup {Unset}]]
    BY <1>4, <2>1, <2>4, <2>5
  <2> QED BY <2>2, <2>3, <2>6
<1>10. splits' \in [Ids -> SUBSET ExDates]
  BY <1>2, <1>6, Types
<1>11. job' \in Job /\ job'.rows = job.rows /\ job'.cmd \notin Stages \cup {"audit"}
  <2>1. "mark" \in Commands /\ "mark" \notin Stages \cup {"audit"}
    BY DEF Commands, Stages
  <2> QED BY <2>1, <1>2, Types, CommandSets DEF Job
<1>12. /\ \A j \in Ids : j \in Used' <=> j \in Used \/ j = n
       /\ \A j \in Ids : j \in Live' <=> (j \in Live /\ j # i) \/ (j = n /\ i \in Live)
  <2>1. \A j \in Ids : (j \in Used' <=> sec'[j].first # None) /\ (j \in Used <=> sec[j].first # None)
    BY DEF Used
  <2>2. \A j \in Ids : j \in Used' <=> j \in Used \/ j = n
    <3>1. ASSUME NEW j \in Ids PROVE j \in Used' <=> j \in Used \/ j = n
      BY <2>1, <1>4, <1>8
    <3> QED BY <3>1
  <2>3. \A j \in Ids : /\ j \in Live' <=> j \in Used' /\ sec'[j].died = None
                       /\ j \in Live <=> j \in Used /\ sec[j].died = None
    BY DEF Live, Used
  <2>4. s + 1 # None
    BY <1>4 DEF None
  <2>5. ASSUME NEW j \in Ids PROVE j \in Live' <=> (j \in Live /\ j # i) \/ (j = n /\ i \in Live)
    BY <2>2, <2>3, <2>4, <1>3, <1>4, <1>8
  <2> QED BY <2>2, <2>5
<1>13. Typed'
  <2>1. misdated \in BOOLEAN
    BY <1>2 DEF Typed, TypeOK
  <2> QED BY <2>1, <1>1, <1>2, <1>7, <1>8, <1>9, <1>10, <1>11, Types, TypedFrom
<1>14. NoTrace'
  <2>1. \A j \in Ids \ Used' : j \in (Ids \ Used) \ {i, n}
    BY <1>4, <1>12
  <2> QED BY <2>1, <1>1, <1>2, <1>7, <1>8 DEF NoTrace
<1>15. FactorInv'
  <2>1. Covered' = Covered
    <3>1. UNION {own'[j] : j \in Ids} = UNION {own[j] : j \in Ids}
      <4>1. own[n] = {} /\ own[i] = own'[i] \cup own'[n]
        BY <1>2, <1>3, <1>7 DEF NoTrace
      <4>2. \A d : (\E j \in Ids : d \in own'[j]) <=> (\E j \in Ids : d \in own[j])
        BY <4>1, <1>3, <1>7
      <4> QED BY <4>2
    <3> QED BY <3>1, <1>1 DEF Covered
  <2>2. ASSUME NEW j \in Ids, NEW d \in Dates, factor'[j][d] # Unset
        PROVE  d \in own'[j] /\ \A x \in factor'[j][d] : d < x /\ x <= asOf
    <3>1. PICK k \in Ids : /\ factor'[j][d] = factor[k][d]
                           /\ d \in own[k] => d \in own'[j]
      <4>1. CASE j = i
        <5>1. d \notin moved /\ factor'[i][d] = factor[i][d]
          BY <4>1, <2>2, <1>9
        <5> QED BY <4>1, <5>1, <1>7
      <4>2. CASE j = n
        <5>1. d \in moved /\ factor'[n][d] = factor[i][d]
          BY <4>2, <2>2, <1>9
        <5> QED BY <4>2, <5>1, <1>7
      <4>3. CASE j \notin {i, n}
        BY <4>3, <1>7, <1>9
      <4> QED BY <4>1, <4>2, <4>3
    <3>2. factor[k][d] # Unset
      BY <3>1, <2>2
    <3>3. d \in own[k] /\ \A x \in factor[k][d] : d < x /\ x <= asOf
      BY <3>2, <1>2 DEF FactorInv
    <3> QED BY <3>1, <3>3
  <2> QED BY <2>1, <2>2, <1>1, <1>2, <1>11 DEF FactorInv
<1>16. RowsInv'
  <2>1. \A h \in job.rows : h.id \in Used'
    <3>1. \A h \in job.rows : h.id \in Ids
      BY <1>2, Types DEF Job, Row
    <3> QED BY <3>1, <1>2, <1>12 DEF RowsInv
  <2>2. job'.cmd = "mark" => job.cmd \in {"provider", "splice", "mark"}
    OBVIOUS
  <2>3. job'.cmd \in {"provider", "splice", "mark"} => job.cmd \in {"provider", "splice", "mark"}
    BY <2>2
  <2> QED BY <2>1, <2>3, <1>1, <1>2, <1>11 DEF RowsInv
\* In order, the hole is one and nothing of the old series is after it.
<1>17. ASSUME Orderly'
       PROVE  /\ Orderly /\ InOrder /\ HolesStand /\ SplicesStand /\ Hole(i, s, r)
              /\ s < r /\ \A d \in own[i] : d < r => d <= s
  <2>1. Orderly /\ Hole(i, s, r)
    BY <1>1, <1>17 DEF Orderly
  <2>2. s < r /\ Bars(i, s + 1, r - 1) = {}
    BY <2>1 DEF Hole
  <2>3. ASSUME NEW d \in own[i], d < r PROVE d <= s
    <3>1. d \in Nat
      BY <1>2, Types, Bounds
    <3>2. ~(s + 1 <= d /\ d <= r - 1)
      BY <2>2 DEF Bars
    <3> QED BY <2>3, <3>1, <3>2, <1>4
  <2> QED BY <2>1, <2>2, <2>3, <1>2 DEF OrderlyInv
<1>18. ASSUME Orderly' PROVE InOrder' /\ HolesStand' /\ SplicesStand'
  <2>1. InOrder /\ HolesStand /\ SplicesStand /\ s < r /\ \A d \in own[i] : d < r => d <= s
    BY <1>17, <1>18
  <2>2. \A d \in own'[i] : d \in own[i] /\ d <= s
    <3>1. ASSUME NEW d \in own'[i] PROVE d \in own[i] /\ d <= s
      <4>1. d \in own[i] /\ ~(d >= r) /\ d \in Nat
        BY <1>2, <1>5, <1>7, Types, Bounds
      <4> QED BY <4>1, <2>1, <1>4
    <3> QED BY <3>1
  <2>3. s \in own'[i] /\ r \in own'[n]
    BY <2>1, <1>4, <1>5, <1>7
  <2>4. InOrder'
    <3>1. \A j \in Ids : own'[j] \subseteq loaded
      <4>1. ASSUME NEW j \in Ids PROVE own'[j] \subseteq loaded
        <5>1. own[i] \subseteq loaded /\ own[j] \subseteq loaded
          BY <2>1 DEF InOrder
        <5>2. j = i \/ j = n \/ j \in Ids \ {i, n}
          OBVIOUS
        <5> QED BY <5>1, <5>2, <1>7
      <4> QED BY <4>1
    <3>2. \A j \in Used' : own'[j] # {}
      <4>1. ASSUME NEW j \in Used' PROVE own'[j] # {}
        <5>1. j \in Ids /\ (j \in Used \/ j = n)
          BY <1>12 DEF Used
        <5> QED BY <5>1, <2>1, <2>3, <1>7 DEF InOrder
      <4> QED BY <4>1
    <3> QED BY <3>1, <3>2, <2>1, <1>1 DEF InOrder
  <2>5. HolesStand'
    <3>1. ASSUME NEW j \in Ids, NEW x \in Dates, audit[j][x].resume # None
          PROVE  /\ {x, audit[j][x].resume} \subseteq loaded'
                 /\ {x, audit[j][x].resume} \subseteq own'[j] => Hole(j, x, audit[j][x].resume)'
      <4>0. PICK y \in Dates : y = audit[j][x].resume
        BY <3>1, <1>2, Types
      <4>1. {x, y} \subseteq loaded /\ ({x, y} \subseteq own[j] => Hole(j, x, y))
        BY <4>0, <3>1, <2>1 DEF HolesStand
      <4>2. j # n
        BY <3>1, <1>2, <1>3 DEF NoTrace
      <4>3. own'[j] \subseteq own[j]
        <5>1. j = i \/ j \in Ids \ {i, n}
          BY <4>2
        <5> QED BY <5>1, <1>7
      <4>4. {x, y} \subseteq own'[j] => Hole(j, x, y)'
        BY <4>1, <4>3 DEF Hole, Bars
      <4> QED BY <4>0, <4>1, <4>4, <1>1
    <3> QED BY <3>1, <1>1, <1>11 DEF HolesStand
  <2>6. Ends(i, s)'
    <3>1. Bars(i, s + 1, Last)' = {}
      <4>1. ASSUME NEW d \in own'[i] PROVE ~(s + 1 <= d)
        <5>1. d <= s /\ d \in Nat
          BY <2>2, <1>2, Types, Bounds
        <5> QED BY <5>1, <1>4
      <4> QED BY <4>1 DEF Bars
    <3>2. s + 1 # None
      BY <1>4 DEF None
    <3> QED BY <3>1, <3>2, <1>4, <1>8, <1>12 DEF Ends
  <2>7. ASSUME NEW j \in Ids, NEW x \in Dates, Ends(j, x) PROVE Ends(j, x)'
    <3>1. j \in Used /\ j # n /\ sec[j].died # None /\ Bars(j, x + 1, Last) = {} /\ j \in Used'
      BY <2>7, <1>3, <1>12 DEF Ends
    <3>2. own'[j] \subseteq own[j]
      <4>1. j = i \/ j \in Ids \ {i, n}
        BY <3>1
      <4> QED BY <4>1, <1>7
    <3>3. sec'[j].died # None
      BY <2>6, <3>1, <1>8 DEF Ends
    <3> QED BY <3>1, <3>2, <3>3 DEF Ends, Bars
  <2>8. SplicesStand'
    <3>1. job'.cmd = "mark" => \A h \in NextSplice' : h.id = i /\ h.last = s
      BY <1>11 DEF NextSplice
    <3> QED BY <3>1, <2>1, <2>6, <2>7, <1>1 DEF SplicesStand
  <2> QED BY <2>4, <2>5, <2>8
<1>19. DatesInv'
  <2> SUFFICES ASSUME Orderly', ~misdated'
               PROVE  /\ AsOfDateResolves' /\ \A j, k \in Live' : j = k
                      /\ \A j \in (Used \ Live)' : \A e \in (Dates \ loaded)' : sec'[j].died <= e
    BY DEF DatesInv
  <2>1. /\ InOrder /\ AsOfDateResolves /\ s < r /\ \A d \in own[i] : d < r => d <= s
        /\ \A j, k \in Live : j = k
        /\ \A j \in Used \ Live : \A e \in Dates \ loaded : sec[j].died <= e
    BY <1>1, <1>2, <1>17 DEF DatesInv
  <2>2. \A j, k \in Live' : j = k
    <3>1. \A j \in Live' : j \in Ids
      BY DEF Live, Used
    <3> QED BY <3>1, <2>1, <1>12
  <2>3. \A j \in (Used \ Live)' : \A e \in (Dates \ loaded)' : sec'[j].died <= e
    <3>1. ASSUME NEW j \in (Used \ Live)', NEW e \in Dates \ loaded PROVE sec'[j].died <= e
      <4>1. j \in Ids /\ (j \in Used \/ j = n) /\ ~((j \in Live /\ j # i) \/ (j = n /\ i \in Live))
        BY <1>12 DEF Used
      <4>2. CASE j = i
        <5>1. s < e
          <6>1. s \in loaded
            BY <2>1 DEF InOrder
          <6>2. e \notin 1..s
            BY <6>1, <2>1 DEF InOrder
          <6>3. e \in Nat /\ e >= 1
            BY Bounds DEF Dates
          <6> QED BY <6>2, <6>3, <1>4
        <5>2. e \in Nat
          BY Bounds
        <5> QED BY <4>2, <5>1, <5>2, <1>4, <1>8
      <4>3. CASE j = n
        BY <4>1, <4>3, <2>1, <1>4, <1>8
      <4>4. CASE j \notin {i, n}
        BY <4>1, <4>4, <2>1, <1>8
      <4> QED BY <4>2, <4>3, <4>4
    <3>2. (Dates \ loaded)' = Dates \ loaded
      BY <1>1
    <3> QED BY <3>1, <3>2
  <2>4. AsOfDateResolves'
    <3> SUFFICES ASSUME NEW e \in Dates, NEW x \in Ids, e \in own'[x], NEW j \in Ids
                 PROVE  AliveOn(j, e)' <=> j = x
      BY DEF AsOfDateResolves
    <3>1. /\ e \in Nat /\ sec[i].died \in Nat /\ sec[i].first \in Nat
          /\ sec[i].died \in Nat /\ s + 1 # None
      <4>1. sec[i].first \in Dates \cup {None} /\ sec[i].died \in 0..(Last + 1) /\ 0 \in Nat
        BY <1>2, Types
      <4> QED BY <4>1, <1>4, Bounds DEF None
    <3>2. \A k \in Ids \ {i, n} : AliveOn(k, e)' <=> AliveOn(k, e)
      BY <1>8, <1>12 DEF AliveOn
    <3>3. AliveOn(i, s) /\ AliveOn(i, r)
      BY <2>1, <1>4 DEF AsOfDateResolves
    <3>4. /\ sec[i].first <= s /\ sec[i].first <= r
          /\ sec[i].died = None \/ (s < sec[i].died /\ r < sec[i].died)
      BY <3>3 DEF AliveOn
    <3>5. AliveOn(i, e)' <=> sec[i].first <= e /\ e < s + 1
      BY <3>1, <1>4, <1>8, <1>12 DEF AliveOn
    <3>6. AliveOn(n, e)' <=> r <= e /\ (sec[i].died = None \/ e < sec[i].died)
      BY <1>3, <1>8, <1>12 DEF AliveOn
    <3>7. AliveOn(i, e) <=> sec[i].first <= e /\ (sec[i].died = None \/ e < sec[i].died)
      BY <1>4 DEF AliveOn
    <3>8. AliveOn(i, e)' \/ AliveOn(n, e)' => AliveOn(i, e)
      BY <3>1, <3>4, <3>5, <3>6, <3>7, <1>4
    <3>9. CASE x \notin {i, n}
      <4>1. \A k \in Ids : AliveOn(k, e) <=> k = x
        BY <3>9, <2>1, <1>7 DEF AsOfDateResolves
      <4>2. ~AliveOn(i, e)' /\ ~AliveOn(n, e)'
        BY <4>1, <3>8, <3>9
      <4> QED BY <4>1, <4>2, <3>2, <3>9
    <3>10. CASE x \in {i, n}
      <4>1. e \in own[i] /\ (x = i => e < r) /\ (x = n => e >= r)
        BY <3>1, <3>10, <1>4, <1>5, <1>7
      <4>2. \A k \in Ids : AliveOn(k, e) <=> k = i
        BY <4>1, <2>1 DEF AsOfDateResolves
      <4>3. CASE x = i
        <5>1. e <= s /\ e < r
          BY <4>1, <4>3, <2>1
        <5>2. AliveOn(i, e)' /\ ~AliveOn(n, e)'
          BY <4>2, <5>1, <3>1, <3>5, <3>6, <3>7, <1>4
        <5> QED BY <4>2, <4>3, <5>2, <3>2
      <4>4. CASE x = n
        <5>1. ~(e < s + 1) /\ r <= e
          BY <4>1, <4>4, <3>1, <2>1, <1>4
        <5>2. ~AliveOn(i, e)' /\ AliveOn(n, e)'
          BY <4>2, <5>1, <3>5, <3>6, <3>7
        <5> QED BY <4>2, <4>4, <5>2, <3>2, <1>4
      <4> QED BY <3>10, <4>3, <4>4
    <3> QED BY <3>9, <3>10
  <2> QED BY <2>2, <2>3, <2>4
<1>20. OrderlyInv' /\ AdjustInv' /\ AuditInv'
  BY <1>1, <1>18 DEF OrderlyInv, AdjustInv, AuditInv
<1> QED BY <1>13, <1>14, <1>15, <1>16, <1>19, <1>20 DEF IInv

LEMMA SpliceRowKeeps == ASSUME IInv, SpliceRow PROVE IInv'
<1>1. PICK h \in NextSplice : {h.last, h.next} \subseteq own[h.id] /\ SpliceOne(h.id, h.last, h.next)
  BY DEF SpliceRow
<1>2. /\ job.cmd = "splice" /\ Ids # Used /\ job' = [job EXCEPT !.cmd = "mark"]
      /\ UNCHANGED <<world, torn, loaded, asOf, audit, misdated>>
      /\ Typed /\ RowsInv /\ OrderlyInv
  BY DEF SpliceRow, IInv
<1>3. h \in job.rows /\ h.id \in Ids /\ h.last \in Dates /\ h.next \in Dates
  BY <1>2, Types DEF Job, Row, NextSplice
<1>4. Orderly => Hole(h.id, h.last, h.next)
  <2>1. audit[h.id][h.last].resume = h.next /\ h.next # None
    BY <1>2, <1>3, Bounds DEF RowsInv
  <2> QED BY <2>1, <1>1, <1>2, <1>3 DEF OrderlyInv, HolesStand
\* The rows that are next are rows of one hole.
<1>5. ASSUME NEW g \in NextSplice PROVE g.id = h.id /\ g.last = h.last
  <2>1. g \in job.rows /\ g.id \in Ids /\ g.last \in Dates
    BY <1>2, Types DEF Job, Row, NextSplice
  <2>2. /\ g.id >= h.id /\ h.id >= g.id
        /\ g.id = h.id => g.last <= h.last /\ h.last <= g.last
    BY <2>1, <1>3 DEF NextSplice
  <2>3. {g.id, h.id, g.last, h.last} \subseteq Nat
    BY <2>1, <1>3, Bounds
  <2> QED BY <2>2, <2>3
<1> QED BY <1>1, <1>2, <1>3, <1>4, <1>5, SpliceKeeps

LEMMA SpliceLongKeeps ==
    ASSUME IInv, NEW i \in Ids, SpliceLong(i) PROVE IInv'
<1>1. PICK s, r \in own[i] : Hole(i, s, r) /\ SpliceOne(i, s, r)
  BY DEF SpliceLong
<1>2. /\ Ids # Used /\ job' = job /\ job.cmd = "idle"
      /\ UNCHANGED <<world, torn, loaded, asOf, audit, misdated>>
  BY IdleIs DEF SpliceLong
<1> QED BY <1>1, <1>2, SpliceKeeps
-----------------------------------------------------------------------------
(* Who is dead, and what an instrument is                                  *)

LEMMA SecStep ==
    ASSUME IInv, UNCHANGED <<world, torn, loaded, own, factor, splits, asOf, audit, job,
                             audited, adjusted>>,
           sec' \in [Ids -> [first : Dates \cup {None}, died : 0..(Last + 1), typed : BOOLEAN]],
           \A i \in Ids : /\ sec'[i].first = sec[i].first
                          /\ sec[i].died # None => sec'[i].died # None
                          /\ i \notin Used => sec'[i].died = None,
           misdated' \in BOOLEAN, DatesInv'
    PROVE  IInv'
<1>1. /\ world' = world /\ torn' = torn /\ loaded' = loaded /\ audit' = audit
      /\ own' = own /\ factor' = factor /\ splits' = splits /\ asOf' = asOf /\ job' = job
      /\ audited' = audited /\ adjusted' = adjusted
  OBVIOUS
<1>2. Typed /\ NoTrace /\ FactorInv /\ AdjustInv /\ AuditInv /\ RowsInv /\ OrderlyInv
  BY DEF IInv
<1>3. Used' = Used
  BY DEF Used
<1>4. Typed'
  <2>1. {audited, adjusted} \subseteq BOOLEAN
    BY <1>2 DEF Typed, TypeOK
  <2> QED BY <2>1, <1>1, <1>2, Types, TypedFrom
<1>5. NoTrace'
  BY <1>1, <1>2, <1>3 DEF NoTrace
<1>6. FactorInv' /\ AdjustInv' /\ AuditInv' /\ RowsInv'
  <2>1. RowsInv'
    BY <1>1, <1>2, <1>3 DEF RowsInv
  <2> QED BY <2>1, <1>1, <1>2, FactorStays, AdjustStays, AuditStays
<1>7. OrderlyInv'
  <2> SUFFICES ASSUME Orderly' PROVE InOrder' /\ HolesStand' /\ SplicesStand'
    BY DEF OrderlyInv
  <2>1. /\ InOrder /\ HolesStand /\ SplicesStand
    BY <1>1, <1>2 DEF OrderlyInv, Orderly
  <2>2. /\ InOrder'
        /\ \A i, s, r : Hole(i, s, r)' = Hole(i, s, r)
    BY <1>1, <1>3, <2>1 DEF InOrder, Hole, Bars
  <2>3. HolesStand'
    BY <1>1, <2>1, <2>2 DEF HolesStand
  <2>4. ASSUME NEW i, NEW s, Ends(i, s) PROVE Ends(i, s)'
    <3>1. i \in Ids
      BY <2>4 DEF Ends, Used
    <3> QED BY <2>4, <3>1, <1>1, <1>3 DEF Ends, Bars
  <2>5. SplicesStand'
    <3>1. NextSplice' = NextSplice
      BY <1>1 DEF NextSplice
    <3> QED BY <3>1, <1>1, <2>1, <2>4 DEF SplicesStand
  <2> QED BY <2>2, <2>3, <2>5
<1> QED BY <1>4, <1>5, <1>6, <1>7 DEF IInv

\* After a bar, what is not loaded comes after it.
LEMMA LoadedFirst ==
    ASSUME Typed, InOrder, NEW i \in Ids, NEW s \in own[i], NEW d \in Dates \ loaded
    PROVE  s < d
<1>1. s \in loaded /\ s \in Nat /\ d \in Nat /\ d >= 1
  <2>1. s \in loaded /\ s \in Dates
    BY Types DEF InOrder
  <2> QED BY <2>1, Bounds DEF Dates
<1>2. d \notin 1..s
  BY <1>1 DEF InOrder
<1> QED BY <1>1, <1>2

\* An identity that dies after its last bar is not looked up beyond it, unless the
\* date leads past a bar of another or a session that is not loaded.
LEMMA DyingKeepsDates ==
    ASSUME IInv, NEW D \in SUBSET HasBars, UNCHANGED <<world, loaded, own>>,
           \A i \in Ids : /\ sec'[i].first = sec[i].first
                          /\ i \notin D => sec'[i].died = sec[i].died
                          /\ i \in D => sec'[i].died # None /\ sec'[i].died \in Nat
                                        /\ LastBar(i) < sec'[i].died,
           misdated => misdated',
           Orderly /\ ~misdated' => \A i \in D :
              \/ i \in Live /\ sec'[i].died = LastBar(i) + 1
              \/ ~Overreaches(i, sec'[i].died)
    PROVE  DatesInv'
<1>1. /\ world' = world /\ loaded' = loaded /\ own' = own /\ Used' = Used
      /\ D \subseteq Used /\ D \subseteq Ids /\ D \subseteq HasBars
  BY DEF Used, HasBars
<1> SUFFICES ASSUME Orderly', ~misdated'
             PROVE  /\ AsOfDateResolves' /\ \A j, k \in Live' : j = k
                    /\ \A j \in (Used \ Live)' : \A e \in (Dates \ loaded)' : sec'[j].died <= e
  BY DEF DatesInv
<1>2. /\ Typed /\ Orderly /\ InOrder /\ AsOfDateResolves /\ \A j, k \in Live : j = k
      /\ \A j \in Used \ Live : \A e \in Dates \ loaded : sec[j].died <= e
  BY <1>1 DEF IInv, OrderlyInv, DatesInv, Orderly
<1>3. \A i \in D : \/ i \in Live /\ sec'[i].died = LastBar(i) + 1
                   \/ ~Overreaches(i, sec'[i].died)
  BY <1>2
<1>4. Live' = Live \ D
  <2>1. ASSUME NEW j \in Ids PROVE j \in Live' <=> j \in Live \ D
    <3>1. /\ j \in Live' <=> j \in Used /\ sec'[j].died = None
          /\ j \in Live <=> j \in Used /\ sec[j].died = None
      BY <1>1 DEF Live
    <3> QED BY <3>1
  <2>2. Live' \subseteq Ids /\ Live \subseteq Ids
    BY DEF Live, Used
  <2> QED BY <2>1, <2>2
<1>5. ASSUME NEW i \in D
      PROVE  /\ LastBar(i) \in own[i] /\ LastBar(i) \in Dates /\ LastBar(i) \in Nat
             /\ \A d \in own[i] : d <= LastBar(i)
             /\ sec'[i].died \in Nat /\ LastBar(i) < sec'[i].died /\ sec'[i].died # None
  <2>1. i \in HasBars
    BY <1>1
  <2>2. /\ LastBar(i) \in own[i] /\ LastBar(i) \in Dates /\ \A d \in own[i] : d <= LastBar(i)
    BY <2>1, <1>2, LastBarIs
  <2> QED BY <2>2, <1>1, Bounds
<1>6. ASSUME NEW j \in (Used \ Live)', NEW e \in (Dates \ loaded)' PROVE sec'[j].died <= e
  <2>1. j \in Used /\ j \in Ids /\ e \in Dates \ loaded /\ e \in Nat
    BY <1>1, Bounds DEF Used
  <2>2. CASE j \in D
    <3>1. LastBar(j) < e
      BY <2>1, <2>2, <1>2, <1>5, LoadedFirst
    <3>2. ~(e < sec'[j].died)
      <4>1. CASE sec'[j].died = LastBar(j) + 1
        BY <4>1, <3>1, <2>1, <2>2, <1>5
      <4>2. CASE ~Overreaches(j, sec'[j].died)
        BY <4>2, <3>1, <2>1 DEF Overreaches
      <4> QED BY <4>1, <4>2, <2>2, <1>3
    <3> QED BY <3>2, <2>1, <2>2, <1>5
  <2>3. CASE j \notin D
    <3>1. j \notin Live
      BY <2>3, <1>4
    <3> QED BY <2>1, <2>3, <3>1, <1>2
  <2> QED BY <2>2, <2>3
<1>7. AsOfDateResolves'
  <2> SUFFICES ASSUME NEW e \in Dates, NEW x \in Ids, e \in own[x], NEW j \in Ids
               PROVE  AliveOn(j, e)' <=> j = x
    BY <1>1 DEF AsOfDateResolves
  <2>1. AliveOn(j, e) <=> j = x
    BY <1>2 DEF AsOfDateResolves
  <2>2. CASE j \notin D
    BY <2>1, <2>2, <1>1 DEF AliveOn
  <2>3. CASE j \in D
    <3>1. /\ LastBar(j) \in own[j] /\ LastBar(j) \in Dates /\ LastBar(j) \in Nat
          /\ sec'[j].died \in Nat /\ LastBar(j) < sec'[j].died /\ sec'[j].died # None
          /\ e \in Nat /\ j \in Used
      BY <2>3, <1>1, <1>5, Bounds
    <3>2. AliveOn(j, LastBar(j))
      BY <3>1, <1>2 DEF AsOfDateResolves
    <3>3. /\ sec[j].first \in Nat /\ sec[j].died \in Nat
      <4>1. sec[j].first \in Dates \cup {None} /\ sec[j].died \in 0..(Last + 1)
        BY <1>2, Types
      <4>2. \A d \in Dates \cup {None} : d \in Nat
        BY Bounds DEF None
      <4>3. \A d \in 0..(Last + 1) : d \in Nat
        BY Bounds
      <4> QED BY <4>1, <4>2, <4>3
    <3>4. AliveOn(j, e)' <=> sec[j].first <= e /\ e < sec'[j].died
      BY <3>1, <1>1 DEF AliveOn
    <3>5. CASE j = x
      <4>1. e <= LastBar(j)
        BY <2>3, <3>5, <1>5
      <4>2. sec[j].first <= e
        BY <2>1, <3>5 DEF AliveOn
      <4> QED BY <3>1, <3>4, <3>5, <4>1, <4>2
    <3>6. CASE j # x
      <4>1. ~AliveOn(j, e)
        BY <2>1, <3>6
      <4> SUFFICES ASSUME sec[j].first <= e, e < sec'[j].died PROVE FALSE
        BY <3>4, <3>6
      <4>2. LastBar(j) < e
        BY <3>1, <3>2, <3>3, <4>1 DEF AliveOn
      <4>3. CASE j \in Live /\ sec'[j].died = LastBar(j) + 1
        BY <3>1, <4>2, <4>3
      <4>4. CASE ~Overreaches(j, sec'[j].died)
        BY <4>2, <4>4 DEF Overreaches
      <4> QED BY <2>3, <4>3, <4>4, <1>3
    <3> QED BY <3>5, <3>6
  <2> QED BY <2>2, <2>3
<1> QED BY <1>2, <1>4, <1>6, <1>7

LEMMA InferKeeps == ASSUME IInv, Infer PROVE IInv'
<1>1. /\ UNCHANGED <<world, torn, loaded, own, factor, splits, asOf, audit, job,
                     audited, adjusted, misdated>>
      /\ Typed /\ NoTrace /\ misdated \in BOOLEAN
  BY DEF Infer, IInv, Typed, TypeOK
<1>2. PICK D \in SUBSET (HasBars \cap Live) :
        sec' = [i \in Ids |-> IF i \in D THEN [sec[i] EXCEPT !.died = LastBar(i) + 1] ELSE sec[i]]
  <2> DEFINE dead == {i \in HasBars \cap Live : LastBar(i) < ArchiveEnd - Confirm}
  <2>1. sec' = [i \in Ids |-> IF i \in dead THEN [sec[i] EXCEPT !.died = LastBar(i) + 1] ELSE sec[i]]
    BY DEF Infer
  <2>2. dead \in SUBSET (HasBars \cap Live)
    OBVIOUS
  <2> HIDE DEF dead
  <2> QED BY <2>1, <2>2
<1>3. \A i \in D : /\ i \in HasBars /\ i \in Live /\ i \in Used /\ i \in Ids
                   /\ LastBar(i) \in Dates /\ LastBar(i) \in Nat
                   /\ LastBar(i) + 1 \in 0..(Last + 1) /\ LastBar(i) + 1 # None
  <2>1. ASSUME NEW i \in D PROVE LastBar(i) \in Dates
    BY <1>1, LastBarIs
  <2>2. \A d \in Dates : d \in Nat /\ d + 1 \in 0..(Last + 1) /\ d + 1 # 0
    BY Bounds DEF Dates
  <2> QED BY <2>1, <2>2 DEF HasBars, Used, None
<1>4. ASSUME NEW i \in Ids
      PROVE  /\ sec'[i] \in [first : Dates \cup {None}, died : 0..(Last + 1), typed : BOOLEAN]
             /\ sec'[i].first = sec[i].first
             /\ i \notin D => sec'[i].died = sec[i].died
             /\ i \in D => sec'[i].died = LastBar(i) + 1
  <2>1. sec[i] \in [first : Dates \cup {None}, died : 0..(Last + 1), typed : BOOLEAN]
    BY <1>1, Types
  <2>2. CASE i \in D
    <3>1. PICK t : t = LastBar(i) + 1
      OBVIOUS
    <3>2. sec'[i] = [sec[i] EXCEPT !.died = t] /\ t \in 0..(Last + 1)
      BY <1>2, <1>3, <2>2, <3>1
    <3> QED BY <2>1, <2>2, <3>1, <3>2
  <2>3. CASE i \notin D
    BY <1>2, <2>1, <2>3
  <2> QED BY <2>2, <2>3
<1>5. sec' \in [Ids -> [first : Dates \cup {None}, died : 0..(Last + 1), typed : BOOLEAN]]
  <2>1. sec' = [i \in Ids |-> sec'[i]]
    BY <1>2
  <2> QED BY <2>1, <1>4
<1>6. DatesInv'
  <2>1. \A i \in D : LastBar(i) + 1 \in Nat /\ LastBar(i) < LastBar(i) + 1
    BY <1>3
  <2>2. D \in SUBSET HasBars
    OBVIOUS
  <2> QED BY <2>1, <2>2, <1>1, <1>3, <1>4, DyingKeepsDates
<1>7. \A i \in Ids : /\ sec[i].died # None => sec'[i].died # None
                     /\ i \notin Used => sec'[i].died = None
  BY <1>1, <1>3, <1>4 DEF NoTrace
<1> QED BY <1>1, <1>4, <1>5, <1>6, <1>7, SecStep

LEMMA DateByFmpKeeps ==
    ASSUME IInv, NEW since \in Dates, DateByFmp(since) PROVE IInv'
<1>1. /\ UNCHANGED <<world, torn, loaded, own, factor, splits, asOf, audit, job, audited, adjusted>>
      /\ Typed /\ NoTrace /\ misdated \in BOOLEAN
  BY DEF DateByFmp, IInv, Typed, TypeOK
<1>2. PICK D \in SUBSET HasBars :
        /\ \A i \in D : Dated(i, since) # {}
        /\ sec' = [i \in Ids |-> IF i \in D THEN [sec[i] EXCEPT !.died = Min(Dated(i, since))] ELSE sec[i]]
        /\ misdated' = (misdated \/ \E i \in D : Overreaches(i, Min(Dated(i, since))))
  <2> DEFINE hit == {i \in HasBars : Dated(i, since) # {}}
  <2>1. /\ sec' = [i \in Ids |-> IF i \in hit THEN [sec[i] EXCEPT !.died = Min(Dated(i, since))] ELSE sec[i]]
        /\ misdated' = (misdated \/ \E i \in hit : Overreaches(i, Min(Dated(i, since))))
    BY DEF DateByFmp
  <2>2. hit \in SUBSET HasBars /\ \A i \in hit : Dated(i, since) # {}
    OBVIOUS
  <2> HIDE DEF hit
  <2> QED BY <2>1, <2>2
<1>3. ASSUME NEW i \in D
      PROVE  /\ i \in HasBars /\ i \in Used /\ i \in Ids
             /\ Min(Dated(i, since)) \in Nat /\ Min(Dated(i, since)) \in 0..(Last + 1)
             /\ LastBar(i) < Min(Dated(i, since)) /\ Min(Dated(i, since)) # None
  <2>1. Dated(i, since) \subseteq Dates /\ Dated(i, since) # {}
    <3>1. world.delist \subseteq Dates
      BY <1>1, Types DEF World
    <3> QED BY <3>1, <1>2 DEF Dated
  <2>2. Min(Dated(i, since)) \in Dated(i, since)
    BY <2>1, Bounds, MinIs
  <2>3. Min(Dated(i, since)) \in Dates /\ LastBar(i) < Min(Dated(i, since))
    BY <2>1, <2>2 DEF Dated
  <2>4. \A d \in Dates : d \in Nat /\ d \in 0..(Last + 1) /\ d # None
    BY Bounds DEF Dates, None
  <2> QED BY <2>3, <2>4 DEF HasBars, Used
<1>4. ASSUME NEW i \in Ids
      PROVE  /\ sec'[i] \in [first : Dates \cup {None}, died : 0..(Last + 1), typed : BOOLEAN]
             /\ sec'[i].first = sec[i].first
             /\ i \notin D => sec'[i].died = sec[i].died
             /\ i \in D => sec'[i].died = Min(Dated(i, since))
  <2>1. sec[i] \in [first : Dates \cup {None}, died : 0..(Last + 1), typed : BOOLEAN]
    BY <1>1, Types
  <2>2. CASE i \in D
    <3>1. PICK t : t = Min(Dated(i, since))
      OBVIOUS
    <3>2. sec'[i] = [sec[i] EXCEPT !.died = t] /\ t \in 0..(Last + 1)
      BY <1>2, <1>3, <2>2, <3>1
    <3> QED BY <2>1, <2>2, <3>1, <3>2
  <2>3. CASE i \notin D
    BY <1>2, <2>1, <2>3
  <2> QED BY <2>2, <2>3
<1>5. sec' \in [Ids -> [first : Dates \cup {None}, died : 0..(Last + 1), typed : BOOLEAN]]
  <2>1. sec' = [i \in Ids |-> sec'[i]]
    BY <1>2
  <2> QED BY <2>1, <1>4
<1>6. DatesInv'
  <2>1. \A i \in D : ~misdated' => ~Overreaches(i, sec'[i].died)
    BY <1>2, <1>3, <1>4
  <2>2. misdated => misdated'
    BY <1>2
  <2> QED BY <2>1, <2>2, <1>1, <1>3, <1>4, DyingKeepsDates
<1>7. \A i \in Ids : /\ sec[i].died # None => sec'[i].died # None
                     /\ i \notin Used => sec'[i].died = None
  BY <1>1, <1>3, <1>4 DEF NoTrace
<1>8. misdated' \in BOOLEAN
  BY <1>1, <1>2
<1> QED BY <1>1, <1>4, <1>5, <1>6, <1>7, <1>8, SecStep

LEMMA ClassifyKeeps == ASSUME IInv, Classify PROVE IInv'
<1>1. /\ UNCHANGED <<world, torn, loaded, own, factor, splits, asOf, audit, job,
                     audited, adjusted, misdated>>
      /\ Typed /\ NoTrace /\ misdated \in BOOLEAN
  BY DEF Classify, IInv, Typed, TypeOK
<1>2. ASSUME NEW i \in Ids
      PROVE  /\ sec'[i] \in [first : Dates \cup {None}, died : 0..(Last + 1), typed : BOOLEAN]
             /\ sec'[i].first = sec[i].first /\ sec'[i].died = sec[i].died
  <2>1. sec[i] \in [first : Dates \cup {None}, died : 0..(Last + 1), typed : BOOLEAN]
    BY <1>1, Types
  <2>2. sec'[i] = [sec[i] EXCEPT !.typed = i \in Used]
    BY DEF Classify
  <2>3. CASE i \in Used
    <3>1. sec'[i] = [sec[i] EXCEPT !.typed = TRUE]
      BY <2>2, <2>3
    <3> QED BY <2>1, <3>1
  <2>4. CASE i \notin Used
    <3>1. (i \in Used) = FALSE
      BY <2>4
    <3>2. sec'[i] = [sec[i] EXCEPT !.typed = FALSE]
      BY <2>2, <3>1, Zenon
    <3> QED BY <2>1, <3>2
  <2> QED BY <2>3, <2>4
<1>3. sec' \in [Ids -> [first : Dates \cup {None}, died : 0..(Last + 1), typed : BOOLEAN]]
  <2>1. sec' = [i \in Ids |-> sec'[i]]
    BY DEF Classify
  <2> QED BY <2>1, <1>2
<1>4. DatesInv'
  <2>1. {} \in SUBSET HasBars /\ \A i \in {} : FALSE
    OBVIOUS
  <2> QED BY <2>1, <1>1, <1>2, DyingKeepsDates
<1>5. \A i \in Ids : /\ sec[i].died # None => sec'[i].died # None
                     /\ i \notin Used => sec'[i].died = None
  BY <1>1, <1>2 DEF NoTrace
<1> QED BY <1>1, <1>2, <1>3, <1>4, <1>5, SecStep
-----------------------------------------------------------------------------
(* Splits and factors                                                      *)

LEMMA FetchSplitsKeeps == ASSUME IInv, FetchSplits PROVE IInv'
<1>1. /\ world' = world /\ torn' = torn /\ loaded' = loaded /\ sec' = sec /\ own' = own
      /\ factor' = factor /\ asOf' = asOf /\ audit' = audit /\ job' = job /\ misdated' = misdated
      /\ audited' = FALSE /\ adjusted' = FALSE /\ Used' = Used
  BY DEF FetchSplits, Stale, Used
<1>2. /\ Typed /\ NoTrace /\ FactorInv /\ RowsInv /\ OrderlyInv /\ DatesInv
  BY DEF IInv
<1>3. PICK i \in Ids : splits' = [splits EXCEPT ![i] = @ \cup {world.split}]
  BY DEF FetchSplits, HasBars, Used
<1>4. splits' \in [Ids -> SUBSET ExDates]
  <2>1. world.split \in ExDates /\ splits \in [Ids -> SUBSET ExDates]
    BY <1>2, Types DEF FetchSplits, World
  <2> QED BY <2>1, <1>3
<1>5. Typed'
  <2>1. misdated \in BOOLEAN
    BY <1>2 DEF Typed, TypeOK
  <2> QED BY <2>1, <1>1, <1>2, <1>4, Types, TypedFrom
<1>6. NoTrace' /\ FactorInv' /\ RowsInv' /\ DatesInv' /\ OrderlyInv'
  BY <1>1, <1>2, NoTraceStays, FactorStays, RowsStay, DatesStay, OrderlyStays
<1> QED BY <1>1, <1>5, <1>6 DEF IInv, AdjustInv, AuditInv

\* What a step that writes factors leaves alone.
LEMMA FactorStep ==
    ASSUME IInv, UNCHANGED <<world, torn, loaded, sec, own, splits, audit, audited, misdated>>,
           job' \in Job, job'.cmd \notin {"audit", "provider", "splice", "mark"},
           job'.rows \subseteq job.rows,
           job.cmd # "audit", adjusted' \in BOOLEAN, asOf' \in Dates \cup {None},
           factor' \in [Ids -> [Dates -> (SUBSET ExDates) \cup {Unset}]],
           FactorInv', AdjustInv'
    PROVE  IInv'
<1>1. /\ world' = world /\ torn' = torn /\ loaded' = loaded /\ sec' = sec /\ own' = own
      /\ splits' = splits /\ audit' = audit /\ audited' = audited /\ misdated' = misdated
  OBVIOUS
<1>2. /\ Typed /\ NoTrace /\ AuditInv /\ RowsInv /\ OrderlyInv /\ DatesInv
  BY DEF IInv
<1>3. Typed'
  <2>1. {audited, misdated} \subseteq BOOLEAN
    BY <1>2 DEF Typed, TypeOK
  <2> QED BY <2>1, <1>1, <1>2, Types, TypedFrom
<1>4. NoTrace' /\ AuditInv' /\ DatesInv' /\ OrderlyInv'
  BY <1>1, <1>2, NoTraceStays, AuditStays, DatesStay, OrderlyStays
<1>5. RowsInv'
  <2>1. Used' = Used
    BY <1>1 DEF Used
  <2> QED BY <2>1, <1>2 DEF RowsInv
<1> QED BY <1>3, <1>4, <1>5 DEF IInv

LEMMA AdjustBeginKeeps == ASSUME IInv, AdjustBegin PROVE IInv'
<1>1. /\ UNCHANGED <<world, torn, loaded, sec, own, factor, splits, audit, audited, misdated>>
      /\ loaded' = loaded /\ own' = own /\ factor' = factor
      /\ job = Idle /\ Covered # {} /\ asOf' = ArchiveEnd /\ adjusted' = TRUE
      /\ Typed /\ FactorInv /\ Covered' = Covered
  BY DEF AdjustBegin, IInv, Covered
<1>2. ArchiveEnd \in Covered /\ ArchiveEnd \in Dates /\ \A d \in Covered : d <= ArchiveEnd
  BY <1>1, EndIs
<1>3. /\ job' \in Job /\ job'.cmd = "refactor" /\ job'.rows = {} /\ job'.to = asOf' /\ job.cmd = "idle"
  <2>1. job' = [cmd |-> "refactor", rows |-> {}, fails |-> 0, to |-> ArchiveEnd]
    BY DEF AdjustBegin, Idle
  <2>2. "refactor" \in Commands /\ {} \in SUBSET Row /\ ArchiveEnd \in Dates \cup {None}
    BY <1>2 DEF Commands
  <2>3. job' \in Job
    BY <2>1, <2>2, JobIs
  <2> QED BY <2>1, <2>3, <1>1, IdleIs
<1>4. FactorInv'
  <2>1. ASSUME NEW i \in Ids, NEW d \in Dates, factor[i][d] # Unset
        PROVE  d \in own[i] /\ \A x \in factor[i][d] : d < x /\ x <= ArchiveEnd
    <3>1. d \in own[i] /\ \A x \in factor[i][d] : d < x /\ x <= asOf
      BY <2>1, <1>1 DEF FactorInv
    <3>2. asOf <= ArchiveEnd /\ asOf \in Nat /\ ArchiveEnd \in Nat
      <4>1. asOf = 0 \/ (asOf \in Covered /\ asOf \in Dates)
        BY <1>1, Types DEF FactorInv, None
      <4>2. ArchiveEnd \in Nat
        BY <1>2, Bounds
      <4>3. CASE asOf = 0
        BY <4>2, <4>3
      <4>4. CASE asOf \in Covered /\ asOf \in Dates
        BY <4>2, <4>4, <1>2, Bounds
      <4> QED BY <4>1, <4>3, <4>4
    <3>3. factor[i][d] \subseteq Nat
      <4>1. factor[i][d] \in SUBSET ExDates
        BY <2>1, <1>1, Types
      <4> QED BY <4>1, Bounds
    <3>4. ASSUME NEW x \in factor[i][d] PROVE d < x /\ x <= ArchiveEnd
      <4>1. x \in Nat /\ d < x /\ x <= asOf
        BY <3>1, <3>3
      <4> QED BY <4>1, <3>2
    <3> QED BY <3>1, <3>4
  <2> QED BY <2>1, <1>1, <1>2, <1>3 DEF FactorInv
<1>5. AdjustInv'
  BY <1>3 DEF AdjustInv, Stages
<1>6. /\ job'.cmd \notin {"audit", "provider", "splice", "mark"} /\ job.cmd # "audit"
      /\ asOf' \in Dates \cup {None} /\ adjusted' \in BOOLEAN
      /\ factor' \in [Ids -> [Dates -> (SUBSET ExDates) \cup {Unset}]]
  BY <1>1, <1>2, <1>3, Types
<1> QED BY <1>1, <1>3, <1>4, <1>5, <1>6, FactorStep

\* A factor is a set of splits, never the mark of one that is not set.
LEMMA BetweenIs ==
    ASSUME Typed, NEW i \in Ids, NEW d, NEW to
    PROVE  /\ Between(i, d, to) \in SUBSET ExDates /\ Between(i, d, to) # Unset
           /\ \A x \in Between(i, d, to) : d < x /\ x <= to
           /\ splits[i] = {} => Between(i, d, to) = {}
<1>1. splits[i] \in SUBSET ExDates
  BY Types
<1>2. Between(i, d, to) \in SUBSET ExDates
  BY <1>1 DEF Between
<1> QED BY <1>2, Bounds DEF Between

\* What one of the first two statements leaves in each place.
LEMMA RefactoredIs ==
    ASSUME Typed, FactorInv, job.cmd \in Stages, NEW ids \in SUBSET Ids
    PROVE  /\ Refactored(ids) \in [Ids -> [Dates -> (SUBSET ExDates) \cup {Unset}]]
           /\ \A i \in Ids, d \in Dates : Refactored(ids)[i][d] # Unset =>
                 d \in own[i] /\ \A x \in Refactored(ids)[i][d] : d < x /\ x <= asOf
           /\ \A i \in ids : \A d \in own[i] :
                 splits[i] # {} \/ factor[i][d] # Unset => Refactored(ids)[i][d] = Between(i, d, asOf)
           /\ \A i \in Ids : \A d \in own[i] :
                 i \notin ids \/ (splits[i] = {} /\ factor[i][d] = Unset) =>
                    Refactored(ids)[i][d] = factor[i][d]
<1>1. job.to = asOf
  BY DEF FactorInv
<1>2. ASSUME NEW i \in Ids, NEW d \in Dates
      PROVE  Refactored(ids)[i][d] =
                IF i \in ids /\ d \in own[i] /\ (splits[i] # {} \/ factor[i][d] # Unset)
                THEN Between(i, d, asOf) ELSE factor[i][d]
  BY <1>1 DEF Refactored
<1>3. \A i \in Ids : own[i] \subseteq Dates
  BY Types
<1>4. ASSUME NEW i \in Ids, NEW d \in Dates
      PROVE  /\ Refactored(ids)[i][d] \in (SUBSET ExDates) \cup {Unset}
             /\ Refactored(ids)[i][d] # Unset =>
                   d \in own[i] /\ \A x \in Refactored(ids)[i][d] : d < x /\ x <= asOf
  <2>1. CASE i \in ids /\ d \in own[i] /\ (splits[i] # {} \/ factor[i][d] # Unset)
    <3>1. Refactored(ids)[i][d] = Between(i, d, asOf)
      BY <1>2, <2>1
    <3> QED BY <2>1, <3>1, BetweenIs
  <2>2. CASE ~(i \in ids /\ d \in own[i] /\ (splits[i] # {} \/ factor[i][d] # Unset))
    <3>1. Refactored(ids)[i][d] = factor[i][d]
      BY <1>2, <2>2
    <3>2. factor[i][d] \in (SUBSET ExDates) \cup {Unset}
      BY Types
    <3> QED BY <3>1, <3>2 DEF FactorInv
  <2> QED BY <2>1, <2>2
<1>5. Refactored(ids) \in [Ids -> [Dates -> (SUBSET ExDates) \cup {Unset}]]
  <2>1. \E f : Refactored(ids) = [i \in Ids |-> [d \in Dates |-> f[i][d]]]
    <3>1. Refactored(ids) = [i \in Ids |-> [d \in Dates |-> Refactored(ids)[i][d]]]
      BY DEF Refactored
    <3> QED BY <3>1
  <2> QED BY <2>1, <1>4
<1> QED BY <1>2, <1>3, <1>4, <1>5

LEMMA AdjustRefactorKeeps == ASSUME IInv, AdjustRefactor PROVE IInv'
<1>1. /\ UNCHANGED <<world, torn, loaded, sec, own, splits, audit, audited, misdated>>
      /\ loaded' = loaded /\ own' = own /\ splits' = splits /\ asOf' = asOf /\ adjusted' = adjusted
      /\ factor' = Refactored({i \in Ids : splits[i] # {}})
      /\ job.cmd = "refactor" /\ job' = [job EXCEPT !.cmd = "reset"]
      /\ Typed /\ FactorInv /\ AdjustInv /\ RowsInv /\ Covered' = Covered
  BY DEF AdjustRefactor, IInv, Covered
<1>2. PICK ids \in SUBSET Ids : ids = {i \in Ids : splits[i] # {}}
  OBVIOUS
<1>3. /\ factor' = Refactored(ids) /\ job.cmd \in Stages
  BY <1>1, <1>2 DEF Stages
<1>4. job' \in Job /\ job'.cmd = "reset" /\ job'.rows = job.rows /\ job'.to = job.to
  BY <1>1, Types, CommandSets DEF Job
<1>5. FactorInv'
  BY <1>1, <1>3, <1>4, RefactoredIs, SMTT(30) DEF FactorInv
<1>6. AdjustInv'
  <2>1. ASSUME NEW i \in Ids, splits[i] # {}, NEW d \in own[i] PROVE factor'[i][d] = Between(i, d, asOf)
    BY <2>1, <1>1, <1>2, <1>3, RefactoredIs
  <2>2. \A i \in Ids : splits[i] # {} => \A d \in own[i] : Right(i, d)'
    BY <2>1, <1>1, ZenonT(60) DEF Right, Between
  <2> QED BY <2>2, <1>1, <1>4, CommandSets DEF AdjustInv
<1>7. /\ job'.cmd \notin {"audit", "provider", "splice", "mark"} /\ job.cmd # "audit"
      /\ asOf' \in Dates \cup {None} /\ adjusted' \in BOOLEAN
      /\ factor' \in [Ids -> [Dates -> (SUBSET ExDates) \cup {Unset}]]
  BY <1>1, <1>3, <1>4, RefactoredIs, Types DEF Typed, TypeOK
<1> QED BY <1>1, <1>4, <1>5, <1>6, <1>7, FactorStep

LEMMA AdjustResetKeeps == ASSUME IInv, AdjustReset PROVE IInv'
<1>1. /\ UNCHANGED <<world, torn, loaded, sec, own, splits, audit, audited, misdated>>
      /\ loaded' = loaded /\ own' = own /\ splits' = splits /\ asOf' = asOf /\ adjusted' = adjusted
      /\ factor' = Refactored({i \in Ids : splits[i] = {}})
      /\ job.cmd = "reset" /\ job' = [job EXCEPT !.cmd = "fill"]
      /\ Typed /\ FactorInv /\ AdjustInv /\ Covered' = Covered
  BY DEF AdjustReset, IInv, Covered
<1>2. PICK ids \in SUBSET Ids : ids = {i \in Ids : splits[i] = {}}
  OBVIOUS
<1>3. /\ factor' = Refactored(ids) /\ job.cmd \in Stages
  BY <1>1, <1>2 DEF Stages
<1>4. job' \in Job /\ job'.cmd = "fill" /\ job'.rows = job.rows /\ job'.to = job.to
  BY <1>1, Types, CommandSets DEF Job
<1>5. FactorInv'
  BY <1>1, <1>3, <1>4, RefactoredIs DEF FactorInv
<1>6. AdjustInv'
  <2> SUFFICES ASSUME adjusted
               PROVE  /\ \A i \in Ids : splits[i] # {} => \A d \in own[i] : Right(i, d)'
                      /\ \A i \in Ids : splits[i] = {} =>
                            \A d \in own[i] : factor'[i][d] \in {Unset, {}}
    <3>1. job'.cmd \in Stages /\ job'.cmd = "fill" /\ own' = own /\ splits' = splits /\ adjusted' = adjusted
      BY <1>1, <1>4, CommandSets
    <3> QED BY <3>1 DEF AdjustInv
  <2>1. ASSUME NEW i \in Ids, splits[i] # {}, NEW d \in own[i] PROVE Right(i, d)'
    <3>1. factor[i][d] = Between(i, d, asOf)
      BY <2>1, <1>1 DEF AdjustInv, Right
    <3>2. factor'[i][d] = factor[i][d]
      BY <2>1, <1>1, <1>2, <1>3, RefactoredIs
    <3> QED BY <3>1, <3>2, <1>1 DEF Right, Between
  <2>2. ASSUME NEW i \in Ids, splits[i] = {}, NEW d \in own[i] PROVE factor'[i][d] \in {Unset, {}}
    <3>1. CASE factor[i][d] = Unset
      BY <2>2, <3>1, <1>1, <1>2, <1>3, RefactoredIs
    <3>2. CASE factor[i][d] # Unset
      <4>1. factor'[i][d] = Between(i, d, asOf)
        BY <2>2, <3>2, <1>1, <1>2, <1>3, RefactoredIs
      <4> QED BY <4>1, <2>2, <1>1, BetweenIs
    <3> QED BY <3>1, <3>2
  <2> QED BY <2>1, <2>2
<1>7. /\ job'.cmd \notin {"audit", "provider", "splice", "mark"} /\ job.cmd # "audit"
      /\ asOf' \in Dates \cup {None} /\ adjusted' \in BOOLEAN
      /\ factor' \in [Ids -> [Dates -> (SUBSET ExDates) \cup {Unset}]]
  BY <1>1, <1>3, <1>4, RefactoredIs, Types DEF Typed, TypeOK
<1> QED BY <1>1, <1>4, <1>5, <1>6, <1>7, FactorStep

LEMMA AdjustFillKeeps == ASSUME IInv, AdjustFill PROVE IInv'
<1>1. /\ UNCHANGED <<world, torn, loaded, sec, own, splits, audit, audited, misdated>>
      /\ loaded' = loaded /\ own' = own /\ splits' = splits /\ asOf' = asOf /\ adjusted' = adjusted
      /\ job.cmd = "fill" /\ job' = Idle
      /\ Typed /\ FactorInv /\ AdjustInv /\ Covered' = Covered
  BY DEF AdjustFill, IInv, Covered
<1>2. /\ factor \in [Ids -> [Dates -> (SUBSET ExDates) \cup {Unset}]] /\ asOf \in Dates \cup {None}
      /\ \A i \in Ids : own[i] \subseteq Dates
  BY <1>1, Types
<1>3. ASSUME NEW i \in Ids, NEW d \in Dates
      PROVE  factor'[i][d] = IF d \in own[i] /\ factor[i][d] = Unset THEN {} ELSE factor[i][d]
  BY DEF AdjustFill
<1>4. factor' \in [Ids -> [Dates -> (SUBSET ExDates) \cup {Unset}]]
  <2>1. factor' = [i \in Ids |-> [d \in Dates |-> factor'[i][d]]]
    BY DEF AdjustFill
  <2>2. \A i \in Ids, d \in Dates : factor'[i][d] \in (SUBSET ExDates) \cup {Unset}
    BY <1>2, <1>3
  <2>3. PICK f : f = factor'
    OBVIOUS
  <2> QED BY <2>1, <2>2, <2>3
<1>5. job' \in Job /\ job'.cmd = "idle" /\ job'.rows = {}
  BY <1>1, IdleIs
<1>6. FactorInv'
  BY <1>1, <1>3, <1>5, CommandSets DEF FactorInv
<1>7. AdjustInv'
  <2> SUFFICES ASSUME adjusted, NEW i \in Ids, NEW d \in own[i] PROVE Right(i, d)'
    BY <1>1, <1>5, CommandSets DEF AdjustInv
  <2>1. d \in Dates
    BY <1>2
  <2>2. Right(i, d)' <=> factor'[i][d] = Between(i, d, asOf)
    BY <1>1 DEF Right, Between
  <2>3. CASE splits[i] # {}
    <3>1. factor[i][d] = Between(i, d, asOf)
      BY <2>3, <1>1 DEF AdjustInv, Right
    <3>2. factor[i][d] # Unset
      BY <3>1, <1>1, BetweenIs
    <3> QED BY <2>1, <2>2, <3>1, <3>2, <1>3
  <2>4. CASE splits[i] = {}
    <3>1. factor[i][d] \in {Unset, {}}
      BY <2>4, <1>1 DEF AdjustInv
    <3>2. factor'[i][d] = {}
      BY <2>1, <3>1, <1>3
    <3> QED BY <2>2, <2>4, <3>2, <1>1, BetweenIs
  <2> QED BY <2>3, <2>4
<1>8. /\ job'.cmd \notin {"audit", "provider", "splice", "mark"} /\ job.cmd # "audit"
      /\ asOf' \in Dates \cup {None} /\ adjusted' \in BOOLEAN /\ job'.rows \subseteq job.rows
  BY <1>1, <1>2, <1>5 DEF Typed, TypeOK
<1> QED BY <1>1, <1>4, <1>5, <1>6, <1>7, <1>8, FactorStep
-----------------------------------------------------------------------------
(* The theorems                                                            *)

LEMMA InvStep == IInv /\ [Next]_vars => IInv'
<1> SUFFICES ASSUME IInv, [Next]_vars PROVE IInv'
  OBVIOUS
<1>1. ASSUME NEW d \in Dates, LoadFile(d) PROVE IInv'
  BY <1>1, LoadFileKeeps
<1>2. ASSUME NEW d \in Dates, Recopy(d) PROVE IInv'
  BY <1>2, RecopyKeeps
<1>3. ASSUME NEW d \in Dates, DateByFmp(d) PROVE IInv'
  BY <1>3, DateByFmpKeeps
<1>4. ASSUME NEW i \in Ids, LoadFmp(i) PROVE IInv'
  BY <1>4, LoadFmpKeeps
<1>5. ASSUME NEW i \in Ids, SpliceLong(i) PROVE IInv'
  BY <1>5, SpliceLongKeeps
<1>6. CASE AuditRead
  BY <1>6, AuditReadKeeps
<1>7. CASE AuditWrite
  BY <1>7, AuditWriteKeeps
<1>8. CASE ProviderAnswers
  BY <1>8, ProviderAnswersKeeps
<1>9. CASE ProviderFails
  BY <1>9, ProviderFailsKeeps
<1>10. CASE RunEnds
  BY <1>10, RunEndsKeeps
<1>11. CASE SpliceBegin
  BY <1>11, SpliceBeginKeeps
<1>12. CASE SpliceRow
  BY <1>12, SpliceRowKeeps
<1>13. CASE SpliceSkip
  BY <1>13, SpliceSkipKeeps
<1>14. CASE SpliceRefused
  BY <1>14, SpliceRefusedKeeps
<1>15. CASE SpliceMark
  BY <1>15, SpliceMarkKeeps
<1>16. CASE Infer
  BY <1>16, InferKeeps
<1>17. CASE FetchSplits
  BY <1>17, FetchSplitsKeeps
<1>18. CASE AdjustBegin
  BY <1>18, AdjustBeginKeeps
<1>19. CASE AdjustRefactor
  BY <1>19, AdjustRefactorKeeps
<1>20. CASE AdjustReset
  BY <1>20, AdjustResetKeeps
<1>21. CASE AdjustFill
  BY <1>21, AdjustFillKeeps
<1>22. CASE Classify
  BY <1>22, ClassifyKeeps
<1>23. CASE CloseByForm
  BY <1>23, CloseByFormKeeps
<1>24. CASE Killed
  BY <1>24, KilledKeeps
<1>25. ASSUME NEW i \in Ids, NEW s \in Dates, Accept(i, s) PROVE IInv'
  BY <1>25, AcceptKeeps
<1>26. CASE UNCHANGED vars
  <2>1. /\ UNCHANGED <<world, torn, loaded, sec, own, factor, splits, asOf, audited, adjusted, misdated>>
        /\ audit' = audit /\ job' = job
    BY <1>26 DEF vars
  <2>2. audit \in [Ids -> [Dates -> [resume : Dates \cup {None},
                                     kind : NonTerminal \cup Terminal \cup {"none"}]]]
    BY Types DEF IInv
  <2> QED BY <2>1, <2>2, KindStep
<1> QED BY <1>1, <1>2, <1>3, <1>4, <1>5, <1>6, <1>7, <1>8, <1>9, <1>10, <1>11, <1>12, <1>13,
           <1>14, <1>15, <1>16, <1>17, <1>18, <1>19, <1>20, <1>21, <1>22, <1>23, <1>24, <1>25,
           <1>26 DEF Next

LEMMA InvImplies == IInv => Inv /\ AuditSeesAll /\ OrderlyDatesResolve
<1> SUFFICES ASSUME IInv PROVE Inv /\ AuditSeesAll /\ OrderlyDatesResolve
  OBVIOUS
<1>1. /\ TypeOK /\ Typed /\ FactorInv /\ AdjustInv /\ AuditInv /\ OrderlyInv /\ DatesInv
  BY DEF IInv, Typed
<1>2. \A i \in Ids : own[i] \subseteq Dates
  BY <1>1, Types
<1>3. NoLookahead
  BY <1>1, <1>2 DEF NoLookahead, FactorInv
<1>4. AdjustedIsRight
  BY <1>1 DEF AdjustedIsRight, AdjustInv, Right, Stages
<1>5. SplicedMeansSplit
  BY <1>1 DEF SplicedMeansSplit, OrderlyInv, SplicesStand, Ends
<1>6. AuditSeesAll
  BY <1>1 DEF AuditSeesAll, AuditInv, FiledRight
<1>7. OrderlyDatesResolve
  BY <1>1 DEF OrderlyDatesResolve, DatesInv
<1> QED BY <1>1, <1>3, <1>4, <1>5, <1>6, <1>7 DEF Inv

LEMMA Invariant == Spec => []IInv
<1> QED BY InvInit, InvStep, PTL DEF Spec

\* No stored factor contains a split after the recorded bound or before its own
\* bar, whatever stops an adjust between its statements; an adjust that ended with
\* nothing changing in between left every bar with exactly its identity's splits;
\* and, when the archive is loaded in order, a row that says 'spliced' is of an
\* identity with no bar after the hole: load_corporate_actions.py:454,
\* load_delistings.py:605.
THEOREM InvHolds == Spec => []Inv
<1> QED BY Invariant, InvImplies, PTL

\* After an audit that nothing disturbed every hole of every identity has its row,
\* and the row says what the ratios say unless somebody decided: load_delistings.py:286.
THEOREM AuditHolds == Spec => []AuditSeesAll
<1> QED BY Invariant, InvImplies, PTL

\* A symbol and a date lead to the identity whose series holds that date's bar, and
\* to no other, after any splices, inferences and datings, as long as the day files
\* are loaded in order and no date of FMP's is ahead of what is loaded:
\* 001_core_schema.up.sql:153.
THEOREM DatesHold == Spec => []OrderlyDatesResolve
<1> QED BY Invariant, InvImplies, PTL

\* Nobody overwrites an acceptance of the operator's or a splice that was marked,
\* but a run that had read the row before.
THEOREM DecisionsHold == Spec => DecisionsStand
<1> DEFINE Stands == \A i \in Ids : \A s \in Dates :
              /\ audit[i][s].kind \in {"halt_accepted", "spliced"}
              /\ audit'[i][s].kind # audit[i][s].kind
              => /\ [id |-> i, last |-> s, next |-> audit[i][s].resume] \in job.rows
                 /\ job.cmd \in {"provider", "mark"}
<1>1. IInv /\ [Next]_vars => [Stands]_vars
  <2> SUFFICES ASSUME IInv, Next, NEW i \in Ids, NEW s \in Dates,
                      audit[i][s].kind \in {"halt_accepted", "spliced"},
                      audit'[i][s].kind # audit[i][s].kind
               PROVE  /\ [id |-> i, last |-> s, next |-> audit[i][s].resume] \in job.rows
                      /\ job.cmd \in {"provider", "mark"}
    OBVIOUS
  <2>1. Typed /\ RowsInv
    BY DEF IInv
  <2>2. audit' # audit
    OBVIOUS
  \* A run that writes the row of a hole it has read.
  <2>3. ASSUME NEW h \in job.rows, NEW kind \in NonTerminal \cup Terminal, Dispose(h.id, h.last, kind),
               job.cmd \in {"provider", "mark"}
        PROVE  [id |-> i, last |-> s, next |-> audit[i][s].resume] \in job.rows
    <3>1. h \in Row /\ h.id \in Ids /\ h.last \in Dates
      BY <2>1, Types DEF Job, Row
    <3>2. h.id = i /\ h.last = s
      BY <2>1, <2>3, <3>1, DisposeIs
    <3>3. h.next = audit[i][s].resume
      BY <2>1, <2>3, <3>2 DEF RowsInv
    <3>4. h = [id |-> h.id, last |-> h.last, next |-> h.next]
      BY <3>1 DEF Row
    <3> QED BY <3>2, <3>3, <3>4
  <2>4. CASE AuditWrite
    <3>1. audit'[i][s].kind = audit[i][s].kind
      <4>1. \A seen : Merged(audit[i][s].kind, seen) = audit[i][s].kind
        BY DEF Merged
      <4>2. \/ audit'[i][s] = audit[i][s]
            \/ \E r, seen : audit'[i][s] = [resume |-> r, kind |-> Merged(audit[i][s].kind, seen)]
        BY <2>4 DEF AuditWrite
      <4>3. ASSUME NEW r, NEW seen,
                   audit'[i][s] = [resume |-> r, kind |-> Merged(audit[i][s].kind, seen)]
            PROVE  audit'[i][s].kind = audit[i][s].kind
        BY <4>1, <4>3
      <4> QED BY <4>2, <4>3
    <3> QED BY <3>1
  <2>5. CASE ProviderAnswers
    <3>1. PICK h \in job.rows : Dispose(h.id, h.last, Evidence(h.last, h.next))
      BY <2>5 DEF ProviderAnswers
    <3>2. Evidence(h.last, h.next) \in NonTerminal \cup Terminal
      BY DEF Evidence, NonTerminal, Terminal
    <3>3. job.cmd = "provider"
      BY <2>5 DEF ProviderAnswers
    <3> QED BY <2>3, <3>1, <3>2, <3>3
  <2>6. CASE ProviderFails
    <3>1. PICK h \in job.rows : Dispose(h.id, h.last, "provider_unresolvable")
      BY <2>2, <2>6 DEF ProviderFails
    <3>2. "provider_unresolvable" \in NonTerminal \cup Terminal
      BY DEF NonTerminal
    <3>3. job.cmd = "provider"
      BY <2>6 DEF ProviderFails
    <3> QED BY <2>3, <3>1, <3>2, <3>3
  <2>7. CASE SpliceMark
    <3>1. PICK h \in job.rows : Dispose(h.id, h.last, "spliced")
      BY <2>7 DEF SpliceMark, NextSplice
    <3>2. "spliced" \in NonTerminal \cup Terminal
      BY DEF Terminal
    <3>3. job.cmd = "mark"
      BY <2>7 DEF SpliceMark
    <3> QED BY <2>3, <3>1, <3>2, <3>3
  <2>8. CASE CloseByForm
    <3>1. audit'[i][s] = audit[i][s]
      BY <2>8 DEF CloseByForm
    <3> QED BY <3>1
  <2>9. ASSUME NEW j \in Ids, NEW x \in Dates, Accept(j, x) PROVE FALSE
    <3>1. audit[j][x].kind \in NonTerminal /\ Dispose(j, x, "halt_accepted")
      BY <2>9 DEF Accept
    <3>2. "halt_accepted" \in NonTerminal \cup Terminal
      BY DEF Terminal
    <3>3. j = i /\ x = s
      BY <2>1, <3>1, <3>2, DisposeIs
    <3> QED BY <3>1, <3>3 DEF NonTerminal
  <2>10. ASSUME NEW j \in Ids PROVE ~LoadFmp(j) /\ ~SpliceLong(j)
    BY <2>2 DEF LoadFmp, SpliceLong
  <2>11. ASSUME NEW d \in Dates PROVE ~LoadFile(d) /\ ~Recopy(d) /\ ~DateByFmp(d)
    BY <2>2 DEF LoadFile, Recopy, DateByFmp
  <2>12. /\ ~AuditRead /\ ~RunEnds /\ ~SpliceBegin /\ ~SpliceRow /\ ~SpliceSkip /\ ~SpliceRefused
         /\ ~Infer /\ ~FetchSplits /\ ~AdjustBegin /\ ~AdjustRefactor /\ ~AdjustReset /\ ~AdjustFill
         /\ ~Classify /\ ~Killed
    BY <2>2 DEF AuditRead, RunEnds, SpliceBegin, SpliceRow, SpliceSkip, SpliceRefused, Infer,
                FetchSplits, AdjustBegin, AdjustRefactor, AdjustReset, AdjustFill, Classify, Killed
  <2> QED BY <2>4, <2>5, <2>6, <2>7, <2>8, <2>9, <2>10, <2>11, <2>12 DEF Next
<1> QED BY <1>1, Invariant, PTL DEF Spec, DecisionsStand
=============================================================================
