------------------------- MODULE MigrateFactsProofs -------------------------
(***************************************************************************)
(* Proofs about Migrate and Facts, two components that share nothing but   *)
(* this module.                                                            *)
(*                                                                         *)
(* Migrate, for every set of runners, versions, checksums and checkouts:   *)
(* whatever bodies, crashes and lost answers come between, a row tells     *)
(* what the schema holds, nothing runs without consent or next to an       *)
(* edited file, and versions come and go in their order.                   *)
(*                                                                         *)
(* Facts, for every number of dates, rates, runs, filings and sweeps: a    *)
(* sweep's row accounts for its scope, a run of the rates command that     *)
(* overlaps no other leaves the newest value newest, and a quiet load      *)
(* dates what it stores by when it was filed.                              *)
(***************************************************************************)
EXTENDS Migrate, Facts, FiniteSetTheorems, WellFoundedInduction, TLAPS

-----------------------------------------------------------------------------
(***************************************************************************)
(* Part 1: Migrate                                                         *)
(***************************************************************************)
-----------------------------------------------------------------------------
(* The ends of a finite set of versions                                    *)

\* A finite set of numbers has a greatest and a least element.
LEMMA FiniteHasMax ==
    ASSUME NEW S, S \subseteq Int, IsFiniteSet(S), S # {}
    PROVE  \E m \in S : \A y \in S : m >= y
<1> DEFINE From(x) == {y \in S : y >= x}
           Tails == {From(x) : x \in S}
<1>1. IsWellFoundedOn(StrictSubsetOrdering(S), SUBSET S)
  BY FS_StrictSubsetOrderingWellFounded, FS_FiniteSubsetsOfFinite
<1>2. Tails \subseteq SUBSET S /\ Tails # {}
  OBVIOUS
<1>3. PICK t \in Tails : \A u \in Tails : <<u, t>> \notin StrictSubsetOrdering(S)
  <2> HIDE DEF Tails
  <2> QED BY <1>1, <1>2, WFMin
<1>4. PICK m \in S : t = From(m)
  BY <1>3
<1>5. ASSUME NEW y \in S PROVE m >= y
  <2>1. SUFFICES ASSUME y > m PROVE FALSE
    OBVIOUS
  <2>2. From(y) \subseteq From(m) /\ m \in From(m) /\ m \notin From(y)
    <3>1. y \in Int /\ m \in Int /\ \A z \in S : z \in Int
      OBVIOUS
    <3>2. m \in From(m) /\ m \notin From(y)
      BY <2>1, <3>1
    <3>3. ASSUME NEW z \in From(y) PROVE z \in From(m)
      <4>1. z \in S /\ z \in Int /\ z >= y
        BY <3>1
      <4>2. z >= m
        BY <4>1, <3>1, <2>1
      <4> QED BY <4>1, <4>2
    <3> QED BY <3>2, <3>3
  <2>3. <<From(y), From(m)>> \in StrictSubsetOrdering(S)
    BY <2>2 DEF StrictSubsetOrdering
  <2> QED BY <1>3, <1>4, <2>3
<1> QED BY <1>5

LEMMA FiniteHasMin ==
    ASSUME NEW S, S \subseteq Int, IsFiniteSet(S), S # {}
    PROVE  \E m \in S : \A y \in S : m <= y
<1> DEFINE UpTo(x) == {y \in S : y <= x}
           Heads == {UpTo(x) : x \in S}
<1>1. IsWellFoundedOn(StrictSubsetOrdering(S), SUBSET S)
  BY FS_StrictSubsetOrderingWellFounded, FS_FiniteSubsetsOfFinite
<1>2. Heads \subseteq SUBSET S /\ Heads # {}
  OBVIOUS
<1>3. PICK t \in Heads : \A u \in Heads : <<u, t>> \notin StrictSubsetOrdering(S)
  <2> HIDE DEF Heads
  <2> QED BY <1>1, <1>2, WFMin
<1>4. PICK m \in S : t = UpTo(m)
  BY <1>3
<1>5. ASSUME NEW y \in S PROVE m <= y
  <2>1. SUFFICES ASSUME y < m PROVE FALSE
    OBVIOUS
  <2>2. UpTo(y) \subseteq UpTo(m) /\ m \in UpTo(m) /\ m \notin UpTo(y)
    <3>1. y \in Int /\ m \in Int /\ \A z \in S : z \in Int
      OBVIOUS
    <3>2. m \in UpTo(m) /\ m \notin UpTo(y)
      BY <2>1, <3>1
    <3>3. ASSUME NEW z \in UpTo(y) PROVE z \in UpTo(m)
      <4>1. z \in S /\ z \in Int /\ z <= y
        BY <3>1
      <4>2. z <= m
        BY <4>1, <3>1, <2>1
      <4> QED BY <4>1, <4>2
    <3> QED BY <3>2, <3>3
  <2>3. <<UpTo(y), UpTo(m)>> \in StrictSubsetOrdering(S)
    BY <2>2 DEF StrictSubsetOrdering
  <2> QED BY <1>3, <1>4, <2>3
<1> QED BY <1>5

\* NextUp() and NextDown() name what is left to do, the lowest and the highest.
LEMMA LowIsLeast ==
    ASSUME NEW S \in SUBSET Versions, S # {}
    PROVE  Low(S) \in S /\ \A w \in S : Low(S) <= w
<1>1. S \subseteq Int
  BY VersionsArePositive
<1>2. IsFiniteSet(S)
  BY VersionsArePositive, FS_Subset
<1>3. \E v \in S : \A w \in S : v <= w
  BY <1>1, <1>2, FiniteHasMin
<1> QED BY <1>3 DEF Low

LEMMA HighIsGreatest ==
    ASSUME NEW S \in SUBSET Versions, S # {}
    PROVE  High(S) \in S /\ \A w \in S : High(S) >= w
<1>1. S \subseteq Int
  BY VersionsArePositive
<1>2. IsFiniteSet(S)
  BY VersionsArePositive, FS_Subset
<1>3. \E v \in S : \A w \in S : v >= w
  BY <1>1, <1>2, FiniteHasMax
<1> QED BY <1>3 DEF High
-----------------------------------------------------------------------------
(* The inductive invariant                                                 *)

\* A command as the code holds it between two of its steps.
Command ==
    [at : {"idle", "waiting", "planning", "body", "record"}, cmd : {"status", "up", "down"},
     allow : BOOLEAN, target : Versions \cup {NoTarget, All},
     files : Checkouts \cup {<<>>}, todo : SUBSET Versions]

\* The advisory lock is what keeps a plan current: whoever has planned holds it.
LockHeld == \A r \in Runners : runner[r].at \in {"planning", "body", "record"} => lock = r

\* What a runner in the middle of its work has left to do: something, among its
\* own files, planned on the rows as they are, with nothing left out below it
\* on the way up or above it on the way down, and allowed.
PlanSound(r) ==
    LET q == runner[r]
    IN  /\ q.cmd \in {"up", "down"}
        /\ q.files \in Checkouts
        /\ q.todo # {} /\ q.todo \subseteq DOMAIN q.files
        /\ \A v \in q.todo : HasRow(v) <=> q.cmd = "down"
        /\ q.cmd = "up" =>
             /\ \A v \in DOMAIN q.files : HasRow(v) => applied[v] = q.files[v].sum
             /\ \A v \in q.todo : \A w \in DOMAIN q.files : w < v /\ ~HasRow(w) => w \in q.todo
             /\ q.allow \/ \A v \in q.todo : ~q.files[v].destructive
        /\ q.cmd = "down" =>
             /\ \A v \in q.todo : \A w \in DOMAIN q.files : w > v /\ HasRow(w) => w \in q.todo
             /\ q.allow

\* The strengthening of Inv that the steps preserve.
IInv ==
    /\ lock \in Runners \cup {NoOne}
    /\ applied \in [Versions -> Sums \cup {"none"}]
    /\ schema \in [Versions -> Sums \cup {"none", "part", "torn"}]
    /\ runner \in [Runners -> Command]
    /\ \A r \in Runners : runner[r].todo \subseteq DOMAIN runner[r].files
    /\ LockHeld
    /\ \A r \in Mutating : PlanSound(r)
    /\ RowTellsSchema

LEMMA InvInit == Init => IInv
<1> SUFFICES ASSUME Init PROVE IInv
  OBVIOUS
<1>1. Idle \in Command
  BY DEF Idle, Command, NoTarget
<1>2. \A r \in Runners : runner[r] = Idle
  BY DEF Init
<1>3. Mutating = {}
  BY <1>2 DEF Mutating, Idle
<1>4. LockHeld
  BY <1>2 DEF LockHeld, Idle
<1>5. RowTellsSchema
  BY NoSumIsAState DEF Init, RowTellsSchema, HasRow
<1>6. \A r \in Runners : runner[r].todo \subseteq DOMAIN runner[r].files
  BY <1>2 DEF Idle
<1> QED BY <1>1, <1>3, <1>4, <1>5, <1>6 DEF Init, IInv

\* Whatever ends a command without touching the database keeps the invariant.
LEMMA ExitKeeps ==
    ASSUME IInv, NEW r \in Runners, Exit(r), UNCHANGED db
    PROVE  IInv'
<1>1. Idle \in Command /\ Idle.at = "idle" /\ Idle.todo = {}
  BY DEF Idle, Command, NoTarget
<1>2. runner' = [runner EXCEPT ![r] = Idle] /\ runner \in [Runners -> Command]
  BY DEF Exit, IInv
<1>3. /\ runner' \in [Runners -> Command]
      /\ runner'[r] = Idle
      /\ \A s \in Runners : s # r => runner'[s] = runner[s]
  BY <1>1, <1>2
<1>4. LockHeld'
  BY <1>1, <1>3 DEF LockHeld, Exit, IInv
<1>5. \A s \in Mutating' : s \in Mutating /\ s # r
  BY <1>1, <1>3 DEF Mutating
<1>6. \A s \in Mutating' : PlanSound(s)'
  <2> SUFFICES ASSUME NEW s \in Runners, s \in Mutating, s # r PROVE PlanSound(s)'
    BY <1>5 DEF Mutating
  <2>1. PlanSound(s) /\ runner'[s] = runner[s] /\ applied' = applied
    BY <1>3 DEF IInv, db
  <2> QED BY <2>1 DEF PlanSound, HasRow
<1>7. \A s \in Runners : runner'[s].todo \subseteq DOMAIN runner'[s].files
  BY <1>1, <1>3 DEF IInv
<1>8. RowTellsSchema'
  BY DEF IInv, db, RowTellsSchema, HasRow
<1> QED BY <1>3, <1>4, <1>6, <1>7, <1>8 DEF IInv, Exit, db

\* So does a runner that only moves on, if it holds the lock where it must and
\* had planned before it mutates.
LEMMA MoveKeeps ==
    ASSUME IInv, NEW r \in Runners, NEW step \in {"waiting", "planning", "body", "record"},
           At(r, step), UNCHANGED db,
           step # "waiting" => lock' = r,
           (lock' = lock) \/ (lock = NoOne /\ lock' = r),
           step \in {"body", "record"} => r \in Mutating
    PROVE  IInv'
<1> DEFINE q == [runner[r] EXCEPT !.at = step]
<1>1. runner[r] \in Command /\ runner \in [Runners -> Command]
  BY DEF IInv
<1>2. /\ q \in Command /\ q.at = step /\ q.cmd = runner[r].cmd /\ q.allow = runner[r].allow
      /\ q.files = runner[r].files /\ q.todo = runner[r].todo
  BY <1>1 DEF Command
<1>3. runner' = [runner EXCEPT ![r] = q]
  BY DEF At
<1> HIDE DEF q
<1>4. /\ runner' \in [Runners -> Command]
      /\ runner'[r] = q
      /\ \A s \in Runners : s # r => runner'[s] = runner[s]
  BY <1>1, <1>2, <1>3
<1>5. LockHeld'
  BY <1>2, <1>4, NoOneIsNoRunner DEF LockHeld, IInv
<1>6. \A s \in Mutating' : s \in Mutating
  BY <1>2, <1>4 DEF Mutating
<1>7. \A s \in Runners : /\ runner'[s].cmd = runner[s].cmd /\ runner'[s].files = runner[s].files
                         /\ runner'[s].todo = runner[s].todo /\ runner'[s].allow = runner[s].allow
  BY <1>2, <1>4
<1>8. applied' = applied /\ schema' = schema
  BY DEF db
<1>9. \A s \in Mutating' : PlanSound(s)'
  <2> SUFFICES ASSUME NEW s \in Runners, s \in Mutating PROVE PlanSound(s)'
    BY <1>6 DEF Mutating
  <2>1. PlanSound(s)
    BY DEF IInv
  <2> QED BY <2>1, <1>7, <1>8 DEF PlanSound, HasRow
<1>10. RowTellsSchema'
  BY <1>8 DEF IInv, RowTellsSchema, HasRow
<1> QED BY <1>4, <1>5, <1>7, <1>8, <1>9, <1>10 DEF IInv

\* A plan that is granted is sound when it is made: the rows were read under
\* the lock, and nobody else is at work.
LEMMA PlanKeeps ==
    ASSUME IInv, NEW r \in Runners, Plan(r)
    PROVE  IInv'
<1>1. PICK cmd \in {"status", "up", "down"}, files \in Checkouts, allow \in BOOLEAN, dry \in BOOLEAN :
      \E target \in {NoTarget} \cup DOMAIN files \cup (IF cmd = "down" THEN {All} ELSE {}) :
         LET todo == CASE cmd = "up"   -> Pending(files, target)
                       [] cmd = "down" -> ToRevert(files, target)
                       [] OTHER        -> {}
             granted == IF cmd = "up" THEN UpAllowed(files, todo, allow) ELSE allow
         IN  IF todo # {} /\ granted /\ ~dry
               THEN /\ runner' = [runner EXCEPT ![r] =
                          [at |-> "body", cmd |-> cmd, allow |-> allow,
                           target |-> target, files |-> files, todo |-> todo]]
                    /\ UNCHANGED lock
               ELSE Exit(r)
  BY DEF Plan
<1>2. PICK target \in {NoTarget} \cup DOMAIN files \cup (IF cmd = "down" THEN {All} ELSE {}) :
         LET todo == CASE cmd = "up"   -> Pending(files, target)
                       [] cmd = "down" -> ToRevert(files, target)
                       [] OTHER        -> {}
             granted == IF cmd = "up" THEN UpAllowed(files, todo, allow) ELSE allow
         IN  IF todo # {} /\ granted /\ ~dry
               THEN /\ runner' = [runner EXCEPT ![r] =
                          [at |-> "body", cmd |-> cmd, allow |-> allow,
                           target |-> target, files |-> files, todo |-> todo]]
                    /\ UNCHANGED lock
               ELSE Exit(r)
  BY <1>1
<1> DEFINE todo == CASE cmd = "up"   -> Pending(files, target)
                     [] cmd = "down" -> ToRevert(files, target)
                     [] OTHER        -> {}
           granted == IF cmd = "up" THEN UpAllowed(files, todo, allow) ELSE allow
           q == [at |-> "body", cmd |-> cmd, allow |-> allow,
                 target |-> target, files |-> files, todo |-> todo]
<1>3. UNCHANGED db
  BY DEF Plan
<1>4. CASE ~(todo # {} /\ granted /\ ~dry)
  BY <1>2, <1>3, <1>4, ExitKeeps
<1>5. CASE todo # {} /\ granted
           /\ runner' = [runner EXCEPT ![r] = q] /\ UNCHANGED lock
  <2>1. DOMAIN files \subseteq Versions
    BY CheckoutsAreFiles
  <2>2. todo \subseteq DOMAIN files /\ cmd \in {"up", "down"}
    <3>1. CASE cmd = "up"
      BY <3>1 DEF Pending
    <3>2. CASE cmd = "down"
      <4> DEFINE candidates == {v \in DOMAIN files : HasRow(v)}
      <4>1. candidates # {} => High(candidates) \in candidates
        BY <2>1, HighIsGreatest
      <4> QED BY <3>2, <4>1 DEF ToRevert
    <3> QED BY <1>5, <3>1, <3>2
  <2>3. q \in Command
    BY <2>1, <2>2 DEF Command
  <2>4. runner \in [Runners -> Command]
    BY DEF IInv
  <2>5. \A v \in todo : HasRow(v) <=> cmd = "down"
    <3>1. CASE cmd = "up"
      BY <3>1 DEF Pending
    <3>2. CASE cmd = "down"
      <4> DEFINE candidates == {v \in DOMAIN files : HasRow(v)}
      <4>1. candidates # {} => High(candidates) \in candidates
        BY <2>1, HighIsGreatest
      <4> QED BY <3>2, <4>1 DEF ToRevert
    <3> QED BY <2>2, <3>1, <3>2
  <2>6. ASSUME cmd = "up"
        PROVE  /\ \A v \in DOMAIN files : HasRow(v) => applied[v] = files[v].sum
               /\ \A v \in todo : \A w \in DOMAIN files : w < v /\ ~HasRow(w) => w \in todo
               /\ allow \/ \A v \in todo : ~files[v].destructive
    <3>1. UpAllowed(files, todo, allow) /\ todo = Pending(files, target)
      BY <1>5, <2>6
    <3>2. ASSUME NEW v \in todo, NEW w \in DOMAIN files, w < v, ~HasRow(w)
          PROVE  w \in todo
      <4>1. v \in DOMAIN files /\ (target = NoTarget \/ v <= target)
        BY <3>1 DEF Pending
      <4>2. v \in Nat /\ w \in Nat /\ (target \in Nat \/ target = NoTarget)
        BY <2>1, <2>6, <4>1, VersionsArePositive
      <4>3. target = NoTarget \/ w <= target
        BY <3>2, <4>1, <4>2
      <4> HIDE DEF todo
      <4> QED BY <3>1, <3>2, <4>3 DEF Pending
    <3> HIDE DEF todo
    <3> QED BY <3>1, <3>2 DEF UpAllowed
  <2>7. ASSUME cmd = "down"
        PROVE  /\ \A v \in todo : \A w \in DOMAIN files : w > v /\ HasRow(w) => w \in todo
               /\ allow
    <3> DEFINE candidates == {v \in DOMAIN files : HasRow(v)}
    <3>1. todo = ToRevert(files, target) /\ allow
      BY <1>5, <2>7
    <3>2. candidates # {}
      BY <1>5, <3>1 DEF ToRevert
    <3>3. \A w \in candidates : High(candidates) >= w
      BY <2>1, <3>2, HighIsGreatest
    <3>4. candidates \subseteq Nat /\ High(candidates) \in candidates
      BY <2>1, <3>2, VersionsArePositive, HighIsGreatest
    <3>5. ASSUME NEW v \in todo, NEW w \in DOMAIN files, w > v, HasRow(w)
          PROVE  w \in todo
      <4>1. w \in candidates /\ w \in Nat
        BY <3>4, <3>5
      <4>2. CASE target = NoTarget
        <5>1. v = High(candidates)
          BY <3>1, <3>2, <4>2 DEF ToRevert
        <5> QED BY <3>3, <3>4, <3>5, <4>1, <5>1
      <4>3. CASE target # NoTarget
        <5>1. todo = {u \in candidates : u > target}
          BY <3>1, <3>2, <4>3 DEF ToRevert
        <5>2. v \in Nat /\ v > target /\ target \in Nat
          BY <2>1, <2>7, <3>4, <4>3, <5>1, VersionsArePositive DEF All
        <5>3. w > target
          BY <3>5, <4>1, <5>2
        <5> HIDE DEF todo
        <5> QED BY <4>1, <5>1, <5>3
      <4> QED BY <4>2, <4>3
    <3> QED BY <3>1, <3>5
  <2> HIDE DEF todo
  <2>8. /\ runner' \in [Runners -> Command]
        /\ runner'[r] = q
        /\ \A s \in Runners : s # r => runner'[s] = runner[s]
    BY <1>5, <2>3, <2>4
  <2>9. lock = r
    BY DEF Plan, IInv, LockHeld
  <2>10. LockHeld'
    BY <1>5, <2>8, <2>9 DEF LockHeld, IInv
  <2>11. \A s \in Mutating' : s = r
    BY <2>8, <2>9 DEF Mutating, IInv, LockHeld
  <2>12. PlanSound(r)'
    BY <1>3, <1>5, <2>2, <2>5, <2>6, <2>7, <2>8 DEF PlanSound, HasRow, db
  <2>13. \A s \in Runners : runner'[s].todo \subseteq DOMAIN runner'[s].files
    BY <2>2, <2>8 DEF IInv
  <2>14. RowTellsSchema'
    BY <1>3 DEF IInv, RowTellsSchema, HasRow, db
  <2> QED BY <1>3, <1>5, <2>8, <2>10, <2>11, <2>12, <2>13, <2>14 DEF IInv, db
<1> QED BY <1>2, <1>4, <1>5

\* A body that ends the runner's transaction leaves no row and takes none, and
\* what it leaves is no whole version.
LEMMA HijackKeeps ==
    ASSUME IInv, NEW r \in Runners, Hijacked(r)
    PROVE  IInv'
<1> DEFINE v == NextOf(r)
<1>1. r \in Mutating /\ PlanSound(r)
  BY DEF Hijacked, Mutating, IInv
<1>2. runner[r].files \in Checkouts /\ DOMAIN runner[r].files \subseteq Versions
  BY <1>1, CheckoutsAreFiles DEF PlanSound
<1>3. runner[r].todo \in SUBSET Versions /\ runner[r].todo # {}
  BY <1>1, <1>2 DEF PlanSound
<1>4. v \in runner[r].todo /\ v \in Versions
  BY <1>3, LowIsLeast, HighIsGreatest DEF NextOf, NextUp, NextDown
<1>5. HasRow(v) <=> runner[r].cmd = "down"
  BY <1>1, <1>4 DEF PlanSound
<1>6. Remains(r) = (IF HasRow(v) THEN "torn" ELSE "part")
  BY <1>1, <1>5 DEF Remains, PlanSound
<1> HIDE DEF v
<1>7. applied' = applied /\ (schema' = [schema EXCEPT ![v] = Remains(r)] \/ schema' = schema)
  BY DEF Hijacked, v
<1>8. schema' \in [Versions -> Sums \cup {"none", "part", "torn"}]
  BY <1>6, <1>7 DEF IInv
<1>9. RowTellsSchema'
  BY <1>4, <1>6, <1>7, NoSumIsAState DEF IInv, RowTellsSchema, HasRow
<1>10. lock = r /\ Exit(r)
  BY DEF Hijacked, IInv, LockHeld
<1>11. Idle \in Command /\ Idle.at = "idle" /\ Idle.todo = {}
  BY DEF Idle, Command, NoTarget
<1>12. /\ runner' \in [Runners -> Command]
       /\ runner'[r] = Idle
       /\ \A s \in Runners : s # r => runner'[s] = runner[s]
  BY <1>10, <1>11 DEF Exit, IInv
<1>13. Mutating' = {} /\ LockHeld'
  BY <1>10, <1>11, <1>12 DEF Mutating, LockHeld, IInv
<1>14. \A s \in Runners : runner'[s].todo \subseteq DOMAIN runner'[s].files
  BY <1>11, <1>12 DEF IInv
<1>15. lock' = NoOne
  BY <1>10 DEF Exit
<1> QED BY <1>7, <1>8, <1>9, <1>12, <1>13, <1>14, <1>15 DEF IInv

\* One version and its row, together; what is left of the plan is still sound.
LEMMA RecordKeeps ==
    ASSUME IInv, NEW r \in Runners, Record(r)
    PROVE  IInv'
<1> DEFINE v == NextOf(r)
           up == runner[r].cmd = "up"
           still == runner[r].todo \ {v}
           sum == IF up THEN runner[r].files[v].sum ELSE "none"
<1>1. r \in Mutating /\ PlanSound(r)
  BY DEF Record, Mutating, IInv
<1>2. /\ runner[r].files \in Checkouts /\ DOMAIN runner[r].files \subseteq Versions
      /\ \A w \in DOMAIN runner[r].files : runner[r].files[w] \in File
  BY <1>1, CheckoutsAreFiles DEF PlanSound
<1>3. runner[r].todo \in SUBSET Versions /\ runner[r].todo # {}
  BY <1>1, <1>2 DEF PlanSound
<1>4. /\ v \in runner[r].todo /\ v \in Versions /\ v \in DOMAIN runner[r].files
      /\ up => \A w \in runner[r].todo : v <= w
      /\ ~up => \A w \in runner[r].todo : v >= w
  BY <1>1, <1>3, LowIsLeast, HighIsGreatest DEF NextOf, NextUp, NextDown, PlanSound
<1>5. sum \in Sums \cup {"none"} /\ (up => sum \in Sums)
  BY <1>2, <1>4 DEF File
<1>6. runner[r].cmd \in {"up", "down"} /\ still \subseteq runner[r].todo
  BY <1>1 DEF PlanSound
<1>7. /\ applied' = [applied EXCEPT ![v] = sum] /\ schema' = [schema EXCEPT ![v] = sum]
      /\ \/ /\ still # {}
            /\ runner' = [runner EXCEPT ![r].at = "body", ![r].todo = still]
            /\ UNCHANGED lock
         \/ Exit(r)
  BY DEF Record
<1>8. lock = r
  BY DEF Record, IInv, LockHeld
<1>9. still = runner[r].todo \ {v}
  OBVIOUS
<1>10. up => sum = runner[r].files[v].sum
  OBVIOUS
<1>10a. ~up => sum = "none"
  OBVIOUS
<1> HIDE DEF v, still, sum
<1>11. /\ applied' \in [Versions -> Sums \cup {"none"}]
       /\ schema' \in [Versions -> Sums \cup {"none", "part", "torn"}]
       /\ applied'[v] = sum /\ schema'[v] = sum
       /\ \A w \in Versions : w # v => applied'[w] = applied[w] /\ schema'[w] = schema[w]
  BY <1>4, <1>5, <1>7 DEF IInv
<1>12. RowTellsSchema'
  <2> SUFFICES ASSUME NEW w \in Versions
               PROVE IF applied'[w] # "none" THEN schema'[w] \in {applied'[w], "torn"} ELSE schema'[w] \notin Sums
    BY DEF RowTellsSchema, HasRow
  <2>1. CASE w = v
    BY <2>1, <1>5, <1>11, <1>10a, NoSumIsAState
  <2>2. CASE w # v
    BY <2>2, <1>11 DEF IInv, RowTellsSchema, HasRow
  <2> QED BY <2>1, <2>2
<1>13. CASE Exit(r)
  <2>1. Idle \in Command /\ Idle.at = "idle" /\ Idle.todo = {}
    BY DEF Idle, Command, NoTarget
  <2>2. /\ runner' \in [Runners -> Command]
        /\ runner'[r] = Idle
        /\ \A s \in Runners : s # r => runner'[s] = runner[s]
    BY <1>13, <2>1 DEF Exit, IInv
  <2>3. Mutating' = {} /\ LockHeld'
    BY <1>8, <2>1, <2>2 DEF Mutating, LockHeld, IInv
  <2>4. \A s \in Runners : runner'[s].todo \subseteq DOMAIN runner'[s].files
    BY <2>1, <2>2 DEF IInv
  <2>5. lock' = NoOne
    BY <1>8, <1>13 DEF Exit
  <2> QED BY <1>11, <1>12, <2>2, <2>3, <2>4, <2>5 DEF IInv
<1>14. CASE /\ still # {}
            /\ runner' = [runner EXCEPT ![r].at = "body", ![r].todo = still]
            /\ UNCHANGED lock
  <2> DEFINE q == [runner[r] EXCEPT !.at = "body", !.todo = still]
  <2>1. runner[r] \in Command /\ runner \in [Runners -> Command]
    BY DEF IInv
  <2>2. /\ q \in Command /\ q.at = "body" /\ q.cmd = runner[r].cmd /\ q.allow = runner[r].allow
        /\ q.files = runner[r].files /\ q.todo = still
    BY <2>1, <1>3, <1>6 DEF Command
  <2>3. runner' = [runner EXCEPT ![r] = q]
    BY <1>14
  <2> HIDE DEF q
  <2>4. /\ runner' \in [Runners -> Command]
        /\ runner'[r] = q
        /\ \A s \in Runners : s # r => runner'[s] = runner[s]
    BY <2>1, <2>2, <2>3
  <2>5. LockHeld'
    BY <1>8, <1>14, <2>4 DEF LockHeld, IInv
  <2>6. \A s \in Mutating' : s = r
    BY <1>8, <2>4 DEF Mutating, IInv, LockHeld
  <2>7. PlanSound(r)'
    <3>1. \A w \in still : HasRow(w)' <=> q.cmd = "down"
      BY <1>1, <1>3, <1>6, <1>9, <1>11, <2>2 DEF PlanSound, HasRow
    <3>2. ASSUME up
          PROVE  /\ \A w \in DOMAIN q.files : HasRow(w)' => applied'[w] = q.files[w].sum
                 /\ \A x \in still : \A w \in DOMAIN q.files : w < x /\ ~HasRow(w)' => w \in still
                 /\ q.allow \/ \A x \in still : ~q.files[x].destructive
      <4>1. \A w \in DOMAIN q.files : HasRow(w)' => applied'[w] = q.files[w].sum
        BY <1>1, <1>2, <1>10, <1>11, <2>2, <3>2 DEF PlanSound, HasRow
      <4>2. ASSUME NEW x \in still, NEW w \in DOMAIN q.files, w < x, ~HasRow(w)'
            PROVE  w \in still
        <5>1. w \in Versions /\ w # v
          BY <1>2, <1>5, <1>11, <2>2, <3>2, <4>2, NoSumIsAState DEF HasRow
        <5>2. ~HasRow(w) /\ x \in runner[r].todo
          BY <1>6, <1>11, <4>2, <5>1 DEF HasRow
        <5>3. w \in runner[r].todo
          BY <1>1, <2>2, <3>2, <4>2, <5>2 DEF PlanSound
        <5> QED BY <1>9, <5>1, <5>3
      <4>3. q.allow \/ \A x \in still : ~q.files[x].destructive
        BY <1>1, <1>6, <2>2, <3>2 DEF PlanSound
      <4> QED BY <4>1, <4>2, <4>3
    <3>3. ASSUME ~up
          PROVE  /\ \A x \in still : \A w \in DOMAIN q.files : w > x /\ HasRow(w)' => w \in still
                 /\ q.allow
      <4>1. q.cmd = "down" /\ sum = "none"
        BY <1>6, <1>10a, <2>2, <3>3
      <4>2. ASSUME NEW x \in still, NEW w \in DOMAIN q.files, w > x, HasRow(w)'
            PROVE  w \in still
        <5>1. w \in Versions /\ w # v
          BY <1>2, <1>11, <2>2, <4>1, <4>2 DEF HasRow
        <5>2. HasRow(w) /\ x \in runner[r].todo
          BY <1>6, <1>11, <4>2, <5>1 DEF HasRow
        <5>3. w \in runner[r].todo
          BY <1>1, <2>2, <4>1, <4>2, <5>2 DEF PlanSound
        <5> QED BY <1>9, <5>1, <5>3
      <4> QED BY <1>1, <2>2, <4>1, <4>2 DEF PlanSound
    <3>4. /\ q.cmd \in {"up", "down"} /\ q.files \in Checkouts
          /\ still # {} /\ still \subseteq DOMAIN q.files
      BY <1>1, <1>6, <1>14, <2>2 DEF PlanSound
    <3>5. (q.cmd = "up" <=> up) /\ (q.cmd = "down" <=> ~up)
      BY <1>6, <2>2
    <3> HIDE DEF up
    <3> QED BY <2>2, <2>4, <3>1, <3>2, <3>3, <3>4, <3>5 DEF PlanSound
  <2>8. \A s \in Runners : runner'[s].todo \subseteq DOMAIN runner'[s].files
    BY <1>6, <2>2, <2>4 DEF IInv
  <2>9. \A s \in Mutating' : PlanSound(s)'
    BY <2>6, <2>7
  <2> QED BY <1>11, <1>12, <1>14, <2>4, <2>5, <2>8, <2>9 DEF IInv
<1> QED BY <1>7, <1>13, <1>14

\* Every step of every runner keeps the invariant.
LEMMA InvStep == IInv /\ [Next]_vars => IInv'
<1> SUFFICES ASSUME IInv, [Next]_vars PROVE IInv'
  OBVIOUS
<1>1. CASE UNCHANGED vars
  <2>1. lock' = lock /\ applied' = applied /\ schema' = schema /\ runner' = runner
    BY <1>1 DEF vars
  <2>2. Mutating' = Mutating /\ LockHeld' /\ RowTellsSchema'
    BY <2>1 DEF Mutating, LockHeld, RowTellsSchema, HasRow, IInv
  <2>3. \A s \in Mutating : PlanSound(s)'
    BY <2>1 DEF PlanSound, HasRow, IInv
  <2> QED BY <2>1, <2>2, <2>3 DEF IInv
<1>2. ASSUME NEW r \in Runners, Step(r) PROVE IInv'
  <2>1. CASE Start(r)
    <3>1. At(r, "waiting") /\ UNCHANGED db /\ lock' = lock
      BY <2>1 DEF Start, db
    <3> QED BY <3>1, MoveKeeps, Zenon
  <2>2. CASE Acquire(r)
    BY <2>2, MoveKeeps DEF Acquire
  <2>3. CASE LockTimeout(r)
    BY <2>3, ExitKeeps DEF LockTimeout
  <2>4. CASE Plan(r)
    BY <2>4, PlanKeeps
  <2>5. CASE RunBody(r)
    <3>1. r \in Mutating /\ lock = r
      BY <2>5 DEF RunBody, Mutating, IInv, LockHeld
    <3>2. At(r, "record") /\ UNCHANGED db /\ lock' = lock
      BY <2>5 DEF RunBody, db
    <3> QED BY <3>1, <3>2, MoveKeeps
  <2>6. CASE BodyFails(r)
    BY <2>6, ExitKeeps DEF BodyFails
  <2>7. CASE Hijacked(r)
    BY <2>7, HijackKeeps
  <2>8. CASE Record(r)
    BY <2>8, RecordKeeps
  <2>9. CASE RecordFails(r)
    BY <2>9, ExitKeeps DEF RecordFails
  <2>10. CASE Die(r)
    BY <2>10, ExitKeeps DEF Die
  <2> QED BY <1>2, <2>1, <2>2, <2>3, <2>4, <2>5, <2>6, <2>7, <2>8, <2>9, <2>10 DEF Step
<1> QED BY <1>1, <1>2 DEF Next
-----------------------------------------------------------------------------
(* What follows                                                            *)

\* The inductive invariant implies what the run checks.
LEMMA InvImplies == IInv => Inv
<1> SUFFICES ASSUME IInv PROVE Inv
  OBVIOUS
<1>1. TypeOK
  BY DEF IInv, TypeOK, Command
<1>2. PlanStaysCurrent
  BY DEF IInv, PlanStaysCurrent, PlanSound
<1>3. NoDriftUnderUp
  BY DEF IInv, NoDriftUnderUp, PlanSound
<1>4. ConsentHeld
  <2> SUFFICES ASSUME NEW r \in Mutating,
                      runner[r].cmd = "down" \/ runner[r].files[NextOf(r)].destructive
               PROVE  runner[r].allow
    BY DEF ConsentHeld
  <2>1. PlanSound(r)
    BY DEF IInv
  <2>2. runner[r].todo \in SUBSET Versions /\ runner[r].todo # {}
    BY <2>1, CheckoutsAreFiles DEF PlanSound
  <2>3. runner[r].cmd = "up" => NextOf(r) \in runner[r].todo
    BY <2>2, LowIsLeast DEF NextOf, NextUp
  <2> QED BY <2>1, <2>3 DEF PlanSound
<1> QED BY <1>1, <1>2, <1>3, <1>4 DEF Inv, IInv

\* Only the recording of a version changes schema_migrations, and it takes the
\* lowest or the highest of a plan that leaves nothing out.
LEMMA StepKeepsOrder ==
    ASSUME IInv, [Next]_vars
    PROVE  applied' = applied \/ \E r \in Mutating : KeepsOrder(r)
<1>1. ASSUME NEW r \in Runners, Record(r) PROVE r \in Mutating /\ KeepsOrder(r)
  <2> DEFINE v == NextOf(r)
             up == runner[r].cmd = "up"
             sum == IF up THEN runner[r].files[v].sum ELSE "none"
  <2>1. r \in Mutating /\ PlanSound(r)
    BY <1>1 DEF Record, Mutating, IInv
  <2>2. runner[r].files \in Checkouts /\ DOMAIN runner[r].files \subseteq Versions
    BY <2>1, CheckoutsAreFiles DEF PlanSound
  <2>3. runner[r].todo \in SUBSET Versions /\ runner[r].todo # {}
    BY <2>1, <2>2 DEF PlanSound
  <2>4. /\ v \in runner[r].todo
        /\ up => \A w \in runner[r].todo : v <= w
        /\ ~up => \A w \in runner[r].todo : v >= w
    BY <2>3, LowIsLeast, HighIsGreatest DEF NextOf, NextUp, NextDown
  <2>5. applied' = [applied EXCEPT ![v] = sum] /\ applied \in [Versions -> Sums \cup {"none"}]
    BY <1>1 DEF Record, IInv
  <2>6. ~up => sum = "none"
    OBVIOUS
  <2>7. runner[r].cmd \in {"up", "down"} /\ (HasRow(v) <=> ~up)
    BY <2>1, <2>4 DEF PlanSound
  <2> HIDE DEF v, sum
  <2>8. \A w \in Versions : w # v => applied'[w] = applied[w]
    BY <2>5
  <2>9. Versions \subseteq Nat
    BY VersionsArePositive
  <2>10. ASSUME NEW x \in Versions, applied[x] = "none", applied'[x] # "none",
                NEW w \in DOMAIN runner[r].files, w < x
         PROVE  HasRow(w)
    <3>1. x = v /\ up
      BY <2>7, <2>8, <2>10 DEF HasRow
    <3>2. ~HasRow(w) => w \in runner[r].todo
      BY <2>1, <2>4, <2>10, <3>1 DEF PlanSound
    <3>3. w \in Nat /\ x \in Nat
      BY <2>2, <2>9
    <3>4. w \in runner[r].todo => x <= w
      BY <2>4, <3>1
    <3> QED BY <2>10, <3>2, <3>3, <3>4
  <2>11. ASSUME NEW x \in Versions, applied[x] # "none", applied'[x] = "none",
                NEW w \in DOMAIN runner[r].files, w > x
         PROVE  ~HasRow(w)
    <3>1. x = v /\ ~up
      BY <2>7, <2>8, <2>11 DEF HasRow
    <3>2. HasRow(w) => w \in runner[r].todo
      BY <2>1, <2>4, <2>7, <2>11, <3>1 DEF PlanSound
    <3>3. w \in Nat /\ x \in Nat
      BY <2>2, <2>9
    <3>4. w \in runner[r].todo => x >= w
      BY <2>4, <3>1
    <3> QED BY <2>11, <3>2, <3>3, <3>4
  <2> QED BY <2>1, <2>10, <2>11 DEF KeepsOrder
<1>2. ASSUME NEW r \in Runners, Step(r), ~Record(r) PROVE applied' = applied
  BY <1>2 DEF Step, Start, Acquire, LockTimeout, Plan, RunBody, BodyFails, Hijacked, RecordFails, Die, db
<1>3. CASE UNCHANGED vars
  BY <1>3 DEF vars
<1> QED BY <1>1, <1>2, <1>3 DEF Next, Mutating

\* What an operator may rely on after any sequence of commands, crashes and
\* misbehaving bodies (db/migrate.py): rows tell what the schema holds, plans
\* are current, nothing runs next to an edited file or without consent.
THEOREM InvHolds == Spec => []Inv
<1>1. Spec => []IInv
  BY InvInit, InvStep, PTL DEF Spec
<1> QED BY <1>1, InvImplies, PTL

\* A partially applied but recorded migration is impossible, and so is one that
\* is whole and unrecorded.
THEOREM RowTells == Spec => []RowTellsSchema
<1>1. Inv => RowTellsSchema
  BY DEF Inv
<1> QED BY <1>1, InvHolds, PTL

\* Versions come in their order and go in the reverse of it, whatever fails in
\* between (cmd_up, cmd_down).
THEOREM OrderHolds == Spec => OrderKept
<1>1. Spec => []IInv
  BY InvInit, InvStep, PTL DEF Spec
<1>2. IInv /\ [Next]_vars => [applied' = applied \/ \E r \in Mutating : KeepsOrder(r)]_vars
  BY StepKeepsOrder
<1> QED BY <1>1, <1>2, PTL DEF Spec, OrderKept

-----------------------------------------------------------------------------
(* Migrate implements SchemaLedger                                         *)

\* What is recorded is a body that ran to its end inside the transaction.
BodyRan == \A r \in Runners : runner[r].at = "record" => BodyOf(r) = "plain"

LEMMA BodyRanInit == Init => BodyRan
  BY DEF Init, BodyRan, Idle

LEMMA BodyRanStep ==
    ASSUME IInv, BodyRan, [Next]_vars
    PROVE  BodyRan'
<1>1. runner \in [Runners -> Command]
  BY DEF IInv
<1>2. ASSUME NEW s \in Runners, runner'[s] = runner[s], runner'[s].at = "record"
      PROVE  BodyOf(s)' = "plain"
  BY <1>2 DEF BodyRan, BodyOf, NextOf, NextUp, NextDown
<1>3. ASSUME NEW r \in Runners, Step(r), NEW s \in Runners, s # r
      PROVE  runner'[s] = runner[s]
  BY <1>1, <1>3 DEF Step, Start, Acquire, LockTimeout, Plan, RunBody, BodyFails, Hijacked, Record,
                    RecordFails, Die, At, Exit
<1>4. ASSUME NEW r \in Runners, Step(r), runner'[r].at = "record"
      PROVE  BodyOf(r)' = "plain"
  <2>1. CASE RunBody(r)
    <3>1. /\ runner'[r].cmd = runner[r].cmd /\ runner'[r].files = runner[r].files
          /\ runner'[r].todo = runner[r].todo
      BY <1>1, <2>1 DEF RunBody, At, Command
    <3>2. BodyOf(r) = "plain"
      BY <2>1 DEF RunBody
    <3> QED BY <3>1, <3>2 DEF BodyOf, NextOf, NextUp, NextDown
  <2>2. CASE Start(r) \/ Acquire(r)
    BY <1>1, <1>4, <2>2 DEF Start, Acquire, At, Command
  <2>3. CASE Plan(r)
    BY <1>1, <1>4, <2>3 DEF Plan, Exit, Idle
  <2>4. CASE Record(r)
    BY <1>1, <1>4, <2>4 DEF Record, Exit, Idle, Command
  <2>5. CASE LockTimeout(r) \/ BodyFails(r) \/ Hijacked(r) \/ RecordFails(r) \/ Die(r)
    BY <1>1, <1>4, <2>5 DEF LockTimeout, BodyFails, Hijacked, RecordFails, Die, Exit, Idle
  <2> QED BY <1>4, <2>1, <2>2, <2>3, <2>4, <2>5 DEF Step
<1>5. CASE UNCHANGED vars
  BY <1>2, <1>5 DEF vars, BodyRan
<1>6. CASE Next
  <2> SUFFICES ASSUME NEW s \in Runners, runner'[s].at = "record" PROVE BodyOf(s)' = "plain"
    BY DEF BodyRan
  <2>1. PICK r \in Runners : Step(r)
    BY <1>6 DEF Next
  <2>2. CASE s = r
    BY <1>4, <2>1, <2>2
  <2>3. CASE s # r
    BY <1>2, <1>3, <2>1, <2>3
  <2> QED BY <2>2, <2>3
<1> QED BY <1>5, <1>6

\* The turn of the version a runner has in hand has come, by its own files.
LEMMA InItsTurn ==
    ASSUME IInv, NEW r \in Mutating
    PROVE  /\ runner[r].files \in Checkouts
           /\ NextOf(r) \in DOMAIN runner[r].files /\ NextOf(r) \in Versions
           /\ runner[r].cmd \in {"up", "down"}
           /\ runner[r].cmd = "up" => Ledger!TurnUp(runner[r].files, NextOf(r))
           /\ runner[r].cmd = "down" => Ledger!TurnDown(runner[r].files, NextOf(r))
<1> DEFINE v == NextOf(r)
           files == runner[r].files
           todo == runner[r].todo
<1>1. PlanSound(r)
  BY DEF IInv
<1>2. files \in Checkouts /\ DOMAIN files \subseteq Versions
  BY <1>1, CheckoutsAreFiles DEF PlanSound
<1>3. todo \in SUBSET Versions /\ todo # {}
  BY <1>1, <1>2 DEF PlanSound
<1>4. /\ v \in todo
      /\ runner[r].cmd = "up" => \A w \in todo : v <= w
      /\ runner[r].cmd # "up" => \A w \in todo : v >= w
  BY <1>3, LowIsLeast, HighIsGreatest DEF NextOf, NextUp, NextDown
<1>5. /\ runner[r].cmd \in {"up", "down"} /\ v \in DOMAIN files
      /\ HasRow(v) <=> runner[r].cmd = "down"
  BY <1>1, <1>4 DEF PlanSound
<1>6. Versions \subseteq Nat
  BY VersionsArePositive
<1>7. ASSUME runner[r].cmd = "up" PROVE Ledger!TurnUp(files, v)
  <2>1. ASSUME NEW w \in DOMAIN files, w < v PROVE HasRow(w)
    <3>1. ~HasRow(w) => w \in todo
      BY <1>1, <1>4, <1>7, <2>1 DEF PlanSound
    <3>2. w \in todo => v <= w
      BY <1>4, <1>7
    <3>3. w \in Nat /\ v \in Nat
      BY <1>2, <1>3, <1>4, <1>6
    <3> HIDE DEF v, files, todo
    <3> QED BY <2>1, <3>1, <3>2, <3>3
  <2>2. \A w \in DOMAIN files : HasRow(w) => applied[w] = files[w].sum
    BY <1>1, <1>7 DEF PlanSound
  <2>3. ~HasRow(v)
    BY <1>5, <1>7
  <2> HIDE DEF v, files, todo
  <2> QED BY <2>1, <2>2, <2>3 DEF Ledger!TurnUp, HasRow
<1>8. ASSUME runner[r].cmd = "down" PROVE Ledger!TurnDown(files, v)
  <2>1. ASSUME NEW w \in DOMAIN files, w > v PROVE ~HasRow(w)
    <3>1. HasRow(w) => w \in todo
      BY <1>1, <1>4, <1>8, <2>1 DEF PlanSound
    <3>2. w \in todo => v >= w
      BY <1>4, <1>8
    <3>3. w \in Nat /\ v \in Nat
      BY <1>2, <1>3, <1>4, <1>6
    <3> HIDE DEF v, files, todo
    <3> QED BY <2>1, <3>1, <3>2, <3>3
  <2>2. HasRow(v)
    BY <1>5, <1>8
  <2> HIDE DEF v, files, todo
  <2> QED BY <2>1, <2>2 DEF Ledger!TurnDown, HasRow
<1>9. v \in Versions
  BY <1>3, <1>4
<1> QED BY <1>2, <1>5, <1>7, <1>8, <1>9

\* Each step of a runner is a step of the ledger, or changes nothing there.
LEMMA StepIsLedgers ==
    ASSUME IInv, BodyRan, [Next]_vars
    PROVE  [Ledger!SchemaNext]_<<applied, schema>>
<1>1. ASSUME NEW r \in Runners, Record(r) PROVE Ledger!SchemaNext
  <2> DEFINE v == NextOf(r)
             files == runner[r].files
  <2>1. r \in Mutating /\ BodyOf(r) = "plain"
    BY <1>1 DEF Record, Mutating, BodyRan
  <2>2. /\ files \in Checkouts /\ v \in DOMAIN files
        /\ runner[r].cmd \in {"up", "down"}
        /\ runner[r].cmd = "up" => Ledger!TurnUp(files, v)
        /\ runner[r].cmd = "down" => Ledger!TurnDown(files, v)
    BY <2>1, InItsTurn
  <2>3. CASE runner[r].cmd = "up"
    <3>1. files[v].up = "plain"
      BY <2>1, <2>3 DEF BodyOf
    <3>2. /\ applied' = [applied EXCEPT ![v] = files[v].sum]
          /\ schema' = [schema EXCEPT ![v] = files[v].sum]
      BY <1>1, <2>3 DEF Record
    <3> HIDE DEF v, files
    <3>3. Ledger!Apply(files, v)
      BY <2>2, <2>3, <3>1, <3>2 DEF Ledger!Apply
    <3> QED BY <2>2, <3>3 DEF Ledger!SchemaNext
  <2>4. CASE runner[r].cmd = "down"
    <3>1. files[v].down = "plain"
      BY <2>1, <2>4 DEF BodyOf
    <3>2. /\ applied' = [applied EXCEPT ![v] = "none"]
          /\ schema' = [schema EXCEPT ![v] = "none"]
      BY <1>1, <2>4 DEF Record
    <3> HIDE DEF v, files
    <3>3. Ledger!Revert(files, v)
      BY <2>2, <2>4, <3>1, <3>2 DEF Ledger!Revert
    <3> QED BY <2>2, <3>3 DEF Ledger!SchemaNext
  <2> QED BY <2>2, <2>3, <2>4
<1>2. ASSUME NEW r \in Runners, Hijacked(r) PROVE Ledger!SchemaNext \/ UNCHANGED <<applied, schema>>
  <2> DEFINE v == NextOf(r)
             files == runner[r].files
  <2>1. r \in Mutating /\ BodyOf(r) = "tx" /\ applied' = applied
    BY <1>2 DEF Hijacked, Mutating
  <2>2. /\ files \in Checkouts /\ v \in DOMAIN files
        /\ runner[r].cmd \in {"up", "down"}
        /\ runner[r].cmd = "up" => Ledger!TurnUp(files, v)
        /\ runner[r].cmd = "down" => Ledger!TurnDown(files, v)
    BY <2>1, InItsTurn
  <2>3. CASE UNCHANGED schema
    BY <2>1, <2>3
  <2>4. CASE schema' = [schema EXCEPT ![v] = Remains(r)]
    <3>1. \/ runner[r].cmd = "up" /\ files[v].up = "tx" /\ Remains(r) = "part"
          \/ runner[r].cmd = "down" /\ files[v].down = "tx" /\ Remains(r) = "torn"
      BY <2>1, <2>2 DEF BodyOf, Remains
    <3> HIDE DEF v, files
    <3>2. Ledger!Tear(files, v)
      BY <2>1, <2>2, <2>4, <3>1 DEF Ledger!Tear
    <3> QED BY <2>2, <3>2 DEF Ledger!SchemaNext
  <2> QED BY <1>2, <2>3, <2>4 DEF Hijacked
<1>3. ASSUME NEW r \in Runners, Step(r), ~Record(r), ~Hijacked(r)
      PROVE  UNCHANGED <<applied, schema>>
  BY <1>3 DEF Step, Start, Acquire, LockTimeout, Plan, RunBody, BodyFails, RecordFails, Die, db
<1>4. CASE UNCHANGED vars
  BY <1>4 DEF vars
<1> QED BY <1>1, <1>2, <1>3, <1>4 DEF Next

\* Whatever runs beside it, dies or fails, the database goes through one
\* migration at a time, each in its turn and whole: the runner keeps the
\* promise of SchemaLedger for every set of runners and checkouts.
THEOREM OneAtATimeHolds == Spec => OneAtATime
<1>1. Init => Ledger!SchemaInit
  BY DEF Init, Ledger!SchemaInit
<1>2. Init => IInv /\ BodyRan
  BY InvInit, BodyRanInit
<1>3. IInv /\ BodyRan /\ [Next]_vars => IInv' /\ BodyRan'
  BY InvStep, BodyRanStep
<1>4. IInv /\ BodyRan /\ [Next]_vars => [Ledger!SchemaNext]_<<applied, schema>>
  BY StepIsLedgers
<1> QED BY <1>1, <1>2, <1>3, <1>4, PTL DEF Spec, OneAtATime, Ledger!SchemaSpec

-----------------------------------------------------------------------------
(***************************************************************************)
(* Part 2: Facts                                                           *)
(***************************************************************************)
-----------------------------------------------------------------------------
(* The inductive invariant of Facts                                        *)

RateRow == [eff : Dates, rate : Rates, known : Nat]
Shown == [Dates -> Rates \cup {None}]
RatesRun == [pc : {"idle", "begun", "fetched", "read", "done", "failed"},
             began : Times \cup {None}, seen : Shown, read : Shown, alone : BOOLEAN]

\* A row that was known before moment m, or is the first of its date.
KnownBefore(x, m) == x.known < Fetch(m) \/ x.known = Floor(x.eff)

\* What a run that overlaps no other relies on: nobody else is busy, all that is
\* stored was known before it began or at the midnight of its date, and what it
\* read is still what is stored.
OnItsOwn(r) ==
    /\ \A q \in Runs : Busy(q) => q = r
    /\ \A x \in rates : KnownBefore(x, run[r].began)
    /\ run[r].pc = "read" => \A e \in Dates : run[r].read[e] = Latest(rates, e)

\* No rate is shown before the evening of its date, and a revision is not
\* stored as known later than now.
RatesInv ==
    /\ feed \in {"rates", "statements"} /\ now \in Times
    /\ fred \in Shown /\ rates \subseteq RateRow /\ run \in [Runs -> RatesRun]
    /\ \A e \in Dates : fred[e] # None => e <= now
    /\ \A x \in rates : KnownBefore(x, now + 1)
    /\ \A r \in Runs : /\ run[r].began <= now
                       /\ \A e \in Dates : run[r].seen[e] # None => e <= now
                       /\ run[r].alone /\ Busy(r) => OnItsOwn(r)

Load == [pc : {"idle", "ratios", "income", "cash"}, nth : Nat, began : 0..Last,
         ratios : SUBSET filings, income : SUBSET filings, cash : SUBSET filings,
         quiet : BOOLEAN]

\* While nothing is filed, every answer is the same one or none.
LoadInv ==
    /\ filings \in Worlds \cup {{}} /\ load \in Load
    /\ feed = "rates" => load.pc = "idle"
    /\ load.pc # "idle" =>
         /\ load.began \in Times
         /\ load.quiet => {load.ratios, load.income, load.cash} \subseteq {Served, {}}
    /\ \A x \in rows : /\ KeyOf(x) \in Key
                       /\ {x.margin, x.fcf, x.eps} \subseteq filings \cup {NoFiling}

Sweep == [at : Times, status : {"running", "complete", "skipped"}, alive : BOOLEAN,
          scope : Nat, observed : Nat, failed : Nat]
Counts == [observed : Nat, failed : Nat]
Observation == [run : DOMAIN sweeps, target : Targets, at : Times, row : Key \cup {NoKey}]

Of(n) == {o \in obs : o.run = n}

\* Sweeps come one after another, each at its own time, and an observation is of
\* its sweep's time, so that no sweep takes an observation from another.
SweepInv ==
    /\ sweeps \in Seq(Sweep) /\ load.nth + Len(sweeps) <= MaxJobs
    /\ left \in Seq(Targets) /\ counted \in Counts
    /\ IsFiniteSet(obs) /\ obs \subseteq Observation
    /\ \A n \in DOMAIN sweeps : sweeps[n].at <= now
    /\ \A n, m \in DOMAIN sweeps : n < m => sweeps[n].at < sweeps[m].at
    /\ \A n \in DOMAIN sweeps : sweeps[n].alive => n = Len(sweeps) /\ sweeps[n].status = "running"
    /\ \A o \in obs : o.at = sweeps[o.run].at
    /\ Sweeping =>
         /\ \A i, j \in DOMAIN left : left[i] = left[j] => i = j
         /\ \A o \in Of(Len(sweeps)) : \A i \in DOMAIN left : left[i] # o.target

\* The strengthening of FactsInv that the steps preserve.
FactsIInv == RatesInv /\ LoadInv /\ SweepInv /\ SweepsAddUp
-----------------------------------------------------------------------------
(* The latest row of a date                                                *)

RowsOf(T, e) == {x \in T : x.eff = e}

LEMMA FactsBounds ==
    /\ Last \in Nat \ {0} /\ None = 0 /\ None \notin Times /\ None \notin Rates
    /\ Times \subseteq Nat /\ Dates \subseteq Times /\ Rates \subseteq Nat
    /\ Evening \in Nat /\ \A e \in Dates : e \in Nat /\ e <= Last
  BY BoundsAreNat DEF None, Times

LEMMA MomentsAreNat == \A t \in Times \cup {None} : t \in Nat
<1> SUFFICES ASSUME NEW t \in Times \cup {None} PROVE t \in Nat
  OBVIOUS
<1>1. CASE t \in Times
  BY <1>1, FactsBounds
<1>2. CASE t = None
  BY <1>2 DEF None
<1> QED BY <1>1, <1>2

\* A reader finds no rate of a date, or a rate that is stored for it.
LEMMA LatestIsARow ==
    ASSUME NEW T \in SUBSET RateRow, NEW e \in Dates, NEW b \in Nat,
           \A x \in T : x.known <= b
    PROVE  /\ RowsOf(T, e) = {} => Latest(T, e) = None
           /\ RowsOf(T, e) # {} => Latest(T, e) \in Rates
<1> DEFINE of == RowsOf(T, e)
           knowns == {x.known : x \in of}
<1>1. ASSUME of # {} PROVE \E x \in of : \A y \in of : y.known <= x.known
  <2>1. knowns \subseteq Nat /\ knowns # {} /\ \A k \in knowns : k <= b
    BY <1>1 DEF RateRow, RowsOf
  <2> HIDE DEF knowns
  <2>2. IsFiniteSet(knowns) /\ knowns \subseteq Int
    BY <2>1, FS_BoundedSetOfNaturals
  <2>3. \E m \in knowns : \A y \in knowns : m >= y
    BY <2>1, <2>2, FiniteHasMax
  <2> QED BY <2>1, <2>3 DEF knowns
<1>2. of # {} => Latest(T, e) \in Rates
  <2> SUFFICES ASSUME of # {} PROVE Latest(T, e) \in Rates
    OBVIOUS
  <2>1. PICK x \in of : x = CHOOSE z \in of : \A y \in of : y.known <= z.known
    BY <1>1
  <2>2. Latest(T, e) = x.rate
    BY <2>1 DEF Latest, RowsOf
  <2> QED BY <2>2 DEF RowsOf, RateRow
<1> QED BY <1>2 DEF Latest, RowsOf

LEMMA LatestIsNewest ==
    ASSUME NEW T \in SUBSET RateRow, NEW e \in Dates, NEW x \in RowsOf(T, e),
           \A y \in RowsOf(T, e) : y # x => y.known < x.known
    PROVE  Latest(T, e) = x.rate
<1> DEFINE of == RowsOf(T, e)
           newest == CHOOSE z \in of : \A y \in of : y.known <= z.known
<1>1. \A y \in of : y.known \in Nat
  BY DEF RowsOf, RateRow
<1>2. \A y \in of : y.known <= x.known
  BY <1>1
<1>3. newest \in of /\ \A y \in of : y.known <= newest.known
  BY <1>2
<1>4. newest = x
  BY <1>1, <1>3
<1>5. Latest(T, e) = newest.rate
  BY DEF Latest, RowsOf
<1> QED BY <1>4, <1>5

LEMMA LatestDepends ==
    ASSUME NEW T, NEW U, NEW e, RowsOf(T, e) = RowsOf(U, e)
    PROVE  Latest(T, e) = Latest(U, e)
<1>1. ASSUME NEW V PROVE Latest(V, e) =
          IF RowsOf(V, e) = {} THEN None
          ELSE (CHOOSE x \in RowsOf(V, e) : \A y \in RowsOf(V, e) : y.known <= x.known).rate
  BY DEF Latest, RowsOf
<1> QED BY <1>1, Zenon
-----------------------------------------------------------------------------
(* SweepsAddUp, row by row: s is the row, c the number of observations it  *)
(* left, count and rest what its process holds.                            *)

AddsUp(s, c, count, rest) ==
    /\ IF s.status = "complete" THEN s.observed = c /\ s.observed + s.failed = s.scope
       ELSE s.observed = 0 /\ s.failed = 0
    /\ s.status = "skipped" => s.scope = 0 /\ c = 0
    /\ s.alive => count.observed = c /\ count.observed + count.failed + rest = s.scope

LEMMA RowsAddUp ==
    SweepsAddUp <=> \A n \in DOMAIN sweeps :
                        AddsUp(sweeps[n], Cardinality(Of(n)), counted, Len(left))
  BY DEF SweepsAddUp, AddsUp, Of

LEMMA RowsAddUpNext ==
    SweepsAddUp' <=> \A n \in DOMAIN sweeps' :
                        AddsUp(sweeps'[n], Cardinality({o \in obs' : o.run = n}), counted', Len(left'))
  BY DEF SweepsAddUp, AddsUp

\* What the process holds says nothing of a sweep it does not run.
LEMMA DeadRowsStand ==
    ASSUME NEW s, NEW c, NEW count, NEW rest, NEW other, NEW more,
           AddsUp(s, c, count, rest), ~s.alive
    PROVE  AddsUp(s, c, other, more)
  BY DEF AddsUp
-----------------------------------------------------------------------------
(* What a step leaves alone                                                *)

LEMMA RatesKept ==
    ASSUME RatesInv, UNCHANGED <<feed, now, rateVars>>
    PROVE  RatesInv'
<1>1. feed' = feed /\ now' = now /\ fred' = fred /\ rates' = rates /\ run' = run
  BY DEF rateVars
<1> QED BY <1>1 DEF RatesInv, OnItsOwn, Busy

LEMMA LoadKept ==
    ASSUME LoadInv, UNCHANGED <<feed, now, loadVars>>
    PROVE  LoadInv'
<1>1. feed' = feed /\ now' = now /\ filings' = filings /\ rows' = rows /\ load' = load
  BY DEF loadVars
<1>2. Served' = Served
  BY <1>1 DEF Served
<1> QED BY <1>1, <1>2 DEF LoadInv, Load

LEMMA SweepsKept ==
    ASSUME RatesInv, SweepInv, SweepsAddUp, now' \in Times, now <= now',
           load'.nth = load.nth \/ load'.nth + Len(sweeps) <= MaxJobs, UNCHANGED sweepVars
    PROVE  SweepInv' /\ SweepsAddUp'
<1>1. sweeps' = sweeps /\ left' = left /\ counted' = counted /\ obs' = obs
  BY DEF sweepVars
<1>2. SweepsAddUp'
  BY <1>1 DEF SweepsAddUp
<1>3. \A n \in DOMAIN sweeps : sweeps[n].at <= now'
  <2> SUFFICES ASSUME NEW n \in DOMAIN sweeps PROVE sweeps[n].at <= now'
    OBVIOUS
  <2>0. sweeps[n] \in Sweep
    BY DEF SweepInv
  <2>1. sweeps[n].at \in Nat /\ sweeps[n].at <= now /\ now \in Nat /\ now' \in Nat
    BY <2>0, FactsBounds DEF SweepInv, Sweep, RatesInv
  <2> QED BY <2>1
<1> QED BY <1>1, <1>2, <1>3 DEF SweepInv, Of, Observation, Sweeping

\* The statements under a step of the rates, and the other way about.
LEMMA RatesStepKeepsTheRest ==
    ASSUME FactsIInv, now' = now, UNCHANGED <<feed, loadVars, sweepVars>>
    PROVE  LoadInv' /\ SweepInv' /\ SweepsAddUp'
<1>1. LoadInv'
  BY LoadKept DEF FactsIInv
<1>2. now \in Nat
  BY FactsBounds DEF FactsIInv, RatesInv
<1>3. load'.nth = load.nth /\ now' \in Times /\ now <= now'
  BY <1>2 DEF FactsIInv, RatesInv, loadVars
<1>4. SweepInv' /\ SweepsAddUp'
  BY <1>3, SweepsKept DEF FactsIInv
<1> QED BY <1>1, <1>4

LEMMA LoadStepKeepsTheRest ==
    ASSUME FactsIInv, load'.nth = load.nth \/ load'.nth + Len(sweeps) <= MaxJobs,
           UNCHANGED <<feed, now, rateVars, sweepVars>>
    PROVE  RatesInv' /\ SweepInv' /\ SweepsAddUp'
<1>1. RatesInv'
  BY RatesKept DEF FactsIInv
<1>2. now \in Nat /\ now' = now
  BY FactsBounds DEF FactsIInv, RatesInv
<1>3. now' \in Times /\ now <= now'
  BY <1>2 DEF FactsIInv, RatesInv
<1>4. SweepInv' /\ SweepsAddUp'
  BY <1>3, SweepsKept DEF FactsIInv
<1> QED BY <1>1, <1>4

LEMMA SweepStepKeepsTheRest ==
    ASSUME FactsIInv, UNCHANGED <<feed, now, rateVars, loadVars>>
    PROVE  RatesInv' /\ LoadInv'
  BY RatesKept, LoadKept DEF FactsIInv
-----------------------------------------------------------------------------
(* The first state and the clock                                           *)

LEMMA FactsInvInit == FactsInit => FactsIInv
<1> SUFFICES ASSUME FactsInit PROVE FactsIInv
  OBVIOUS
<1>1. RatesInv
  <2>1. NotRun \in RatesRun /\ [e \in Dates |-> None] \in Shown
    BY DEF NotRun, RatesRun, Shown
  <2>2. 1 \in Times /\ \A r \in Runs : ~Busy(r)
    BY FactsBounds DEF FactsInit, Busy, NotRun, Times
  <2>3. \A r \in Runs : run[r].began = 0 /\ run[r].seen = [e \in Dates |-> None]
    BY FactsBounds DEF FactsInit, NotRun
  <2> QED BY <2>1, <2>2, <2>3, FactsBounds DEF FactsInit, RatesInv
<1>2. LoadInv
  <2>1. NoLoad.pc = "idle" /\ NoLoad \in Load
    BY FactsBounds DEF NoLoad, Load
  <2> QED BY <2>1 DEF FactsInit, LoadInv
<1>3. SweepInv
  <2>1. load.nth = 0 /\ Len(sweeps) = 0 /\ DOMAIN sweeps = {}
    BY DEF FactsInit, NoLoad
  <2>2. sweeps \in Seq(Sweep) /\ left \in Seq(Targets)
    BY DEF FactsInit
  <2>3. IsFiniteSet(obs) /\ obs = {} /\ ~Sweeping
    BY <2>1, FS_EmptySet DEF FactsInit, Sweeping
  <2>4. MaxJobs \in Nat
    BY BoundsAreNat
  <2>5. counted \in Counts
    BY DEF FactsInit, Nought, Counts
  <2> QED BY <2>1, <2>2, <2>3, <2>4, <2>5 DEF SweepInv
<1>4. SweepsAddUp
  BY DEF FactsInit, SweepsAddUp
<1> QED BY <1>1, <1>2, <1>3, <1>4 DEF FactsIInv

\* Nothing is filed between two moments unless some filing is of the second.
LEMMA ServedStands ==
    ASSUME NEW n \in Nat, now = n, now' = n + 1, filings' = filings,
           \A f \in filings : f.filed \in Nat /\ f.filed # n + 1
    PROVE  Served' = Served
<1>1. \A f \in filings : f.filed <= n + 1 <=> f.filed <= n
  OBVIOUS
<1> QED BY <1>1 DEF Served

LEMMA FilingsTyped ==
    ASSUME FactsIInv
    PROVE  \A f \in filings : f \in Filing /\ f.filed \in Nat /\ f.stamp \in Nat /\ f.ends \in Nat
                              /\ f.period \in Nat /\ f.stamp \in 0..Last
<1>1. filings \subseteq Filing
  BY WorldsAreFilings DEF FactsIInv, LoadInv
<1> QED BY <1>1, FactsBounds DEF Filing, Times

LEMMA FactsTick == FactsIInv /\ Tick => FactsIInv'
<1> SUFFICES ASSUME FactsIInv, Tick PROVE FactsIInv'
  OBVIOUS
<1>1. /\ now \in Nat /\ now' = now + 1 /\ now' \in Times /\ now <= now'
      /\ feed' = feed /\ fred' = fred /\ rates' = rates /\ run' = run
      /\ filings' = filings /\ rows' = rows
  BY FactsBounds DEF FactsIInv, RatesInv, Tick, rateVars, Times
<1>2. RatesInv'
  <2>1. /\ \A e \in Dates : fred[e] # None => e <= now + 1
        /\ \A x \in rates : KnownBefore(x, now + 1 + 1)
    <3>1. /\ \A e \in Dates : e \in Nat
          /\ \A x \in rates : x.known \in Nat
      BY FactsBounds DEF FactsIInv, RatesInv, RateRow
    <3> QED BY <1>1, <3>1 DEF FactsIInv, RatesInv, KnownBefore, Fetch
  <2>2. ASSUME NEW r \in Runs
        PROVE  /\ run[r].began <= now + 1
               /\ \A e \in Dates : run[r].seen[e] # None => e <= now + 1
               /\ run[r].alone /\ Busy(r) => OnItsOwn(r)
    <3>0. run[r] \in RatesRun
      BY DEF FactsIInv, RatesInv
    <3>1. run[r].began \in Times \cup {None}
      BY <3>0 DEF RatesRun
    <3>2. run[r].began \in Nat /\ \A e \in Dates : e \in Nat
      BY <3>1, MomentsAreNat, FactsBounds
    <3>3. run[r].began <= now /\ \A e \in Dates : run[r].seen[e] # None => e <= now
      BY DEF FactsIInv, RatesInv
    <3>4. run[r].alone /\ Busy(r) => OnItsOwn(r)
      BY DEF FactsIInv, RatesInv
    <3> QED BY <1>1, <3>2, <3>3, <3>4
  <2> QED BY <1>1, <2>1, <2>2 DEF FactsIInv, RatesInv, OnItsOwn, Busy
<1>3. PICK q \in BOOLEAN : /\ load' = [load EXCEPT !.quiet = q]
                           /\ q => load.quiet /\ \A f \in filings : f.filed # now + 1
  <2>1. load.quiet \in BOOLEAN
    BY DEF FactsIInv, LoadInv, Load
  <2> QED BY <2>1 DEF Tick
<1>4. LoadInv'
  <2>1. load' \in Load /\ load'.pc = load.pc /\ load'.began = load.began /\ load'.quiet = q
        /\ load'.ratios = load.ratios /\ load'.income = load.income /\ load'.cash = load.cash
    BY <1>3 DEF FactsIInv, LoadInv, Load
  <2>2. q => Served' = Served
    BY <1>1, <1>3, ServedStands, FilingsTyped
  <2>3. load'.pc # "idle" => load'.began \in Times
                             /\ (load'.quiet => {load'.ratios, load'.income, load'.cash} \subseteq {Served', {}})
    BY <1>3, <2>1, <2>2 DEF FactsIInv, LoadInv
  <2>4. Load' = Load
    BY <1>1 DEF Load
  <2> QED BY <1>1, <2>1, <2>3, <2>4 DEF FactsIInv, LoadInv
<1>5. load'.nth = load.nth
  BY <1>3 DEF FactsIInv, LoadInv, Load
<1>6. SweepInv' /\ SweepsAddUp'
  BY <1>1, <1>5, SweepsKept DEF FactsIInv, Tick
<1> QED BY <1>2, <1>4, <1>6 DEF FactsIInv
-----------------------------------------------------------------------------
(* The rates                                                               *)

LEMMA RunTyped ==
    ASSUME RatesInv, NEW r \in Runs
    PROVE  /\ run[r] \in RatesRun /\ run[r].began \in Nat /\ now \in Nat
           /\ DOMAIN run = Runs
<1>1. run[r] \in RatesRun
  BY DEF RatesInv
<1>2. run[r].began \in Times \cup {None}
  BY <1>1 DEF RatesRun
<1>3. run[r].began \in Nat
  BY <1>2, MomentsAreNat
<1>4. now \in Nat /\ DOMAIN run = Runs
  BY FactsBounds DEF RatesInv
<1> QED BY <1>1, <1>3, <1>4

LEMMA FactsPublish ==
    ASSUME FactsIInv, NEW e \in Dates, NEW v \in Rates, Publish(e, v)
    PROVE  FactsIInv'
<1>1. /\ feed' = feed /\ now' = now /\ rates' = rates /\ run' = run
      /\ fred' = [fred EXCEPT ![e] = v] /\ now >= e
  BY DEF Publish
<1>2. fred' \in Shown /\ \A d \in Dates : fred'[d] # None => d <= now
  <2>1. now \in Times /\ now \in Nat /\ e \in Nat
    BY FactsBounds DEF FactsIInv, RatesInv
  <2> QED BY <1>1, <2>1 DEF FactsIInv, RatesInv, Shown
<1>3. RatesInv'
  BY <1>1, <1>2 DEF FactsIInv, RatesInv, OnItsOwn, Busy
<1>4. LoadInv' /\ SweepInv' /\ SweepsAddUp'
  BY RatesStepKeepsTheRest DEF Publish
<1> QED BY <1>3, <1>4 DEF FactsIInv

\* A run that begins while another is busy is not on its own, nor is that other.
LEMMA FactsRatesBegin ==
    ASSUME FactsIInv, NEW r \in Runs, RatesBegin(r)
    PROVE  FactsIInv'
<1>0. now \in Nat /\ 1 <= now /\ Last \in Nat
  BY FactsBounds DEF FactsIInv, RatesInv, Times
<1>a. /\ now < Last /\ now' = now + 1
      /\ feed' = feed /\ feed = "rates" /\ fred' = fred /\ rates' = rates
  BY DEF RatesBegin
<1>1. /\ now \in Nat /\ now' = now + 1 /\ now' \in Times /\ now <= now'
      /\ feed' = feed /\ feed = "rates" /\ fred' = fred /\ rates' = rates
  BY <1>0, <1>a DEF Times
<1>2. PICK a \in BOOLEAN :
        /\ a => \A q \in Runs : ~Busy(q)
        /\ run'[r] = [NotRun EXCEPT !.pc = "begun", !.began = now + 1, !.alone = a]
  <2>1. (\A q \in Runs : ~Busy(q)) \in BOOLEAN
    OBVIOUS
  <2> QED BY <2>1, Zenon DEF RatesBegin
<1>3. ASSUME NEW q \in Runs, q # r
      PROVE  \E b \in BOOLEAN : /\ b => ~Busy(q)
                                /\ run'[q] = [run[q] EXCEPT !.alone = b]
  <2>1. (run[q].alone /\ ~Busy(q)) \in BOOLEAN
    OBVIOUS
  <2>2. run'[q] = [run[q] EXCEPT !.alone = run[q].alone /\ ~Busy(q)]
    BY <1>3 DEF RatesBegin
  <2> QED BY <2>1, <2>2
<1>4. /\ run'[r] = [pc |-> "begun", began |-> now + 1, seen |-> [d \in Dates |-> None],
                    read |-> [d \in Dates |-> None], alone |-> a]
  BY <1>2 DEF NotRun
<1>5. ASSUME NEW q \in Runs, q # r
      PROVE  /\ run'[q] \in RatesRun /\ run'[q].began = run[q].began /\ run'[q].pc = run[q].pc
             /\ run'[q].seen = run[q].seen /\ (run'[q].alone => ~Busy(q))
  <2>1. run[q] \in RatesRun
    BY DEF FactsIInv, RatesInv
  <2>2. PICK b \in BOOLEAN : (b => ~Busy(q)) /\ run'[q] = [run[q] EXCEPT !.alone = b]
    BY <1>3, <1>5
  <2> QED BY <2>1, <2>2 DEF RatesRun
<1>6. run' \in [Runs -> RatesRun]
  <2>1. run'[r] \in RatesRun
    BY <1>1, <1>4 DEF RatesRun, Shown
  <2>2. run' = [s \in Runs |-> run'[s]]
    BY DEF RatesBegin
  <2> QED BY <1>5, <2>1, <2>2
<1>7. /\ \A d \in Dates : fred[d] # None => d <= now + 1
      /\ \A x \in rates : KnownBefore(x, now + 1 + 1) /\ KnownBefore(x, now + 1)
  <2>1. /\ \A d \in Dates : d \in Nat
        /\ \A x \in rates : x.known \in Nat
    BY FactsBounds DEF FactsIInv, RatesInv, RateRow
  <2> QED BY <1>1, <2>1 DEF FactsIInv, RatesInv, KnownBefore, Fetch
<1>8. ASSUME NEW q \in Runs
      PROVE  /\ run'[q].began <= now + 1
             /\ \A d \in Dates : run'[q].seen[d] # None => d <= now + 1
  <2>1. CASE q = r
    BY <1>1, <1>4, <2>1
  <2>2. CASE q # r
    <3>1. run[q].began \in Nat /\ \A d \in Dates : d \in Nat
      BY RunTyped, FactsBounds DEF FactsIInv
    <3> QED BY <1>1, <1>5, <2>2, <3>1 DEF FactsIInv, RatesInv
  <2> QED BY <2>1, <2>2
<1>9. ASSUME NEW q \in Runs, run'[q].alone, Busy(q)'
      PROVE  OnItsOwn(q)'
  <2>1. \A s \in Runs : s # r => (Busy(s)' <=> Busy(s))
    BY <1>5 DEF Busy
  <2>2. q = r
    BY <1>5, <1>9, <2>1
  <2>3. \A s \in Runs : Busy(s)' => s = r
    BY <1>2, <1>4, <1>9, <2>1, <2>2
  <2>4. run'[r].pc = "begun" /\ run'[r].began = now + 1
    BY <1>4
  <2> QED BY <1>1, <1>7, <2>2, <2>3, <2>4 DEF OnItsOwn
<1>10. RatesInv'
  BY <1>1, <1>6, <1>7, <1>8, <1>9 DEF FactsIInv, RatesInv
<1>11. LoadInv'
  <2>1. load' = load /\ filings' = filings /\ rows' = rows /\ load.pc = "idle"
    BY <1>1 DEF FactsIInv, LoadInv, RatesBegin, loadVars
  <2> QED BY <1>1, <2>1 DEF FactsIInv, LoadInv, Load
<1>12. SweepInv' /\ SweepsAddUp'
  <2>1. load'.nth = load.nth /\ UNCHANGED sweepVars
    BY DEF RatesBegin, loadVars
  <2> QED BY <1>1, <2>1, SweepsKept DEF FactsIInv
<1> QED BY <1>10, <1>11, <1>12 DEF FactsIInv

\* A step of a run at work changes what others may rely on only if they are not on
\* their own.
LEMMA RunSteps ==
    ASSUME RatesInv, NEW r \in Runs, Busy(r), NEW w \in RatesRun,
           run' = [run EXCEPT ![r] = w], w.began = run[r].began, w.alone = run[r].alone,
           \A e \in Dates : w.seen[e] # None => e <= now,
           feed' = feed, now' = now, fred' = fred,
           rates' \subseteq RateRow, \A x \in rates' : KnownBefore(x, now + 1),
           run[r].alone /\ w.pc \in {"begun", "fetched", "read"} =>
               /\ rates' = rates
               /\ w.pc = "read" => \A e \in Dates : w.read[e] = Latest(rates, e)
    PROVE  RatesInv'
<1>1. run' \in [Runs -> RatesRun] /\ run'[r] = w
      /\ \A q \in Runs : q # r => run'[q] = run[q]
  BY DEF RatesInv
<1>2. \A q \in Runs : Busy(q)' => Busy(q)
  BY <1>1 DEF Busy
<1>3. ASSUME NEW q \in Runs, run'[q].alone, Busy(q)' PROVE OnItsOwn(q)'
  <2>1. CASE q # r
    <3>1. run[q].alone /\ Busy(q)
      BY <1>1, <1>2, <1>3, <2>1
    <3>2. r = q
      BY <3>1 DEF RatesInv, OnItsOwn
    <3> QED BY <2>1, <3>2
  <2>2. CASE q = r
    <3>1. run[r].alone /\ w.pc \in {"begun", "fetched", "read"}
      BY <1>1, <1>3, <2>2 DEF Busy
    <3>2. rates' = rates /\ run[r].alone /\ OnItsOwn(r)
      BY <3>1 DEF RatesInv
    <3>3. \A s \in Runs : Busy(s)' => s = r
      BY <1>2, <3>2 DEF OnItsOwn
    <3>4. run'[r].began = run[r].began /\ run'[r].pc = w.pc /\ run'[r].read = w.read
      BY <1>1
    <3> QED BY <2>2, <3>1, <3>2, <3>3, <3>4 DEF OnItsOwn
  <2> QED BY <2>1, <2>2
<1>4. ASSUME NEW q \in Runs
      PROVE  /\ run'[q].began <= now
             /\ \A e \in Dates : run'[q].seen[e] # None => e <= now
  <2>1. CASE q = r
    BY <1>1, <2>1 DEF RatesInv
  <2>2. CASE q # r
    BY <1>1, <2>2 DEF RatesInv
  <2> QED BY <2>1, <2>2
<1> QED BY <1>1, <1>3, <1>4 DEF RatesInv

LEMMA FactsRatesFetch ==
    ASSUME FactsIInv, NEW r \in Runs, RatesFetch(r)
    PROVE  FactsIInv'
<1> DEFINE w == [run[r] EXCEPT !.pc = "fetched", !.seen = fred]
<1>1. run' = [run EXCEPT ![r] = w] /\ Busy(r)
  BY RunTyped DEF FactsIInv, RatesFetch, Busy
<1>2. run[r] \in RatesRun /\ fred \in Shown
  BY DEF FactsIInv, RatesInv
<1>3. w \in RatesRun /\ w.began = run[r].began /\ w.alone = run[r].alone /\ w.seen = fred
      /\ w.pc = "fetched"
  BY <1>2 DEF RatesRun
<1> HIDE DEF w
<1>4. RatesInv'
  <2>1. RatesInv /\ \A e \in Dates : fred[e] # None => e <= now
    BY DEF FactsIInv, RatesInv
  <2>2. feed' = feed /\ now' = now /\ fred' = fred /\ rates' = rates
    BY DEF RatesFetch
  <2>3. rates' \subseteq RateRow /\ \A x \in rates' : KnownBefore(x, now + 1)
    BY <2>1, <2>2 DEF RatesInv
  <2> QED BY <1>1, <1>3, <2>1, <2>2, <2>3, RunSteps
<1> QED BY <1>4, RatesStepKeepsTheRest DEF FactsIInv, RatesFetch

LEMMA FactsRatesFail ==
    ASSUME FactsIInv, NEW r \in Runs, RatesFail(r)
    PROVE  FactsIInv'
<1> DEFINE w == [run[r] EXCEPT !.pc = "failed"]
<1>1. run' = [run EXCEPT ![r] = w] /\ Busy(r)
  BY RunTyped DEF FactsIInv, RatesFail
<1>2. run[r] \in RatesRun
  BY DEF FactsIInv, RatesInv
<1>3. w \in RatesRun /\ w.began = run[r].began /\ w.alone = run[r].alone /\ w.seen = run[r].seen
      /\ w.pc = "failed"
  BY <1>2 DEF RatesRun
<1> HIDE DEF w
<1>4. RatesInv'
  <2>1. RatesInv /\ \A e \in Dates : run[r].seen[e] # None => e <= now
    BY DEF FactsIInv, RatesInv
  <2>2. feed' = feed /\ now' = now /\ fred' = fred /\ rates' = rates
    BY DEF RatesFail
  <2>3. rates' \subseteq RateRow /\ \A x \in rates' : KnownBefore(x, now + 1)
    BY <2>1, <2>2 DEF RatesInv
  <2> QED BY <1>1, <1>3, <2>1, <2>2, <2>3, RunSteps
<1> QED BY <1>4, RatesStepKeepsTheRest DEF FactsIInv, RatesFail

LEMMA LatestTyped ==
    ASSUME RatesInv, NEW e \in Dates
    PROVE  /\ Latest(rates, e) \in Rates \cup {None}
           /\ Latest(rates, e) = None => RowsOf(rates, e) = {}
<1>1. now \in Nat /\ now <= Last /\ Last \in Nat /\ Evening \in Nat
  BY FactsBounds DEF RatesInv, Times
<1>2. Floor(Last) \in Nat /\ \A x \in rates : x.known <= Floor(Last)
  <2>1. \A x \in rates : x.known \in Nat /\ x.eff \in Nat /\ x.eff <= Last /\ KnownBefore(x, now + 1)
    BY FactsBounds DEF RatesInv, RateRow
  <2> QED BY <1>1, <2>1 DEF KnownBefore, Fetch, Floor
<1>3. rates \in SUBSET RateRow
  BY DEF RatesInv
<1> QED BY <1>2, <1>3, LatestIsARow, FactsBounds

LEMMA FactsRatesRead ==
    ASSUME FactsIInv, NEW r \in Runs, RatesRead(r)
    PROVE  FactsIInv'
<1> DEFINE found == [e \in Dates |-> Latest(rates, e)]
           w == [run[r] EXCEPT !.pc = "read", !.read = found]
<1>1. run' = [run EXCEPT ![r] = w] /\ Busy(r)
  BY RunTyped DEF FactsIInv, RatesRead, Busy
<1>2. run[r] \in RatesRun
  BY DEF FactsIInv, RatesInv
<1>3. found \in Shown
  BY LatestTyped DEF FactsIInv, Shown
<1>4. \A e \in Dates : found[e] = Latest(rates, e)
  OBVIOUS
<1> HIDE DEF found
<1>5. w \in RatesRun /\ w.began = run[r].began /\ w.alone = run[r].alone
      /\ w.seen = run[r].seen /\ w.read = found /\ w.pc = "read"
  BY <1>2, <1>3 DEF RatesRun
<1> HIDE DEF w
<1>6. RatesInv'
  <2>1. RatesInv /\ \A e \in Dates : run[r].seen[e] # None => e <= now
    BY DEF FactsIInv, RatesInv
  <2>2. feed' = feed /\ now' = now /\ fred' = fred /\ rates' = rates
    BY DEF RatesRead
  <2>3. rates' \subseteq RateRow /\ \A x \in rates' : KnownBefore(x, now + 1)
    BY <2>1, <2>2 DEF RatesInv
  <2> QED BY <1>1, <1>4, <1>5, <2>1, <2>2, <2>3, RunSteps
<1> QED BY <1>6, RatesStepKeepsTheRest DEF FactsIInv, RatesRead

\* A revision a run adds was known when the run began.
LEMMA NewRowsTyped ==
    ASSUME RatesInv, NEW r \in Runs, Busy(r), NEW x \in NewRows(run[r])
    PROVE  /\ x \in RateRow /\ KnownBefore(x, now + 1)
           /\ x.known = KnownAt(run[r], x.eff) /\ x.rate = run[r].seen[x.eff]
           /\ run[r].seen[x.eff] # run[r].read[x.eff]
<1>1. PICK e \in Dates : /\ x = [eff |-> e, rate |-> run[r].seen[e], known |-> KnownAt(run[r], e)]
                         /\ run[r].seen[e] # None /\ run[r].seen[e] # run[r].read[e]
  BY DEF NewRows
<1>2. run[r] \in RatesRun
  BY DEF RatesInv
<1>3. run[r].seen \in Shown
  BY <1>2 DEF RatesRun
<1>4. run[r].seen[e] \in Rates
  BY <1>1, <1>3 DEF Shown
<1>5. run[r].began <= now
  BY <1>1 DEF RatesInv
<1>6. e \in Nat /\ now \in Nat /\ run[r].began \in Nat
  BY RunTyped, FactsBounds
<1>7. /\ KnownAt(run[r], e) \in Nat
      /\ KnownAt(run[r], e) < Fetch(now + 1) \/ KnownAt(run[r], e) = Floor(e)
  BY <1>5, <1>6, FactsBounds DEF KnownAt, Floor, Fetch
<1>8. x.eff = e /\ x.rate = run[r].seen[e] /\ x.known = KnownAt(run[r], e)
  BY <1>1
<1>9. x \in RateRow
  BY <1>1, <1>4, <1>7 DEF RateRow
<1> QED BY <1>1, <1>7, <1>8, <1>9 DEF KnownBefore

LEMMA FactsRatesWrite ==
    ASSUME FactsIInv, NEW r \in Runs, RatesWrite(r)
    PROVE  FactsIInv'
<1> DEFINE w == [run[r] EXCEPT !.pc = "done"]
<1>1. run' = [run EXCEPT ![r] = w] /\ Busy(r)
  BY RunTyped DEF FactsIInv, RatesWrite, Busy
<1>2. run[r] \in RatesRun
  BY DEF FactsIInv, RatesInv
<1>3. w \in RatesRun /\ w.began = run[r].began /\ w.alone = run[r].alone /\ w.seen = run[r].seen
      /\ w.pc = "done"
  BY <1>2 DEF RatesRun
<1> HIDE DEF w
<1>4. rates' \subseteq rates \cup NewRows(run[r])
  BY DEF RatesWrite
<1>5. rates' \subseteq RateRow /\ \A x \in rates' : KnownBefore(x, now + 1)
  BY <1>1, <1>4, NewRowsTyped DEF FactsIInv, RatesInv
<1>6. RatesInv'
  <2>1. RatesInv /\ \A e \in Dates : run[r].seen[e] # None => e <= now
    BY DEF FactsIInv, RatesInv
  <2>2. feed' = feed /\ now' = now /\ fred' = fred
    BY DEF RatesWrite
  <2> QED BY <1>1, <1>3, <1>5, <2>1, <2>2, RunSteps
<1> QED BY <1>6, RatesStepKeepsTheRest DEF FactsIInv, RatesWrite
-----------------------------------------------------------------------------
(* The statements                                                          *)

LEMMA ServedIsFiled == Served \subseteq filings
  BY DEF Served

LEMMA NthIsOfTheSeries ==
    ASSUME NEW S, NEW i
    PROVE  Nth(S, i) \in S \cup {NoFiling}
  BY DEF Nth

\* A step of a load that keeps its place and asks the vendor once more.
LEMMA LoadSteps ==
    ASSUME FactsIInv, NEW w \in Load, load' = w, w.pc # "idle" => w.began \in Times,
           feed = "rates" => w.pc = "idle",
           w.pc # "idle" /\ w.quiet => {w.ratios, w.income, w.cash} \subseteq {Served, {}},
           w.nth = load.nth \/ w.nth + Len(sweeps) <= MaxJobs,
           \A x \in rows' : /\ KeyOf(x) \in Key
                            /\ {x.margin, x.fcf, x.eps} \subseteq filings \cup {NoFiling},
           UNCHANGED <<feed, now, rateVars, filings, sweepVars>>
    PROVE  FactsIInv'
<1>1. feed' = feed /\ now' = now /\ filings' = filings
  OBVIOUS
<1>2. Served' = Served /\ Load' = Load
  BY <1>1 DEF Served, Load
<1>3. LoadInv'
  BY <1>1, <1>2 DEF FactsIInv, LoadInv
<1>4. RatesInv' /\ SweepInv' /\ SweepsAddUp'
  BY LoadStepKeepsTheRest
<1> QED BY <1>3, <1>4 DEF FactsIInv

LEMMA LoadTyped ==
    ASSUME FactsIInv
    PROVE  /\ load \in Load /\ load.nth \in Nat /\ now \in Times
           /\ NoLoad \in Load /\ [NoLoad EXCEPT !.nth = load.nth] \in Load
           /\ [NoLoad EXCEPT !.nth = load.nth].pc = "idle"
           /\ [NoLoad EXCEPT !.nth = load.nth].nth = load.nth
           /\ \A x \in rows : /\ KeyOf(x) \in Key
                              /\ {x.margin, x.fcf, x.eps} \subseteq filings \cup {NoFiling}
<1>1. load \in Load /\ load.nth \in Nat
  BY DEF FactsIInv, LoadInv, Load
<1>2. None \in 0..Last
  BY FactsBounds
<1>3. NoLoad \in Load /\ NoLoad.pc = "idle"
  BY <1>2 DEF NoLoad, Load
<1>4. /\ [NoLoad EXCEPT !.nth = load.nth] \in Load
      /\ [NoLoad EXCEPT !.nth = load.nth].pc = "idle"
      /\ [NoLoad EXCEPT !.nth = load.nth].nth = load.nth
  BY <1>1, <1>3 DEF Load
<1> QED BY <1>1, <1>3, <1>4 DEF FactsIInv, LoadInv, RatesInv

LEMMA FactsLoadBegin == FactsIInv /\ LoadBegin => FactsIInv'
<1> SUFFICES ASSUME FactsIInv, LoadBegin PROVE FactsIInv'
  OBVIOUS
<1>1. PICK answer \in {Served, {}} :
          load' = [NoLoad EXCEPT !.pc = "ratios", !.nth = load.nth + 1,
                                 !.began = now, !.ratios = answer]
  BY DEF LoadBegin
<1>2. load' = [pc |-> "ratios", nth |-> load.nth + 1, began |-> now, ratios |-> answer,
               income |-> {}, cash |-> {}, quiet |-> TRUE]
  BY <1>1 DEF NoLoad
<1>3. load.nth \in Nat /\ now \in Times /\ now \in 0..Last /\ answer \subseteq filings
  BY LoadTyped, ServedIsFiled, FactsBounds DEF Times
<1>4. load' \in Load
  BY <1>2, <1>3 DEF Load
<1>5. load'.nth + Len(sweeps) <= MaxJobs
  <2>1. Len(sweeps) \in Nat /\ MaxJobs \in Nat /\ load.nth + Len(sweeps) < MaxJobs
    BY BoundsAreNat DEF LoadBegin, FactsIInv, SweepInv
  <2> QED BY <1>2, <1>3, <2>1
<1>6. load'.began \in Times /\ {load'.ratios, load'.income, load'.cash} \subseteq {Served, {}}
  BY <1>2, <1>3
<1>7. feed # "rates"
  BY DEF LoadBegin
<1> QED BY <1>4, <1>5, <1>6, <1>7, LoadSteps, LoadTyped DEF LoadBegin

LEMMA FactsLoadIncome == FactsIInv /\ LoadIncome => FactsIInv'
<1> SUFFICES ASSUME FactsIInv, LoadIncome PROVE FactsIInv'
  OBVIOUS
<1>1. PICK answer \in {Served, {}} : load' = [load EXCEPT !.pc = "income", !.income = answer]
  BY DEF LoadIncome
<1>2. load \in Load /\ answer \subseteq filings
  BY LoadTyped, ServedIsFiled
<1>3. load' \in Load /\ load'.began = load.began /\ load'.quiet = load.quiet /\ load'.nth = load.nth
      /\ load'.ratios = load.ratios /\ load'.income = answer /\ load'.cash = load.cash
      /\ load'.pc = "income"
  BY <1>1, <1>2 DEF Load
<1>4. load.pc = "ratios"
  BY DEF LoadIncome
<1>5. load'.began \in Times /\ feed # "rates"
      /\ (load'.quiet => {load'.ratios, load'.income, load'.cash} \subseteq {Served, {}})
  BY <1>3, <1>4 DEF FactsIInv, LoadInv
<1> QED BY <1>3, <1>5, LoadSteps, LoadTyped DEF LoadIncome

LEMMA FactsLoadCash == FactsIInv /\ LoadCash => FactsIInv'
<1> SUFFICES ASSUME FactsIInv, LoadCash PROVE FactsIInv'
  OBVIOUS
<1>1. PICK answer \in {Served, {}} : load' = [load EXCEPT !.pc = "cash", !.cash = answer]
  BY DEF LoadCash
<1>2. load \in Load /\ answer \subseteq filings
  BY LoadTyped, ServedIsFiled
<1>3. load' \in Load /\ load'.began = load.began /\ load'.quiet = load.quiet /\ load'.nth = load.nth
      /\ load'.ratios = load.ratios /\ load'.income = load.income /\ load'.cash = answer
      /\ load'.pc = "cash"
  BY <1>1, <1>2 DEF Load
<1>4. load.pc = "income"
  BY DEF LoadCash
<1>5. load'.began \in Times /\ feed # "rates"
      /\ (load'.quiet => {load'.ratios, load'.income, load'.cash} \subseteq {Served, {}})
  BY <1>3, <1>4 DEF FactsIInv, LoadInv
<1> QED BY <1>3, <1>5, LoadSteps, LoadTyped DEF LoadCash

LEMMA FactsLoadFails == FactsIInv /\ LoadFails => FactsIInv'
<1> SUFFICES ASSUME FactsIInv, LoadFails PROVE FactsIInv'
  OBVIOUS
<1>1. load' = [NoLoad EXCEPT !.nth = load.nth]
  BY DEF LoadFails
<1> QED BY <1>1, LoadSteps, LoadTyped DEF LoadFails

\* What an annual row holds.
LEMMA AnnualHolds ==
    ASSUME NEW i, NEW x \in Annual(i)
    PROVE  LET income == Nth(load.income, i)
               ratios == Nth(load.ratios, i)
               cash == Nth(load.cash, i)
               covers == IF income # NoFiling THEN income ELSE ratios
           IN  /\ x = [kind |-> "annual", period |-> covers.period, known |-> x.known,
                       margin |-> ratios, fcf |-> cash, eps |-> Nth(load.income, 0)]
               /\ x.known = (IF income.stamp # None THEN income.stamp ELSE cash.stamp)
               /\ covers # NoFiling /\ x.known # None /\ x.known >= covers.ends
  BY DEF Annual, Aligned, Plausible

LEMMA AnnualTyped ==
    ASSUME FactsIInv, NEW i, NEW x \in Annual(i)
    PROVE  /\ KeyOf(x) \in Key
           /\ {x.margin, x.fcf, x.eps} \subseteq filings \cup {NoFiling}
<1> DEFINE income == Nth(load.income, i)
           ratios == Nth(load.ratios, i)
           cash == Nth(load.cash, i)
           covers == IF income # NoFiling THEN income ELSE ratios
<1>1. /\ x = [kind |-> "annual", period |-> covers.period, known |-> x.known,
              margin |-> ratios, fcf |-> cash, eps |-> Nth(load.income, 0)]
      /\ x.known = (IF income.stamp # None THEN income.stamp ELSE cash.stamp)
      /\ covers # NoFiling /\ x.known # None
  BY AnnualHolds
<1>2. load.income \subseteq filings /\ load.ratios \subseteq filings /\ load.cash \subseteq filings
  BY LoadTyped DEF Load
<1>3. /\ income \in filings \cup {NoFiling} /\ ratios \in filings \cup {NoFiling}
      /\ cash \in filings \cup {NoFiling} /\ Nth(load.income, 0) \in filings \cup {NoFiling}
  BY <1>2, NthIsOfTheSeries
<1> HIDE DEF income, ratios, cash
<1>4. \A f \in filings \cup {NoFiling} : f.period \in Nat /\ f.stamp \in 0..Last
  <2>1. NoFiling.period \in Nat /\ NoFiling.stamp \in 0..Last
    BY FactsBounds DEF NoFiling
  <2> QED BY <2>1, FilingsTyped
<1>5. covers.period \in Nat
  BY <1>3, <1>4
<1>6. x.known \in Times
  <2>1. x.known \in 0..Last /\ x.known # 0
    BY <1>1, <1>3, <1>4 DEF None
  <2> QED BY <2>1, FactsBounds DEF Times
<1> HIDE DEF covers
<1>7. x.kind = "annual" /\ x.period = covers.period /\ x.margin = ratios /\ x.fcf = cash
      /\ x.eps = Nth(load.income, 0)
  BY <1>1
<1>8. KeyOf(x) \in Key
  BY <1>5, <1>6, <1>7 DEF KeyOf, Key
<1> QED BY <1>3, <1>7, <1>8

\* The rows a load stores.
LEMMA StoredRows ==
    ASSUME LoadStore, NEW x \in rows', x \notin rows
    PROVE  x = Snapshot \/ \E i \in Int : x \in Annual(i)
<1> DEFINE A == UNION {Annual(i) : i \in 0..(Max({1, Cardinality(load.income)}) - 1)}
<1>1. PICK capped \in BOOLEAN :
        x \in LET new == A \cup (IF capped THEN {Snapshot} ELSE {})
              IN  {z \in rows : \A y \in new : KeyOf(z) # KeyOf(y)} \cup new
  BY DEF LoadStore
<1>3. x \in A \cup (IF capped THEN {Snapshot} ELSE {})
  BY <1>1
<1>2. ASSUME x \in A PROVE \E i \in Int : x \in Annual(i)
  <2>1. PICK i \in 0..(Max({1, Cardinality(load.income)}) - 1) : x \in Annual(i)
    BY <1>2
  <2>2. i \in Int
    OBVIOUS
  <2> QED BY <2>1, <2>2
<1> HIDE DEF A
<1> QED BY <1>2, <1>3

LEMMA FactsLoadStore == FactsIInv /\ LoadStore => FactsIInv'
<1> SUFFICES ASSUME FactsIInv, LoadStore PROVE FactsIInv'
  OBVIOUS
<1>1. load' = [NoLoad EXCEPT !.nth = load.nth] /\ load.pc = "cash"
  BY DEF LoadStore
<1>2. /\ KeyOf(Snapshot) \in Key
      /\ {Snapshot.margin, Snapshot.fcf, Snapshot.eps} \subseteq filings \cup {NoFiling}
  <2>1. load.began \in Times /\ load.began \in Nat
    BY <1>1, FactsBounds DEF FactsIInv, LoadInv
  <2>2. Nth(load.cash, 0) \in filings \cup {NoFiling}
    BY NthIsOfTheSeries, LoadTyped DEF Load
  <2> QED BY <2>1, <2>2 DEF Snapshot, KeyOf, Key
<1>3. ASSUME NEW x \in rows'
      PROVE  /\ KeyOf(x) \in Key
             /\ {x.margin, x.fcf, x.eps} \subseteq filings \cup {NoFiling}
  <2>1. CASE x \in rows
    BY <2>1, LoadTyped
  <2>2. CASE x = Snapshot
    BY <1>2, <2>2
  <2>3. CASE \E i \in Int : x \in Annual(i)
    BY <2>3, AnnualTyped
  <2> QED BY <2>1, <2>2, <2>3, StoredRows
<1> QED BY <1>1, <1>3, LoadSteps, LoadTyped DEF LoadStore
-----------------------------------------------------------------------------
(* The intraday sweep                                                      *)

LEMMA SweepTyped ==
    ASSUME FactsIInv
    PROVE  /\ sweeps \in Seq(Sweep) /\ Len(sweeps) \in Nat /\ DOMAIN sweeps = 1..Len(sweeps)
           /\ \A n \in DOMAIN sweeps : sweeps[n] \in Sweep /\ sweeps[n].at \in Nat
           /\ now \in Times /\ now \in Nat /\ load.nth \in Nat /\ MaxJobs \in Nat
           /\ Sweeping => /\ Len(sweeps) \in DOMAIN sweeps
                          /\ sweeps[Len(sweeps)].alive
                          /\ sweeps[Len(sweeps)].status = "running"
<1>1. sweeps \in Seq(Sweep)
  BY DEF FactsIInv, SweepInv
<1>2. Len(sweeps) \in Nat /\ DOMAIN sweeps = 1..Len(sweeps)
      /\ \A n \in DOMAIN sweeps : sweeps[n] \in Sweep
  BY <1>1
<1>3. \A n \in DOMAIN sweeps : sweeps[n].at \in Nat
  BY <1>2, FactsBounds DEF Sweep
<1>4. now \in Times /\ now \in Nat /\ load.nth \in Nat /\ MaxJobs \in Nat
  BY LoadTyped, FactsBounds, BoundsAreNat
<1>5. Sweeping => /\ Len(sweeps) \in DOMAIN sweeps
                  /\ sweeps[Len(sweeps)].alive
                  /\ sweeps[Len(sweeps)].status = "running"
  BY DEF FactsIInv, SweepInv, Sweeping
<1> QED BY <1>1, <1>2, <1>3, <1>4, <1>5

\* A sweep is begun or skipped when none is running.
LEMMA SweepStarts ==
    ASSUME FactsIInv, ~Sweeping, \A n \in DOMAIN sweeps : sweeps[n].at < now,
           load.nth + Len(sweeps) < MaxJobs,
           NEW s \in Sweep, s.at = now, s.observed = 0, s.failed = 0,
           s.status \in {"running", "skipped"}, s.alive => s.status = "running",
           s.status = "skipped" => s.scope = 0,
           s.alive => counted' = Nought /\ Len(left') = s.scope,
           s.alive => \A i, j \in DOMAIN left' : left'[i] = left'[j] => i = j,
           left' \in Seq(Targets), counted' \in Counts,
           sweeps' = Append(sweeps, s), obs' = obs,
           UNCHANGED <<feed, now, rateVars, loadVars>>
    PROVE  FactsIInv'
<1> DEFINE n == Len(sweeps)
<1>1. /\ n \in Nat /\ DOMAIN sweeps = 1..n /\ sweeps' \in Seq(Sweep) /\ Len(sweeps') = n + 1
      /\ DOMAIN sweeps' = 1..(n + 1) /\ sweeps'[n + 1] = s
      /\ \A m \in 1..n : sweeps'[m] = sweeps[m]
  BY SweepTyped
<1>2. \A m \in DOMAIN sweeps : ~sweeps[m].alive
  BY DEF FactsIInv, SweepInv, Sweeping
<1>3. now' = now /\ load' = load /\ now \in Nat /\ load.nth \in Nat /\ MaxJobs \in Nat
  BY SweepTyped DEF loadVars
<1>4. \A o \in obs : o.run \in 1..n
  BY <1>1 DEF FactsIInv, SweepInv, Observation
<1>5. \A m \in 1..(n + 1) : m \in 1..n \/ m = n + 1
  BY <1>1
<1>6. Of(n + 1) = {} /\ Cardinality(Of(n + 1)) = 0
  <2>1. n + 1 \notin 1..n
    BY <1>1
  <2>2. Of(n + 1) = {}
    BY <1>4, <2>1 DEF Of
  <2> QED BY <2>2, FS_EmptySet
<1>7. SweepsAddUp'
  <2> SUFFICES ASSUME NEW m \in 1..(n + 1)
               PROVE  AddsUp(sweeps'[m], Cardinality({o \in obs' : o.run = m}), counted', Len(left'))
    BY <1>1, RowsAddUpNext
  <2>0. {o \in obs' : o.run = m} = Of(m)
    BY DEF Of
  <2>1. CASE m \in 1..n
    <3>1. AddsUp(sweeps[m], Cardinality(Of(m)), counted, Len(left)) /\ ~sweeps[m].alive
      BY <1>1, <1>2, <2>1, RowsAddUp DEF FactsIInv
    <3> QED BY <1>1, <2>0, <2>1, <3>1, DeadRowsStand
  <2>2. CASE m = n + 1
    <3>1. Len(left') \in Nat
      OBVIOUS
    <3>2. sweeps'[m] = s /\ Cardinality(Of(m)) = 0
      BY <1>1, <1>6, <2>2
    <3>3. AddsUp(s, 0, counted', Len(left'))
      BY <3>1 DEF AddsUp, Nought
    <3> QED BY <2>0, <3>2, <3>3
  <2> QED BY <1>5, <2>1, <2>2
<1>8. SweepInv'
  <2>1. load'.nth + Len(sweeps') <= MaxJobs
    BY <1>1, <1>3
  <2>2. \A m \in DOMAIN sweeps' : sweeps'[m].at <= now
    BY <1>1, <1>3, <1>5 DEF FactsIInv, SweepInv
  <2>3. \A m, k \in DOMAIN sweeps' : m < k => sweeps'[m].at < sweeps'[k].at
    <3> SUFFICES ASSUME NEW m \in 1..(n + 1), NEW k \in 1..(n + 1), m < k
                 PROVE  sweeps'[m].at < sweeps'[k].at
      BY <1>1
    <3>1. CASE k \in 1..n
      <4>1. m \in 1..n
        BY <3>1, <1>1
      <4> QED BY <1>1, <3>1, <4>1 DEF FactsIInv, SweepInv
    <3>2. CASE k = n + 1
      <4>1. m \in 1..n
        BY <3>2, <1>1
      <4> QED BY <1>1, <3>2, <4>1
    <3> QED BY <1>5, <3>1, <3>2
  <2>4. \A m \in DOMAIN sweeps' : sweeps'[m].alive => m = Len(sweeps') /\ sweeps'[m].status = "running"
    BY <1>1, <1>2, <1>5
  <2>5. obs \subseteq Observation' /\ \A o \in obs : o.at = sweeps'[o.run].at
    BY <1>1, <1>4 DEF FactsIInv, SweepInv, Observation
  <2>6. Sweeping' => /\ \A i, j \in DOMAIN left' : left'[i] = left'[j] => i = j
                     /\ \A o \in {q \in obs' : q.run = Len(sweeps')} : \A i \in DOMAIN left' : left'[i] # o.target
    <3>1. Sweeping' => s.alive
      BY <1>1, <1>2, <1>5 DEF Sweeping
    <3>2. {o \in obs : o.run = n + 1} = {}
      BY <1>6 DEF Of
    <3> QED BY <1>1, <3>1, <3>2 DEF Of
  <2> QED BY <1>1, <1>3, <2>1, <2>2, <2>3, <2>4, <2>5, <2>6 DEF FactsIInv, SweepInv, Of
<1> QED BY <1>7, <1>8, SweepStepKeepsTheRest DEF FactsIInv

LEMMA FactsSweepSkip == FactsIInv /\ SweepSkip => FactsIInv'
<1> SUFFICES ASSUME FactsIInv, SweepSkip PROVE FactsIInv'
  OBVIOUS
<1> DEFINE s == [at |-> now, status |-> "skipped", alive |-> FALSE,
                 scope |-> 0, observed |-> 0, failed |-> 0]
<1>1. s \in Sweep /\ s.at = now /\ s.observed = 0 /\ s.failed = 0 /\ s.status = "skipped"
      /\ ~s.alive /\ s.scope = 0
  BY SweepTyped DEF Sweep
<1>2. sweeps' = Append(sweeps, s) /\ left' = left /\ counted' = counted /\ obs' = obs
  BY DEF SweepSkip
<1>3. left' \in Seq(Targets) /\ counted' \in Counts
  BY <1>2 DEF FactsIInv, SweepInv
<1> HIDE DEF s
<1> QED BY <1>1, <1>2, <1>3, SweepStarts DEF SweepSkip

LEMMA FactsSweepBegin == FactsIInv /\ SweepBegin => FactsIInv'
<1> SUFFICES ASSUME FactsIInv, SweepBegin PROVE FactsIInv'
  OBVIOUS
<1>1. PICK scope \in Scopes :
         /\ sweeps' = Append(sweeps, [at |-> now, status |-> "running", alive |-> TRUE,
                                scope |-> Len(scope), observed |-> 0, failed |-> 0])
         /\ left' = scope
  BY DEF SweepBegin
<1> DEFINE s == [at |-> now, status |-> "running", alive |-> TRUE,
                 scope |-> Len(scope), observed |-> 0, failed |-> 0]
<1>2. scope \in Seq(Targets) /\ Len(scope) \in Nat
      /\ \A i, j \in DOMAIN scope : scope[i] = scope[j] => i = j
  BY ScopesAreOfTargets
<1>3. s \in Sweep /\ s.at = now /\ s.observed = 0 /\ s.failed = 0 /\ s.status = "running"
      /\ s.alive /\ s.scope = Len(scope)
  BY <1>2, SweepTyped DEF Sweep
<1>4. sweeps' = Append(sweeps, s)
  BY <1>1
<1>5. counted' = Nought /\ Nought \in Counts
  BY DEF SweepBegin, Nought, Counts
<1> HIDE DEF s
<1> QED BY <1>1, <1>2, <1>3, <1>4, <1>5, SweepStarts DEF SweepBegin

\* The running sweep goes on, or ends.
LEMMA SweepGoesOn ==
    ASSUME FactsIInv, Sweeping,
           NEW s \in Sweep, sweeps' = [sweeps EXCEPT ![Len(sweeps)] = s],
           s.at = sweeps[Len(sweeps)].at, s.alive => s.status = "running",
           left' \in Seq(Targets), IsFiniteSet(obs'), obs' \subseteq Observation,
           \A o \in obs' : o.at = sweeps[o.run].at,
           \A m \in DOMAIN sweeps : m # Len(sweeps) => {o \in obs' : o.run = m} = Of(m),
           counted' \in Counts, s.status # "skipped",
           IF s.status = "complete"
             THEN /\ s.observed = Cardinality({o \in obs' : o.run = Len(sweeps)})
                  /\ s.observed + s.failed = s.scope
             ELSE s.observed = 0 /\ s.failed = 0,
           s.alive => /\ counted'.observed = Cardinality({o \in obs' : o.run = Len(sweeps)})
                      /\ counted'.observed + counted'.failed + Len(left') = s.scope,
           s.alive => \A i, j \in DOMAIN left' : left'[i] = left'[j] => i = j,
           s.alive => \A o \in {q \in obs' : q.run = Len(sweeps)} :
                          \A i \in DOMAIN left' : left'[i] # o.target,
           UNCHANGED <<feed, now, rateVars, loadVars>>
    PROVE  FactsIInv'
<1> DEFINE n == Len(sweeps)
<1>1. /\ n \in Nat /\ n \in DOMAIN sweeps /\ sweeps' \in Seq(Sweep) /\ Len(sweeps') = n
      /\ DOMAIN sweeps' = DOMAIN sweeps /\ DOMAIN sweeps = 1..n /\ sweeps'[n] = s
      /\ \A m \in DOMAIN sweeps : m # n => sweeps'[m] = sweeps[m]
  BY SweepTyped
<1>2. \A m \in DOMAIN sweeps : m # n => ~sweeps[m].alive
  BY DEF FactsIInv, SweepInv
<1>3. now' = now /\ load' = load
  BY DEF loadVars
<1>4. \A m \in DOMAIN sweeps : sweeps'[m].at = sweeps[m].at
  BY <1>1
<1>5. SweepsAddUp'
  <2> SUFFICES ASSUME NEW m \in DOMAIN sweeps
               PROVE  AddsUp(sweeps'[m], Cardinality({o \in obs' : o.run = m}), counted', Len(left'))
    BY <1>1, RowsAddUpNext
  <2>1. CASE m = n
    <3>1. AddsUp(s, Cardinality({o \in obs' : o.run = n}), counted', Len(left'))
      BY DEF AddsUp
    <3> QED BY <1>1, <2>1, <3>1
  <2>2. CASE m # n
    <3>1. AddsUp(sweeps[m], Cardinality(Of(m)), counted, Len(left)) /\ ~sweeps[m].alive
      BY <1>2, <2>2, RowsAddUp DEF FactsIInv
    <3> QED BY <1>1, <2>2, <3>1, DeadRowsStand
  <2> QED BY <2>1, <2>2
<1>6. SweepInv'
  <2>1. load'.nth + Len(sweeps') <= MaxJobs
    BY <1>1, <1>3 DEF FactsIInv, SweepInv
  <2>2. \A m \in DOMAIN sweeps' : sweeps'[m].at <= now'
    BY <1>1, <1>3, <1>4 DEF FactsIInv, SweepInv
  <2>3. \A m, k \in DOMAIN sweeps' : m < k => sweeps'[m].at < sweeps'[k].at
    BY <1>1, <1>4 DEF FactsIInv, SweepInv
  <2>4. \A m \in DOMAIN sweeps' : sweeps'[m].alive => m = Len(sweeps') /\ sweeps'[m].status = "running"
    BY <1>1, <1>2
  <2>5. obs' \subseteq Observation' /\ \A o \in obs' : o.at = sweeps'[o.run].at
    <3>1. Observation' = Observation
      BY <1>1 DEF Observation
    <3>2. \A o \in obs' : o.run \in DOMAIN sweeps
      BY DEF Observation
    <3> QED BY <1>4, <3>1, <3>2
  <2>6. Sweeping' => /\ \A i, j \in DOMAIN left' : left'[i] = left'[j] => i = j
                     /\ \A o \in {q \in obs' : q.run = Len(sweeps')} : \A i \in DOMAIN left' : left'[i] # o.target
    <3>1. Sweeping' => s.alive
      BY <1>1, <1>2 DEF Sweeping
    <3> QED BY <1>1, <3>1 DEF Of
  <2> QED BY <1>1, <2>1, <2>2, <2>3, <2>4, <2>5, <2>6 DEF SweepInv, Of
<1> QED BY <1>5, <1>6, SweepStepKeepsTheRest DEF FactsIInv

\* Of the row of the running sweep.
LEMMA RunningRow ==
    ASSUME FactsIInv, Sweeping
    PROVE  LET s == sweeps[Len(sweeps)]
           IN  /\ s \in Sweep /\ s.scope \in Nat /\ s.observed = 0 /\ s.failed = 0
               /\ s.alive /\ s.status = "running" /\ Len(sweeps) \in DOMAIN sweeps
               /\ counted \in Counts /\ counted.observed \in Nat /\ counted.failed \in Nat
               /\ counted.observed = Cardinality(Of(Len(sweeps)))
               /\ counted.observed + counted.failed + Len(left) = s.scope
               /\ left \in Seq(Targets) /\ Len(left) \in Nat
<1> DEFINE s == sweeps[Len(sweeps)]
<1>1. s \in Sweep /\ Len(sweeps) \in DOMAIN sweeps /\ s.alive /\ s.status = "running"
  BY SweepTyped
<1>2. s.scope \in Nat
  BY <1>1 DEF Sweep
<1>3. /\ counted.observed = Cardinality(Of(Len(sweeps)))
      /\ counted.observed + counted.failed + Len(left) = s.scope
      /\ s.observed = 0 /\ s.failed = 0
  BY <1>1 DEF FactsIInv, SweepsAddUp, Of
<1>4. /\ left \in Seq(Targets) /\ Len(left) \in Nat
      /\ counted \in Counts /\ counted.observed \in Nat /\ counted.failed \in Nat
  BY DEF FactsIInv, SweepInv, Counts
<1> QED BY <1>1, <1>2, <1>3, <1>4

LEMMA SweepObservations ==
    ASSUME FactsIInv
    PROVE  /\ IsFiniteSet(obs) /\ obs \subseteq Observation
           /\ \A o \in obs : o.at = sweeps[o.run].at
           /\ \A m \in DOMAIN sweeps : {o \in obs : o.run = m} = Of(m)
           /\ Sweeping => /\ \A i, j \in DOMAIN left : left[i] = left[j] => i = j
                          /\ \A o \in Of(Len(sweeps)) : \A i \in DOMAIN left : left[i] # o.target
  BY DEF FactsIInv, SweepInv, Of

\* Nothing was observed of the security before, in this sweep or at its time.
LEMMA FactsObserve == FactsIInv /\ Observe => FactsIInv'
<1> SUFFICES ASSUME FactsIInv, Observe PROVE FactsIInv'
  OBVIOUS
<1> DEFINE n == Len(sweeps)
           target == Head(left)
<1>1. Sweeping /\ left # <<>> /\ left' = Tail(left)
  BY DEF Observe
<1>2. PICK key \in InEffect(target, sweeps[n].at) :
        obs' = {o \in obs : o.target # target \/ o.at # sweeps[n].at}
                 \cup {[run |-> n, target |-> target, at |-> sweeps[n].at, row |-> key]}
  BY Zenon DEF Observe
<1>3. /\ n \in DOMAIN sweeps /\ n \in Nat /\ sweeps[n] \in Sweep
      /\ left \in Seq(Targets) /\ Len(left) \in Nat /\ Len(left) >= 1
      /\ target = left[1] /\ target \in Targets /\ 1 \in DOMAIN left
      /\ left' \in Seq(Targets) /\ Len(left') = Len(left) - 1
      /\ \A i \in DOMAIN left' : i + 1 \in DOMAIN left /\ left'[i] = left[i + 1] /\ i >= 1
  BY <1>1, RunningRow, SweepTyped
<1>4. key \in Key \cup {NoKey}
  <2>1. CASE key \in {NoKey}
    BY <2>1
  <2>2. CASE \E x \in rows : key = KeyOf(x)
    BY <2>2, LoadTyped
  <2> QED BY <2>1, <2>2 DEF InEffect
<1> DEFINE seen == [run |-> n, target |-> target, at |-> sweeps[n].at, row |-> key]
<1>5. \A o \in obs : o.target # target \/ o.at # sweeps[n].at
  <2> SUFFICES ASSUME NEW o \in obs, o.target = target, o.at = sweeps[n].at PROVE FALSE
    OBVIOUS
  <2>1. o.run \in DOMAIN sweeps /\ sweeps[o.run].at = sweeps[n].at
    BY SweepObservations DEF Observation
  <2>2. o.run = n
    <3>1. \A p, q \in DOMAIN sweeps : p < q => sweeps[p].at < sweeps[q].at
      BY DEF FactsIInv, SweepInv
    <3>2. ~(o.run < n) /\ ~(n < o.run) /\ o.run \in Int
      BY <1>3, <2>1, <3>1, SweepTyped, SMTT(30)
    <3> QED BY <1>3, <3>2
  <2>3. o \in Of(n)
    BY <2>2 DEF Of
  <2> QED BY <1>1, <1>3, <2>3, SweepObservations
<1>6. obs' = obs \cup {seen}
  BY <1>2, <1>5
<1>7. seen.run = n /\ seen.target = target /\ seen.at = sweeps[n].at /\ seen \in Observation
  BY <1>3, <1>4 DEF Observation, Sweep
<1> HIDE DEF seen
<1>8. seen \notin Of(n)
  BY <1>5, <1>7 DEF Of
<1>9. {o \in obs' : o.run = n} = Of(n) \cup {seen}
      /\ \A m \in DOMAIN sweeps : m # n => {o \in obs' : o.run = m} = Of(m)
  BY <1>6, <1>7 DEF Of
<1>10. Cardinality(Of(n) \cup {seen}) = Cardinality(Of(n)) + 1 /\ IsFiniteSet(obs')
  <2>1. IsFiniteSet(Of(n))
    BY SweepObservations, FS_Subset DEF Of
  <2> QED BY <1>6, <1>8, <2>1, SweepObservations, FS_AddElement
<1>11. sweeps' = [sweeps EXCEPT ![n] = sweeps[n]]
  BY <1>3, SweepTyped DEF Observe
<1>12. /\ counted' \in Counts /\ counted'.observed = counted.observed + 1
       /\ counted'.failed = counted.failed
  <2>1. counted' = [counted EXCEPT !.observed = @ + 1]
    BY DEF Observe
  <2>2. counted \in [observed : Nat, failed : Nat]
    BY <1>1, RunningRow DEF Counts
  <2> QED BY <2>1, <2>2 DEF Counts
<1>13. /\ counted'.observed = Cardinality({o \in obs' : o.run = n})
       /\ counted'.observed + counted'.failed + Len(left') = sweeps[n].scope
  <2>1. /\ counted.observed = Cardinality(Of(n)) /\ counted.observed \in Nat
        /\ counted.failed \in Nat /\ sweeps[n].scope \in Nat
        /\ counted.observed + counted.failed + Len(left) = sweeps[n].scope
    BY <1>1, RunningRow
  <2>2. counted'.observed = Cardinality({o \in obs' : o.run = n})
    BY <1>9, <1>10, <1>12, <2>1
  <2>3. Len(left') = Len(left) - 1 /\ Len(left) \in Nat
    BY <1>3
  <2>4. counted'.observed + counted'.failed + Len(left') = sweeps[n].scope
    <3>1. /\ counted.observed \in Nat /\ counted.failed \in Nat /\ Len(left) \in Nat
          /\ counted'.observed = counted.observed + 1 /\ counted'.failed = counted.failed
          /\ Len(left') = Len(left) - 1
      BY <1>12, <2>1, <2>3
    <3>2. counted'.observed + counted'.failed + Len(left')
            = counted.observed + counted.failed + Len(left)
      BY <3>1
    <3> QED BY <2>1, <3>2
  <2> QED BY <2>2, <2>4
<1>14. obs' \subseteq Observation /\ \A o \in obs' : o.at = sweeps[o.run].at
  BY <1>6, <1>7, SweepObservations
<1>15. /\ \A i, j \in DOMAIN left' : left'[i] = left'[j] => i = j
       /\ \A o \in {q \in obs' : q.run = n} : \A i \in DOMAIN left' : left'[i] # o.target
  <2>1. \A i, j \in DOMAIN left' : left'[i] = left'[j] => i = j
    <3> SUFFICES ASSUME NEW i \in DOMAIN left', NEW j \in DOMAIN left', left'[i] = left'[j]
                 PROVE  i = j
      OBVIOUS
    <3>1. i + 1 = j + 1
      BY <1>1, <1>3, SweepObservations
    <3> QED BY <1>3, <3>1
  <2>2. \A i \in DOMAIN left' : left'[i] # target
    <3> SUFFICES ASSUME NEW i \in DOMAIN left', left'[i] = target PROVE FALSE
      OBVIOUS
    <3>1. i + 1 = 1
      BY <1>1, <1>3, SweepObservations
    <3> QED BY <1>3, <3>1
  <2>3. \A o \in Of(n) : \A i \in DOMAIN left' : left'[i] # o.target
    BY <1>1, <1>3, SweepObservations
  <2> QED BY <1>7, <1>9, <2>1, <2>2, <2>3
<1>16. UNCHANGED <<feed, now, rateVars, loadVars>>
  BY DEF Observe
<1>17. sweeps[n].alive /\ sweeps[n].status = "running" /\ sweeps[n].observed = 0 /\ sweeps[n].failed = 0
  BY <1>1, RunningRow
<1> QED BY <1>1, <1>3, <1>9, <1>10, <1>11, <1>12, <1>13, <1>14, <1>15, <1>16, <1>17, SweepGoesOn

\* A quote that is not usable, or an INSERT that fails, is counted as such.
LEMMA FactsMiss ==
    ASSUME FactsIInv, Sweeping, left # <<>>, left' = Tail(left), counted' = Missed,
           UNCHANGED <<feed, now, rateVars, loadVars, sweeps, obs>>
    PROVE  FactsIInv'
<1> DEFINE n == Len(sweeps)
<1>1. Sweeping /\ left # <<>> /\ left' = Tail(left) /\ obs' = obs /\ sweeps' = sweeps
  OBVIOUS
<1>2. /\ n \in DOMAIN sweeps /\ sweeps[n] \in Sweep
      /\ left \in Seq(Targets) /\ Len(left) \in Nat
      /\ left' \in Seq(Targets) /\ Len(left') = Len(left) - 1
      /\ \A i \in DOMAIN left' : i + 1 \in DOMAIN left /\ left'[i] = left[i + 1] /\ i >= 1
  BY <1>1, RunningRow, SweepTyped
<1>3. sweeps' = [sweeps EXCEPT ![n] = sweeps[n]]
  BY <1>1, <1>2, SweepTyped
<1>4. /\ counted' \in Counts /\ counted'.observed = counted.observed
      /\ counted'.failed = counted.failed + 1
  <2>1. counted' = [counted EXCEPT !.failed = @ + 1]
    BY DEF Missed
  <2>2. counted \in [observed : Nat, failed : Nat]
    BY <1>1, RunningRow DEF Counts
  <2> QED BY <2>1, <2>2 DEF Counts
<1>5. /\ counted'.observed = Cardinality({o \in obs' : o.run = n})
      /\ counted'.observed + counted'.failed + Len(left') = sweeps[n].scope
  <2>1. {o \in obs' : o.run = n} = Of(n)
    BY <1>1 DEF Of
  <2>2. /\ counted.observed = Cardinality(Of(n)) /\ counted.observed \in Nat
        /\ counted.failed \in Nat /\ sweeps[n].scope \in Nat
        /\ counted.observed + counted.failed + Len(left) = sweeps[n].scope
    BY <1>1, RunningRow
  <2>3. counted'.observed + counted'.failed + Len(left') = sweeps[n].scope
    BY <1>2, <1>4, <2>2
  <2>4. counted'.observed = Cardinality({o \in obs' : o.run = n})
    BY <1>4, <2>1, <2>2
  <2> QED BY <2>3, <2>4
<1>6. \A i, j \in DOMAIN left' : left'[i] = left'[j] => i = j
  <2> SUFFICES ASSUME NEW i \in DOMAIN left', NEW j \in DOMAIN left', left'[i] = left'[j]
               PROVE  i = j
    OBVIOUS
  <2>1. i + 1 = j + 1
    BY <1>1, <1>2, SweepObservations
  <2> QED BY <1>2, <2>1
<1>7. \A o \in {q \in obs' : q.run = n} : \A i \in DOMAIN left' : left'[i] # o.target
  BY <1>1, <1>2, SweepObservations DEF Of
<1>8. IsFiniteSet(obs') /\ obs' \subseteq Observation /\ \A o \in obs' : o.at = sweeps[o.run].at
  BY <1>1, SweepObservations
<1>10. \A m \in DOMAIN sweeps : m # n => {o \in obs' : o.run = m} = Of(m)
  BY <1>1, SweepObservations
<1>9. sweeps[n].alive /\ sweeps[n].status = "running" /\ sweeps[n].observed = 0 /\ sweeps[n].failed = 0
  BY <1>1, RunningRow
<1> QED BY <1>1, <1>2, <1>3, <1>4, <1>5, <1>6, <1>7, <1>8, <1>9, <1>10, SweepGoesOn

\* The last step of a sweep, if it lives to take it.
LEMMA SweepStops ==
    ASSUME FactsIInv, Sweeping, NEW s \in Sweep, s.at = sweeps[Len(sweeps)].at, ~s.alive,
           \/ /\ s.status = "complete" /\ left = <<>> /\ s.scope = sweeps[Len(sweeps)].scope
              /\ s.observed = counted.observed /\ s.failed = counted.failed
           \/ s.status = "running" /\ s.observed = 0 /\ s.failed = 0,
           sweeps' = [sweeps EXCEPT ![Len(sweeps)] = s], left' = <<>>, counted' \in Counts,
           obs' = obs, UNCHANGED <<feed, now, rateVars, loadVars>>
    PROVE  FactsIInv'
<1> DEFINE n == Len(sweeps)
<1>1. {o \in obs' : o.run = n} = Of(n)
  BY DEF Of
<1>2. IF s.status = "complete"
        THEN /\ s.observed = Cardinality({o \in obs' : o.run = n})
             /\ s.observed + s.failed = s.scope
        ELSE s.observed = 0 /\ s.failed = 0
  <2>1. CASE s.status = "complete"
    <3>1. /\ left = <<>> /\ s.scope = sweeps[n].scope
          /\ s.observed = counted.observed /\ s.failed = counted.failed
      BY <2>1
    <3>2. /\ counted.observed = Cardinality(Of(n)) /\ counted.observed \in Nat
          /\ counted.failed \in Nat
          /\ counted.observed + counted.failed + Len(left) = sweeps[n].scope
      BY RunningRow
    <3>3. Len(left) = 0
      BY <3>1
    <3>4. s.observed + s.failed = s.scope
      BY <3>1, <3>2, <3>3
    <3> QED BY <1>1, <2>1, <3>1, <3>2, <3>4
  <2>2. CASE s.status # "complete"
    BY <2>2
  <2> QED BY <2>1, <2>2
<1>3. IsFiniteSet(obs') /\ obs' \subseteq Observation /\ \A o \in obs' : o.at = sweeps[o.run].at
  BY SweepObservations
<1>4. \A m \in DOMAIN sweeps : m # n => {o \in obs' : o.run = m} = Of(m)
  BY SweepObservations
<1>5. left' \in Seq(Targets) /\ s.status # "skipped"
  OBVIOUS
<1> QED BY <1>2, <1>3, <1>4, <1>5, SweepGoesOn

LEMMA FactsSweepEnd == FactsIInv /\ SweepEnd => FactsIInv'
<1> SUFFICES ASSUME FactsIInv, SweepEnd PROVE FactsIInv'
  OBVIOUS
<1> DEFINE n == Len(sweeps)
           s == [sweeps[n] EXCEPT !.status = "complete", !.alive = FALSE,
                                  !.observed = counted.observed, !.failed = counted.failed]
<1>1. /\ Sweeping /\ left = <<>> /\ left' = left /\ counted' = counted /\ obs' = obs
      /\ UNCHANGED <<feed, now, rateVars, loadVars>>
  BY DEF SweepEnd
<1>2. /\ sweeps[n] \in Sweep /\ n \in DOMAIN sweeps /\ counted \in Counts
      /\ counted.observed \in Nat /\ counted.failed \in Nat
  BY <1>1, RunningRow
<1>3. /\ s \in Sweep /\ s.at = sweeps[n].at /\ ~s.alive /\ s.status = "complete"
      /\ s.observed = counted.observed /\ s.failed = counted.failed
      /\ s.scope = sweeps[n].scope
  BY <1>2 DEF Sweep
<1>4. sweeps' = [sweeps EXCEPT ![n] = s]
  BY <1>2, SweepTyped DEF SweepEnd
<1> HIDE DEF s
<1> QED BY <1>1, <1>2, <1>3, <1>4, SweepStops

LEMMA FactsSweepDies == FactsIInv /\ SweepDies => FactsIInv'
<1> SUFFICES ASSUME FactsIInv, SweepDies PROVE FactsIInv'
  OBVIOUS
<1> DEFINE n == Len(sweeps)
           s == [sweeps[n] EXCEPT !.alive = FALSE]
<1>1. /\ Sweeping /\ left' = <<>> /\ counted' = Nought /\ obs' = obs
      /\ UNCHANGED <<feed, now, rateVars, loadVars>>
  BY DEF SweepDies
<1>2. /\ sweeps[n] \in Sweep /\ n \in DOMAIN sweeps /\ sweeps[n].status = "running"
      /\ sweeps[n].observed = 0 /\ sweeps[n].failed = 0 /\ counted' \in Counts
  BY <1>1, RunningRow DEF Nought, Counts
<1>3. /\ s \in Sweep /\ s.at = sweeps[n].at /\ ~s.alive /\ s.status = "running"
      /\ s.observed = 0 /\ s.failed = 0
  BY <1>2 DEF Sweep
<1>4. sweeps' = [sweeps EXCEPT ![n] = s]
  BY <1>2, SweepTyped DEF SweepDies
<1> HIDE DEF s
<1> QED BY <1>1, <1>2, <1>3, <1>4, SweepStops
-----------------------------------------------------------------------------
(* The theorems                                                            *)

LEMMA FactsStutter == FactsIInv /\ UNCHANGED factsVars => FactsIInv'
<1> SUFFICES ASSUME FactsIInv, UNCHANGED factsVars PROVE FactsIInv'
  OBVIOUS
<1>1. UNCHANGED <<feed, now, rateVars>> /\ UNCHANGED sweepVars /\ UNCHANGED loadVars
  BY DEF factsVars
<1>2. load'.nth = load.nth /\ now' = now
  BY <1>1 DEF loadVars
<1>3. LoadInv'
  BY <1>1, LoadKept DEF FactsIInv
<1> QED BY <1>1, <1>2, <1>3, LoadStepKeepsTheRest DEF FactsIInv

LEMMA FactsStep == FactsIInv /\ [FactsNext]_factsVars => FactsIInv'
  BY FactsTick, FactsPublish, FactsRatesBegin, FactsRatesFetch, FactsRatesFail, FactsRatesRead,
     FactsRatesWrite, FactsLoadBegin, FactsLoadIncome, FactsLoadCash, FactsLoadFails,
     FactsLoadStore, FactsSweepSkip, FactsSweepBegin, FactsObserve, FactsMiss, FactsSweepEnd,
     FactsSweepDies, FactsStutter DEF FactsNext, NoQuote, InsertFails, Uncounted

LEMMA FactsInvariant == FactsSpec => []FactsIInv
  BY FactsInvInit, FactsStep, PTL DEF FactsSpec

LEMMA FactsIInvImplies == FactsIInv => FactsInv
<1> SUFFICES ASSUME FactsIInv PROVE FactsTypeOK
  BY DEF FactsIInv, FactsInv
<1>1. load \in Load /\ load.ratios \cup load.income \cup load.cash \subseteq filings
      /\ load.pc \in {"idle", "ratios", "income", "cash"}
  BY LoadTyped DEF Load
<1>2. \A o \in obs : o.target \in Targets /\ o.row \in Key \cup {NoKey}
  BY SweepObservations DEF Observation
<1> QED BY <1>1, <1>2 DEF FactsIInv, RatesInv, LoadInv, SweepInv, FactsTypeOK, RateRow, Shown, RatesRun, Counts

\* What the rates, the statements and the sweeps hold stays of its types, and the
\* row of every sweep that is complete accounts for the securities of its scope:
\* what it counts as observed is what it left in intraday_observations, whatever
\* was loaded meanwhile; a sweep that is running or was killed counts nothing
\* (collect_intraday.py collect).
THEOREM FactsInvHolds == FactsSpec => []FactsInv
  BY FactsInvariant, FactsIInvImplies, PTL

\* The write of a run that was on its own.
LEMMA WriteRecords ==
    ASSUME FactsIInv, NEW r \in Runs, RatesWrite(r), run[r].alone,
           NEW e \in Dates, run[r].seen[e] # None, ~SameEvening(run[r], e)
    PROVE  Latest(rates', e) = run[r].seen[e]
<1> DEFINE s == run[r]
           new == [eff |-> e, rate |-> s.seen[e], known |-> KnownAt(s, e)]
<1>1. /\ OnItsOwn(r) /\ Busy(r) /\ s.read[e] = Latest(rates, e)
      /\ s.began <= now /\ s \in RatesRun /\ RatesInv
  BY RunTyped DEF FactsIInv, RatesInv, RatesWrite, Busy, OnItsOwn
<1>2. rates' = rates \cup {x \in NewRows(s) : \A y \in rates : y.eff # x.eff \/ y.known # x.known}
  BY DEF RatesWrite
<1>3. \A x \in NewRows(s) : x.eff = e => x = new /\ s.seen[e] # s.read[e]
  BY DEF NewRows
<1>4. CASE s.seen[e] = s.read[e]
  <2>1. RowsOf(rates', e) = RowsOf(rates, e)
    BY <1>2, <1>3, <1>4 DEF RowsOf
  <2>2. Latest(rates', e) = Latest(rates, e)
    BY <2>1, LatestDepends
  <2> QED BY <1>1, <1>4, <2>2
<1>5. CASE s.seen[e] # s.read[e]
  <2>1. new \in NewRows(s)
    BY <1>5 DEF NewRows
  <2>2. new.eff = e /\ new.known = KnownAt(s, e) /\ new.rate = s.seen[e]
    OBVIOUS
  <2>3. \A y \in RowsOf(rates, e) : y.known < KnownAt(s, e)
    <3>1. CASE s.read[e] = None
      BY <1>1, <3>1, LatestTyped
    <3>2. CASE s.read[e] # None
      <4>1. ~(Fetch(s.began) < Floor(e))
        BY <1>5, <3>2 DEF SameEvening
      <4>2. KnownAt(s, e) = Fetch(s.began) /\ s.began \in Nat /\ e \in Nat /\ Evening \in Nat
        BY <1>1, <3>2, RunTyped, FactsBounds DEF KnownAt
      <4>3. ASSUME NEW y \in RowsOf(rates, e) PROVE y.known < KnownAt(s, e)
        <5>1. y \in rates /\ y.eff = e /\ KnownBefore(y, s.began)
          BY <1>1 DEF OnItsOwn, RowsOf
        <5> QED BY <4>1, <4>2, <5>1 DEF KnownBefore, Fetch, Floor
      <4> QED BY <4>3
    <3> QED BY <3>1, <3>2
  <2>4. \A y \in rates : y.known \in Nat
    BY <1>1 DEF RatesInv, RateRow
  <2>5. \A y \in rates : y.eff # e \/ y.known # KnownAt(s, e)
    BY <2>3, <2>4 DEF RowsOf
  <2> HIDE DEF new
  <2>6. RowsOf(rates', e) = RowsOf(rates, e) \cup {new}
    BY <1>2, <1>3, <2>1, <2>2, <2>5 DEF RowsOf
  <2>7. rates' \in SUBSET RateRow
    <3>1. \A x \in NewRows(s) : x \in RateRow
      BY <1>1, NewRowsTyped
    <3> QED BY <1>1, <1>2, <3>1 DEF RatesInv
  <2>8. new \in RowsOf(rates', e) /\ \A y \in RowsOf(rates', e) : y # new => y.known < new.known
    BY <2>2, <2>3, <2>6
  <2>9. Latest(rates', e) = new.rate
    BY <2>7, <2>8, LatestIsNewest
  <2> QED BY <2>2, <2>9
<1> QED BY <1>4, <1>5

\* A run ends by writing, and by nothing else.
LEMMA OnlyTheWriteEnds ==
    ASSUME FactsIInv, [FactsNext]_factsVars, NEW r \in Runs,
           run[r].pc = "read", run'[r].pc = "done"
    PROVE  RatesWrite(r)
<1>1. run' # run
  OBVIOUS
<1>2. PICK q \in Runs : RatesBegin(q) \/ RatesFetch(q) \/ RatesFail(q) \/ RatesRead(q) \/ RatesWrite(q)
  <2>1. FactsNext
    BY <1>1 DEF factsVars, rateVars
  <2> QED BY <1>1, <2>1 DEF FactsNext, Tick, Publish, LoadBegin, LoadIncome, LoadCash, LoadFails,
             LoadStore, SweepSkip, SweepBegin, Observe, NoQuote, InsertFails, SweepEnd, SweepDies, rateVars
<1>3. run[q] \in RatesRun /\ run[r] \in RatesRun /\ DOMAIN run = Runs
  BY RunTyped DEF FactsIInv
<1>4. ~RatesBegin(q)
  <2> SUFFICES ASSUME RatesBegin(q) PROVE FALSE
    OBVIOUS
  <2>1. q # r
    BY DEF RatesBegin
  <2>2. run'[r] = [run[r] EXCEPT !.alone = run[r].alone /\ ~Busy(r)]
    BY <2>1 DEF RatesBegin
  <2>3. run'[r].pc = run[r].pc
    BY <1>3, <2>2 DEF RatesRun
  <2> QED BY <2>3
<1>5. ~RatesFetch(q) /\ ~RatesFail(q) /\ ~RatesRead(q)
  BY <1>3 DEF RatesFetch, RatesFail, RatesRead, RatesRun
<1>6. RatesWrite(q)
  BY <1>2, <1>4, <1>5
<1> QED BY <1>3, <1>6 DEF RatesWrite

\* When a run of the rates command that overlapped no other run ends, the latest
\* stored value of every date is the one FRED showed it, for every series of
\* revisions and whatever earlier runs left (load_reference_data.py cmd_rates);
\* but not of a date whose revision the run met before that date's midnight.
THEOREM RunRecordsWhatItSawHolds == FactsSpec => RunRecordsWhatItSaw
<1> DEFINE Records ==
        \A r \in Runs :
          run[r].pc = "read" /\ run'[r].pc = "done" /\ run[r].alone =>
              \A e \in Dates : run[r].seen[e] # None /\ ~SameEvening(run[r], e) =>
                                   Latest(rates', e) = run[r].seen[e]
<1>1. FactsIInv /\ [FactsNext]_factsVars => [Records]_factsVars
  <2> SUFFICES ASSUME FactsIInv, [FactsNext]_factsVars PROVE Records
    OBVIOUS
  <2> SUFFICES ASSUME NEW r \in Runs, run[r].pc = "read", run'[r].pc = "done", run[r].alone,
                      NEW e \in Dates, run[r].seen[e] # None, ~SameEvening(run[r], e)
               PROVE  Latest(rates', e) = run[r].seen[e]
    BY DEF Records
  <2> QED BY OnlyTheWriteEnds, WriteRecords
<1> QED BY <1>1, FactsInvariant, PTL DEF FactsSpec, RunRecordsWhatItSaw

\* Of an annual row of a quiet load, margin and cash flow are of one filing or of
\* none, and the stamp that dates the row is that filing's.
LEMMA QuietRow ==
    ASSUME FactsIInv, load.pc = "cash", load.quiet, NEW i, NEW x \in Annual(i),
           NEW f \in {x.margin, x.fcf}
    PROVE  f = NoFiling \/ (f.period = x.period /\ f.stamp = x.known /\ f.ends <= x.known)
<1> DEFINE income == Nth(load.income, i)
           ratios == Nth(load.ratios, i)
           cash == Nth(load.cash, i)
           covers == IF income # NoFiling THEN income ELSE ratios
           one == Nth(Served, i)
<1>1. /\ x = [kind |-> "annual", period |-> covers.period, known |-> x.known,
              margin |-> ratios, fcf |-> cash, eps |-> Nth(load.income, 0)]
      /\ x.known = (IF income.stamp # None THEN income.stamp ELSE cash.stamp)
      /\ covers # NoFiling /\ x.known # None /\ x.known >= covers.ends
  BY AnnualHolds
<1>2. f = ratios \/ f = cash
  BY <1>1
<1>3. /\ load.ratios \in {Served, {}} /\ load.income \in {Served, {}} /\ load.cash \in {Served, {}}
  BY DEF FactsIInv, LoadInv
<1>4. Nth({}, i) = NoFiling
  BY DEF Nth
<1>5. income \in {one, NoFiling} /\ ratios \in {one, NoFiling} /\ cash \in {one, NoFiling}
  BY <1>3, <1>4
<1>6. one \in filings \cup {NoFiling}
  BY NthIsOfTheSeries, ServedIsFiled
<1>7. NoFiling.stamp = None
  BY DEF NoFiling
<1> HIDE DEF income, ratios, cash, one
<1>8. CASE one = NoFiling
  BY <1>2, <1>5, <1>8
<1>9. CASE one # NoFiling
  <2>1. one \in filings /\ one.stamp \in Nat /\ one.ends \in Nat
    BY <1>6, <1>9, FilingsTyped
  <2>2. covers = one /\ x.known = one.stamp /\ x.period = one.period
    BY <1>1, <1>5, <1>7
  <2>3. one.ends <= x.known
    BY <1>1, <2>1, <2>2
  <2> QED BY <1>2, <1>5, <2>2, <2>3
<1> QED BY <1>8, <1>9

\* A load during which nothing was filed dates every annual row it writes by the
\* filing its margin and its cash flow come from, as the vendor dates that and
\* not before its period ended, whichever of the vendor's answers was empty
\* (load_fundamentals.py annual_row).
THEOREM QuietLoadsKeepHistoryHolds == FactsSpec => QuietLoadsKeepHistory
<1> DEFINE Keeps ==
        load.pc = "cash" /\ load.quiet =>
          \A x \in rows' \ rows : x.kind = "annual" =>
              \A f \in {x.margin, x.fcf} :
                  \/ f = NoFiling
                  \/ f.period = x.period /\ f.stamp = x.known /\ f.ends <= x.known
<1>1. FactsIInv /\ [FactsNext]_factsVars => [Keeps]_factsVars
  <2> SUFFICES ASSUME FactsIInv, [FactsNext]_factsVars, load.pc = "cash", load.quiet,
                      NEW x \in rows', x \notin rows, x.kind = "annual",
                      NEW f \in {x.margin, x.fcf}
               PROVE  \/ f = NoFiling
                      \/ f.period = x.period /\ f.stamp = x.known /\ f.ends <= x.known
    BY SMTT(30)
  <2>1. LoadStore
    BY DEF FactsNext, factsVars, rateVars, loadVars, sweepVars, Tick, Publish, RatesBegin, RatesFetch,
           RatesFail, RatesRead, RatesWrite, LoadBegin, LoadIncome, LoadCash, LoadFails,
           SweepSkip, SweepBegin, Observe, NoQuote, InsertFails, SweepEnd, SweepDies
  <2>2. PICK i \in Int : x \in Annual(i)
    BY <2>1, StoredRows DEF Snapshot
  <2> QED BY <2>2, QuietRow
<1> QED BY <1>1, FactsInvariant, PTL DEF FactsSpec, QuietLoadsKeepHistory
=============================================================================
