------------------------------- MODULE Migrate -------------------------------
(***************************************************************************)
(* The migration runner (db/migrate.py): invocations of up, down and       *)
(* status that serialize on a session-scoped advisory lock, plan against   *)
(* schema_migrations, and run each migration body and its bookkeeping row  *)
(* in one transaction.  A body is text nobody parses: it may fail, and it  *)
(* may end the runner's transaction itself (COMMIT, ROLLBACK, or COMMIT    *)
(* followed by BEGIN).  An invocation may die at any point; the server     *)
(* then rolls its transaction back and frees the lock.                     *)
(***************************************************************************)
EXTENDS Integers, FiniteSets

CONSTANTS
    Runners,    \* terminals and deploy scripts; each runs one command at a time
    Versions,   \* migration versions: zero-padded, so ordered as numbers
    Sums,       \* checksums of up bodies
    Checkouts,  \* the sets of migration files a command may discover
    NoOne,      \* nobody holds the lock
    DbMayFail   \* TRUE when a statement, or the answer to a commit, may be lost

\* One version's pair of files.  "tx" is a body with transaction control of
\* its own.
File == [sum : Sums, destructive : BOOLEAN,
         up : {"plain", "error", "tx"}, down : {"plain", "error", "tx"}]
NoTarget == -1
All == 0        \* the target of a down that rolls everything back

ASSUME VersionsArePositive == Versions \subseteq Nat \ {0} /\ IsFiniteSet(Versions)
ASSUME CheckoutsAreFiles == \A c \in Checkouts : DOMAIN c \subseteq Versions /\ c \in [DOMAIN c -> File]
ASSUME NoOneIsNoRunner == NoOne \notin Runners
ASSUME NoSumIsAState == Sums \cap {"none", "part", "torn"} = {} /\ DbMayFail \in BOOLEAN

VARIABLES
    lock,     \* who holds MIGRATION_LOCK_KEY
    applied,  \* schema_migrations: version -> checksum, "none" without a row
    schema,   \* what the database holds of a version: nothing, the whole of the
              \* up body with that checksum, or what a body's own transaction
              \* control left of it ("part" by an up, "torn" by a down)
    runner    \* the command each runner is at

vars == <<lock, applied, schema, runner>>
db == <<applied, schema>>
-----------------------------------------------------------------------------
Idle == [at |-> "idle", cmd |-> "status", allow |-> FALSE,
         target |-> NoTarget, files |-> <<>>, todo |-> {}]

TypeOK ==
    /\ lock \in Runners \cup {NoOne}
    /\ applied \in [Versions -> Sums \cup {"none"}]
    /\ schema \in [Versions -> Sums \cup {"none", "part", "torn"}]
    /\ \A r \in Runners :
         /\ runner[r].at \in {"idle", "waiting", "planning", "body", "record"}
         /\ runner[r].cmd \in {"status", "up", "down"}
         /\ runner[r].allow \in BOOLEAN
         /\ runner[r].target \in Versions \cup {NoTarget, All}
         /\ runner[r].files \in Checkouts \cup {<<>>}
         /\ runner[r].todo \subseteq DOMAIN runner[r].files

Init ==
    /\ lock = NoOne
    /\ applied = [v \in Versions |-> "none"]
    /\ schema = [v \in Versions |-> "none"]
    /\ runner = [r \in Runners |-> Idle]
-----------------------------------------------------------------------------
(* The lock                                                                *)

At(r, step) == runner' = [runner EXCEPT ![r].at = step]

\* The connection is closed: the lock goes with the session.
Exit(r) ==
    /\ runner' = [runner EXCEPT ![r] = Idle]
    /\ lock' = IF lock = r THEN NoOne ELSE lock

Start(r) ==
    /\ runner[r].at = "idle"
    /\ At(r, "waiting")
    /\ UNCHANGED <<lock, db>>

\* pg_try_advisory_lock in the retry loop.
Acquire(r) ==
    /\ runner[r].at = "waiting"
    /\ lock = NoOne
    /\ lock' = r
    /\ At(r, "planning")
    /\ UNCHANGED db

\* Mutant: pg_advisory_lock, which waits as long as it takes.
BugBlockForEver(r) == lock = r /\ UNCHANGED vars

\* The last try of MIGRATE_LOCK_TIMEOUT failed.
LockTimeout(r) ==
    /\ runner[r].at = "waiting"
    /\ lock # NoOne
    /\ Exit(r)
    /\ UNCHANGED db
-----------------------------------------------------------------------------
(* The plan                                                                *)

HasRow(v) == applied[v] # "none"
Low(S) == CHOOSE v \in S : \A w \in S : v <= w
High(S) == CHOOSE v \in S : \A w \in S : v >= w

\* cmd_up(): what is pending, up to the target.
Pending(files, target) ==
    {v \in DOMAIN files : ~HasRow(v) /\ (target = NoTarget \/ v <= target)}

\* ... refused when an applied file was edited, or when any of it is marked
\* destructive and that was not allowed.
UpAllowed(files, todo, allow) ==
    /\ \A v \in DOMAIN files : HasRow(v) => applied[v] = files[v].sum
    /\ allow \/ \A v \in todo : ~files[v].destructive

\* cmd_down(): everything applied above the target, or the newest alone.
\* Rows without a file are orphans, warned about and left alone.
ToRevert(files, target) ==
    LET candidates == {v \in DOMAIN files : HasRow(v)}
    IN  IF candidates = {} THEN {}
        ELSE IF target = NoTarget THEN {High(candidates)}
        ELSE {v \in candidates : v > target}

\* The command reads schema_migrations, under the lock, and plans.  What it
\* was asked for, and the files it discovered before it connected, matter only
\* from here on.  status, a dry run, an empty plan and a refusal end it.
Plan(r) ==
    /\ runner[r].at = "planning"
    /\ \E cmd \in {"status", "up", "down"}, files \in Checkouts, allow, dry \in BOOLEAN :
       \E target \in {NoTarget} \cup DOMAIN files \cup (IF cmd = "down" THEN {All} ELSE {}) :
         LET todo == CASE cmd = "up"   -> Pending(files, target)
                       [] cmd = "down" -> ToRevert(files, target)
                       [] OTHER        -> {}
             granted == IF cmd = "up" THEN UpAllowed(files, todo, allow) ELSE allow
         IN  IF todo # {} /\ granted /\ ~dry
               THEN /\ runner' = [runner EXCEPT ![r] =
                          [at |-> "body", cmd |-> cmd, allow |-> allow,
                           target |-> target, files |-> files, todo |-> todo]]
                    /\ UNCHANGED lock
               ELSE Exit(r)
    /\ UNCHANGED db
-----------------------------------------------------------------------------
(* One migration: apply_one() and rollback_one()                           *)

NextUp(r) == Low(runner[r].todo)

\* Mutant: rollbacks run oldest first.
BugOldestFirst(r) == Low(runner[r].todo)

\* Rollbacks run newest first.
NextDown(r) == High(runner[r].todo)
NextOf(r) == IF runner[r].cmd = "up" THEN NextUp(r) ELSE NextDown(r)
BodyOf(r) == LET f == runner[r].files[NextOf(r)] IN IF runner[r].cmd = "up" THEN f.up ELSE f.down

\* The body runs to its end inside the runner's transaction.
RunBody(r) ==
    /\ runner[r].at = "body"
    /\ BodyOf(r) = "plain"
    /\ At(r, "record")
    /\ UNCHANGED <<lock, db>>

\* A statement of the body fails, or meets what an earlier accident left of
\* this version: all of it is rolled back.
BodyFails(r) ==
    /\ runner[r].at = "body"
    /\ BodyOf(r) = "error" \/ schema[NextOf(r)] \in {"part", "torn"} \/ DbMayFail
    /\ Exit(r)
    /\ UNCHANGED db

\* What is left in the database when a body ends the runner's transaction: of
\* an up, some of its statements; of a down, the version without some.
Remains(r) == IF runner[r].cmd = "up" THEN "part" ELSE "torn"

\* Mutant: the transaction is not looked at after the body.
BugHijackUnseen(r) ==
    /\ runner[r].at = "body"
    /\ BodyOf(r) = "tx"
    /\ schema' = [schema EXCEPT ![NextOf(r)] = Remains(r)]
    /\ applied' = [applied EXCEPT ![NextOf(r)] =
                     IF runner[r].cmd = "up" THEN runner[r].files[NextOf(r)].sum ELSE "none"]
    /\ Exit(r)

\* _assert_tx_intact(): the transaction is gone or is another one, so nothing
\* is recorded; what the body's own COMMIT made durable stays.
Hijacked(r) ==
    /\ runner[r].at = "body"
    /\ BodyOf(r) = "tx"
    /\ \/ schema' = [schema EXCEPT ![NextOf(r)] = Remains(r)]
       \/ UNCHANGED schema
    /\ Exit(r)
    /\ UNCHANGED applied

\* The bookkeeping row is inserted, or deleted, and the transaction commits
\* with the body.  A row that is there already is a duplicate key.  The
\* answer may be lost: the command ends all the same.
Record(r) ==
    LET v == NextOf(r)
        up == runner[r].cmd = "up"
        left == runner[r].todo \ {v}
    IN  /\ runner[r].at = "record"
        /\ ~(up /\ HasRow(v))
        /\ applied' = [applied EXCEPT ![v] = IF up THEN runner[r].files[v].sum ELSE "none"]
        /\ schema' = [schema EXCEPT ![v] = IF up THEN runner[r].files[v].sum ELSE "none"]
        /\ \/ /\ left # {}
              /\ runner' = [runner EXCEPT ![r].at = "body", ![r].todo = left]
              /\ UNCHANGED lock
           \/ (left = {} \/ DbMayFail) /\ Exit(r)

RecordFails(r) ==
    /\ runner[r].at = "record"
    /\ DbMayFail \/ (runner[r].cmd = "up" /\ HasRow(NextOf(r)))
    /\ Exit(r)
    /\ UNCHANGED db

\* The process, its host or its connection dies.
Die(r) ==
    /\ runner[r].at # "idle"
    /\ Exit(r)
    /\ UNCHANGED db
-----------------------------------------------------------------------------
Step(r) ==
    \/ Start(r) \/ Acquire(r) \/ LockTimeout(r) \/ Plan(r)
    \/ RunBody(r) \/ BodyFails(r) \/ Hijacked(r) \/ Record(r) \/ RecordFails(r)
    \/ Die(r)

Next == \E r \in Runners : Step(r)

Spec == Init /\ [][Next]_vars

\* The retry loop ends one way or the other within the lock timeout.  A body
\* may take for ever: statement_timeout is 0.
FairSpec == Spec /\ \A r \in Runners : WF_vars(Acquire(r) \/ LockTimeout(r))
-----------------------------------------------------------------------------
(* What must hold                                                          *)

Mutating == {r \in Runners : runner[r].at \in {"body", "record"}}

\* "A partially-applied-but-recorded migration is impossible", and so is one
\* that is whole and unrecorded.  A down body that ends the runner's
\* transaction is the exception: its row stays.
RowTellsSchema ==
    \A v \in Versions :
        IF HasRow(v) THEN schema[v] \in {applied[v], "torn"} ELSE schema[v] \notin Sums

\* Nobody moves the ground under a plan: what is still to apply has no row,
\* what is still to roll back has one.
PlanStaysCurrent ==
    \A r \in Mutating : \A v \in runner[r].todo : HasRow(v) <=> runner[r].cmd = "down"

\* Nothing is applied next to a file that was edited since it was applied, by
\* the command's own files.
NoDriftUnderUp ==
    \A r \in Mutating : runner[r].cmd = "up" =>
        \A v \in DOMAIN runner[r].files : HasRow(v) => applied[v] = runner[r].files[v].sum

\* No body marked destructive, and no rollback, runs unless it was allowed.
ConsentHeld ==
    \A r \in Mutating :
        runner[r].cmd = "down" \/ runner[r].files[NextOf(r)].destructive => runner[r].allow

\* The parts that are checked together: rows tell what the schema holds, and
\* what a runner does next is planned on current rows and with consent.
Inv == TypeOK /\ RowTellsSchema /\ PlanStaysCurrent /\ NoDriftUnderUp /\ ConsentHeld

\* Within the files of one checkout, a version is applied after every pending
\* one below it, and removed after every applied one above it, whatever
\* failures come between.
KeepsOrder(r) ==
    \A v \in Versions :
        /\ applied[v] = "none" /\ applied'[v] # "none" =>
             \A w \in DOMAIN runner[r].files : w < v => HasRow(w)
        /\ applied[v] # "none" /\ applied'[v] = "none" =>
             \A w \in DOMAIN runner[r].files : w > v => ~HasRow(w)
OrderKept == [][applied' = applied \/ \E r \in Mutating : KeepsOrder(r)]_vars

\* Whoever runs what at the same time, and whatever dies or fails between, the
\* database goes through one migration at a time, each in its turn and whole.
Ledger == INSTANCE SchemaLedger
OneAtATime == Ledger!SchemaSpec

\* A runner never waits silently behind another for ever.
WaitEnds == \A r \in Runners : runner[r].at = "waiting" ~> runner[r].at # "waiting"
=============================================================================
