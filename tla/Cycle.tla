-------------------------------- MODULE Cycle --------------------------------
(***************************************************************************)
(* The scheduled cycle and the row it keeps about itself.  The job         *)
(* (backend/app/jobs/cycle.py) is a process of its own; the dashboard sees *)
(* it only through its cycle_runs row (backend/app/services/cycle_state.py, *)
(* migrations 022 and 024), which the dashboard also sweeps when it reads. *)
(* Every write of the job to its row is best effort: it may be lost, and   *)
(* the job goes on.  Ages are counted in ticks since the row's updated_at, *)
(* StaleAfter of them being the ninety minutes after which a running row   *)
(* is presumed dead.                                                       *)
(***************************************************************************)
EXTENDS Integers, FiniteSets

CONSTANTS
    Runs,         \* invocations of run_cycle()
    Symbols,      \* the positions a run may debate
    Slots,        \* how many debates a run holds at once: Semaphore(2)
    StaleAfter,   \* STALE_AFTER_MINUTES, in ticks
    HaltOnDesync, \* the values cycle_halt_on_desync may be read as
    DbMayFail     \* TRUE when a write to cycle_runs may be lost

ASSUME SlotsIsPos == Slots \in Nat \ {0}
ASSUME StaleAfterIsNat == StaleAfter \in Nat
ASSUME SymbolsAreFinite == IsFiniteSet(Symbols)
ASSUME FlagsAreBoolean == HaltOnDesync \subseteq BOOLEAN /\ DbMayFail \in BOOLEAN

VARIABLES
    pc,       \* where the job stands
    verdict,  \* what its reconciliation preflight concluded
    halt,     \* whether the preflight asked it to stop
    debate,   \* its debates, by symbol
    payload,  \* the count a finished debate is about to publish
    outcome,  \* how the work ended, whoever was told
    report,   \* whether the report is on disk
    event,    \* whether the cycle event is in events.jsonl
    hasId,    \* whether the job knows the id of its row
    silent,   \* whether a write to its row was lost
    refused,  \* whether a CHECK of the table refused a write
    row       \* the cycle_runs row

vars == <<pc, verdict, halt, debate, payload, outcome, report, event, hasId, silent, refused, row>>
rowVars == <<silent, refused, row>>
workVars == <<verdict, halt, debate, payload, outcome, report, event>>
-----------------------------------------------------------------------------
\* Where the job may be; each is followed by an await or by I/O.
Working == {"start", "reconcile", "record", "check", "scan", "publish", "plan", "debating",
            "report", "event", "close"}
Verdicts == {"none", "unchecked", "in_sync", "desync"}
DebateSteps == {"none", "queued", "running", "settled", "writing", "over"}

\* The columns of a row the properties tell apart.  recon stands for
\* reconciled_at, in_sync and the counts, which are one patch: null until the
\* check ran.
Row == [status : {"none", "running", "complete", "failed"}, inferred : BOOLEAN,
        recon : {"null", "true", "false"}, total : Nat \cup {-1}, completed : Nat,
        age : 0..StaleAfter + 1]
NoRow == [status |-> "none", inferred |-> FALSE, recon |-> "null", total |-> -1,
          completed |-> 0, age |-> 0]

TypeOK ==
    /\ pc \in [Runs -> Working \cup {"idle", "over", "dead"}]
    /\ verdict \in [Runs -> Verdicts]
    /\ halt \in [Runs -> BOOLEAN]
    /\ debate \in [Runs -> [Symbols -> DebateSteps]]
    /\ payload \in [Runs -> [Symbols -> 0..Cardinality(Symbols)]]
    /\ outcome \in [Runs -> {"none", "ok", "error", "halt"}]
    /\ report \in [Runs -> BOOLEAN]
    /\ event \in [Runs -> BOOLEAN]
    /\ hasId \in [Runs -> BOOLEAN]
    /\ silent \in [Runs -> BOOLEAN]
    /\ refused \in [Runs -> BOOLEAN]
    /\ row \in [Runs -> Row]

Init ==
    /\ pc = [c \in Runs |-> "idle"]
    /\ verdict = [c \in Runs |-> "none"]
    /\ halt = [c \in Runs |-> FALSE]
    /\ debate = [c \in Runs |-> [s \in Symbols |-> "none"]]
    /\ payload = [c \in Runs |-> [s \in Symbols |-> 0]]
    /\ outcome = [c \in Runs |-> "none"]
    /\ report = [c \in Runs |-> FALSE]
    /\ event = [c \in Runs |-> FALSE]
    /\ hasId = [c \in Runs |-> FALSE]
    /\ silent = [c \in Runs |-> FALSE]
    /\ refused = [c \in Runs |-> FALSE]
    /\ row = [c \in Runs |-> NoRow]
-----------------------------------------------------------------------------
(* The row                                                                 *)

\* ck_cycle_runs_counts.  The other CHECKs compare columns that are one value
\* of this model (completed_at with status, the counts with in_sync).
Allowed(r) == r.total = -1 \/ r.completed <= r.total

\* One best-effort UPDATE ... WHERE id = run_id: nothing without an id;
\* otherwise it is lost, refused by a CHECK, or the row is r, touched now.
\* All three look the same to the job.
Patch(c, r) ==
    \/ /\ ~hasId[c] \/ DbMayFail
       /\ silent' = [silent EXCEPT ![c] = TRUE]
       /\ UNCHANGED <<refused, row>>
    \/ /\ hasId[c] /\ Allowed(r)
       /\ row' = [row EXCEPT ![c] = [r EXCEPT !.age = 0]]
       /\ UNCHANGED <<silent, refused>>
    \/ /\ hasId[c] /\ ~Allowed(r)
       /\ silent' = [silent EXCEPT ![c] = TRUE]
       /\ refused' = [refused EXCEPT ![c] = TRUE]
       /\ UNCHANGED row

Goto(c, step) == pc' = [pc EXCEPT ![c] = step]

\* cycle_state.start(): the row is opened before any work.  The INSERT may
\* fail; or it may be committed and its answer lost, which leaves a row the
\* job has no id for.
Start(c) ==
    /\ pc[c] = "idle"
    /\ Goto(c, "reconcile")
    /\ \/ /\ row' = [row EXCEPT ![c] = [NoRow EXCEPT !.status = "running"]]
          /\ hasId' = [hasId EXCEPT ![c] = TRUE]
          /\ UNCHANGED silent
       \/ /\ DbMayFail
          /\ \/ row' = [row EXCEPT ![c] = [NoRow EXCEPT !.status = "running"]]
             \/ UNCHANGED row
          /\ silent' = [silent EXCEPT ![c] = TRUE]
          /\ UNCHANGED hasId
    /\ UNCHANGED <<workVars, refused>>
-----------------------------------------------------------------------------
(* The preflight                                                           *)

\* reconcile_check.run(): compares the broker's book with the slate, or could
\* not.  It never raises; a desync may carry a halt.
Reconcile(c) ==
    /\ pc[c] = "reconcile"
    /\ \E v \in Verdicts \ {"none"}, on \in HaltOnDesync :
         /\ verdict' = [verdict EXCEPT ![c] = v]
         /\ halt' = [halt EXCEPT ![c] = on /\ v = "desync"]
    /\ Goto(c, "record")
    /\ UNCHANGED <<debate, payload, outcome, report, event, hasId, rowVars>>

\* Mutant: a check that did not run is recorded as one that found a desync.
BugRecordUnchecked(c) ==
    /\ pc[c] = "record"
    /\ Patch(c, [row[c] EXCEPT !.recon = IF verdict[c] = "in_sync" THEN "true" ELSE "false"])
    /\ Goto(c, "check")
    /\ UNCHANGED <<workVars, hasId>>

\* record_reconciliation(): a check that did not run writes nothing.
Record(c) ==
    /\ pc[c] = "record"
    /\ IF verdict[c] = "unchecked"
         THEN UNCHANGED rowVars
         ELSE Patch(c, [row[c] EXCEPT !.recon = IF verdict[c] = "in_sync" THEN "true" ELSE "false"])
    /\ Goto(c, "check")
    /\ UNCHANGED <<workVars, hasId>>

\* The halt is honoured after the verdict was recorded: DesyncHalt.
Check(c) ==
    /\ pc[c] = "check"
    /\ IF halt[c]
         THEN Goto(c, "close") /\ outcome' = [outcome EXCEPT ![c] = "halt"]
         ELSE Goto(c, "scan") /\ UNCHANGED outcome
    /\ UNCHANGED <<verdict, halt, debate, payload, report, event, hasId, rowVars>>
-----------------------------------------------------------------------------
(* The work                                                                *)

\* The account view and the scan.
Scan(c) ==
    /\ pc[c] = "scan"
    /\ Goto(c, "publish")
    /\ UNCHANGED <<workVars, hasId, rowVars>>

\* update(scanned, survivors)
PublishScan(c) ==
    /\ pc[c] = "publish"
    /\ Patch(c, row[c])
    /\ Goto(c, "plan")
    /\ UNCHANGED <<workVars, hasId>>

\* Without an API key or an account there are no debates, and no total either.
SkipDebates(c) ==
    /\ pc[c] = "plan"
    /\ Goto(c, "report")
    /\ UNCHANGED <<workVars, hasId, rowVars>>

\* The positions, cut to cycle_max_debates; the total is published before the
\* debates are gathered.
PlanDebates(c) ==
    /\ pc[c] = "plan"
    /\ \E S \in SUBSET Symbols :
         /\ debate' = [debate EXCEPT ![c] = [s \in Symbols |-> IF s \in S THEN "queued" ELSE "none"]]
         /\ Patch(c, [row[c] EXCEPT !.total = Cardinality(S)])
    /\ Goto(c, "debating")
    /\ UNCHANGED <<verdict, halt, payload, outcome, report, event, hasId>>

In(c, step) == {s \in Symbols : debate[c][s] = step}
SetDebate(c, s, step) == debate' = [debate EXCEPT ![c][s] = step]

\* _run_one_debate() takes the semaphore ...
BeginDebate(c, s) ==
    /\ pc[c] = "debating"
    /\ debate[c][s] = "queued"
    /\ Cardinality(In(c, "running")) < Slots
    /\ SetDebate(c, s, "running")
    /\ UNCHANGED <<pc, verdict, halt, payload, outcome, report, event, hasId, rowVars>>

\* ... and returns its result, an error being one: it never raises.
EndDebate(c, s) ==
    /\ pc[c] = "debating"
    /\ debate[c][s] = "running"
    /\ SetDebate(c, s, "settled")
    /\ UNCHANGED <<pc, verdict, halt, payload, outcome, report, event, hasId, rowVars>>

\* The value of "done" once one more debate counts itself.
Counted(c) == Cardinality(In(c, "writing") \cup In(c, "over"))

\* Mutant: the lock is not held across the write.
BugNoLock(c, s) ==
    /\ pc[c] = "debating"
    /\ debate[c][s] = "settled"
    /\ SetDebate(c, s, "writing")
    /\ payload' = [payload EXCEPT ![c][s] = Counted(c) + 1]
    /\ UNCHANGED <<pc, verdict, halt, outcome, report, event, hasId, rowVars>>

\* _tracked(): under the lock, done += 1 and the patch is handed to a thread;
CountDebate(c, s) ==
    /\ pc[c] = "debating"
    /\ debate[c][s] = "settled"
    /\ In(c, "writing") = {}
    /\ SetDebate(c, s, "writing")
    /\ payload' = [payload EXCEPT ![c][s] = Counted(c) + 1]
    /\ UNCHANGED <<pc, verdict, halt, outcome, report, event, hasId, rowVars>>

\* the lock is released when the write has returned.
PublishProgress(c, s) ==
    /\ pc[c] = "debating"
    /\ debate[c][s] = "writing"
    /\ Patch(c, [row[c] EXCEPT !.completed = payload[c][s]])
    /\ SetDebate(c, s, "over")
    /\ UNCHANGED <<pc, verdict, halt, payload, outcome, report, event, hasId>>

\* asyncio.gather() returns when every debate has.
Gather(c) ==
    /\ pc[c] = "debating"
    /\ \A s \in Symbols : debate[c][s] \in {"none", "over"}
    /\ Goto(c, "report")
    /\ UNCHANGED <<workVars, hasId, rowVars>>

WriteReport(c) ==
    /\ pc[c] = "report"
    /\ report' = [report EXCEPT ![c] = TRUE]
    /\ Goto(c, "event")
    /\ UNCHANGED <<verdict, halt, debate, payload, outcome, event, hasId, rowVars>>

AppendEvent(c) ==
    /\ pc[c] = "event"
    /\ event' = [event EXCEPT ![c] = TRUE]
    /\ outcome' = [outcome EXCEPT ![c] = "ok"]
    /\ Goto(c, "close")
    /\ UNCHANGED <<verdict, halt, debate, payload, report, hasId, rowVars>>

\* An exception in the scan, or in writing the report or the event.
Fail(c) ==
    /\ pc[c] \in {"scan", "report", "event"}
    /\ outcome' = [outcome EXCEPT ![c] = "error"]
    /\ Goto(c, "close")
    /\ UNCHANGED <<verdict, halt, debate, payload, report, event, hasId, rowVars>>

\* Mutant: a run that is no longer running is not closed again.
BugFinishGuarded(c) ==
    /\ pc[c] = "close"
    /\ Patch(c, IF row[c].status = "running"
                  THEN [row[c] EXCEPT !.status = IF outcome[c] = "ok" THEN "complete" ELSE "failed"]
                  ELSE row[c])
    /\ Goto(c, "over")
    /\ UNCHANGED <<workVars, hasId>>

\* cycle_state.finish(), with the error or without: by id alone, so it
\* overwrites what the sweep inferred in the meantime.
Finish(c) ==
    /\ pc[c] = "close"
    /\ Patch(c, [row[c] EXCEPT !.status = IF outcome[c] = "ok" THEN "complete" ELSE "failed",
                               !.inferred = FALSE])
    /\ Goto(c, "over")
    /\ UNCHANGED <<workVars, hasId>>

\* The process is killed, or cancelled: "except Exception" sees neither.
Kill(c) ==
    /\ pc[c] \in Working
    /\ Goto(c, "dead")
    /\ UNCHANGED <<workVars, hasId, rowVars>>
-----------------------------------------------------------------------------
(* The dashboard and the clock                                             *)

Stale(c) == row[c].status = "running" /\ row[c].age > StaleAfter

\* Mutant: only a run that published its total is swept.
BugSweepWithTotal ==
    /\ \E c \in Runs : Stale(c) /\ row[c].total # -1
    /\ row' = [c \in Runs |-> IF Stale(c) /\ row[c].total # -1
                                THEN [row[c] EXCEPT !.status = "failed", !.inferred = TRUE]
                                ELSE row[c]]
    /\ UNCHANGED <<pc, workVars, hasId, silent, refused>>

\* sweep_stale(), on every read of the page: one UPDATE over all rows.
Sweep ==
    /\ \E c \in Runs : Stale(c)
    /\ row' = [c \in Runs |-> IF Stale(c)
                                THEN [row[c] EXCEPT !.status = "failed", !.inferred = TRUE]
                                ELSE row[c]]
    /\ UNCHANGED <<pc, workVars, hasId, silent, refused>>

\* Time passes; only the age of a running row is ever read.
Tick ==
    /\ \E c \in Runs : row[c].status = "running" /\ ~Stale(c)
    /\ row' = [c \in Runs |-> IF row[c].status = "running" /\ ~Stale(c)
                                THEN [row[c] EXCEPT !.age = @ + 1]
                                ELSE row[c]]
    /\ UNCHANGED <<pc, workVars, hasId, silent, refused>>
-----------------------------------------------------------------------------
Debating(c) ==
    \/ \E s \in Symbols : BeginDebate(c, s) \/ EndDebate(c, s) \/ CountDebate(c, s) \/ PublishProgress(c, s)
    \/ Gather(c)

Job(c) ==
    \/ Start(c) \/ Reconcile(c) \/ Record(c) \/ Check(c)
    \/ Scan(c) \/ PublishScan(c) \/ SkipDebates(c) \/ PlanDebates(c)
    \/ Debating(c)
    \/ WriteReport(c) \/ AppendEvent(c) \/ Fail(c) \/ Finish(c)
    \/ Kill(c)

Next == (\E c \in Runs : Job(c)) \/ Sweep \/ Tick

Spec == Init /\ [][Next]_vars

\* Time passes and somebody reads the page; the job owes nothing.
FairSpec == Spec /\ WF_vars(Tick) /\ WF_vars(Sweep)
-----------------------------------------------------------------------------
(* What must hold                                                          *)

\* A row says complete only of a run whose report and event are written and
\* whose debates are all over.
CompleteMeansDone ==
    \A c \in Runs : row[c].status = "complete" =>
        /\ report[c] /\ event[c]
        /\ \A s \in Symbols : debate[c][s] \in {"none", "over"}

\* A run that ended and could say so is recorded as it ended, even when the
\* sweep had already presumed it dead; and no later sweep changes that.
LastWordIsTheJobs ==
    \A c \in Runs : pc[c] = "over" /\ ~silent[c] =>
        /\ row[c].status = IF outcome[c] = "ok" THEN "complete" ELSE "failed"
        /\ ~row[c].inferred

\* NULL is "we never looked", FALSE is "it does not match" (024): the row has
\* a verdict only when the check ran, and then it is the check's.
VerdictIsReal ==
    \A c \in Runs :
        /\ row[c].recon = "true" => verdict[c] = "in_sync"
        /\ row[c].recon = "false" => verdict[c] = "desync"

\* The run that refused to proceed is the one that recorded why.
HaltIsExplained ==
    \A c \in Runs : outcome[c] = "halt" /\ ~silent[c] => row[c].recon = "false"

\* The published count never runs ahead of the debates that are over or being
\* counted, and with nothing lost it is exact once they are all over.
ProgressIsHonest ==
    \A c \in Runs :
        /\ row[c].completed <= Counted(c)
        /\ pc[c] = "report" /\ ~silent[c] => row[c].completed = Counted(c)

\* The published count never goes back.
ProgressOnlyGrows == [][\A c \in Runs : row'[c].completed >= row[c].completed]_vars

\* The order of the job's writes never brings one the table's CHECKs refuse:
\* a refused patch would be swallowed with the rest of its columns.
NoPatchRefused == \A c \in Runs : ~refused[c]

\* The parts that are checked together: the row never says more than happened,
\* and says why a run stopped.
Inv == TypeOK /\ CompleteMeansDone /\ VerdictIsReal /\ HaltIsExplained /\ ProgressIsHonest /\ NoPatchRefused

\* A row cannot say "running" for ever, whether its process died, hung, or
\* never learnt the row's id.
RunningEnds == \A c \in Runs : row[c].status = "running" ~> row[c].status # "running"
=============================================================================
