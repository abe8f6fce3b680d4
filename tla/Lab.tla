--------------------------------- MODULE Lab ---------------------------------
(***************************************************************************)
(* The Testing Lab: experiments that train and validate models, and sweeps *)
(* of one parameter, each driven by the request that asked for it          *)
(* (lab/runner.py) and recorded in three tables (lab/store.py).            *)
(*                                                                         *)
(* A request runs on the event loop and hands every piece of work, the     *)
(* writes included, to a thread.  Cancelling the request does not stop a   *)
(* thread that has begun: its write lands later.  The process may die.     *)
(* The requests the Lab refuses outright (unknown model, no values) write  *)
(* nothing and are left out, as are the reads.                             *)
(***************************************************************************)
EXTENDS Integers, Sequences, FiniteSets, SequencesExt

CONSTANTS
    Exps,      \* the requests
    Items,     \* the models of an experiment, or the values of a sweep, in order
    Scores,    \* the values of a metric
    Unmeasured,\* instead of a score: the validator scored nothing
    None       \* NULL

ASSUME ItemsDiffer == Items \in Seq(Range(Items)) /\ IsInjective(Items) /\ Items # <<>>
ASSUME ScoresAreNat == Scores \subseteq Nat /\ Unmeasured \notin Scores
ASSUME NoneIsNull ==
    /\ None \notin Range(Items)
    /\ None \notin [points : Seq([item : Range(Items), score : Scores \cup {Unmeasured}]),
                    best : Range(Items) \cup {None}]

VARIABLES
    kind,      \* what each request asks for
    task,      \* the request's coroutine
    jobs,      \* what it has handed to the threads
    status,    \* experiments.status
    runs,      \* model_runs
    sweeps,    \* sweeps
    up,        \* the process is alive
    broken,    \* the experiments the database refused to close
    baseline,  \* model_runs.is_baseline: the baseline of each model
    moving     \* the run that is half way to being one

vars == <<kind, task, jobs, status, runs, sweeps, up, broken, baseline, moving>>
baselines == <<baseline, moving>>
-----------------------------------------------------------------------------
Results == Scores \cup {Unmeasured}

Closed == {"complete", "failed"}

\* What a thread may be doing, in the order the coroutine asks for it.
Ops == {"dataset", "create", "validate", "record", "sweep", "finish", "fail"}

NewTask == [pc |-> "ready", op |-> "dataset", nth |-> 1, known |-> FALSE,
            left |-> FALSE, result |-> Unmeasured, points |-> <<>>, erred |-> {}]

Init ==
    /\ kind \in [Exps -> {"models", "sweep"}]
    /\ task = [e \in Exps |-> NewTask]
    /\ jobs = {}
    /\ status = [e \in Exps |-> "none"]
    /\ runs = {} /\ sweeps = [e \in Exps |-> None]
    /\ up = TRUE /\ broken = {}
    /\ baseline = [m \in Range(Items) |-> None] /\ moving = None

Job(e, op, st) ==
    [exp |-> e, op |-> op, nth |-> task[e].nth, result |-> task[e].result,
     points |-> task[e].points, state |-> st]

JobsOf(e) == {j \in jobs : j.exp = e}
Awaited(e) == {j \in JobsOf(e) : j.op = task[e].op /\ j.nth = task[e].nth}

\* asyncio.to_thread: the request awaits a thread.
Submit(e) ==
    /\ up /\ task[e].pc = "ready"
    /\ jobs' = jobs \cup {Job(e, task[e].op, "queued")}
    /\ task' = [task EXCEPT ![e].pc = "awaiting"]
    /\ UNCHANGED <<kind, status, runs, sweeps, up, broken, baselines>>

StartJob(j) ==
    /\ up /\ j.state = "queued"
    /\ jobs' = (jobs \ {j}) \cup {[j EXCEPT !.state = "running"]}
    /\ UNCHANGED <<kind, task, status, runs, sweeps, up, broken, baselines>>

\* The thread is done with j, as "ok" or "raised"; nothing reads the outcome of
\* a job the request no longer awaits.
JobDone(j, st) ==
    jobs' = (jobs \ {j}) \cup
              (IF task[j.exp].pc = "awaiting" /\ j \in Awaited(j.exp)
               THEN {[j EXCEPT !.state = st]} ELSE {})

\* A write that stands: it is committed by itself, and its answer may be lost
\* with the connection.
Written(j) == \E st \in {"ok", "raised"} : JobDone(j, st)

\* _dataset and _validate leave nothing behind.  A run whose metrics and counts
\* disagree is refused before it is written.
Work(j) ==
    /\ up /\ j.state = "running" /\ j.op \in {"dataset", "validate"}
    /\ \E r \in Results, st \in {"ok", "raised"} :
         /\ (j.op = "dataset" => r = Unmeasured)
         /\ jobs' = (jobs \ {j}) \cup
              (IF task[j.exp].pc = "awaiting" /\ j \in Awaited(j.exp)
               THEN {[j EXCEPT !.state = st, !.result = r]} ELSE {})
    /\ UNCHANGED <<kind, task, status, runs, sweeps, up, broken, baselines>>

\* Nothing is written: psycopg.Error, or ResultInconsistent for a model run.
WriteFails(j) ==
    /\ up /\ j.state = "running" /\ j.op \notin {"dataset", "validate"}
    /\ JobDone(j, "raised")
    /\ broken' = IF j.op = "fail" THEN broken \cup {j.exp} ELSE broken
    /\ UNCHANGED <<kind, task, status, runs, sweeps, up, baselines>>

Create(j) ==
    /\ up /\ j.state = "running" /\ j.op = "create"
    /\ status' = [status EXCEPT ![j.exp] = "running"]
    /\ Written(j)
    /\ UNCHANGED <<kind, task, runs, sweeps, up, broken, baselines>>

Record(j) ==
    /\ up /\ j.state = "running" /\ j.op = "record"
    /\ runs' = runs \cup {[exp |-> j.exp, item |-> Items[j.nth],
                           result |-> j.result, late |-> status[j.exp] \in Closed]}
    /\ Written(j)
    /\ UNCHANGED <<kind, task, status, sweeps, up, broken, baselines>>

\* The items that may win: those with the best score of the measured points.
Best(points) ==
    {points[n].item : n \in {m \in DOMAIN points :
        /\ points[m].score \in Scores
        /\ \A k \in DOMAIN points :
              points[k].score \in Scores => points[k].score <= points[m].score}}

RecordSweep(j) ==
    /\ up /\ j.state = "running" /\ j.op = "sweep"
    /\ \E w \in (IF Best(j.points) = {} THEN {None} ELSE Best(j.points)) :
         sweeps' = [sweeps EXCEPT ![j.exp] = [points |-> j.points, best |-> w]]
    /\ Written(j)
    /\ UNCHANGED <<kind, task, status, runs, up, broken, baselines>>

\* Mutant: the statement that closes an experiment forgets AND status = 'running'.
BugMayClose(e) == TRUE

MayClose(e) == status[e] = "running"

Finish(j) ==
    /\ up /\ j.state = "running" /\ j.op = "finish"
    /\ status' = IF MayClose(j.exp) THEN [status EXCEPT ![j.exp] = "complete"] ELSE status
    /\ Written(j)
    /\ UNCHANGED <<kind, task, runs, sweeps, up, broken, baselines>>

\* Mutant: fail_experiment passes on what it was told.
BugHasReason(said) == said

\* Whether the reason is not blank, said or not by the exception.
HasReason(said) == TRUE

\* ck_experiments_failure_explained refuses a failed row without a reason.
FailExperiment(j) ==
    /\ up /\ j.state = "running" /\ j.op = "fail"
    /\ \E said \in BOOLEAN :
         IF HasReason(said)
           THEN /\ status' = IF MayClose(j.exp) THEN [status EXCEPT ![j.exp] = "failed"]
                             ELSE status
                /\ Written(j)
           ELSE UNCHANGED status /\ JobDone(j, "raised")
    /\ UNCHANGED <<kind, task, runs, sweeps, up, broken, baselines>>
-----------------------------------------------------------------------------
(* The coroutine takes the answer of its thread.                           *)

Answer(e, st) ==
    /\ up /\ task[e].pc = "awaiting"
    /\ \E j \in Awaited(e) : j.state = st
    /\ jobs' = jobs \ Awaited(e)
    /\ UNCHANGED <<kind, status, runs, sweeps, up, broken, baselines>>

\* continue: the next model, or the end of the loop.
SkipTo(n) == n + 1

\* After the n-th item the next one, or what closes the experiment.
After(e, n) ==
    IF n <= Len(Items) THEN "validate"
    ELSE IF kind[e] = "sweep" THEN "sweep" ELSE "finish"

Loaded(e) ==
    /\ task[e].op = "dataset" /\ Answer(e, "ok")
    /\ task' = [task EXCEPT ![e].pc = "yielded", ![e].op = "create"]

Created(e) ==
    /\ task[e].op = "create" /\ Answer(e, "ok")
    /\ task' = [task EXCEPT ![e].pc = "yielded", ![e].op = "validate", ![e].known = TRUE]

Validated(e) ==
    /\ task[e].op = "validate" /\ Answer(e, "ok")
    /\ \E j \in Awaited(e) :
         task' = [task EXCEPT ![e].pc = "ready", ![e].op = "record", ![e].result = j.result]

\* Mutant: a sweep keeps the score of a point whose row was refused.
BugUnrecorded(t) == t.result

\* The point of an item whose run could not be validated or recorded.
Unrecorded(t) == Unmeasured

Point(e, score) == [item |-> Items[task[e].nth], score |-> score]

Recorded(e) ==
    /\ task[e].op = "record" /\ Answer(e, "ok")
    /\ task' = [task EXCEPT ![e].pc = "yielded", ![e].nth = @ + 1,
                            ![e].op = After(e, task[e].nth + 1),
                            ![e].points = Append(@, Point(e, task[e].result)),
                            ![e].result = Unmeasured]

\* One model's failure is not the run's: except Exception inside the loop.  An
\* experiment has it around the validation, a sweep around the record too.
ItemFails(e) ==
    /\ \/ task[e].op = "validate"
       \/ task[e].op = "record" /\ kind[e] = "sweep"
    /\ Answer(e, "raised")
    /\ LET next == SkipTo(task[e].nth)
       IN  task' = [task EXCEPT ![e].pc = "yielded", ![e].nth = next,
                        ![e].op = After(e, next),
                        ![e].points = Append(@, Point(e, Unrecorded(task[e]))),
                        ![e].erred = @ \cup {Items[task[e].nth]},
                        ![e].result = Unmeasured]

Swept(e) ==
    /\ task[e].op = "sweep" /\ Answer(e, "ok")
    /\ task' = [task EXCEPT ![e].pc = "ready", ![e].op = "finish"]

Ended(e) ==
    /\ task[e].op \in {"finish", "fail"} /\ Answer(e, "ok")
    /\ task' = [task EXCEPT ![e].pc = "ended"]

\* except Exception: the row is closed as failed when there is one.  When that
\* write fails too the exception ends the request.
Raised(e) ==
    /\ \/ task[e].op \in {"dataset", "create", "sweep", "finish", "fail"}
       \/ task[e].op = "record" /\ kind[e] = "models"
    /\ Answer(e, "raised")
    /\ task' = [task EXCEPT ![e].op = "fail",
                    ![e].pc = IF task[e].known /\ task[e].op # "fail"
                              THEN "ready" ELSE "ended"]

\* The event has been sent and the generator is asked for the next one.
Resume(e) ==
    /\ up /\ task[e].pc = "yielded"
    /\ task' = [task EXCEPT ![e].pc = "ready"]
    /\ UNCHANGED <<kind, jobs, status, runs, sweeps, up, broken, baselines>>
-----------------------------------------------------------------------------
(* The client goes away, or the process does.                              *)

\* A job that has not begun may be withdrawn with the await.
Abandon(e) == \E gone \in SUBSET {j \in Awaited(e) : j.state = "queued"} :
                 jobs' = {j \in jobs \ gone :
                             ~(j \in Awaited(e) /\ j.state \in {"ok", "raised"})}

\* CancelledError while a thread is awaited: the row is closed when its id has
\* arrived.  A second one, while that close is awaited, ends the request.
Cancel(e) ==
    /\ up /\ task[e].pc = "awaiting"
    /\ Abandon(e)
    /\ task' = [task EXCEPT ![e].op = "fail", ![e].left = TRUE,
                    ![e].pc = IF task[e].known /\ task[e].op # "fail"
                              THEN "ready" ELSE "ended"]
    /\ UNCHANGED <<kind, status, runs, sweeps, up, broken, baselines>>

\* The client goes while an event is being sent: the generator is closed at its
\* yield, which no handler of it catches.
Drop(e) ==
    /\ up /\ task[e].pc = "yielded"
    /\ task' = [task EXCEPT ![e].pc = "ended", ![e].left = TRUE]
    /\ UNCHANGED <<kind, jobs, status, runs, sweeps, up, broken, baselines>>

Die ==
    /\ up
    /\ up' = FALSE /\ jobs' = {} /\ moving' = None
    /\ UNCHANGED <<kind, task, status, runs, sweeps, broken, baseline>>
-----------------------------------------------------------------------------
(* set_baseline, which moves the baseline of a model to another run.       *)

Rest == <<kind, task, jobs, status, runs, sweeps, up, broken>>

\* A run that measured nothing is refused and the transaction rolled back.
SetBaseline(r) ==
    /\ up /\ moving = None /\ r \in runs /\ r.result # Unmeasured
    /\ baseline' = [baseline EXCEPT ![r.item] = r]
    /\ UNCHANGED <<Rest, moving>>

\* A connection that has served connection() goes back to the pool with
\* autocommit on, and on such a connection the two statements are two
\* transactions.
ClearBaseline(r) ==
    /\ up /\ moving = None /\ r \in runs
    /\ baseline' = [baseline EXCEPT ![r.item] = None] /\ moving' = r
    /\ UNCHANGED Rest

MarkBaseline ==
    /\ up /\ moving # None
    /\ baseline' = IF moving.result = Unmeasured THEN baseline
                   ELSE [baseline EXCEPT ![moving.item] = moving]
    /\ moving' = None
    /\ UNCHANGED Rest
-----------------------------------------------------------------------------
Thread == \E j \in jobs :
             \/ StartJob(j) \/ Work(j) \/ WriteFails(j) \/ Create(j) \/ Record(j)
             \/ RecordSweep(j) \/ Finish(j) \/ FailExperiment(j)

Loop(e) == \/ Submit(e) \/ Loaded(e) \/ Created(e) \/ Validated(e) \/ Recorded(e)
           \/ ItemFails(e) \/ Swept(e) \/ Ended(e) \/ Raised(e) \/ Resume(e)

Next ==
    \/ Thread \/ Die \/ MarkBaseline
    \/ \E r \in runs : SetBaseline(r) \/ ClearBaseline(r)
    \/ \E e \in Exps : Loop(e) \/ Cancel(e) \/ Drop(e)

\* The event loop runs what is ready and the pool has threads to spare; clients
\* need not leave, nor the process die.
Fairness == WF_vars(Thread) /\ \A e \in Exps : WF_vars(Loop(e))

Spec == Init /\ [][Next]_vars /\ Fairness
-----------------------------------------------------------------------------
TypeOK ==
    /\ kind \in [Exps -> {"models", "sweep"}] /\ up \in BOOLEAN /\ broken \subseteq Exps
    /\ status \in [Exps -> {"none", "running"} \cup Closed]
    /\ \A e \in Exps :
         /\ task[e].pc \in {"ready", "awaiting", "yielded", "ended"}
         /\ task[e].op \in Ops /\ task[e].nth \in 1..(Len(Items) + 1)
         /\ task[e].result \in Results /\ task[e].erred \subseteq Range(Items)
         /\ Cardinality(Awaited(e)) <= 1
    /\ \A j \in jobs : /\ j.exp \in Exps /\ j.op \in Ops
                       /\ j.state \in {"queued", "running", "ok", "raised"}
    /\ \A r \in runs : r.exp \in Exps /\ r.item \in Range(Items) /\ r.result \in Results
    /\ \A m \in Range(Items) : baseline[m] = None \/ baseline[m].item = m

\* A complete experiment is complete: each of its items has one run or was
\* reported as failed, a sweep has its row, and no thread has still to write
\* for it (lab/runner.py closes the row last).
CompleteMeansRecorded ==
    \A e \in Exps : status[e] = "complete" =>
        /\ \A i \in Range(Items) : i \in task[e].erred \/
               Cardinality({r \in runs : r.exp = e /\ r.item = i}) = 1
        /\ kind[e] = "sweep" => sweeps[e] # None
        /\ \A j \in JobsOf(e) : j.op \in {"finish", "fail"}

\* Results reach an experiment that is already closed only when its client
\* left, and then at most the one its thread was writing.
LateRunsAreOrphans ==
    \A e \in Exps : LET late == {r \in runs : r.exp = e /\ r.late}
                    IN  Cardinality(late) <= 1 /\ (late # {} => task[e].left)

\* A sweep's row has a point for every value, in order; a point that claims a
\* score has its model run, and the winner has the best score of those, or
\* there is none (lab/store.py: the winner is chosen from measured points
\* only; a sweep with holes must read as a sweep with holes).
SweepsAreHonest ==
    \A e \in Exps : sweeps[e] # None =>
        LET points == sweeps[e].points
            best == sweeps[e].best
            scored == {n \in DOMAIN points : points[n].score # Unmeasured}
        IN  /\ [n \in DOMAIN points |-> points[n].item] = Items
            /\ \A n \in scored : \E r \in runs :
                   r.exp = e /\ r.item = points[n].item /\ r.result = points[n].score
            /\ scored = {} <=> best = None
            /\ \A n \in scored : \E k \in scored :
                   points[k].item = best /\ points[k].score >= points[n].score

\* The parts that are checked together: what is complete is recorded, and what
\* is recorded is honest.
Inv == TypeOK /\ CompleteMeansRecorded /\ LateRunsAreOrphans /\ SweepsAreHonest

\* The way an experiment ended stands, whichever of the threads that close it
\* comes second.
EndStands ==
    [][\A e \in Exps : status[e] \in Closed => status'[e] = status[e]]_vars

\* An experiment whose client stays and whose id has arrived is closed, as
\* complete or as failed, whatever its items did and whatever their exceptions
\* said; unless the process dies or the database fails during the very write
\* that closes it (lab/store.py: a reason is always given, or the row would be
\* stuck in running for ever, looking like a live job).
WatchedRunsClose ==
    \A e \in Exps : status[e] = "running" /\ task[e].known ~>
        (status[e] \in Closed \/ task[e].left \/ ~up \/ e \in broken)
-----------------------------------------------------------------------------
(* What the repository says and the code does not do                       *)

\* lab/runner.py:11-12 has the row "closed in a finally, so a training run that
\* dies - OOM, a missing library, a bad frame - leaves a row that says it
\* failed and why", asked of a process and a client that stay: the INSERT that
\* opens the row may stand and its answer be lost, and no id is left to close.
OpenedRunsClose ==
    \A e \in Exps : status[e] = "running" ~>
        (status[e] \in Closed \/ task[e].left \/ ~up \/ e \in broken)

\* What lab/store.py:190-196 says of set_baseline, that a crash does not leave a
\* model without the baseline it had.
BaselineKept ==
    [][\A m \in Range(Items) : baseline[m] # None => baseline'[m] # None]_vars
=============================================================================
