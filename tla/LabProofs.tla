------------------------------ MODULE LabProofs ------------------------------
(***************************************************************************)
(* Proofs about Lab for every number of requests, items and scores, with   *)
(* requests cancelled or dropped at any await and threads that write after *)
(* nobody waits for them: what is complete is recorded, what comes late is *)
(* at most one run, a sweep claims what was measured, and the way an       *)
(* experiment ended stands.                                                *)
(***************************************************************************)
EXTENDS Lab, FiniteSetTheorems, WellFoundedInduction, TLAPS

-----------------------------------------------------------------------------
(* The inductive invariant                                                 *)

PointRec == [item : Range(Items), score : Results]
Task == [pc : {"ready", "awaiting", "yielded", "ended"}, op : Ops, nth : 1..(Len(Items) + 1),
         known : BOOLEAN, left : BOOLEAN, result : Results, points : Seq(PointRec),
         erred : SUBSET Range(Items)]
JobRec == [exp : Exps, op : Ops, nth : 1..(Len(Items) + 1), result : Results,
           points : Seq(PointRec), state : {"queued", "running", "ok", "raised"}]
Run == [exp : Exps, item : Range(Items), result : Results, late : BOOLEAN]

Typed ==
    /\ kind \in [Exps -> {"models", "sweep"}]
    /\ task \in [Exps -> Task] /\ jobs \subseteq JobRec /\ runs \subseteq Run
    /\ status \in [Exps -> {"none", "running"} \cup Closed]
    /\ DOMAIN sweeps = Exps /\ sweeps = [e \in Exps |-> sweeps[e]]
    /\ up \in BOOLEAN /\ broken \subseteq Exps
    /\ baseline = [m \in Range(Items) |-> baseline[m]]
    /\ \A m \in Range(Items) : baseline[m] = None \/ baseline[m].item = m
    /\ moving = None \/ moving \in runs

Unfinished(j) == j.state \in {"queued", "running"}
RunsOf(e) == {r \in runs : r.exp = e}

\* A job is the one its request awaits, or one that a cancelled request left
\* behind while it closes its row: at most one of each.
JobsInv(e) ==
    /\ \A j, k \in JobsOf(e) : (j.op = "fail" <=> k.op = "fail") => j = k
    /\ \A j \in JobsOf(e) :
         /\ j.nth = task[e].nth /\ j.points = task[e].points
         /\ j.op = "record" => j.result = task[e].result
         /\ j.op = "fail" => task[e].op = "fail" /\ task[e].pc \in {"awaiting", "ended"}
         /\ j.op # "fail" => \/ task[e].pc = "awaiting" /\ j.op = task[e].op
                             \/ task[e].left /\ task[e].op = "fail"
         /\ ~Unfinished(j) => task[e].pc = "awaiting" /\ j.op = task[e].op

\* How far a request has come, by the write it asks for.
Reached(op, nth) ==
    /\ op \in {"dataset", "create"} => nth = 1
    /\ op \in {"validate", "record"} => nth <= Len(Items)
    /\ op \in {"sweep", "finish"} => nth = Len(Items) + 1

\* Every item before the one at hand has its point, and its run or its error.
TaskInv(e) ==
    /\ task[e].pc = "yielded" => task[e].op \in {"create", "validate", "sweep", "finish"}
    /\ Reached(task[e].op, task[e].nth)
    /\ \A j \in JobsOf(e) : Reached(j.op, j.nth)
    /\ Len(task[e].points) = task[e].nth - 1
    /\ \A n \in 1..(task[e].nth - 1) :
         /\ task[e].points[n].item = Items[n]
         /\ Items[n] \in task[e].erred \/ \E r \in RunsOf(e) : r.item = Items[n]
         /\ task[e].points[n].score # Unmeasured =>
              \E r \in RunsOf(e) : r.item = Items[n] /\ r.result = task[e].points[n].score

\* An item has one run, and none before its write.
RunsInv(e) ==
    /\ \A r, q \in RunsOf(e) : r.item = q.item => r = q
    /\ \A r \in RunsOf(e) : \E n \in 1..Len(Items) : n <= task[e].nth /\ r.item = Items[n]
    /\ \A r \in RunsOf(e) : task[e].nth <= Len(Items) /\ r.item = Items[task[e].nth] =>
         /\ \A j \in JobsOf(e) : ~(j.op = "record" /\ Unfinished(j))
         /\ task[e].op \notin {"dataset", "create", "validate"}
         /\ task[e].op = "record" => task[e].pc # "ready"
    /\ \A j \in JobsOf(e) : j.op = "record" /\ j.state = "ok" =>
         \E r \in RunsOf(e) : r.item = Items[task[e].nth] /\ r.result = task[e].result

\* A run is late when its client left, and then it is the last.
LateInv(e) ==
    /\ \A r \in RunsOf(e) : r.late =>
         /\ status[e] \in Closed /\ task[e].left
         /\ \A j \in JobsOf(e) : ~(j.op = "record" /\ Unfinished(j))
    /\ \A r, q \in RunsOf(e) : r.late /\ q.late => r = q

\* The row is opened once, and closed when its request or its failure says so.
StatusInv(e) ==
    /\ \A j \in JobsOf(e) : j.op = "create" /\ Unfinished(j) => status[e] = "none"
    /\ task[e].op = "dataset" \/ (task[e].op = "create" /\ task[e].pc # "awaiting")
         => status[e] = "none"
    /\ status[e] \in Closed => task[e].op \in {"finish", "fail"}
    /\ status[e] = "complete" =>
         /\ task[e].nth = Len(Items) + 1
         /\ kind[e] = "sweep" => sweeps[e] # None
         /\ \A j \in JobsOf(e) : j.op \in {"finish", "fail"}
    /\ task[e].op = "finish" \/ (\E j \in JobsOf(e) : j.op = "finish")
         => (kind[e] = "sweep" => sweeps[e] # None)
    /\ \A j \in JobsOf(e) : j.op = "sweep" /\ j.state = "ok" => sweeps[e] # None

\* What a sweep claims was measured, and its winner is the best of it.
HonestSweep(e) ==
    sweeps[e] # None =>
        LET points == sweeps[e].points
            best == sweeps[e].best
            scored == {n \in DOMAIN points : points[n].score # Unmeasured}
        IN  /\ [n \in DOMAIN points |-> points[n].item] = Items
            /\ \A n \in scored : \E r \in RunsOf(e) :
                   r.item = points[n].item /\ r.result = points[n].score
            /\ scored = {} <=> best = None
            /\ \A n \in scored : \E k \in scored :
                   points[k].item = best /\ points[k].score >= points[n].score

ExpInv(e) == JobsInv(e) /\ TaskInv(e) /\ RunsInv(e) /\ LateInv(e) /\ StatusInv(e) /\ HonestSweep(e)

\* The strengthening of Inv that the steps preserve.
IInv == Typed /\ \A e \in Exps : ExpInv(e)

-----------------------------------------------------------------------------
(* What a step leaves alone                                                *)

Same(e) ==
    /\ task'[e] = task[e] /\ status'[e] = status[e] /\ kind'[e] = kind[e]
    /\ sweeps'[e] = sweeps[e] /\ JobsOf(e)' = JobsOf(e) /\ RunsOf(e)' = RunsOf(e)

\* What is said of a request is said of its rows, its jobs and its coroutine.
LEMMA SameKeeps ==
    ASSUME NEW e, ExpInv(e), Same(e) PROVE ExpInv(e)'
<1>1. JobsInv(e)'
  BY DEF ExpInv, Same, JobsInv, Unfinished
<1>2. TaskInv(e)'
  BY DEF ExpInv, Same, TaskInv
<1>3. RunsInv(e)'
  BY DEF ExpInv, Same, RunsInv, Unfinished
<1>4. LateInv(e)'
  BY DEF ExpInv, Same, LateInv, Unfinished
<1>5. StatusInv(e)'
  BY DEF ExpInv, Same, StatusInv, Unfinished
<1>6. HonestSweep(e)'
  BY DEF ExpInv, Same, HonestSweep
<1> QED BY <1>1, <1>2, <1>3, <1>4, <1>5, <1>6 DEF ExpInv

\* A step of one request or of its threads leaves the others as they were.
LEMMA OneRequest ==
    ASSUME IInv, Typed', NEW e \in Exps, ExpInv(e)', \A d \in Exps \ {e} : Same(d)
    PROVE  IInv'
<1> SUFFICES ASSUME NEW d \in Exps PROVE ExpInv(d)'
  BY DEF IInv
<1>1. CASE d = e
  BY <1>1
<1>2. CASE d # e
  <2>1. ExpInv(d) /\ Same(d)
    BY <1>2 DEF IInv
  <2> QED BY <2>1, SameKeeps
<1> QED BY <1>1, <1>2

\* Only the coroutine of e moves, and the jobs it has handed out.
LEMMA OneCoroutine ==
    ASSUME IInv, Typed', NEW e \in Exps, ExpInv(e)', NEW q,
           task' = [task EXCEPT ![e] = q],
           UNCHANGED <<kind, status, runs, sweeps>>,
           \A d \in Exps \ {e} : JobsOf(d)' = JobsOf(d)
    PROVE  IInv'
<1>1. task \in [Exps -> Task]
  BY DEF IInv, Typed
<1>2. \A d \in Exps \ {e} : Same(d)
  BY <1>1 DEF Same, RunsOf
<1> QED BY <1>2, OneRequest

\* What is left of a job whose thread has moved on: it, or nothing.
Moved(j, N) ==
    /\ jobs' = (jobs \ {j}) \cup N
    /\ \A k \in N :
         /\ N = {k} /\ k \in JobRec /\ k.exp = j.exp /\ k.op = j.op /\ k.nth = j.nth
         /\ k.points = j.points /\ (k.op = "record" => k.result = j.result)
         /\ k.state # "queued"
         /\ k.state = "running" => j.state = "queued"
         /\ k.state # "running" => task[j.exp].pc = "awaiting" /\ j.op = task[j.exp].op

LEMMA JobsMove ==
    ASSUME Typed, NEW j \in jobs, NEW N, Moved(j, N)
    PROVE  /\ j.exp \in Exps /\ j \in JobsOf(j.exp)
           /\ JobsOf(j.exp)' = (JobsOf(j.exp) \ {j}) \cup N
           /\ \A d \in Exps \ {j.exp} : JobsOf(d)' = JobsOf(d)
           /\ jobs' \subseteq JobRec
<1>1. j \in JobRec /\ j.exp \in Exps /\ j \in JobsOf(j.exp)
  BY DEF Typed, JobRec, JobsOf
<1>2. jobs' = (jobs \ {j}) \cup N /\ \A k \in N : k.exp = j.exp /\ k \in JobRec
  BY DEF Moved
<1>3. jobs' \subseteq JobRec
  BY <1>2 DEF Typed
<1>4. JobsOf(j.exp)' = (JobsOf(j.exp) \ {j}) \cup N
  BY <1>2 DEF JobsOf
<1>5. \A d \in Exps \ {j.exp} : JobsOf(d)' = JobsOf(d)
  BY <1>2 DEF JobsOf
<1> QED BY <1>1, <1>3, <1>4, <1>5

LEMMA JobsInvMoves ==
    ASSUME Typed, NEW j \in jobs, NEW N, Moved(j, N), JobsInv(j.exp),
           task'[j.exp] = task[j.exp], Unfinished(j)
    PROVE  JobsInv(j.exp)'
<1> DEFINE e == j.exp
           J == JobsOf(e) \ {j}
<1>1. JobsOf(e)' = J \cup N /\ j \in JobsOf(e) /\ J \subseteq JobsOf(e)
  BY JobsMove
<1>2. \A k \in N : /\ N = {k} /\ k.op = j.op /\ k.nth = j.nth /\ k.points = j.points
                   /\ k.op = "record" => k.result = j.result
                   /\ ~Unfinished(k) => task[e].pc = "awaiting" /\ j.op = task[e].op
  BY DEF Moved, Unfinished
<1>3. \A i, k \in J \cup N : (i.op = "fail" <=> k.op = "fail") => i = k
  BY <1>1, <1>2 DEF JobsInv
<1>4. \A k \in J \cup N :
         /\ k.nth = task[e].nth /\ k.points = task[e].points
         /\ k.op = "record" => k.result = task[e].result
         /\ k.op = "fail" => task[e].op = "fail" /\ task[e].pc \in {"awaiting", "ended"}
         /\ k.op # "fail" => \/ task[e].pc = "awaiting" /\ k.op = task[e].op
                             \/ task[e].left /\ task[e].op = "fail"
         /\ ~Unfinished(k) => task[e].pc = "awaiting" /\ k.op = task[e].op
  BY <1>1, <1>2 DEF JobsInv
<1> QED BY <1>1, <1>3, <1>4 DEF JobsInv, Unfinished

LEMMA TaskInvMoves ==
    ASSUME Typed, NEW j \in jobs, NEW N, Moved(j, N), TaskInv(j.exp),
           task'[j.exp] = task[j.exp], RunsOf(j.exp) \subseteq RunsOf(j.exp)'
    PROVE  TaskInv(j.exp)'
<1> DEFINE e == j.exp
<1>1. JobsOf(e)' = (JobsOf(e) \ {j}) \cup N /\ j \in JobsOf(e)
  BY JobsMove
<1>2. \A k \in JobsOf(e)' : Reached(k.op, k.nth)
  <2>1. \A k \in N : k.op = j.op /\ k.nth = j.nth
    BY DEF Moved
  <2> QED BY <1>1, <2>1 DEF TaskInv
<1>3. \A n \in 1..(task[e].nth - 1) :
         /\ task[e].points[n].item = Items[n]
         /\ Items[n] \in task[e].erred \/ \E r \in RunsOf(e)' : r.item = Items[n]
         /\ task[e].points[n].score # Unmeasured =>
              \E r \in RunsOf(e)' : r.item = Items[n] /\ r.result = task[e].points[n].score
  BY DEF TaskInv
<1> HIDE DEF e
<1>4. TaskInv(e) /\ task'[e] = task[e]
  BY DEF e
<1>5. TaskInv(e)'
  BY <1>2, <1>3, <1>4 DEF TaskInv
<1> QED BY <1>5 DEF e

LEMMA RunsInvMoves ==
    ASSUME Typed, NEW j \in jobs, NEW N, Moved(j, N), RunsInv(j.exp), Unfinished(j),
           task'[j.exp] = task[j.exp], RunsOf(j.exp)' = RunsOf(j.exp),
           \A k \in N : k.op = "record" => k.state # "ok"
    PROVE  RunsInv(j.exp)'
<1> DEFINE e == j.exp
<1>1. JobsOf(e)' = (JobsOf(e) \ {j}) \cup N /\ j \in JobsOf(e)
  BY JobsMove
<1>2. \A k \in N : k.op = j.op
  BY DEF Moved
<1> HIDE DEF e
<1>3. RunsInv(e) /\ task'[e] = task[e] /\ RunsOf(e)' = RunsOf(e)
  BY DEF e
<1>4. RunsInv(e)'
  BY <1>1, <1>2, <1>3 DEF RunsInv, Unfinished
<1> QED BY <1>4 DEF e

LEMMA LateInvMoves ==
    ASSUME Typed, NEW j \in jobs, NEW N, Moved(j, N), LateInv(j.exp), Unfinished(j),
           task'[j.exp] = task[j.exp], RunsOf(j.exp)' = RunsOf(j.exp),
           status[j.exp] \in Closed => status'[j.exp] \in Closed
    PROVE  LateInv(j.exp)'
<1> DEFINE e == j.exp
<1>1. JobsOf(e)' = (JobsOf(e) \ {j}) \cup N /\ j \in JobsOf(e)
  BY JobsMove
<1>2. \A k \in N : k.op = j.op
  BY DEF Moved
<1> HIDE DEF e
<1>3. /\ LateInv(e) /\ task'[e] = task[e] /\ RunsOf(e)' = RunsOf(e)
      /\ status[e] \in Closed => status'[e] \in Closed
  BY DEF e
<1>4. LateInv(e)'
  BY <1>1, <1>2, <1>3 DEF LateInv, Unfinished
<1> QED BY <1>4 DEF e

LEMMA HonestStays ==
    ASSUME NEW e, HonestSweep(e), sweeps'[e] = sweeps[e], RunsOf(e) \subseteq RunsOf(e)'
    PROVE  HonestSweep(e)'
<1> SUFFICES ASSUME sweeps[e] # None
             PROVE  \A n \in {m \in DOMAIN sweeps[e].points :
                                sweeps[e].points[m].score # Unmeasured} :
                        \E r \in RunsOf(e)' : /\ r.item = sweeps[e].points[n].item
                                              /\ r.result = sweeps[e].points[n].score
  BY DEF HonestSweep
<1> QED BY DEF HonestSweep

\* Nothing is said of the row but what a job that is no record, sweep or
\* close says.
LEMMA StatusInvMoves ==
    ASSUME Typed, NEW j \in jobs, NEW N, Moved(j, N), StatusInv(j.exp), Unfinished(j),
           task'[j.exp] = task[j.exp], status'[j.exp] = status[j.exp],
           kind'[j.exp] = kind[j.exp], sweeps'[j.exp] = sweeps[j.exp],
           \A k \in N : k.op = "sweep" => k.state # "ok"
    PROVE  StatusInv(j.exp)'
<1> DEFINE e == j.exp
<1>1. JobsOf(e)' = (JobsOf(e) \ {j}) \cup N /\ j \in JobsOf(e)
  BY JobsMove
<1>2. \A k \in N : k.op = j.op
  BY DEF Moved
<1> HIDE DEF e
<1>3. /\ StatusInv(e) /\ task'[e] = task[e] /\ status'[e] = status[e]
      /\ kind'[e] = kind[e] /\ sweeps'[e] = sweeps[e]
  BY DEF e
<1>4. StatusInv(e)'
  BY <1>1, <1>2, <1>3 DEF StatusInv, Unfinished
<1> QED BY <1>4 DEF e

\* A thread that writes nothing, or whose write fails.
LEMMA QuietJob ==
    ASSUME IInv, NEW j \in jobs, Unfinished(j), NEW N, Moved(j, N),
           \A k \in N : k.op \in {"record", "sweep"} => k.state # "ok",
           UNCHANGED <<kind, task, status, runs, sweeps, up, baselines>>, broken' \subseteq Exps
    PROVE  IInv'
<1> DEFINE e == j.exp
<1>1. Typed /\ ExpInv(e) /\ e \in Exps
  BY JobsMove DEF IInv
<1>2. /\ kind' = kind /\ task' = task /\ status' = status /\ runs' = runs
      /\ sweeps' = sweeps /\ up' = up /\ baseline' = baseline /\ moving' = moving
  BY DEF baselines
<1>3. Typed'
  BY <1>1, <1>2, JobsMove DEF Typed
<1>4. RunsOf(e)' = RunsOf(e)
  BY <1>2 DEF RunsOf
<1>5. ExpInv(e)'
  <2>1. JobsInv(e)'
    BY <1>1, <1>2, JobsInvMoves DEF ExpInv
  <2>2. TaskInv(e)'
    BY <1>1, <1>2, <1>4, TaskInvMoves DEF ExpInv
  <2>3. RunsInv(e)'
    BY <1>1, <1>2, <1>4, RunsInvMoves DEF ExpInv
  <2>4. LateInv(e)'
    BY <1>1, <1>2, <1>4, LateInvMoves DEF ExpInv
  <2>5. StatusInv(e)'
    BY <1>1, <1>2, StatusInvMoves DEF ExpInv
  <2>6. HonestSweep(e)'
    BY <1>1, <1>2, <1>4, HonestStays DEF ExpInv
  <2> QED BY <2>1, <2>2, <2>3, <2>4, <2>5, <2>6 DEF ExpInv
<1>6. \A d \in Exps \ {e} : Same(d)
  BY <1>1, <1>2, JobsMove DEF Same, RunsOf
<1> QED BY <1>1, <1>3, <1>5, <1>6, OneRequest

-----------------------------------------------------------------------------
(* The threads                                                             *)

\* The outcome of a job is kept for the request that awaits it.
LEMMA DoneMoves ==
    ASSUME Typed, NEW j \in jobs, j.state = "running", NEW st \in {"ok", "raised"},
           JobDone(j, st)
    PROVE  \E N : Moved(j, N) /\ \A k \in N : k.state = st
<1> DEFINE k == [j EXCEPT !.state = st]
           N == IF task[j.exp].pc = "awaiting" /\ j \in Awaited(j.exp) THEN {k} ELSE {}
<1>1. j \in JobRec
  BY DEF Typed
<1>2. /\ k \in JobRec /\ k.exp = j.exp /\ k.op = j.op /\ k.nth = j.nth
      /\ k.points = j.points /\ k.result = j.result /\ k.state = st
  BY <1>1 DEF JobRec
<1>3. j \in Awaited(j.exp) => j.op = task[j.exp].op
  BY DEF Awaited
<1>4. jobs' = (jobs \ {j}) \cup N
  BY DEF JobDone
<1> HIDE DEF k
<1>5. Moved(j, N)
  BY <1>2, <1>3, <1>4 DEF Moved
<1> QED BY <1>2, <1>5

LEMMA StartJobStep ==
    ASSUME IInv, NEW j \in jobs, StartJob(j) PROVE IInv'
<1> DEFINE k == [j EXCEPT !.state = "running"]
<1>1. j \in JobRec
  BY DEF IInv, Typed
<1>2. /\ k \in JobRec /\ k.exp = j.exp /\ k.op = j.op /\ k.nth = j.nth
      /\ k.points = j.points /\ k.result = j.result /\ k.state = "running"
  BY <1>1 DEF JobRec
<1>3. j.state = "queued" /\ jobs' = (jobs \ {j}) \cup {k}
  BY DEF StartJob
<1> HIDE DEF k
<1>4. Moved(j, {k})
  BY <1>2, <1>3 DEF Moved
<1>5. UNCHANGED <<kind, task, status, runs, sweeps, up, baselines>> /\ broken' \subseteq Exps
  BY DEF StartJob, IInv, Typed
<1> QED BY <1>2, <1>3, <1>4, <1>5, QuietJob DEF Unfinished

LEMMA WorkStep ==
    ASSUME IInv, NEW j \in jobs, Work(j) PROVE IInv'
<1>1. PICK r \in Results, st \in {"ok", "raised"} :
         jobs' = (jobs \ {j}) \cup
              (IF task[j.exp].pc = "awaiting" /\ j \in Awaited(j.exp)
               THEN {[j EXCEPT !.state = st, !.result = r]} ELSE {})
  BY DEF Work
<1> DEFINE k == [j EXCEPT !.state = st, !.result = r]
           N == IF task[j.exp].pc = "awaiting" /\ j \in Awaited(j.exp) THEN {k} ELSE {}
<1>2. j \in JobRec /\ j.state = "running" /\ j.op \in {"dataset", "validate"}
  BY DEF IInv, Typed, Work
<1>3. /\ k \in JobRec /\ k.exp = j.exp /\ k.op = j.op /\ k.nth = j.nth
      /\ k.points = j.points /\ k.state = st
  BY <1>2 DEF JobRec
<1>4. j \in Awaited(j.exp) => j.op = task[j.exp].op
  BY DEF Awaited
<1>5. jobs' = (jobs \ {j}) \cup N
  BY <1>1
<1> HIDE DEF k
<1>6. Moved(j, N)
  BY <1>2, <1>3, <1>4, <1>5 DEF Moved
<1>7. UNCHANGED <<kind, task, status, runs, sweeps, up, baselines>> /\ broken' \subseteq Exps
  BY DEF Work, IInv, Typed
<1>8. \A i \in N : i.op \notin {"record", "sweep"}
  BY <1>2, <1>3
<1> HIDE DEF N
<1>9. \A i \in N : i.op \in {"record", "sweep"} => i.state # "ok"
  BY <1>8
<1>10. Unfinished(j)
  BY <1>2 DEF Unfinished
<1> QED BY <1>6, <1>7, <1>9, <1>10, QuietJob

LEMMA WriteFailsStep ==
    ASSUME IInv, NEW j \in jobs, WriteFails(j) PROVE IInv'
<1>1. j.state = "running" /\ JobDone(j, "raised") /\ j.exp \in Exps
  BY DEF WriteFails, IInv, Typed, JobRec
<1>2. PICK N : Moved(j, N) /\ \A k \in N : k.state = "raised"
  BY <1>1, DoneMoves DEF IInv
<1>3. UNCHANGED <<kind, task, status, runs, sweeps, up, baselines>> /\ broken' \subseteq Exps
  BY <1>1 DEF WriteFails, IInv, Typed
<1>4. Unfinished(j)
  BY <1>1 DEF Unfinished
<1> QED BY <1>2, <1>3, <1>4, QuietJob

\* A thread that writes: what it leaves of itself, and what it cannot disturb.
LEMMA WritingJob ==
    ASSUME IInv, NEW j \in jobs, j.state = "running", Written(j),
           UNCHANGED <<kind, task, up, broken, baselines>>
    PROVE  /\ \E N : Moved(j, N) /\ \A k \in N : k.state \in {"ok", "raised"} /\ k.op = j.op /\ k.exp = j.exp
           /\ Typed /\ ExpInv(j.exp) /\ j.exp \in Exps /\ Unfinished(j)
           /\ kind' = kind /\ task' = task /\ up' = up /\ broken' = broken
           /\ baseline' = baseline /\ moving' = moving
           /\ JobsInv(j.exp)' /\ j \in JobsOf(j.exp)
           /\ \A d \in Exps \ {j.exp} : JobsOf(d)' = JobsOf(d)
           /\ jobs' \subseteq JobRec
<1>1. Typed /\ Unfinished(j)
  BY DEF IInv, Unfinished
<1>2. PICK N : Moved(j, N) /\ \A k \in N : k.state \in {"ok", "raised"}
  <2>1. PICK st \in {"ok", "raised"} : JobDone(j, st)
    BY DEF Written
  <2> QED BY <1>1, <2>1, DoneMoves
<1>3. \A k \in N : k.op = j.op /\ k.exp = j.exp
  BY <1>2 DEF Moved
<1>4. j.exp \in Exps /\ ExpInv(j.exp)
  BY <1>1, <1>2, JobsMove DEF IInv
<1>5. /\ kind' = kind /\ task' = task /\ up' = up /\ broken' = broken
      /\ baseline' = baseline /\ moving' = moving
  BY DEF baselines
<1>6. JobsInv(j.exp)'
  BY <1>1, <1>2, <1>4, <1>5, JobsInvMoves DEF ExpInv
<1> QED BY <1>1, <1>2, <1>3, <1>4, <1>5, <1>6, JobsMove

LEMMA CreateStep ==
    ASSUME IInv, NEW j \in jobs, Create(j) PROVE IInv'
<1> DEFINE e == j.exp
<1>1. /\ j.state = "running" /\ j.op = "create" /\ Written(j)
      /\ status' = [status EXCEPT ![e] = "running"] /\ runs' = runs /\ sweeps' = sweeps
      /\ UNCHANGED <<kind, task, up, broken, baselines>>
  BY DEF Create
<1>2. PICK N : Moved(j, N) /\ \A k \in N : k.state \in {"ok", "raised"} /\ k.op = j.op /\ k.exp = j.exp
  BY <1>1, WritingJob
<1>3. /\ Typed /\ ExpInv(e) /\ e \in Exps /\ Unfinished(j)
      /\ kind' = kind /\ task' = task /\ up' = up /\ broken' = broken
      /\ baseline' = baseline /\ moving' = moving
      /\ JobsInv(e)' /\ j \in JobsOf(e)
      /\ \A d \in Exps \ {e} : JobsOf(d)' = JobsOf(d)
      /\ jobs' \subseteq JobRec
  BY <1>1, WritingJob
<1>4. Typed'
  BY <1>1, <1>3 DEF Typed
<1>5. /\ status[e] = "none" /\ status'[e] = "running"
      /\ \A d \in Exps \ {e} : status'[d] = status[d]
  BY <1>1, <1>3 DEF ExpInv, StatusInv, Typed
<1>6. RunsOf(e)' = RunsOf(e)
  BY <1>1 DEF RunsOf
<1>7. TaskInv(e)'
  BY <1>2, <1>3, <1>6, TaskInvMoves DEF ExpInv
<1>8. RunsInv(e)'
  BY <1>1, <1>2, <1>3, <1>6, RunsInvMoves DEF ExpInv
<1>9. LateInv(e)'
  BY <1>2, <1>3, <1>5, <1>6, LateInvMoves DEF ExpInv, Closed
<1>10. HonestSweep(e)'
  BY <1>1, <1>3, <1>6, HonestStays DEF ExpInv
<1>11. StatusInv(e)'
  <2>1. JobsOf(e)' = (JobsOf(e) \ {j}) \cup N
    BY <1>2, <1>3, JobsMove
  <2>2. \A k \in JobsOf(e) \ {j} : k.op = "fail"
    BY <1>1, <1>3 DEF ExpInv, JobsInv
  <2>3. (task[e].op = "create" /\ task[e].pc = "awaiting") \/ task[e].op = "fail"
    BY <1>1, <1>3 DEF ExpInv, JobsInv
  <2>4. \A k \in JobsOf(e)' : k.op = "fail" \/ (k.op = "create" /\ ~Unfinished(k))
    BY <1>1, <1>2, <2>1, <2>2 DEF Unfinished
  <2> HIDE DEF e
  <2> QED BY <1>3, <1>5, <2>3, <2>4 DEF StatusInv, Closed, Unfinished
<1>12. ExpInv(e)'
  BY <1>3, <1>7, <1>8, <1>9, <1>10, <1>11 DEF ExpInv
<1>13. \A d \in Exps \ {e} : Same(d)
  BY <1>1, <1>3, <1>5 DEF Same, RunsOf
<1> QED BY <1>3, <1>4, <1>12, <1>13, OneRequest

\* The request has one thread beside the one that closes its row.
LEMMA OneWriter ==
    ASSUME NEW e, ExpInv(e), NEW j \in JobsOf(e), j.op # "fail"
    PROVE  /\ \A k \in JobsOf(e) \ {j} : k.op = "fail"
           /\ \/ task[e].pc = "awaiting" /\ task[e].op = j.op
              \/ task[e].left /\ task[e].op = "fail"
BY DEF ExpInv, JobsInv

LEMMA RecordStep ==
    ASSUME IInv, NEW j \in jobs, Record(j) PROVE IInv'
<1> DEFINE e == j.exp
           r == [exp |-> e, item |-> Items[j.nth], result |-> j.result,
                 late |-> status[e] \in Closed]
<1>1. /\ j.state = "running" /\ j.op = "record" /\ Written(j)
      /\ runs' = runs \cup {r} /\ status' = status /\ sweeps' = sweeps
      /\ UNCHANGED <<kind, task, up, broken, baselines>>
  BY DEF Record
<1>2. PICK N : Moved(j, N) /\ \A k \in N : k.state \in {"ok", "raised"} /\ k.op = j.op /\ k.exp = j.exp
  BY <1>1, WritingJob
<1>3. /\ Typed /\ ExpInv(e) /\ e \in Exps /\ Unfinished(j)
      /\ kind' = kind /\ task' = task /\ up' = up /\ broken' = broken
      /\ baseline' = baseline /\ moving' = moving
      /\ JobsInv(e)' /\ j \in JobsOf(e)
      /\ \A d \in Exps \ {e} : JobsOf(d)' = JobsOf(d)
      /\ jobs' \subseteq JobRec
  BY <1>1, WritingJob
<1>4. /\ j.nth = task[e].nth /\ j.result = task[e].result
      /\ j.nth \in 1..Len(Items) /\ Len(Items) \in Nat /\ j.result \in Results
      /\ task[e].nth \in 1..Len(Items)
  <2>1. Len(Items) \in Nat
    BY ItemsDiffer
  <2>2. j \in JobRec
    BY <1>3 DEF Typed
  <2>3. j.nth \in 1..Len(Items) + 1 /\ j.result \in Results
    BY <2>2 DEF JobRec
  <2>4. j.nth <= Len(Items)
    BY <1>1, <1>3 DEF ExpInv, TaskInv, Reached
  <2>5. j.nth = task[e].nth /\ j.result = task[e].result
    BY <1>1, <1>3 DEF ExpInv, JobsInv
  <2> QED BY <2>1, <2>3, <2>4, <2>5
<1>5. r \in Run /\ r.exp = e /\ r.item = Items[task[e].nth] /\ r.result = task[e].result
      /\ r.late = (status[e] \in Closed)
  <2>1. Items[j.nth] \in Range(Items)
    BY <1>4, ItemsDiffer DEF Range
  <2>2. (status[e] \in Closed) \in BOOLEAN
    OBVIOUS
  <2> QED BY <1>3, <1>4, <2>1, <2>2 DEF Run
<1> HIDE DEF r
<1>6. Typed'
  BY <1>1, <1>3, <1>5 DEF Typed
<1>7. RunsOf(e)' = RunsOf(e) \cup {r}
  BY <1>1, <1>5 DEF RunsOf
<1>8. TaskInv(e)'
  BY <1>2, <1>3, <1>7, TaskInvMoves DEF ExpInv
<1>9. /\ JobsOf(e)' = (JobsOf(e) \ {j}) \cup N
      /\ \A k \in JobsOf(e) \ {j} : k.op = "fail"
      /\ \/ task[e].pc = "awaiting" /\ task[e].op = "record"
         \/ task[e].left /\ task[e].op = "fail"
      /\ \A q \in RunsOf(e) : q.item # Items[task[e].nth] /\ ~q.late
      /\ \A k \in JobsOf(e)' : ~(k.op = "record" /\ Unfinished(k))
  <2>1. JobsOf(e)' = (JobsOf(e) \ {j}) \cup N
    BY <1>2, <1>3, JobsMove
  <2>2. /\ \A k \in JobsOf(e) \ {j} : k.op = "fail"
        /\ \/ task[e].pc = "awaiting" /\ task[e].op = "record"
           \/ task[e].left /\ task[e].op = "fail"
    BY <1>1, <1>3, OneWriter
  <2>3. \A q \in RunsOf(e) : q.item # Items[task[e].nth]
    BY <1>1, <1>3, <1>4 DEF ExpInv, RunsInv
  <2>4. \A q \in RunsOf(e) : ~q.late
    BY <1>1, <1>3 DEF ExpInv, LateInv
  <2>5. \A k \in JobsOf(e)' : ~(k.op = "record" /\ Unfinished(k))
    BY <1>1, <1>2, <2>1, <2>2 DEF Unfinished
  <2> QED BY <2>1, <2>2, <2>3, <2>4, <2>5
<1>10. status[e] \in Closed => task[e].left
  BY <1>3, <1>9 DEF ExpInv, StatusInv
<1>11. RunsInv(e)'
  <2>1. \A q, p \in RunsOf(e)' : q.item = p.item => q = p
    BY <1>3, <1>5, <1>7, <1>9 DEF ExpInv, RunsInv
  <2>2. \A q \in RunsOf(e)' : \E n \in 1..Len(Items) : n <= task[e].nth /\ q.item = Items[n]
    <3>1. task[e].nth \in 1..Len(Items) /\ task[e].nth <= task[e].nth
      BY <1>4
    <3> QED BY <1>3, <1>5, <1>7, <3>1 DEF ExpInv, RunsInv
  <2> HIDE DEF e
  <2> QED BY <1>3, <1>5, <1>7, <1>9, <2>1, <2>2 DEF RunsInv
<1>12. LateInv(e)'
  BY <1>1, <1>3, <1>5, <1>7, <1>9, <1>10 DEF LateInv
<1>13. HonestSweep(e)'
  BY <1>1, <1>3, <1>7, HonestStays DEF ExpInv
<1>14. StatusInv(e)'
  BY <1>1, <1>2, <1>3, StatusInvMoves DEF ExpInv
<1>15. ExpInv(e)'
  BY <1>3, <1>8, <1>11, <1>12, <1>13, <1>14 DEF ExpInv
<1>16. \A d \in Exps \ {e} : Same(d)
  BY <1>1, <1>3, <1>5 DEF Same, RunsOf
<1> QED BY <1>3, <1>6, <1>15, <1>16, OneRequest

\* The two writes that close a row.
LEMMA CloseStep ==
    ASSUME IInv, NEW j \in jobs, NEW st \in Closed, j.state = "running", Written(j),
           j.op = (IF st = "complete" THEN "finish" ELSE "fail"),
           status' = IF MayClose(j.exp) THEN [status EXCEPT ![j.exp] = st] ELSE status,
           UNCHANGED <<kind, task, runs, sweeps, up, broken, baselines>>
    PROVE  IInv'
<1> DEFINE e == j.exp
<1>1. runs' = runs /\ sweeps' = sweeps /\ UNCHANGED <<kind, task, up, broken, baselines>>
  OBVIOUS
<1>2. PICK N : Moved(j, N) /\ \A k \in N : k.state \in {"ok", "raised"} /\ k.op = j.op /\ k.exp = j.exp
  BY <1>1, WritingJob
<1>3. /\ Typed /\ ExpInv(e) /\ e \in Exps /\ Unfinished(j)
      /\ kind' = kind /\ task' = task /\ up' = up /\ broken' = broken
      /\ baseline' = baseline /\ moving' = moving
      /\ JobsInv(e)' /\ j \in JobsOf(e)
      /\ \A d \in Exps \ {e} : JobsOf(d)' = JobsOf(d)
      /\ jobs' \subseteq JobRec
  BY <1>1, WritingJob
<1>4. /\ status'[e] = IF status[e] = "running" THEN st ELSE status[e]
      /\ \A d \in Exps \ {e} : status'[d] = status[d]
      /\ status' \in [Exps -> {"none", "running"} \cup Closed]
  BY <1>3 DEF MayClose, Typed
<1>5. Typed'
  BY <1>1, <1>3, <1>4 DEF Typed
<1>6. RunsOf(e)' = RunsOf(e)
  BY <1>1 DEF RunsOf
<1>7. TaskInv(e)'
  BY <1>2, <1>3, <1>6, TaskInvMoves DEF ExpInv
<1>8. RunsInv(e)'
  BY <1>1, <1>2, <1>3, <1>6, RunsInvMoves DEF ExpInv
<1>9. LateInv(e)'
  BY <1>2, <1>3, <1>4, <1>6, LateInvMoves DEF ExpInv, Closed
<1>10. HonestSweep(e)'
  BY <1>1, <1>3, <1>6, HonestStays DEF ExpInv
<1>11. ASSUME status[e] # "running" PROVE StatusInv(e)'
  <2>1. status'[e] = status[e]
    BY <1>4, <1>11
  <2>2. StatusInv(e)'
    BY <1>1, <1>2, <1>3, <2>1, StatusInvMoves DEF ExpInv
  <2> QED BY <2>2
<1>12. ASSUME status[e] = "running" PROVE StatusInv(e)'
  <2>1. /\ JobsOf(e)' = (JobsOf(e) \ {j}) \cup N
        /\ \A k \in N : k.op = j.op /\ k.state \in {"ok", "raised"}
    BY <1>2, <1>3, JobsMove
  <2>2. status'[e] = st
    BY <1>4, <1>12
  <2>3. task[e].op \in {"finish", "fail"}
    BY <1>3 DEF ExpInv, JobsInv
  <2>4. \A k \in JobsOf(e)' : ~(k.op = "create" /\ Unfinished(k))
    BY <1>3, <1>12, <2>1 DEF ExpInv, StatusInv, Unfinished
  <2>5. ASSUME st = "complete"
        PROVE  /\ \A k \in JobsOf(e)' : k.op \in {"finish", "fail"}
               /\ task[e].nth = Len(Items) + 1
               /\ kind[e] = "sweep" => sweeps[e] # None
    <3>1. j.op = "finish"
      BY <2>5
    <3>2. \A k \in JobsOf(e)' : k.op \in {"finish", "fail"}
      BY <1>3, <2>1, <3>1, OneWriter
    <3>3. task[e].nth = Len(Items) + 1
      BY <1>3, <3>1 DEF ExpInv, JobsInv, TaskInv, Reached
    <3>4. kind[e] = "sweep" => sweeps[e] # None
      BY <1>3, <3>1 DEF ExpInv, StatusInv
    <3> QED BY <3>2, <3>3, <3>4
  <2>6. task[e].op = "finish" \/ (\E k \in JobsOf(e)' : k.op = "finish")
          => (kind[e] = "sweep" => sweeps[e] # None)
    BY <1>3, <2>1 DEF ExpInv, StatusInv
  <2>7. \A k \in JobsOf(e)' : k.op = "sweep" /\ k.state = "ok" => sweeps[e] # None
    BY <1>3, <2>1 DEF ExpInv, StatusInv
  <2> HIDE DEF e
  <2> QED BY <1>1, <1>3, <2>2, <2>3, <2>4, <2>5, <2>6, <2>7 DEF StatusInv, Closed
<1>13. ExpInv(e)'
  BY <1>3, <1>7, <1>8, <1>9, <1>10, <1>11, <1>12 DEF ExpInv
<1>14. \A d \in Exps \ {e} : Same(d)
  BY <1>1, <1>3, <1>4 DEF Same, RunsOf
<1> QED BY <1>3, <1>5, <1>13, <1>14, OneRequest

LEMMA FinishStep ==
    ASSUME IInv, NEW j \in jobs, Finish(j) PROVE IInv'
<1>1. /\ j.state = "running" /\ Written(j) /\ j.op = "finish"
      /\ status' = IF MayClose(j.exp) THEN [status EXCEPT ![j.exp] = "complete"] ELSE status
      /\ UNCHANGED <<kind, task, runs, sweeps, up, broken, baselines>>
  BY DEF Finish
<1>2. "complete" \in Closed
  BY DEF Closed
<1> QED BY <1>1, <1>2, CloseStep

LEMMA FailExperimentStep ==
    ASSUME IInv, NEW j \in jobs, FailExperiment(j) PROVE IInv'
<1>1. /\ j.state = "running" /\ Written(j) /\ j.op = "fail"
      /\ status' = IF MayClose(j.exp) THEN [status EXCEPT ![j.exp] = "failed"] ELSE status
      /\ UNCHANGED <<kind, task, runs, sweeps, up, broken, baselines>>
  BY DEF FailExperiment, HasReason
<1>2. "failed" \in Closed
  BY DEF Closed
<1> QED BY <1>1, <1>2, CloseStep


\* A sweep's winner, from the scores that were measured.
LEMMA FiniteHasMax ==
    ASSUME NEW S, S \subseteq Int, IsFiniteSet(S), S # {}
    PROVE  \E m \in S : \A y \in S : m >= y
<1> DEFINE From(x) == {y \in S : y >= x}
           Tails == {From(x) : x \in S}
<1>1. IsWellFoundedOn(StrictSubsetOrdering(S), SUBSET S)
  BY FS_StrictSubsetOrderingWellFounded, FS_FiniteSubsetsOfFinite
<1>2. Tails \subseteq SUBSET S /\ Tails # {}
  OBVIOUS
<1>3. PICK t \in Tails : \A u \in Tails : <<u, t>> \notin StrictSubsetOrdering(S)
  <2> HIDE DEF Tails
  <2> QED BY <1>1, <1>2, WFMin
<1>4. PICK m \in S : t = From(m)
  BY <1>3
<1>5. ASSUME NEW y \in S PROVE m >= y
  <2>1. SUFFICES ASSUME y > m PROVE FALSE
    OBVIOUS
  <2>2. From(y) \subseteq From(m) /\ m \in From(m) /\ m \notin From(y)
    <3>1. y \in Int /\ m \in Int /\ \A z \in S : z \in Int
      OBVIOUS
    <3>2. m \in From(m) /\ m \notin From(y)
      BY <2>1, <3>1
    <3>3. ASSUME NEW z \in From(y) PROVE z \in From(m)
      <4>1. z \in S /\ z \in Int /\ z >= y
        BY <3>1
      <4>2. z >= m
        BY <4>1, <3>1, <2>1
      <4> QED BY <4>1, <4>2
    <3> QED BY <3>2, <3>3
  <2>3. <<From(y), From(m)>> \in StrictSubsetOrdering(S)
    BY <2>2 DEF StrictSubsetOrdering
  <2> QED BY <1>3, <1>4, <2>3
<1> QED BY <1>5

LEMMA BestIsBest ==
    ASSUME NEW points \in Seq(PointRec)
    PROVE  LET scored == {n \in DOMAIN points : points[n].score # Unmeasured}
           IN  /\ scored = {} <=> Best(points) = {}
               /\ \A w \in Best(points) :
                    /\ w \in Range(Items) /\ scored # {}
                    /\ \A n \in scored : \E k \in scored :
                          points[k].item = w /\ points[k].score >= points[n].score
<1> DEFINE D == DOMAIN points
           score(n) == points[n].score
           scored == {n \in D : score(n) # Unmeasured}
           S == {score(n) : n \in scored}
<1>1. \A n \in D : points[n].item \in Range(Items) /\ score(n) \in Results
  <2>1. \A n \in D : points[n] \in PointRec
    OBVIOUS
  <2> QED BY <2>1 DEF PointRec
<1>2. \A n \in D : score(n) \in Scores <=> n \in scored
  BY <1>1, ScoresAreNat DEF Results
<1>3. S \subseteq Nat /\ S \subseteq Int
  <2>1. \A n \in scored : score(n) \in Nat
    BY <1>2, ScoresAreNat
  <2> QED BY <2>1
<1>4. IsFiniteSet(S)
  <2>1. Len(points) \in Nat /\ DOMAIN points = 1..Len(points)
    OBVIOUS
  <2>2. IsFiniteSet(D) /\ scored \subseteq D
    BY <2>1, FS_Interval
  <2>3. IsFiniteSet(scored)
    BY <2>2, FS_Subset
  <2> DEFINE f == [n \in scored |-> score(n)]
  <2>4. f \in Surjection(scored, S)
    BY DEF Surjection
  <2> QED BY <2>3, <2>4, FS_Surjection
<1>5. Best(points) = {points[n].item : n \in {m \in scored : \A k \in scored : score(k) <= score(m)}}
  BY <1>2 DEF Best
<1>6. ASSUME scored # {} PROVE Best(points) # {}
  <2>1. PICK m \in S : \A y \in S : m >= y
    BY <1>3, <1>4, <1>6, FiniteHasMax
  <2>2. PICK n \in scored : score(n) = m
    BY <2>1
  <2>3. \A k \in scored : score(k) <= score(n)
    <3>1. ASSUME NEW k \in scored PROVE score(k) <= score(n)
      <4>1. m >= score(k) /\ score(k) \in Nat /\ m \in Nat
        BY <2>1, <1>3
      <4> QED BY <4>1, <2>2
    <3> QED BY <3>1
  <2> QED BY <1>5, <2>2, <2>3
<1>7. ASSUME NEW w \in Best(points)
      PROVE  /\ w \in Range(Items) /\ scored # {}
             /\ \A n \in scored : \E k \in scored :
                   points[k].item = w /\ score(k) >= score(n)
  <2>1. PICK k \in scored : points[k].item = w /\ \A n \in scored : score(n) <= score(k)
    BY <1>5
  <2>2. \A n \in scored : score(k) >= score(n)
    <3>1. ASSUME NEW n \in scored PROVE score(k) >= score(n)
      <4>1. score(n) <= score(k) /\ score(k) \in Nat /\ score(n) \in Nat
        BY <1>3, <2>1
      <4> QED BY <4>1
    <3> QED BY <3>1
  <2> QED BY <1>1, <2>1, <2>2
<1>8. scored = {} => Best(points) = {}
  BY <1>5
<1> QED BY <1>6, <1>7, <1>8

\* Every value of a sweep that asks for its row has its point.
LEMMA PointsAreItems ==
    ASSUME NEW points \in Seq(PointRec), Len(points) = Len(Items),
           \A n \in 1..Len(Items) : points[n].item = Items[n]
    PROVE  [n \in DOMAIN points |-> points[n].item] = Items
<1>1. Items \in Seq(Range(Items)) /\ Len(Items) \in Nat
  BY ItemsDiffer
<1>2. DOMAIN points = 1..Len(Items) /\ Items = [n \in 1..Len(Items) |-> Items[n]]
  BY <1>1
<1> QED BY <1>2

LEMMA RecordSweepStep ==
    ASSUME IInv, NEW j \in jobs, RecordSweep(j) PROVE IInv'
<1> DEFINE e == j.exp
<1>1. PICK w \in (IF Best(j.points) = {} THEN {None} ELSE Best(j.points)) :
         sweeps' = [sweeps EXCEPT ![e] = [points |-> j.points, best |-> w]]
  BY DEF RecordSweep
<1> DEFINE s == [points |-> j.points, best |-> w]
<1>2. /\ j.state = "running" /\ j.op = "sweep" /\ Written(j)
      /\ runs' = runs /\ status' = status /\ UNCHANGED <<kind, task, up, broken, baselines>>
  BY DEF RecordSweep
<1>3. PICK N : Moved(j, N) /\ \A k \in N : k.state \in {"ok", "raised"} /\ k.op = j.op /\ k.exp = j.exp
  BY <1>2, WritingJob
<1>4. /\ Typed /\ ExpInv(e) /\ e \in Exps /\ Unfinished(j)
      /\ kind' = kind /\ task' = task /\ up' = up /\ broken' = broken
      /\ baseline' = baseline /\ moving' = moving
      /\ JobsInv(e)' /\ j \in JobsOf(e)
      /\ \A d \in Exps \ {e} : JobsOf(d)' = JobsOf(d)
      /\ jobs' \subseteq JobRec
  BY <1>2, WritingJob
<1>5. j.points \in Seq(PointRec) /\ j.points = task[e].points /\ task[e].nth = Len(Items) + 1
  <2>1. j \in JobRec
    BY <1>4 DEF Typed
  <2>2. j.nth = task[e].nth /\ j.points = task[e].points
    BY <1>4 DEF ExpInv, JobsInv
  <2>3. j.nth = Len(Items) + 1
    BY <1>2, <1>4 DEF ExpInv, TaskInv, Reached
  <2> QED BY <2>1, <2>2, <2>3 DEF JobRec
<1>6. /\ sweeps'[e] = s /\ \A d \in Exps \ {e} : sweeps'[d] = sweeps[d]
      /\ DOMAIN sweeps' = Exps /\ sweeps' = [d \in Exps |-> sweeps'[d]]
  BY <1>1, <1>4 DEF Typed
<1>7. Typed'
  BY <1>2, <1>4, <1>6 DEF Typed
<1>8. RunsOf(e)' = RunsOf(e)
  BY <1>2 DEF RunsOf
<1>9. TaskInv(e)'
  BY <1>3, <1>4, <1>8, TaskInvMoves DEF ExpInv
<1>10. RunsInv(e)'
  BY <1>2, <1>3, <1>4, <1>8, RunsInvMoves DEF ExpInv
<1>11. LateInv(e)'
  BY <1>2, <1>3, <1>4, <1>8, LateInvMoves DEF ExpInv
<1>12. s # None
  <2>1. w \in Range(Items) \cup {None}
    BY <1>5, BestIsBest
  <2>2. s \in [points : Seq(PointRec), best : Range(Items) \cup {None}]
    BY <1>5, <2>1
  <2> QED BY <2>2, NoneIsNull DEF PointRec, Results
<1>13. HonestSweep(e)'
  <2> DEFINE points == j.points
             scored == {n \in DOMAIN points : points[n].score # Unmeasured}
  <2>1. \A n \in 1..Len(Items) :
           /\ points[n].item = Items[n]
           /\ points[n].score # Unmeasured =>
                \E r \in RunsOf(e) : r.item = Items[n] /\ r.result = points[n].score
    <3>1. Len(Items) \in Nat /\ task[e].nth - 1 = Len(Items)
      BY <1>5, ItemsDiffer
    <3> QED BY <1>4, <1>5, <3>1 DEF ExpInv, TaskInv
  <2>2. Len(points) = Len(Items)
    <3>1. Len(Items) \in Nat /\ task[e].nth - 1 = Len(Items)
      BY <1>5, ItemsDiffer
    <3> QED BY <1>4, <1>5, <3>1 DEF ExpInv, TaskInv
  <2>3. [n \in DOMAIN points |-> points[n].item] = Items
    BY <1>5, <2>1, <2>2, PointsAreItems
  <2>4. DOMAIN points = 1..Len(Items)
    BY <1>5, <2>2
  <2>5. \A n \in scored : \E r \in RunsOf(e) :
           r.item = points[n].item /\ r.result = points[n].score
    BY <2>1, <2>4
  <2>6. /\ scored = {} <=> w = None
        /\ \A n \in scored : \E k \in scored :
              points[k].item = w /\ points[k].score >= points[n].score
    <3>1. CASE Best(points) = {}
      <4>1. w = None /\ scored = {}
        BY <1>5, <3>1, BestIsBest
      <4> QED BY <4>1
    <3>2. CASE Best(points) # {}
      <4>1. w \in Best(points) /\ w \in Range(Items) /\ scored # {}
            /\ \A n \in scored : \E k \in scored :
                  points[k].item = w /\ points[k].score >= points[n].score
        <5>1. w \in Best(points)
          BY <3>2
        <5> QED BY <1>5, <5>1, BestIsBest
      <4> QED BY <4>1, NoneIsNull
    <3> QED BY <3>1, <3>2
  <2>7. sweeps'[e].points = points /\ sweeps'[e].best = w
    BY <1>6
  <2> HIDE DEF e, points
  <2> QED BY <1>8, <2>3, <2>5, <2>6, <2>7 DEF HonestSweep
<1>14. StatusInv(e)'
  <2>1. JobsOf(e)' = (JobsOf(e) \ {j}) \cup N
    BY <1>3, <1>4, JobsMove
  <2>2. \A k \in N : k.op = "sweep" /\ k.state \in {"ok", "raised"}
    BY <1>2, <1>3
  <2>3. sweeps'[e] # None
    BY <1>6, <1>12
  <2>4. \A k \in JobsOf(e)' : k \in JobsOf(e) \/ (k.op = "sweep" /\ k.state \in {"ok", "raised"})
    BY <2>1, <2>2
  <2>5. status[e] # "complete"
    BY <1>2, <1>4 DEF ExpInv, StatusInv
  <2> HIDE DEF e, s
  <2>6. StatusInv(e) /\ status' = status /\ task' = task /\ kind' = kind
    BY <1>2, <1>4 DEF ExpInv
  <2> QED BY <2>3, <2>4, <2>5, <2>6 DEF StatusInv, Unfinished
<1>15. ExpInv(e)'
  BY <1>4, <1>9, <1>10, <1>11, <1>13, <1>14 DEF ExpInv
<1>16. \A d \in Exps \ {e} : Same(d)
  BY <1>2, <1>4, <1>6 DEF Same, RunsOf
<1> QED BY <1>4, <1>7, <1>15, <1>16, OneRequest

-----------------------------------------------------------------------------
(* The coroutine                                                           *)

LEMMA CoroutineTyped ==
    ASSUME Typed, NEW e \in Exps, NEW q \in Task, task' = [task EXCEPT ![e] = q],
           jobs' \subseteq JobRec, UNCHANGED <<kind, status, runs, sweeps, up, broken, baselines>>
    PROVE  Typed' /\ task'[e] = q /\ RunsOf(e)' = RunsOf(e)
<1>1. /\ kind' = kind /\ status' = status /\ runs' = runs /\ sweeps' = sweeps
      /\ up' = up /\ broken' = broken /\ baseline' = baseline /\ moving' = moving
  BY DEF baselines
<1>2. task' \in [Exps -> Task] /\ task'[e] = q
  BY DEF Typed
<1>3. Typed'
  BY <1>1, <1>2 DEF Typed
<1> QED BY <1>1, <1>2, <1>3 DEF RunsOf

\* The answer of a thread ends the jobs of a request that is not closing its
\* row; of one that is, it leaves the writer that was left behind.
LEMMA Answered ==
    ASSUME IInv, NEW e \in Exps, NEW st, st \in {"ok", "raised"}, Answer(e, st)
    PROVE  /\ task[e].pc = "awaiting" /\ jobs' \subseteq JobRec
           /\ \E j \in Awaited(e) : j.state = st
           /\ \A j \in Awaited(e) : j.state = st
           /\ task[e].op # "fail" => JobsOf(e)' = {}
           /\ \A k \in JobsOf(e)' : k \in JobsOf(e) /\ k.op # "fail" /\ Unfinished(k)
           /\ \A d \in Exps \ {e} : JobsOf(d)' = JobsOf(d)
           /\ UNCHANGED <<kind, status, runs, sweeps, up, broken, baselines>>
<1>1. /\ task[e].pc = "awaiting" /\ jobs' = jobs \ Awaited(e)
      /\ UNCHANGED <<kind, status, runs, sweeps, up, broken, baselines>>
  BY DEF Answer
<1>2. PICK j \in Awaited(e) : j.state = st
  BY DEF Answer
<1>3. JobsInv(e) /\ Typed
  BY DEF IInv, ExpInv
<1>4. JobsOf(e)' = JobsOf(e) \ Awaited(e) /\ Awaited(e) \subseteq JobsOf(e)
  BY <1>1 DEF JobsOf, Awaited
<1>5. \A d \in Exps \ {e} : JobsOf(d)' = JobsOf(d)
  BY <1>1 DEF JobsOf, Awaited
<1>6. \A k \in JobsOf(e) : k.nth = task[e].nth /\ (k.op = task[e].op => k \in Awaited(e))
  BY <1>3 DEF JobsInv, Awaited
<1>7. \A i \in Awaited(e) : i = j
  BY <1>2, <1>3, <1>4 DEF JobsInv, Awaited
<1>8. ASSUME task[e].op # "fail" PROVE JobsOf(e)' = {}
  BY <1>3, <1>4, <1>6, <1>8 DEF JobsInv
<1>9. \A k \in JobsOf(e)' : k \in JobsOf(e) /\ k.op # "fail" /\ Unfinished(k)
  BY <1>3, <1>4, <1>6 DEF JobsInv
<1> QED BY <1>1, <1>2, <1>3, <1>5, <1>7, <1>8, <1>9 DEF Typed

\* A coroutine with no thread at work goes on within the item at hand.
LEMMA Onward ==
    ASSUME IInv, NEW e \in Exps, NEW q \in Task, task' = [task EXCEPT ![e] = q],
           UNCHANGED <<kind, status, runs, sweeps, up, broken, baselines>>,
           jobs' \subseteq JobRec, \A d \in Exps \ {e} : JobsOf(d)' = JobsOf(d),
           JobsOf(e)' = {},
           q.nth = task[e].nth, q.points = task[e].points, q.erred = task[e].erred,
           task[e].left => q.left,
           q.pc = "yielded" => q.op \in {"create", "validate", "sweep", "finish"},
           Reached(q.op, q.nth),
           q.op \in {"dataset", "create", "validate"} =>
               task[e].op \in {"dataset", "create", "validate"},
           q.op = "record" => task[e].op = "validate",
           q.op = "dataset" \/ (q.op = "create" /\ q.pc # "awaiting") => status[e] = "none",
           status[e] \in Closed => q.op \in {"finish", "fail"},
           q.op = "finish" => (kind[e] = "sweep" => sweeps[e] # None)
    PROVE  IInv'
<1>1. Typed /\ ExpInv(e)
  BY DEF IInv
<1>2. Typed' /\ task'[e] = q /\ RunsOf(e)' = RunsOf(e)
  BY <1>1, CoroutineTyped
<1>3. kind' = kind /\ status' = status /\ sweeps' = sweeps
  OBVIOUS
<1>4. JobsInv(e)'
  BY DEF JobsInv
<1>5. TaskInv(e)'
  BY <1>1, <1>2 DEF ExpInv, TaskInv
<1>6. RunsInv(e)'
  BY <1>1, <1>2 DEF ExpInv, RunsInv
<1>7. LateInv(e)'
  BY <1>1, <1>2, <1>3 DEF ExpInv, LateInv
<1>8. StatusInv(e)'
  BY <1>1, <1>2, <1>3 DEF ExpInv, StatusInv
<1>9. HonestSweep(e)'
  BY <1>1, <1>2, <1>3, HonestStays DEF ExpInv
<1>10. ExpInv(e)'
  BY <1>4, <1>5, <1>6, <1>7, <1>8, <1>9 DEF ExpInv
<1> QED BY <1>2, <1>10, OneCoroutine

LEMMA TaskIs ==
    ASSUME IInv, NEW e \in Exps
    PROVE  task[e] \in Task /\ task \in [Exps -> Task] /\ ExpInv(e) /\ TaskInv(e)
           /\ JobsInv(e) /\ RunsInv(e) /\ StatusInv(e) /\ Len(Items) \in Nat \ {0}
<1>1. Len(Items) \in Nat \ {0}
  BY ItemsDiffer
<1> QED BY <1>1 DEF IInv, Typed, ExpInv

LEMMA LoadedStep ==
    ASSUME IInv, NEW e \in Exps, Loaded(e) PROVE IInv'
<1> DEFINE q == [task[e] EXCEPT !.pc = "yielded", !.op = "create"]
<1>1. task[e].op = "dataset" /\ Answer(e, "ok") /\ task' = [task EXCEPT ![e] = q]
  BY TaskIs DEF Loaded
<1>2. /\ q \in Task /\ q.pc = "yielded" /\ q.op = "create" /\ q.nth = task[e].nth
      /\ q.points = task[e].points /\ q.erred = task[e].erred /\ q.left = task[e].left
  BY TaskIs DEF Task, Ops
<1>3. task[e].nth = 1 /\ status[e] = "none"
  BY <1>1, TaskIs DEF TaskInv, Reached, StatusInv
<1>4. Reached(q.op, q.nth)
  BY <1>2, <1>3 DEF Reached
<1> HIDE DEF q
<1> QED BY <1>1, <1>2, <1>3, <1>4, Answered, Onward DEF Closed

LEMMA CreatedStep ==
    ASSUME IInv, NEW e \in Exps, Created(e) PROVE IInv'
<1> DEFINE q == [task[e] EXCEPT !.pc = "yielded", !.op = "validate", !.known = TRUE]
<1>1. task[e].op = "create" /\ Answer(e, "ok") /\ task' = [task EXCEPT ![e] = q]
  BY TaskIs DEF Created
<1>2. /\ q \in Task /\ q.pc = "yielded" /\ q.op = "validate" /\ q.nth = task[e].nth
      /\ q.points = task[e].points /\ q.erred = task[e].erred /\ q.left = task[e].left
  BY TaskIs DEF Task, Ops
<1>3. task[e].nth = 1 /\ status[e] \notin Closed
  BY <1>1, TaskIs DEF TaskInv, Reached, StatusInv
<1>4. Reached(q.op, q.nth)
  BY <1>2, <1>3, TaskIs DEF Reached
<1> HIDE DEF q
<1> QED BY <1>1, <1>2, <1>3, <1>4, Answered, Onward

LEMMA ValidatedStep ==
    ASSUME IInv, NEW e \in Exps, Validated(e) PROVE IInv'
<1>1. PICK j \in Awaited(e) :
         task' = [task EXCEPT ![e].pc = "ready", ![e].op = "record", ![e].result = j.result]
  BY DEF Validated
<1> DEFINE q == [task[e] EXCEPT !.pc = "ready", !.op = "record", !.result = j.result]
<1>2. task[e].op = "validate" /\ Answer(e, "ok") /\ task' = [task EXCEPT ![e] = q]
  BY <1>1, TaskIs DEF Validated
<1>3. j.result \in Results
  BY DEF Awaited, JobsOf, IInv, Typed, JobRec
<1>4. /\ q \in Task /\ q.pc = "ready" /\ q.op = "record" /\ q.nth = task[e].nth
      /\ q.points = task[e].points /\ q.erred = task[e].erred /\ q.left = task[e].left
  BY <1>3, TaskIs DEF Task, Ops
<1>5. task[e].nth <= Len(Items) /\ status[e] \notin Closed
  BY <1>2, TaskIs DEF TaskInv, Reached, StatusInv
<1>6. Reached(q.op, q.nth)
  BY <1>4, <1>5 DEF Reached
<1> HIDE DEF q
<1> QED BY <1>2, <1>4, <1>5, <1>6, Answered, Onward

LEMMA SweptStep ==
    ASSUME IInv, NEW e \in Exps, Swept(e) PROVE IInv'
<1> DEFINE q == [task[e] EXCEPT !.pc = "ready", !.op = "finish"]
<1>1. task[e].op = "sweep" /\ Answer(e, "ok") /\ task' = [task EXCEPT ![e] = q]
  BY TaskIs DEF Swept
<1>2. /\ q \in Task /\ q.pc = "ready" /\ q.op = "finish" /\ q.nth = task[e].nth
      /\ q.points = task[e].points /\ q.erred = task[e].erred /\ q.left = task[e].left
  BY TaskIs DEF Task, Ops
<1>3. Reached(q.op, q.nth)
  BY <1>1, <1>2, TaskIs DEF TaskInv, Reached
<1>4. sweeps[e] # None
  <2>1. PICK j \in Awaited(e) : j.state = "ok"
    BY <1>1, Answered
  <2>2. j \in JobsOf(e) /\ j.op = "sweep"
    BY <1>1 DEF Awaited
  <2> QED BY <2>1, <2>2, TaskIs DEF StatusInv
<1> HIDE DEF q
<1> QED BY <1>1, <1>2, <1>3, <1>4, Answered, Onward

\* A yielded request has handed everything back.
LEMMA YieldedIsIdle ==
    ASSUME IInv, NEW e \in Exps, task[e].pc = "yielded"
    PROVE  JobsOf(e) = {} /\ task[e].op \in {"create", "validate", "sweep", "finish"}
<1>1. task[e].op \in {"create", "validate", "sweep", "finish"}
  BY TaskIs DEF TaskInv
<1> QED BY <1>1, TaskIs DEF JobsInv

LEMMA WokenStep ==
    ASSUME IInv, NEW e \in Exps, Resume(e) \/ Drop(e) PROVE IInv'
<1>1. PICK q : /\ task' = [task EXCEPT ![e] = q] /\ q \in Task
               /\ q.pc \in {"ready", "ended"} /\ q.op = task[e].op /\ q.nth = task[e].nth
               /\ q.points = task[e].points /\ q.erred = task[e].erred
               /\ task[e].left => q.left
  <2>1. CASE Resume(e)
    <3> DEFINE q == [task[e] EXCEPT !.pc = "ready"]
    <3>1. task' = [task EXCEPT ![e] = q]
      BY <2>1, TaskIs DEF Resume
    <3>2. /\ q \in Task /\ q.pc = "ready" /\ q.op = task[e].op /\ q.nth = task[e].nth
          /\ q.points = task[e].points /\ q.erred = task[e].erred /\ q.left = task[e].left
      BY TaskIs DEF Task
    <3> QED BY <3>1, <3>2
  <2>2. CASE Drop(e)
    <3> DEFINE q == [task[e] EXCEPT !.pc = "ended", !.left = TRUE]
    <3>1. task' = [task EXCEPT ![e] = q]
      BY <2>2, TaskIs DEF Drop
    <3>2. /\ q \in Task /\ q.pc = "ended" /\ q.op = task[e].op /\ q.nth = task[e].nth
          /\ q.points = task[e].points /\ q.erred = task[e].erred /\ q.left
      BY TaskIs DEF Task
    <3> QED BY <3>1, <3>2
  <2> QED BY <2>1, <2>2
<1>2. /\ task[e].pc = "yielded" /\ jobs' = jobs
      /\ UNCHANGED <<kind, status, runs, sweeps, up, broken, baselines>>
  BY DEF Resume, Drop
<1>3. JobsOf(e) = {} /\ task[e].op \in {"create", "validate", "sweep", "finish"}
  BY <1>2, YieldedIsIdle
<1>4. /\ JobsOf(e)' = {} /\ \A d \in Exps \ {e} : JobsOf(d)' = JobsOf(d)
      /\ jobs' \subseteq JobRec
  BY <1>2, <1>3 DEF JobsOf, IInv, Typed
<1>5. /\ Reached(q.op, q.nth)
      /\ q.op = "create" => status[e] = "none"
      /\ status[e] \in Closed => q.op \in {"finish", "fail"}
      /\ q.op = "finish" => (kind[e] = "sweep" => sweeps[e] # None)
  BY <1>1, <1>2, TaskIs DEF TaskInv, StatusInv
<1> QED BY <1>1, <1>2, <1>3, <1>4, <1>5, Onward

LEMMA ItemsInjective ==
    ASSUME NEW m \in 1..Len(Items), NEW n \in 1..Len(Items), Items[m] = Items[n]
    PROVE  m = n
<1>1. DOMAIN Items = 1..Len(Items)
  BY ItemsDiffer
<1> QED BY <1>1, ItemsDiffer DEF IsInjective

LEMMA AppendIs ==
    ASSUME NEW S, NEW s \in Seq(S), NEW x \in S
    PROVE  /\ Len(Append(s, x)) = Len(s) + 1 /\ Append(s, x)[Len(s) + 1] = x
           /\ \A n \in 1..Len(s) : Append(s, x)[n] = s[n]
  OBVIOUS

\* An item is over, with its run or with its error, and the next one begins.
LEMMA NextItem ==
    ASSUME IInv, NEW e \in Exps, NEW q, NEW p \in PointRec,
           task[e].op \in {"validate", "record"},
           task' = [task EXCEPT ![e] = q], q \in Task,
           UNCHANGED <<kind, status, runs, sweeps, up, broken, baselines>>,
           jobs' \subseteq JobRec, \A d \in Exps \ {e} : JobsOf(d)' = JobsOf(d),
           JobsOf(e)' = {},
           q.pc = "yielded", q.nth = task[e].nth + 1, q.op = After(e, q.nth),
           q.points = Append(task[e].points, p), task[e].erred \subseteq q.erred,
           q.left = task[e].left,
           p.item = Items[task[e].nth],
           \/ p.score = Unmeasured /\ p.item \in q.erred
           \/ \E r \in RunsOf(e) : r.item = p.item /\ r.result = p.score
    PROVE  IInv'
<1> DEFINE t == task[e]
<1>1. Typed /\ ExpInv(e) /\ t \in Task /\ Len(Items) \in Nat \ {0}
  BY TaskIs DEF IInv
<1>2. Typed' /\ task'[e] = q /\ RunsOf(e)' = RunsOf(e)
  BY <1>1, CoroutineTyped
<1>3. kind' = kind /\ status' = status /\ sweeps' = sweeps
  OBVIOUS
<1>4. JobsInv(e)'
  BY DEF JobsInv
<1>5. /\ t.nth \in 1..Len(Items) /\ Len(t.points) = t.nth - 1 /\ t.points \in Seq(PointRec)
      /\ status[e] \notin Closed
  <2>1. t.nth \in 1..Len(Items) + 1 /\ t.points \in Seq(PointRec)
    BY <1>1 DEF Task
  <2>2. t.nth <= Len(Items) /\ Len(t.points) = t.nth - 1
    BY <1>1 DEF ExpInv, TaskInv, Reached
  <2>3. status[e] \notin Closed
    BY <1>1 DEF ExpInv, StatusInv
  <2> QED BY <1>1, <2>1, <2>2, <2>3
<1>6. q.op \in {"validate", "sweep", "finish"} /\ Reached(q.op, q.nth)
      /\ (q.op = "finish" => kind[e] # "sweep")
  <2>1. CASE q.nth <= Len(Items)
    BY <2>1 DEF After, Reached
  <2>2. CASE ~(q.nth <= Len(Items))
    <3>1. q.nth = Len(Items) + 1
      BY <1>1, <1>5, <2>2
    <3> QED BY <2>2, <3>1 DEF After, Reached
  <2> QED BY <2>1, <2>2
<1>7. TaskInv(e)'
  <2>1. /\ Len(q.points) = t.nth /\ q.points[t.nth] = p
        /\ \A n \in 1..(t.nth - 1) : q.points[n] = t.points[n]
    <3> HIDE DEF t
    <3>1. q.points = Append(t.points, p)
      BY DEF t
    <3>2. /\ Len(q.points) = Len(t.points) + 1 /\ q.points[Len(t.points) + 1] = p
          /\ \A n \in 1..Len(t.points) : q.points[n] = t.points[n]
      BY <1>5, <3>1, AppendIs
    <3>3. t.nth \in Int /\ Len(t.points) + 1 = t.nth
      BY <1>5
    <3> QED BY <1>5, <3>2, <3>3
  <2>2. ASSUME NEW n \in 1..(q.nth - 1)
        PROVE  /\ q.points[n].item = Items[n]
               /\ Items[n] \in q.erred \/ \E r \in RunsOf(e) : r.item = Items[n]
               /\ q.points[n].score # Unmeasured =>
                    \E r \in RunsOf(e) : r.item = Items[n] /\ r.result = q.points[n].score
    <3>1. CASE n = t.nth
      BY <2>1, <3>1
    <3>2. CASE n # t.nth
      <4>1. n \in 1..(t.nth - 1)
        BY <1>5, <3>2
      <4>2. /\ t.points[n].item = Items[n]
            /\ Items[n] \in t.erred \/ \E r \in RunsOf(e) : r.item = Items[n]
            /\ t.points[n].score # Unmeasured =>
                 \E r \in RunsOf(e) : r.item = Items[n] /\ r.result = t.points[n].score
        BY <1>1, <4>1 DEF ExpInv, TaskInv
      <4>3. q.points[n] = t.points[n] /\ t.erred \subseteq q.erred
        BY <2>1, <4>1
      <4> HIDE DEF t
      <4> QED BY <4>2, <4>3
    <3> QED BY <3>1, <3>2
  <2>3. Len(q.points) = q.nth - 1
    BY <1>5, <2>1
  <2> DEFINE Told(k, R) ==
               \A n \in 1..(k.nth - 1) :
                  /\ k.points[n].item = Items[n]
                  /\ Items[n] \in k.erred \/ \E r \in R : r.item = Items[n]
                  /\ k.points[n].score # Unmeasured =>
                       \E r \in R : r.item = Items[n] /\ r.result = k.points[n].score
  <2>4. Told(q, RunsOf(e))
    BY <2>2
  <2> HIDE DEF t, Told
  <2>5. Told(task'[e], RunsOf(e)')
    BY <1>2, <2>4
  <2>6. /\ task'[e].pc = "yielded" => task'[e].op \in {"create", "validate", "sweep", "finish"}
        /\ Reached(task'[e].op, task'[e].nth) /\ \A j \in JobsOf(e)' : Reached(j.op, j.nth)
        /\ Len(task'[e].points) = task'[e].nth - 1
    BY <1>2, <1>6, <2>3
  <2> QED BY <2>5, <2>6 DEF TaskInv, Told
<1>8. RunsInv(e)'
  <2>1. \A r \in RunsOf(e) : \E n \in 1..Len(Items) : n <= q.nth /\ r.item = Items[n]
    <3>1. ASSUME NEW r \in RunsOf(e) PROVE \E n \in 1..Len(Items) : n <= q.nth /\ r.item = Items[n]
      <4>1. PICK n \in 1..Len(Items) : n <= t.nth /\ r.item = Items[n]
        BY <1>1 DEF ExpInv, RunsInv
      <4>2. n <= q.nth
        BY <1>1, <1>5, <4>1
      <4> QED BY <4>1, <4>2
    <3> QED BY <3>1
  <2>2. \A r \in RunsOf(e) : ~(q.nth <= Len(Items) /\ r.item = Items[q.nth])
    <3>1. SUFFICES ASSUME NEW r \in RunsOf(e), q.nth <= Len(Items), r.item = Items[q.nth]
                   PROVE  FALSE
      OBVIOUS
    <3>2. PICK n \in 1..Len(Items) : n <= t.nth /\ r.item = Items[n]
      BY <1>1 DEF ExpInv, RunsInv
    <3>3. q.nth \in 1..Len(Items)
      BY <1>1, <1>5, <3>1
    <3>4. n = q.nth
      BY <3>1, <3>2, <3>3, ItemsInjective
    <3> QED BY <1>1, <1>5, <3>2, <3>4
  <2>3. \A r, o \in RunsOf(e) : r.item = o.item => r = o
    BY <1>1 DEF ExpInv, RunsInv
  <2> HIDE DEF t
  <2> QED BY <1>2, <2>1, <2>2, <2>3 DEF RunsInv
<1>9. LateInv(e)'
  BY <1>1, <1>2, <1>3, <1>5 DEF ExpInv, LateInv
<1>10. StatusInv(e)'
  BY <1>2, <1>3, <1>5, <1>6 DEF StatusInv, Closed
<1>11. HonestSweep(e)'
  BY <1>1, <1>2, <1>3, HonestStays DEF ExpInv
<1>12. ExpInv(e)'
  BY <1>4, <1>7, <1>8, <1>9, <1>10, <1>11 DEF ExpInv
<1> QED BY <1>2, <1>12, OneCoroutine

LEMMA AfterIsAsked == \A e, n : After(e, n) \in Ops
BY DEF After, Ops

LEMMA RecordedStep ==
    ASSUME IInv, NEW e \in Exps, Recorded(e) PROVE IInv'
<1> DEFINE t == task[e]
           p == [item |-> Items[t.nth], score |-> t.result]
           q == [t EXCEPT !.pc = "yielded", !.nth = @ + 1, !.op = After(e, t.nth + 1),
                          !.points = Append(@, p), !.result = Unmeasured]
<1>1. /\ t.op = "record" /\ Answer(e, "ok") /\ task' = [task EXCEPT ![e] = q]
  BY TaskIs DEF Recorded, Point
<1>2. t.nth \in 1..Len(Items) /\ t \in Task /\ Len(Items) \in Nat
  BY <1>1, TaskIs DEF Task, TaskInv, Reached
<1>3. p \in PointRec /\ p.item = Items[t.nth] /\ p.score = t.result
  <2>1. Items[t.nth] \in Range(Items)
    BY <1>2, ItemsDiffer DEF Range
  <2> QED BY <1>2, <2>1 DEF PointRec, Task
<1> HIDE DEF p
<1>4. /\ q.pc = "yielded" /\ q.op = After(e, q.nth) /\ q.nth = t.nth + 1
      /\ q.points = Append(t.points, p) /\ q.erred = t.erred /\ q.left = t.left
  BY <1>2 DEF Task
<1>5. q \in Task
  <2>1. t.nth + 1 \in 1..Len(Items) + 1
    BY <1>2
  <2>2. Append(t.points, p) \in Seq(PointRec)
    BY <1>2, <1>3 DEF Task
  <2>3. Unmeasured \in Results /\ After(e, t.nth + 1) \in Ops
    BY AfterIsAsked DEF Results
  <2> QED BY <1>2, <2>1, <2>2, <2>3 DEF Task
<1>6. \E r \in RunsOf(e) : r.item = p.item /\ r.result = p.score
  <2>1. PICK j \in Awaited(e) : j.state = "ok"
    BY <1>1, Answered
  <2>2. j \in JobsOf(e) /\ j.op = "record"
    BY <1>1 DEF Awaited
  <2> QED BY <1>3, <2>1, <2>2, TaskIs DEF RunsInv
<1>7. /\ UNCHANGED <<kind, status, runs, sweeps, up, broken, baselines>>
      /\ jobs' \subseteq JobRec /\ \A d \in Exps \ {e} : JobsOf(d)' = JobsOf(d)
      /\ JobsOf(e)' = {}
  BY <1>1, Answered
<1> HIDE DEF q
<1> QED BY <1>1, <1>3, <1>4, <1>5, <1>6, <1>7, NextItem

LEMMA ItemFailsStep ==
    ASSUME IInv, NEW e \in Exps, ItemFails(e) PROVE IInv'
<1> DEFINE t == task[e]
           p == [item |-> Items[t.nth], score |-> Unmeasured]
           q == [t EXCEPT !.pc = "yielded", !.nth = t.nth + 1, !.op = After(e, t.nth + 1),
                          !.points = Append(@, p), !.erred = @ \cup {Items[t.nth]},
                          !.result = Unmeasured]
<1>1. /\ t.op \in {"validate", "record"} /\ Answer(e, "raised")
      /\ task' = [task EXCEPT ![e] = q]
  BY TaskIs DEF ItemFails, Point, Unrecorded, SkipTo
<1>2. t.nth \in 1..Len(Items) /\ t \in Task /\ Len(Items) \in Nat
  BY <1>1, TaskIs DEF Task, TaskInv, Reached
<1>3. /\ p \in PointRec /\ p.item = Items[t.nth] /\ p.score = Unmeasured
      /\ Items[t.nth] \in Range(Items)
  <2>1. Items[t.nth] \in Range(Items)
    BY <1>2, ItemsDiffer DEF Range
  <2> QED BY <2>1 DEF PointRec, Results
<1> HIDE DEF p
<1>4. /\ q.pc = "yielded" /\ q.op = After(e, q.nth) /\ q.nth = t.nth + 1
      /\ q.points = Append(t.points, p) /\ q.erred = t.erred \cup {Items[t.nth]}
      /\ q.left = t.left
  BY <1>2 DEF Task
<1>5. q \in Task
  <2>1. t.nth + 1 \in 1..Len(Items) + 1
    BY <1>2
  <2>2. Append(t.points, p) \in Seq(PointRec)
    BY <1>2, <1>3 DEF Task
  <2>3. Unmeasured \in Results /\ After(e, t.nth + 1) \in Ops
    BY AfterIsAsked DEF Results
  <2>4. t.erred \cup {Items[t.nth]} \in SUBSET Range(Items)
    BY <1>2, <1>3 DEF Task
  <2> QED BY <1>2, <2>1, <2>2, <2>3, <2>4 DEF Task
<1>6. /\ UNCHANGED <<kind, status, runs, sweeps, up, broken, baselines>>
      /\ jobs' \subseteq JobRec /\ \A d \in Exps \ {e} : JobsOf(d)' = JobsOf(d)
      /\ JobsOf(e)' = {}
  BY <1>1, Answered
<1>7. t.erred \subseteq q.erred /\ p.item \in q.erred
  BY <1>3, <1>4
<1> HIDE DEF q
<1> QED BY <1>1, <1>3, <1>4, <1>5, <1>6, <1>7, NextItem

\* A request that ends, or turns to closing its row, and the threads it
\* leaves behind.
LEMMA LetGo ==
    ASSUME IInv, NEW e \in Exps, NEW q \in Task, task' = [task EXCEPT ![e] = q],
           UNCHANGED <<kind, status, runs, sweeps, up, broken, baselines>>,
           jobs' \subseteq JobRec, \A d \in Exps \ {e} : JobsOf(d)' = JobsOf(d),
           q.nth = task[e].nth, q.points = task[e].points, q.erred = task[e].erred,
           q.result = task[e].result, task[e].left => q.left,
           q.op \in {"finish", "fail"}, q.op = "fail" \/ q.op = task[e].op,
           q.pc \in {"ready", "ended"},
           \A k \in JobsOf(e)' :
               /\ k \in JobsOf(e) /\ Unfinished(k) /\ q.op = "fail"
               /\ IF k.op = "fail" THEN q.pc = "ended" ELSE q.left
    PROVE  IInv'
<1>1. Typed /\ ExpInv(e)
  BY DEF IInv
<1>2. Typed' /\ task'[e] = q /\ RunsOf(e)' = RunsOf(e)
  BY <1>1, CoroutineTyped
<1>3. kind' = kind /\ status' = status /\ sweeps' = sweeps
  OBVIOUS
<1>4. JobsInv(e)'
  <2>1. \A j, k \in JobsOf(e)' : (j.op = "fail" <=> k.op = "fail") => j = k
    BY <1>1 DEF ExpInv, JobsInv
  <2>2. \A k \in JobsOf(e)' :
          /\ k.nth = q.nth /\ k.points = q.points
          /\ k.op = "record" => k.result = q.result
    BY <1>1 DEF ExpInv, JobsInv
  <2> QED BY <1>2, <2>1, <2>2 DEF JobsInv, Unfinished
<1>5. TaskInv(e)'
  BY <1>1, <1>2 DEF ExpInv, TaskInv, Reached
<1>6. RunsInv(e)'
  BY <1>1, <1>2 DEF ExpInv, RunsInv, Unfinished
<1>7. LateInv(e)'
  BY <1>1, <1>2, <1>3 DEF ExpInv, LateInv, Unfinished
<1>8. StatusInv(e)'
  BY <1>1, <1>2, <1>3 DEF ExpInv, StatusInv, Unfinished
<1>9. HonestSweep(e)'
  BY <1>1, <1>2, <1>3, HonestStays DEF ExpInv
<1>10. ExpInv(e)'
  BY <1>4, <1>5, <1>6, <1>7, <1>8, <1>9 DEF ExpInv
<1> QED BY <1>2, <1>10, OneCoroutine

\* Beside the awaited job there is at most the writer that was left behind.
LEMMA EndedStep ==
    ASSUME IInv, NEW e \in Exps, Ended(e) PROVE IInv'
<1> DEFINE q == [task[e] EXCEPT !.pc = "ended"]
<1>1. /\ task[e].op \in {"finish", "fail"} /\ Answer(e, "ok")
      /\ task' = [task EXCEPT ![e] = q]
  BY TaskIs DEF Ended
<1>2. /\ q \in Task /\ q.pc = "ended" /\ q.op = task[e].op /\ q.nth = task[e].nth
      /\ q.points = task[e].points /\ q.erred = task[e].erred /\ q.left = task[e].left
      /\ q.result = task[e].result
  BY TaskIs DEF Task
<1>3. /\ \A k \in JobsOf(e)' : k \in JobsOf(e) /\ k.op # "fail" /\ Unfinished(k)
      /\ task[e].op # "fail" => JobsOf(e)' = {}
      /\ UNCHANGED <<kind, status, runs, sweeps, up, broken, baselines>>
      /\ jobs' \subseteq JobRec /\ \A d \in Exps \ {e} : JobsOf(d)' = JobsOf(d)
  BY <1>1, Answered
<1>4. \A k \in JobsOf(e)' : task[e].op = "fail" /\ task[e].left
  BY <1>3, TaskIs DEF JobsInv
<1> HIDE DEF q
<1> QED BY <1>1, <1>2, <1>3, <1>4, LetGo

LEMMA RaisedStep ==
    ASSUME IInv, NEW e \in Exps, Raised(e) PROVE IInv'
<1> DEFINE q == [task[e] EXCEPT !.op = "fail",
                     !.pc = IF task[e].known /\ task[e].op # "fail" THEN "ready" ELSE "ended"]
<1>1. Answer(e, "raised") /\ task' = [task EXCEPT ![e] = q]
  BY TaskIs DEF Raised
<1>2. /\ q \in Task /\ q.pc \in {"ready", "ended"} /\ q.op = "fail" /\ q.nth = task[e].nth
      /\ q.points = task[e].points /\ q.erred = task[e].erred /\ q.left = task[e].left
      /\ q.result = task[e].result
  BY TaskIs DEF Task, Ops
<1>3. /\ \A k \in JobsOf(e)' : k \in JobsOf(e) /\ k.op # "fail" /\ Unfinished(k)
      /\ task[e].op # "fail" => JobsOf(e)' = {}
      /\ UNCHANGED <<kind, status, runs, sweeps, up, broken, baselines>>
      /\ jobs' \subseteq JobRec /\ \A d \in Exps \ {e} : JobsOf(d)' = JobsOf(d)
  BY <1>1, Answered
<1>4. \A k \in JobsOf(e)' : task[e].op = "fail" /\ task[e].left
  BY <1>3, TaskIs DEF JobsInv
<1> HIDE DEF q
<1> QED BY <1>1, <1>2, <1>3, <1>4, LetGo

LEMMA CancelStep ==
    ASSUME IInv, NEW e \in Exps, Cancel(e) PROVE IInv'
<1> DEFINE q == [task[e] EXCEPT !.op = "fail", !.left = TRUE,
                     !.pc = IF task[e].known /\ task[e].op # "fail" THEN "ready" ELSE "ended"]
<1>1. /\ task[e].pc = "awaiting" /\ task' = [task EXCEPT ![e] = q]
      /\ UNCHANGED <<kind, status, runs, sweeps, up, broken, baselines>>
  BY TaskIs DEF Cancel
<1>2. /\ q \in Task /\ q.pc \in {"ready", "ended"} /\ q.op = "fail" /\ q.nth = task[e].nth
      /\ q.points = task[e].points /\ q.erred = task[e].erred /\ q.left
      /\ q.result = task[e].result
      /\ task[e].op = "fail" => q.pc = "ended"
  BY TaskIs DEF Task, Ops
<1>3. PICK gone \in SUBSET {j \in Awaited(e) : j.state = "queued"} :
         jobs' = {j \in jobs \ gone : ~(j \in Awaited(e) /\ j.state \in {"ok", "raised"})}
  BY DEF Cancel, Abandon
<1>4. /\ jobs' \subseteq JobRec /\ JobsOf(e)' \subseteq JobsOf(e)
      /\ \A d \in Exps \ {e} : JobsOf(d)' = JobsOf(d)
  BY <1>3 DEF IInv, Typed, JobsOf, Awaited
<1>5. \A k \in JobsOf(e)' : /\ k \in JobsOf(e) /\ Unfinished(k)
                            /\ k.op = "fail" => task[e].op = "fail"
  <2>1. SUFFICES ASSUME NEW k \in JobsOf(e)'
                 PROVE  /\ k \in JobsOf(e) /\ Unfinished(k)
                        /\ k.op = "fail" => task[e].op = "fail"
    OBVIOUS
  <2>2. k \in JobsOf(e) /\ k \in JobRec /\ ~(k \in Awaited(e) /\ k.state \in {"ok", "raised"})
    BY <1>3, <1>4 DEF JobsOf, IInv, Typed
  <2>3. ~Unfinished(k) => k \in Awaited(e)
    BY <2>2, TaskIs DEF JobsInv, Awaited
  <2> QED BY <2>2, <2>3, TaskIs DEF JobsInv, Unfinished, JobRec
<1> HIDE DEF q
<1> QED BY <1>1, <1>2, <1>4, <1>5, LetGo

LEMMA SubmitStep ==
    ASSUME IInv, NEW e \in Exps, Submit(e) PROVE IInv'
<1> DEFINE t == task[e]
           q == [t EXCEPT !.pc = "awaiting"]
           k == Job(e, t.op, "queued")
<1>1. /\ t.pc = "ready" /\ jobs' = jobs \cup {k} /\ task' = [task EXCEPT ![e] = q]
      /\ UNCHANGED <<kind, status, runs, sweeps, up, broken, baselines>>
  BY TaskIs DEF Submit
<1>2. /\ q \in Task /\ q.pc = "awaiting" /\ q.op = t.op /\ q.nth = t.nth
      /\ q.points = t.points /\ q.erred = t.erred /\ q.left = t.left /\ q.result = t.result
  BY TaskIs DEF Task
<1>3. /\ k \in JobRec /\ k.exp = e /\ k.op = t.op /\ k.nth = t.nth /\ k.result = t.result
      /\ k.points = t.points /\ k.state = "queued"
  BY TaskIs DEF Job, JobRec, Task
<1> HIDE DEF q, k
<1>4. Typed /\ ExpInv(e) /\ jobs' \subseteq JobRec
  BY <1>1, <1>3 DEF IInv, Typed
<1>5. Typed' /\ task'[e] = q /\ RunsOf(e)' = RunsOf(e)
  BY <1>1, <1>2, <1>4, CoroutineTyped
<1>6. /\ JobsOf(e)' = JobsOf(e) \cup {k} /\ \A d \in Exps \ {e} : JobsOf(d)' = JobsOf(d)
      /\ kind' = kind /\ status' = status /\ sweeps' = sweeps
  BY <1>1, <1>3 DEF JobsOf
<1>7. \A j \in JobsOf(e) : j.op # "fail" /\ t.op = "fail" /\ t.left /\ Unfinished(j)
  BY <1>1, TaskIs DEF JobsInv
<1>8. JobsInv(e)'
  <2>1. \A i, j \in JobsOf(e)' : (i.op = "fail" <=> j.op = "fail") => i = j
    BY <1>3, <1>6, <1>7, TaskIs DEF JobsInv
  <2>2. \A j \in JobsOf(e)' :
         /\ j.nth = q.nth /\ j.points = q.points
         /\ j.op = "record" => j.result = q.result
    BY <1>2, <1>3, <1>6, TaskIs DEF JobsInv
  <2>3. \A j \in JobsOf(e)' : Unfinished(j)
    BY <1>3, <1>6, <1>7 DEF Unfinished
  <2> HIDE DEF t
  <2>4. \A j \in JobsOf(e)' :
         /\ j.op = "fail" => q.op = "fail"
         /\ j.op # "fail" => q.op = j.op \/ (q.left /\ q.op = "fail")
    BY <1>2, <1>3, <1>6, <1>7
  <2> QED BY <1>2, <1>5, <2>1, <2>2, <2>3, <2>4 DEF JobsInv, Unfinished
<1>9. TaskInv(e)'
  BY <1>2, <1>3, <1>5, <1>6, TaskIs DEF TaskInv
<1>10. RunsInv(e)'
  BY <1>1, <1>2, <1>3, <1>5, <1>6, <1>7, TaskIs DEF RunsInv, Unfinished
<1>11. LateInv(e)'
  BY <1>2, <1>3, <1>4, <1>5, <1>6 DEF ExpInv, LateInv, StatusInv, Unfinished
<1>12. StatusInv(e)'
  BY <1>1, <1>2, <1>3, <1>5, <1>6, TaskIs DEF StatusInv, Unfinished, Closed
<1>13. HonestSweep(e)'
  BY <1>4, <1>5, <1>6, HonestStays DEF ExpInv
<1>14. ExpInv(e)'
  BY <1>8, <1>9, <1>10, <1>11, <1>12, <1>13 DEF ExpInv
<1> QED BY <1>1, <1>5, <1>6, <1>14, OneCoroutine

-----------------------------------------------------------------------------
(* The process, the baselines, and the specification                       *)

LEMMA DieStep == ASSUME IInv, Die PROVE IInv'
<1>1. /\ jobs' = {} /\ moving' = None /\ up' = FALSE /\ kind' = kind /\ task' = task
      /\ status' = status /\ runs' = runs /\ sweeps' = sweeps /\ broken' = broken
      /\ baseline' = baseline
  BY DEF Die
<1>2. Typed'
  BY <1>1 DEF IInv, Typed
<1>3. ASSUME NEW e \in Exps PROVE ExpInv(e)'
  <2>1. ExpInv(e) /\ JobsOf(e)' = {} /\ RunsOf(e)' = RunsOf(e)
    BY <1>1 DEF IInv, JobsOf, RunsOf
  <2>2. JobsInv(e)' /\ TaskInv(e)'
    BY <1>1, <2>1 DEF ExpInv, JobsInv, TaskInv
  <2>3. RunsInv(e)' /\ LateInv(e)'
    BY <1>1, <2>1 DEF ExpInv, RunsInv, LateInv
  <2>4. StatusInv(e)'
    BY <1>1, <2>1 DEF ExpInv, StatusInv
  <2>5. HonestSweep(e)'
    BY <1>1, <2>1, HonestStays DEF ExpInv
  <2> QED BY <2>2, <2>3, <2>4, <2>5 DEF ExpInv
<1> QED BY <1>2, <1>3 DEF IInv

\* What is said of the requests is not said of the baselines.
LEMMA RestKeeps ==
    ASSUME IInv, UNCHANGED Rest, Typed' PROVE IInv'
<1>1. /\ jobs' = jobs /\ kind' = kind /\ task' = task /\ status' = status
      /\ runs' = runs /\ sweeps' = sweeps
  BY DEF Rest
<1>2. \A e \in Exps : Same(e) /\ ExpInv(e)
  BY <1>1 DEF Same, JobsOf, RunsOf, IInv
<1> QED BY <1>2, SameKeeps DEF IInv

LEMMA BaselineStep ==
    ASSUME IInv, MarkBaseline \/ \E r \in runs : SetBaseline(r) \/ ClearBaseline(r)
    PROVE  IInv'
<1>1. UNCHANGED Rest
  BY DEF MarkBaseline, SetBaseline, ClearBaseline, Rest
<1>2. PICK r \in runs :
         /\ \/ \E b \in {r, None} : baseline' = [baseline EXCEPT ![r.item] = b]
            \/ baseline' = baseline
         /\ moving' \in runs \cup {None}
  <2>1. CASE MarkBaseline
    <3>1. moving \in runs /\ moving' = None
      BY <2>1 DEF MarkBaseline, IInv, Typed
    <3>2. \/ baseline' = [baseline EXCEPT ![moving.item] = moving]
          \/ baseline' = baseline
      BY <2>1 DEF MarkBaseline
    <3> QED BY <3>1, <3>2
  <2>2. CASE \E r \in runs : SetBaseline(r) \/ ClearBaseline(r)
    <3>1. PICK r \in runs : SetBaseline(r) \/ ClearBaseline(r)
      BY <2>2
    <3>2. CASE SetBaseline(r)
      <4>1. baseline' = [baseline EXCEPT ![r.item] = r] /\ moving' = None
        BY <3>2 DEF SetBaseline
      <4> QED BY <4>1
    <3>3. CASE ClearBaseline(r)
      <4>1. baseline' = [baseline EXCEPT ![r.item] = None] /\ moving' = r
        BY <3>3 DEF ClearBaseline
      <4> QED BY <4>1
    <3> QED BY <3>1, <3>2, <3>3
  <2> QED BY <2>1, <2>2
<1>3. Typed'
  <2>1. /\ baseline' = [m \in Range(Items) |-> baseline'[m]]
        /\ \A m \in Range(Items) : baseline'[m] = None \/ baseline'[m].item = m
    BY <1>2 DEF IInv, Typed
  <2>2. /\ jobs' = jobs /\ kind' = kind /\ task' = task /\ status' = status
        /\ runs' = runs /\ sweeps' = sweeps /\ up' = up /\ broken' = broken
    BY <1>1 DEF Rest
  <2> QED BY <1>2, <2>1, <2>2 DEF IInv, Typed
<1> QED BY <1>1, <1>3, RestKeeps

LEMMA InvInit == Init => IInv
<1> SUFFICES ASSUME Init PROVE IInv
  OBVIOUS
<1>1. Len(Items) \in Nat \ {0}
  BY ItemsDiffer
<1>2. NewTask \in Task
  <2>1. 1 \in 1..Len(Items) + 1
    BY <1>1
  <2> QED BY <2>1 DEF NewTask, Task, Ops, Results
<1>3. Typed
  BY <1>2 DEF Init, Typed
<1>4. ASSUME NEW e \in Exps PROVE ExpInv(e)
  <2>1. /\ JobsOf(e) = {} /\ RunsOf(e) = {} /\ status[e] = "none" /\ sweeps[e] = None
        /\ task[e] = NewTask
    BY DEF Init, JobsOf, RunsOf
  <2>2. /\ task[e].pc = "ready" /\ task[e].op = "dataset" /\ task[e].nth = 1
        /\ Len(task[e].points) = 0
    BY <2>1 DEF NewTask
  <2>3. JobsInv(e) /\ RunsInv(e) /\ LateInv(e) /\ HonestSweep(e)
    BY <2>1 DEF JobsInv, RunsInv, LateInv, HonestSweep
  <2>4. TaskInv(e)
    BY <2>1, <2>2 DEF TaskInv, Reached
  <2>5. StatusInv(e)
    BY <2>1, <2>2 DEF StatusInv, Closed
  <2> QED BY <2>3, <2>4, <2>5 DEF ExpInv
<1> QED BY <1>3, <1>4 DEF IInv

LEMMA InvStep == IInv /\ [Next]_vars => IInv'
<1> SUFFICES ASSUME IInv, [Next]_vars PROVE IInv'
  OBVIOUS
<1>1. ASSUME NEW j \in jobs,
             \/ StartJob(j) \/ Work(j) \/ WriteFails(j) \/ Create(j) \/ Record(j)
             \/ RecordSweep(j) \/ Finish(j) \/ FailExperiment(j)
      PROVE  IInv'
  BY <1>1, StartJobStep, WorkStep, WriteFailsStep, CreateStep, RecordStep,
     RecordSweepStep, FinishStep, FailExperimentStep
<1>2. ASSUME NEW e \in Exps, Loop(e) \/ Cancel(e) \/ Drop(e) PROVE IInv'
  BY <1>2, SubmitStep, LoadedStep, CreatedStep, ValidatedStep, RecordedStep,
     ItemFailsStep, SweptStep, EndedStep, RaisedStep, WokenStep, CancelStep DEF Loop
<1>3. CASE UNCHANGED vars
  <2>1. UNCHANGED Rest /\ baseline' = baseline /\ moving' = moving
    BY <1>3 DEF vars, Rest
  <2>2. Typed'
    BY <2>1 DEF IInv, Typed, Rest
  <2> QED BY <2>1, <2>2, RestKeeps
<1> QED BY <1>1, <1>2, <1>3, DieStep, BaselineStep DEF Next, Thread
-----------------------------------------------------------------------------
(* What follows from it                                                    *)

LEMMA InvImplies == IInv => Inv
<1> SUFFICES ASSUME IInv PROVE Inv
  OBVIOUS
<1>1. ASSUME NEW S, \A a, b \in S : a = b
      PROVE  Cardinality(S) \in {0, 1} /\ (S # {} => Cardinality(S) = 1)
  <2>1. CASE S = {}
    BY <2>1, FS_EmptySet
  <2>2. CASE S # {}
    <3>1. PICK a : S = {a}
      BY <1>1, <2>2
    <3> QED BY <3>1, FS_Singleton
  <2> QED BY <2>1, <2>2
<1>2. TypeOK
  <2>1. \A e \in Exps : Cardinality(Awaited(e)) <= 1
    <3>1. ASSUME NEW e \in Exps PROVE Cardinality(Awaited(e)) <= 1
      <4>1. \A a, b \in Awaited(e) : a = b
        BY TaskIs DEF JobsInv, Awaited
      <4>2. Cardinality(Awaited(e)) \in {0, 1}
        BY <1>1, <4>1
      <4> QED BY <4>2
    <3> QED BY <3>1
  <2>2. \A e \in Exps :
         /\ task[e].pc \in {"ready", "awaiting", "yielded", "ended"}
         /\ task[e].op \in Ops /\ task[e].nth \in 1..(Len(Items) + 1)
         /\ task[e].result \in Results /\ task[e].erred \subseteq Range(Items)
    BY TaskIs DEF Task
  <2>3. \A j \in jobs : /\ j.exp \in Exps /\ j.op \in Ops
                        /\ j.state \in {"queued", "running", "ok", "raised"}
    BY DEF IInv, Typed, JobRec
  <2>4. \A r \in runs : r.exp \in Exps /\ r.item \in Range(Items) /\ r.result \in Results
    BY DEF IInv, Typed, Run
  <2> QED BY <2>1, <2>2, <2>3, <2>4 DEF IInv, Typed, TypeOK
<1>3. CompleteMeansRecorded
  <2> SUFFICES ASSUME NEW e \in Exps, status[e] = "complete"
               PROVE  /\ \A i \in Range(Items) : i \in task[e].erred \/
                           Cardinality({r \in runs : r.exp = e /\ r.item = i}) = 1
                      /\ kind[e] = "sweep" => sweeps[e] # None
                      /\ \A j \in JobsOf(e) : j.op \in {"finish", "fail"}
    BY DEF CompleteMeansRecorded
  <2>1. /\ task[e].nth = Len(Items) + 1
        /\ kind[e] = "sweep" => sweeps[e] # None
        /\ \A j \in JobsOf(e) : j.op \in {"finish", "fail"}
    BY TaskIs DEF StatusInv
  <2>2. ASSUME NEW i \in Range(Items), i \notin task[e].erred
        PROVE  Cardinality({r \in runs : r.exp = e /\ r.item = i}) = 1
    <3>1. PICK n \in 1..Len(Items) : i = Items[n]
      BY ItemsDiffer DEF Range
    <3>2. n \in 1..(task[e].nth - 1)
      BY <2>1, TaskIs
    <3>3. \E r \in RunsOf(e) : r.item = i
      BY <2>2, <3>1, <3>2, TaskIs DEF TaskInv
    <3> DEFINE S == {r \in runs : r.exp = e /\ r.item = i}
    <3>4. S # {} /\ \A a, b \in S : a = b
      BY <3>3, TaskIs DEF RunsInv, RunsOf
    <3> QED BY <1>1, <3>4
  <2> QED BY <2>1, <2>2
<1>4. LateRunsAreOrphans
  <2> SUFFICES ASSUME NEW e \in Exps
               PROVE  LET late == {r \in runs : r.exp = e /\ r.late}
                      IN  Cardinality(late) <= 1 /\ (late # {} => task[e].left)
    BY DEF LateRunsAreOrphans
  <2> DEFINE late == {r \in runs : r.exp = e /\ r.late}
  <2>1. LateInv(e)
    BY TaskIs DEF ExpInv
  <2>2. \A a, b \in late : a = b
    BY <2>1 DEF LateInv, RunsOf
  <2>3. late # {} => task[e].left
    BY <2>1 DEF LateInv, RunsOf
  <2>4. Cardinality(late) \in {0, 1}
    BY <1>1, <2>2
  <2> QED BY <2>3, <2>4
<1>5. SweepsAreHonest
  <2>1. \A e \in Exps : HonestSweep(e)
    BY DEF IInv, ExpInv
  <2> QED BY <2>1 DEF SweepsAreHonest, HonestSweep, RunsOf
<1> QED BY <1>2, <1>3, <1>4, <1>5 DEF Inv

\* The way an experiment ended stands: a thread that comes second finds it
\* closed, and the row of a closed one is not opened again.
LEMMA EndIsFinal ==
    ASSUME IInv, [Next]_vars, NEW e \in Exps, status[e] \in Closed
    PROVE  status'[e] = status[e]
<1>1. status \in [Exps -> {"none", "running"} \cup Closed]
  BY DEF IInv, Typed
<1>2. status[e] # "running" /\ status[e] # "none"
  BY DEF Closed
<1>3. ASSUME NEW j \in jobs, Create(j) PROVE status'[e] = status[e]
  <2>1. j.state = "running" /\ j.op = "create" /\ status' = [status EXCEPT ![j.exp] = "running"]
    BY <1>3 DEF Create
  <2>2. status[j.exp] = "none"
    BY <2>1 DEF IInv, Typed, JobRec, ExpInv, StatusInv, Unfinished, JobsOf
  <2> QED BY <1>1, <1>2, <2>1, <2>2
<1>4. ASSUME NEW j \in jobs, Finish(j) \/ FailExperiment(j) PROVE status'[e] = status[e]
  BY <1>1, <1>2, <1>4, SMTT(30) DEF Finish, FailExperiment, HasReason, MayClose
<1>5. ASSUME NEW j \in jobs,
             StartJob(j) \/ Work(j) \/ WriteFails(j) \/ Record(j) \/ RecordSweep(j)
      PROVE  status' = status
  BY <1>5, ZenonT(60) DEF StartJob, Work, WriteFails, Record, RecordSweep
<1>6. ASSUME NEW d \in Exps, Loop(d) \/ Cancel(d) \/ Drop(d) PROVE status' = status
  BY <1>6 DEF Loop, Submit, Loaded, Created, Validated, Recorded, ItemFails, Swept,
              Ended, Raised, Resume, Cancel, Drop, Answer
<1>7. ASSUME Die \/ MarkBaseline \/ \E r \in runs : SetBaseline(r) \/ ClearBaseline(r)
      PROVE  status' = status
  BY <1>7 DEF Die, MarkBaseline, SetBaseline, ClearBaseline, Rest
<1>8. CASE UNCHANGED vars
  BY <1>8 DEF vars
<1> QED BY <1>3, <1>4, <1>5, <1>6, <1>7, <1>8 DEF Next, Thread

\* What is complete is recorded, runs come late only for a client that left and
\* then at most one, and a sweep claims what was measured: whatever threads
\* outlive their request, for every number of requests, items and scores.
THEOREM InvHolds == Spec => []Inv
<1>1. Spec => []IInv
  BY InvInit, InvStep, PTL DEF Spec
<1> QED BY <1>1, InvImplies, PTL

\* An experiment that has ended, as complete or as failed, ended so: no thread
\* that closes it second, and none that opens it late, changes that.
THEOREM EndHolds == Spec => EndStands
<1>1. Spec => []IInv
  BY InvInit, InvStep, PTL DEF Spec
<1>2. IInv /\ [Next]_vars =>
        [\A e \in Exps : status[e] \in Closed => status'[e] = status[e]]_vars
  BY EndIsFinal
<1> QED BY <1>1, <1>2, PTL DEF Spec, EndStands
=============================================================================
