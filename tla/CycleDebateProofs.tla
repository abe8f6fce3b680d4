------------------------- MODULE CycleDebateProofs --------------------------
(***************************************************************************)
(* Proofs about Cycle and Debate, two components that share nothing but    *)
(* this module.                                                            *)
(*                                                                         *)
(* Cycle, for every number of runs, positions and slots, and whichever     *)
(* writes to the row are lost: the row never says more than happened, the  *)
(* published count is the number of debates that are over and never goes   *)
(* back, no patch is refused by the table, and the job has the last word   *)
(* about how it ended.                                                     *)
(*                                                                         *)
(* Debate, for every jury, set of keys and number of failures: votes are   *)
(* counted by the rules, what is on file is what was said, and while every *)
(* key has budget no owner pays more than the calls in flight before the   *)
(* others.                                                                 *)
(***************************************************************************)
EXTENDS Cycle, Debate, FiniteSetTheorems, TLAPS

-----------------------------------------------------------------------------
(***************************************************************************)
(* Part 1: Cycle                                                           *)
(***************************************************************************)
-----------------------------------------------------------------------------
(* The inductive invariant                                                 *)

\* The steps before the positions to debate are chosen.
Before == {"idle", "start", "reconcile", "record", "check", "scan", "publish", "plan"}
Unrecorded == {"idle", "start", "reconcile", "record"}
Planned(c) == {s \in Symbols : debate[c][s] # "none"}
DebatesOver(c) == \A s \in Symbols : debate[c][s] \in {"none", "over"}

\* One debate at a time holds the lock, and what it is about to publish is
\* the number of those that were counted.
LockHeld(c) ==
    \A s \in In(c, "writing") : In(c, "writing") = {s} /\ payload[c][s] = Counted(c)

\* Where the job stands, and what it did to get there.
WorkInv(c) ==
    /\ pc[c] \in Before => Planned(c) = {}
    /\ pc[c] \in {"report", "event"} \/ outcome[c] = "ok" => DebatesOver(c)
    /\ pc[c] = "event" \/ outcome[c] = "ok" => report[c]
    /\ outcome[c] = "ok" => event[c]
    /\ outcome[c] # "none" => pc[c] \in {"close", "over", "dead"}
    /\ pc[c] = "record" => verdict[c] # "none"
    /\ halt[c] => verdict[c] = "desync"
    /\ outcome[c] = "halt" => verdict[c] = "desync"

\* What the row says, against it.
RowInv(c) ==
    /\ row[c].completed <= Counted(c)
    /\ pc[c] \in Before => row[c].total = -1
    /\ row[c].total # -1 => row[c].total = Cardinality(Planned(c))
    /\ In(c, "writing") = {} /\ ~silent[c] => row[c].completed = Counted(c)
    /\ pc[c] \in Unrecorded => row[c].recon = "null"
    /\ (pc[c] = "check" \/ outcome[c] = "halt") /\ verdict[c] = "desync" /\ ~silent[c]
         => row[c].recon = "false"
    /\ row[c].recon = "true" => verdict[c] = "in_sync"
    /\ row[c].recon = "false" => verdict[c] = "desync"
    /\ row[c].status = "complete" => pc[c] = "over" /\ outcome[c] = "ok"
    /\ pc[c] = "over" /\ ~silent[c] =>
         /\ row[c].status = IF outcome[c] = "ok" THEN "complete" ELSE "failed"
         /\ ~row[c].inferred
    /\ ~refused[c]

RunInv(c) == LockHeld(c) /\ WorkInv(c) /\ RowInv(c)

\* The strengthening of Inv and LastWordIsTheJobs that the steps preserve.
IInv == TypeOK /\ \A c \in Runs : RunInv(c)

LEMMA InvImplies == IInv => Inv /\ LastWordIsTheJobs
<1> SUFFICES ASSUME IInv PROVE Inv /\ LastWordIsTheJobs
  OBVIOUS
<1>1. CompleteMeansDone
  BY DEF IInv, RunInv, WorkInv, RowInv, CompleteMeansDone, DebatesOver
<1>2. VerdictIsReal /\ NoPatchRefused
  BY DEF IInv, RunInv, RowInv, VerdictIsReal, NoPatchRefused
<1>3. HaltIsExplained
  BY DEF IInv, RunInv, WorkInv, RowInv, HaltIsExplained
<1>4. ProgressIsHonest
  <2> SUFFICES ASSUME NEW c \in Runs
               PROVE  /\ row[c].completed <= Counted(c)
                      /\ pc[c] = "report" /\ ~silent[c] => row[c].completed = Counted(c)
    BY DEF ProgressIsHonest
  <2>1. pc[c] = "report" => In(c, "writing") = {}
    BY DEF IInv, RunInv, WorkInv, DebatesOver, In
  <2> QED BY <2>1 DEF IInv, RunInv, RowInv
<1>5. LastWordIsTheJobs
  BY DEF IInv, RunInv, RowInv, LastWordIsTheJobs
<1> QED BY <1>1, <1>2, <1>3, <1>4, <1>5 DEF IInv, Inv

LEMMA CountTyped ==
    ASSUME NEW c \in Runs
    PROVE  /\ Counted(c) \in 0..Cardinality(Symbols) /\ Cardinality(Symbols) \in Nat
           /\ Cardinality(Planned(c)) \in Nat /\ Counted(c) <= Cardinality(Planned(c))
<1>1. /\ In(c, "writing") \cup In(c, "over") \in SUBSET Planned(c)
      /\ Planned(c) \in SUBSET Symbols
  BY DEF In, Planned
<1>2. IsFiniteSet(Planned(c)) /\ Cardinality(Planned(c)) <= Cardinality(Symbols)
  BY <1>1, SymbolsAreFinite, FS_Subset
<1>3. /\ IsFiniteSet(In(c, "writing") \cup In(c, "over"))
      /\ Counted(c) <= Cardinality(Planned(c))
  BY <1>1, <1>2, FS_Subset DEF Counted
<1>4. Counted(c) \in Nat /\ Cardinality(Planned(c)) \in Nat /\ Cardinality(Symbols) \in Nat
  BY <1>2, <1>3, SymbolsAreFinite, FS_CardinalityType DEF Counted
<1> QED BY <1>2, <1>3, <1>4

LEMMA NoneCounted ==
    ASSUME NEW c \in Runs, Planned(c) = {}
    PROVE  Counted(c) = 0 /\ In(c, "writing") = {} /\ DebatesOver(c)
<1>1. In(c, "writing") = {} /\ In(c, "over") = {} /\ DebatesOver(c)
  BY DEF Planned, In, DebatesOver
<1> QED BY <1>1, FS_EmptySet DEF Counted

LEMMA NoRowTyped == NoRow \in Row
<1>1. 0 \in 0..StaleAfter + 1
  BY StaleAfterIsNat
<1> QED BY <1>1 DEF NoRow, Row

LEMMA InvInit == Init => IInv
<1> SUFFICES ASSUME Init PROVE IInv
  OBVIOUS
<1>1. NoRow \in Row
  BY NoRowTyped
<1>2. 0 \in 0..Cardinality(Symbols)
  BY SymbolsAreFinite, FS_CardinalityType
<1>3. TypeOK
  <2>1. /\ pc \in [Runs -> Working \cup {"idle", "over", "dead"}]
        /\ verdict \in [Runs -> Verdicts]
        /\ debate \in [Runs -> [Symbols -> DebateSteps]]
        /\ payload \in [Runs -> [Symbols -> 0..Cardinality(Symbols)]]
        /\ outcome \in [Runs -> {"none", "ok", "error", "halt"}]
        /\ row \in [Runs -> Row]
    BY <1>1, <1>2 DEF Init, Verdicts, DebateSteps
  <2>2. /\ halt \in [Runs -> BOOLEAN] /\ report \in [Runs -> BOOLEAN]
        /\ event \in [Runs -> BOOLEAN] /\ hasId \in [Runs -> BOOLEAN]
        /\ silent \in [Runs -> BOOLEAN] /\ refused \in [Runs -> BOOLEAN]
    BY DEF Init
  <2> QED BY <2>1, <2>2 DEF TypeOK
<1>4. ASSUME NEW c \in Runs PROVE RunInv(c)
  <2>1. /\ pc[c] = "idle" /\ verdict[c] = "none" /\ ~halt[c] /\ outcome[c] = "none"
        /\ ~refused[c] /\ row[c] = NoRow
        /\ \A s \in Symbols : debate[c][s] = "none"
    BY DEF Init
  <2>2. Planned(c) = {}
    BY <2>1 DEF Planned
  <2>3. Counted(c) = 0 /\ In(c, "writing") = {}
    BY <2>2, NoneCounted
  <2>4. /\ row[c].completed = 0 /\ row[c].total = -1 /\ row[c].recon = "null"
        /\ row[c].status = "none"
    BY <2>1 DEF NoRow
  <2> QED BY <2>1, <2>2, <2>3, <2>4
          DEF RunInv, LockHeld, WorkInv, RowInv, Unrecorded
<1> QED BY <1>3, <1>4 DEF IInv
-----------------------------------------------------------------------------
(* What a step leaves alone                                                *)

\* Where the debates of a run stay as they are, so does what is said of them.
LEMMA DebatesStay ==
    ASSUME NEW c, debate'[c] = debate[c]
    PROVE  /\ Counted(c)' = Counted(c) /\ Planned(c)' = Planned(c)
           /\ In(c, "writing")' = In(c, "writing")
           /\ DebatesOver(c)' <=> DebatesOver(c)
  BY DEF Counted, Planned, In, DebatesOver

LEMMA LockStays ==
    ASSUME NEW c, LockHeld(c), debate'[c] = debate[c], payload'[c] = payload[c]
    PROVE  LockHeld(c)'
  BY DEF LockHeld, Counted, In

\* Nothing of a run changed.
Same(c) ==
    /\ pc'[c] = pc[c] /\ verdict'[c] = verdict[c] /\ halt'[c] = halt[c]
    /\ debate'[c] = debate[c] /\ payload'[c] = payload[c] /\ outcome'[c] = outcome[c]
    /\ report'[c] = report[c] /\ event'[c] = event[c]
    /\ silent'[c] = silent[c] /\ refused'[c] = refused[c] /\ row'[c] = row[c]

LEMMA SameKeeps == ASSUME NEW c, RunInv(c), Same(c) PROVE RunInv(c)'
<1>1. LockHeld(c)'
  BY LockStays DEF RunInv, Same
<1>2. WorkInv(c)'
  BY DebatesStay DEF RunInv, WorkInv, Same
<1>3. RowInv(c)'
  BY DebatesStay DEF RunInv, RowInv, Same
<1> QED BY <1>1, <1>2, <1>3 DEF RunInv

\* A step of one run leaves the others alone.
LEMMA OneRun ==
    ASSUME IInv, NEW c \in Runs, TypeOK', RunInv(c)', \A d \in Runs : d # c => Same(d)
    PROVE  IInv'
  BY SameKeeps DEF IInv

LEMMA StepKeeps ==
    ASSUME IInv, NEW c \in Runs, TypeOK', \A d \in Runs : d # c => Same(d),
           debate' = debate, payload' = payload, WorkInv(c)', RowInv(c)'
    PROVE  IInv'
<1>1. LockHeld(c)'
  BY LockStays DEF IInv, RunInv
<1> QED BY <1>1, OneRun DEF RunInv

\* What the row holds, the table accepts.
LEMMA RowIsAllowed == ASSUME TypeOK, NEW c \in Runs, RunInv(c) PROVE row[c] \in Row /\ Allowed(row[c])
<1>1. row[c] \in Row /\ row[c].completed \in Nat
  BY DEF TypeOK, Row
<1>2. CASE row[c].total = -1
  BY <1>1, <1>2 DEF Allowed
<1>3. CASE row[c].total # -1
  BY <1>1, <1>3, CountTyped DEF Allowed, RunInv, RowInv
<1> QED BY <1>2, <1>3

\* A best-effort write that the table accepts: it arrived, or the run is one
\* that lost a write.
LEMMA PatchIs ==
    ASSUME TypeOK, NEW c \in Runs, NEW r \in Row, Allowed(r), Patch(c, r)
    PROVE  /\ refused' = refused /\ row' \in [Runs -> Row] /\ silent' \in [Runs -> BOOLEAN]
           /\ \A d \in Runs : d # c => row'[d] = row[d] /\ silent'[d] = silent[d]
           /\ \/ silent'[c] /\ row'[c] = row[c]
              \/ /\ silent'[c] = silent[c]
                 /\ row'[c].status = r.status /\ row'[c].inferred = r.inferred
                 /\ row'[c].recon = r.recon
                 /\ row'[c].total = r.total /\ row'[c].completed = r.completed
<1> DEFINE q == [r EXCEPT !.age = 0]
<1>1. /\ q \in Row
      /\ q.status = r.status /\ q.inferred = r.inferred /\ q.recon = r.recon
      /\ q.total = r.total /\ q.completed = r.completed
  BY StaleAfterIsNat DEF Row
<1> HIDE DEF q
<1>2. row \in [Runs -> Row] /\ silent \in [Runs -> BOOLEAN]
  BY DEF TypeOK
<1>3. CASE silent' = [silent EXCEPT ![c] = TRUE] /\ UNCHANGED <<refused, row>>
  BY <1>2, <1>3
<1>4. CASE row' = [row EXCEPT ![c] = q] /\ UNCHANGED <<silent, refused>>
  BY <1>1, <1>2, <1>4
<1> QED BY <1>3, <1>4 DEF Patch, q
-----------------------------------------------------------------------------
(* The job up to its debates                                               *)

LEMMA StartKeeps == ASSUME IInv, NEW c \in Runs, Start(c) PROVE IInv'
<1> DEFINE open == [NoRow EXCEPT !.status = "running"]
<1>1. /\ verdict' = verdict /\ halt' = halt /\ debate' = debate /\ payload' = payload
      /\ outcome' = outcome /\ report' = report /\ event' = event /\ refused' = refused
      /\ pc[c] = "idle" /\ pc' = [pc EXCEPT ![c] = "reconcile"]
  BY DEF Start, Goto, workVars
<1>2. /\ open \in Row /\ open.status = "running" /\ open.recon = "null"
      /\ open.total = -1 /\ open.completed = 0
  <2>1. /\ open.status = "running" /\ open.recon = "null"
        /\ open.total = -1 /\ open.completed = 0
    BY DEF NoRow
  <2>2. open \in Row
    BY NoRowTyped DEF Row
  <2> QED BY <2>1, <2>2
<1>3. /\ row' \in [Runs -> Row] /\ \A d \in Runs : d # c => row'[d] = row[d]
      /\ row'[c] = open \/ row'[c] = row[c]
  <2>1. row' = [row EXCEPT ![c] = open] \/ row' = row
    BY DEF Start
  <2>2. row \in [Runs -> Row]
    BY DEF IInv, TypeOK
  <2> HIDE DEF open
  <2> QED BY <1>2, <2>1, <2>2
<1>4. /\ silent' \in [Runs -> BOOLEAN] /\ hasId' \in [Runs -> BOOLEAN]
      /\ \A d \in Runs : d # c => silent'[d] = silent[d]
      /\ silent'[c] = silent[c] \/ silent'[c]
  <2>1. /\ silent' = [silent EXCEPT ![c] = TRUE] \/ silent' = silent
        /\ hasId' = [hasId EXCEPT ![c] = TRUE] \/ hasId' = hasId
    BY DEF Start
  <2>2. silent \in [Runs -> BOOLEAN] /\ hasId \in [Runs -> BOOLEAN]
    BY DEF IInv, TypeOK
  <2> QED BY <2>1, <2>2
<1> HIDE DEF open
<1>5. TypeOK'
  BY <1>1, <1>3, <1>4 DEF IInv, TypeOK, Working
<1>6. \A d \in Runs : d # c => Same(d)
  BY <1>1, <1>3, <1>4 DEF Same, IInv, TypeOK
<1>7. pc'[c] = "reconcile"
  BY <1>1 DEF IInv, TypeOK
<1>8. WorkInv(c)'
  BY <1>1, <1>7, DebatesStay DEF IInv, RunInv, WorkInv, Before
<1>9. RowInv(c)'
  <2>1. Planned(c) = {} /\ RowInv(c) /\ outcome[c] = "none"
    BY <1>1 DEF IInv, RunInv, WorkInv, Before
  <2>2. Counted(c)' = 0 /\ Planned(c)' = Planned(c)
    BY <1>1, <2>1, NoneCounted, DebatesStay
  <2>3. row[c].completed = 0 /\ row[c].total = -1 /\ row[c].recon = "null"
        /\ row[c].status # "complete"
    <3>1. row[c].completed \in Nat /\ row[c].completed <= Counted(c) /\ Counted(c) = 0
      BY <2>1, NoneCounted DEF RowInv, IInv, TypeOK, Row
    <3>2. row[c].completed = 0
      BY <3>1
    <3> QED BY <1>1, <2>1, <3>2 DEF RowInv, Unrecorded, Before
  <2>4. /\ row'[c].completed = 0 /\ row'[c].total = -1 /\ row'[c].recon = "null"
        /\ row'[c].status # "complete"
    BY <1>2, <1>3, <2>3
  <2>5. ~refused'[c] /\ outcome'[c] = "none"
    BY <1>1, <2>1 DEF RowInv
  <2> QED BY <1>7, <2>2, <2>4, <2>5 DEF RowInv
<1> QED BY <1>1, <1>5, <1>6, <1>8, <1>9, StepKeeps

LEMMA ReconcileKeeps == ASSUME IInv, NEW c \in Runs, Reconcile(c) PROVE IInv'
<1>1. /\ debate' = debate /\ payload' = payload /\ outcome' = outcome /\ report' = report
      /\ event' = event /\ hasId' = hasId
      /\ silent' = silent /\ refused' = refused /\ row' = row
      /\ pc[c] = "reconcile" /\ pc' = [pc EXCEPT ![c] = "record"]
  BY DEF Reconcile, Goto, rowVars
<1>2. PICK v \in Verdicts \ {"none"}, on \in HaltOnDesync :
        /\ verdict' = [verdict EXCEPT ![c] = v]
        /\ halt' = [halt EXCEPT ![c] = on /\ v = "desync"]
  BY DEF Reconcile
<1>3. /\ halt' \in [Runs -> BOOLEAN] /\ (halt'[c] => v = "desync")
      /\ \A d \in Runs : d # c => halt'[d] = halt[d]
  <2>1. PICK b \in BOOLEAN : b = (on /\ v = "desync")
    OBVIOUS
  <2>2. halt' = [halt EXCEPT ![c] = b] /\ halt \in [Runs -> BOOLEAN]
    BY <1>2, <2>1 DEF IInv, TypeOK
  <2> QED BY <2>1, <2>2
<1>4. TypeOK'
  BY <1>1, <1>2, <1>3 DEF IInv, TypeOK, Working
<1>5. \A d \in Runs : d # c => Same(d)
  BY <1>1, <1>2, <1>3 DEF Same, IInv, TypeOK
<1>6. pc'[c] = "record" /\ verdict'[c] = v /\ v # "none"
  BY <1>1, <1>2 DEF IInv, TypeOK
<1>7. WorkInv(c)'
  BY <1>1, <1>3, <1>6, DebatesStay DEF IInv, RunInv, WorkInv, Before
<1>8. RowInv(c)'
  BY <1>1, <1>6, DebatesStay DEF IInv, RunInv, RowInv, WorkInv, Before, Unrecorded
<1> QED BY <1>1, <1>4, <1>5, <1>7, <1>8, StepKeeps

LEMMA RecordKeeps == ASSUME IInv, NEW c \in Runs, Record(c) PROVE IInv'
<1> DEFINE r == [row[c] EXCEPT !.recon = IF verdict[c] = "in_sync" THEN "true" ELSE "false"]
<1>1. /\ verdict' = verdict /\ halt' = halt /\ debate' = debate /\ payload' = payload
      /\ outcome' = outcome /\ report' = report /\ event' = event /\ hasId' = hasId
      /\ pc[c] = "record" /\ pc' = [pc EXCEPT ![c] = "check"]
  BY DEF Record, Goto, workVars
<1>2. row[c] \in Row /\ Allowed(row[c])
  BY RowIsAllowed DEF IInv
<1>3. /\ r \in Row /\ Allowed(r)
      /\ r.recon = IF verdict[c] = "in_sync" THEN "true" ELSE "false"
      /\ r.status = row[c].status /\ r.inferred = row[c].inferred
      /\ r.total = row[c].total /\ r.completed = row[c].completed
  BY <1>2 DEF Row, Allowed
<1>4. IF verdict[c] = "unchecked"
        THEN silent' = silent /\ refused' = refused /\ row' = row ELSE Patch(c, r)
  BY DEF Record, rowVars
<1> HIDE DEF r
<1>5. /\ refused' = refused /\ row' \in [Runs -> Row] /\ silent' \in [Runs -> BOOLEAN]
      /\ \A d \in Runs : d # c => row'[d] = row[d] /\ silent'[d] = silent[d]
  BY <1>3, <1>4, PatchIs DEF IInv, TypeOK
<1>6. /\ row'[c].completed = row[c].completed /\ row'[c].total = row[c].total
      /\ row'[c].status = row[c].status
      /\ silent[c] => silent'[c]
      /\ \/ silent'[c] /\ row'[c].recon = row[c].recon
         \/ verdict[c] = "unchecked" /\ row'[c].recon = row[c].recon
         \/ verdict[c] # "unchecked" /\ row'[c].recon = IF verdict[c] = "in_sync" THEN "true" ELSE "false"
  BY <1>3, <1>4, PatchIs DEF IInv
<1>7. TypeOK'
  BY <1>1, <1>5 DEF IInv, TypeOK, Working
<1>8. \A d \in Runs : d # c => Same(d)
  BY <1>1, <1>5 DEF Same, IInv, TypeOK
<1>9. pc'[c] = "check" /\ verdict[c] \in {"unchecked", "in_sync", "desync"}
      /\ row[c].recon = "null"
  BY <1>1 DEF IInv, TypeOK, Verdicts, RunInv, WorkInv, RowInv, Unrecorded
<1>10. WorkInv(c)'
  BY <1>1, <1>9, DebatesStay DEF IInv, RunInv, WorkInv, Before
<1>11. RowInv(c)'
  BY <1>1, <1>5, <1>6, <1>9, DebatesStay DEF IInv, RunInv, RowInv, WorkInv, Before, Unrecorded
<1> QED BY <1>1, <1>7, <1>8, <1>10, <1>11, StepKeeps

LEMMA CheckKeeps == ASSUME IInv, NEW c \in Runs, Check(c) PROVE IInv'
<1>1. /\ verdict' = verdict /\ halt' = halt /\ debate' = debate /\ payload' = payload
      /\ report' = report /\ event' = event /\ hasId' = hasId
      /\ silent' = silent /\ refused' = refused /\ row' = row
      /\ pc[c] = "check"
      /\ \/ /\ halt[c] /\ pc' = [pc EXCEPT ![c] = "close"]
            /\ outcome' = [outcome EXCEPT ![c] = "halt"]
         \/ pc' = [pc EXCEPT ![c] = "scan"] /\ outcome' = outcome
  BY DEF Check, Goto, rowVars
<1>2. TypeOK'
  BY <1>1 DEF IInv, TypeOK, Working
<1>3. \A d \in Runs : d # c => Same(d)
  BY <1>1 DEF Same, IInv, TypeOK
<1>4. \/ halt[c] /\ pc'[c] = "close" /\ outcome'[c] = "halt"
      \/ pc'[c] = "scan" /\ outcome'[c] = outcome[c]
  BY <1>1 DEF IInv, TypeOK
<1>5. WorkInv(c)'
  BY <1>1, <1>4, DebatesStay DEF IInv, RunInv, WorkInv, Before
<1>6. RowInv(c)'
  BY <1>1, <1>4, DebatesStay DEF IInv, RunInv, RowInv, WorkInv, Before, Unrecorded
<1> QED BY <1>1, <1>2, <1>3, <1>5, <1>6, StepKeeps

LEMMA ScanKeeps == ASSUME IInv, NEW c \in Runs, Scan(c) PROVE IInv'
<1>1. /\ verdict' = verdict /\ halt' = halt /\ debate' = debate /\ payload' = payload
      /\ outcome' = outcome /\ report' = report /\ event' = event /\ hasId' = hasId
      /\ silent' = silent /\ refused' = refused /\ row' = row
      /\ pc[c] = "scan" /\ pc' = [pc EXCEPT ![c] = "publish"]
  BY DEF Scan, Goto, workVars, rowVars
<1>2. TypeOK'
  BY <1>1 DEF IInv, TypeOK, Working
<1>3. pc'[c] = "publish" /\ \A d \in Runs : d # c => Same(d)
  BY <1>1 DEF Same, IInv, TypeOK
<1>4. WorkInv(c)'
  BY <1>1, <1>3, DebatesStay DEF IInv, RunInv, WorkInv, Before
<1>5. RowInv(c)'
  BY <1>1, <1>3, DebatesStay DEF IInv, RunInv, RowInv, Before, Unrecorded
<1> QED BY <1>1, <1>2, <1>3, <1>4, <1>5, StepKeeps

LEMMA PublishScanKeeps == ASSUME IInv, NEW c \in Runs, PublishScan(c) PROVE IInv'
<1>1. /\ verdict' = verdict /\ halt' = halt /\ debate' = debate /\ payload' = payload
      /\ outcome' = outcome /\ report' = report /\ event' = event /\ hasId' = hasId
      /\ pc[c] = "publish" /\ pc' = [pc EXCEPT ![c] = "plan"]
      /\ Patch(c, row[c])
  BY DEF PublishScan, Goto, workVars
<1>2. row[c] \in Row /\ Allowed(row[c])
  BY RowIsAllowed DEF IInv
<1>3. /\ refused' = refused /\ row' \in [Runs -> Row] /\ silent' \in [Runs -> BOOLEAN]
      /\ \A d \in Runs : d # c => row'[d] = row[d] /\ silent'[d] = silent[d]
      /\ silent[c] => silent'[c]
      /\ row'[c].status = row[c].status /\ row'[c].recon = row[c].recon
      /\ row'[c].total = row[c].total /\ row'[c].completed = row[c].completed
  BY <1>1, <1>2, PatchIs DEF IInv
<1>4. TypeOK'
  BY <1>1, <1>3 DEF IInv, TypeOK, Working
<1>5. pc'[c] = "plan" /\ \A d \in Runs : d # c => Same(d)
  BY <1>1, <1>3 DEF Same, IInv, TypeOK
<1>6. WorkInv(c)'
  BY <1>1, <1>5, DebatesStay DEF IInv, RunInv, WorkInv, Before
<1>7. RowInv(c)'
  BY <1>1, <1>3, <1>5, DebatesStay DEF IInv, RunInv, RowInv, WorkInv, Before, Unrecorded
<1> QED BY <1>1, <1>4, <1>5, <1>6, <1>7, StepKeeps

LEMMA SkipDebatesKeeps == ASSUME IInv, NEW c \in Runs, SkipDebates(c) PROVE IInv'
<1>1. /\ verdict' = verdict /\ halt' = halt /\ debate' = debate /\ payload' = payload
      /\ outcome' = outcome /\ report' = report /\ event' = event /\ hasId' = hasId
      /\ silent' = silent /\ refused' = refused /\ row' = row
      /\ pc[c] = "plan" /\ pc' = [pc EXCEPT ![c] = "report"]
  BY DEF SkipDebates, Goto, workVars, rowVars
<1>2. TypeOK'
  BY <1>1 DEF IInv, TypeOK, Working
<1>3. pc'[c] = "report" /\ \A d \in Runs : d # c => Same(d)
  BY <1>1 DEF Same, IInv, TypeOK
<1>4. Planned(c) = {} /\ DebatesOver(c)
  BY <1>1, NoneCounted DEF IInv, RunInv, WorkInv, Before
<1>5. WorkInv(c)'
  BY <1>1, <1>3, <1>4, DebatesStay DEF IInv, RunInv, WorkInv, Before
<1>6. RowInv(c)'
  BY <1>1, <1>3, DebatesStay DEF IInv, RunInv, RowInv, WorkInv, Before, Unrecorded
<1> QED BY <1>1, <1>2, <1>3, <1>5, <1>6, StepKeeps

\* The total is the number of debates that are queued, and no debate was
\* counted before.
LEMMA PlanDebatesKeeps == ASSUME IInv, NEW c \in Runs, PlanDebates(c) PROVE IInv'
<1>1. PICK S \in SUBSET Symbols :
        /\ debate' = [debate EXCEPT ![c] = [s \in Symbols |-> IF s \in S THEN "queued" ELSE "none"]]
        /\ Patch(c, [row[c] EXCEPT !.total = Cardinality(S)])
  BY DEF PlanDebates
<1> DEFINE r == [row[c] EXCEPT !.total = Cardinality(S)]
           plan == [s \in Symbols |-> IF s \in S THEN "queued" ELSE "none"]
<1>2. /\ verdict' = verdict /\ halt' = halt /\ payload' = payload
      /\ outcome' = outcome /\ report' = report /\ event' = event /\ hasId' = hasId
      /\ pc[c] = "plan" /\ pc' = [pc EXCEPT ![c] = "debating"]
  BY DEF PlanDebates, Goto
<1>3. /\ Planned(c) = {} /\ Counted(c) = 0 /\ RowInv(c) /\ WorkInv(c)
      /\ In(c, "writing") = {}
  BY <1>2, NoneCounted DEF IInv, RunInv, WorkInv, Before
<1>4. row[c] \in Row /\ row[c].completed = 0
  <2>1. row[c] \in Row /\ row[c].completed \in Nat /\ row[c].completed <= 0
    BY <1>3 DEF RowInv, IInv, TypeOK, Row
  <2> QED BY <2>1
<1>5. Cardinality(S) \in Nat
  BY SymbolsAreFinite, FS_Subset, FS_CardinalityType
<1>6. /\ r \in Row /\ Allowed(r)
      /\ r.recon = row[c].recon /\ r.status = row[c].status /\ r.inferred = row[c].inferred
      /\ r.total = Cardinality(S) /\ r.completed = 0
  BY <1>4, <1>5 DEF Row, Allowed
<1>7. plan \in [Symbols -> DebateSteps] /\ debate' = [debate EXCEPT ![c] = plan]
  BY <1>1 DEF DebateSteps
<1>8. debate'[c] = plan /\ debate' \in [Runs -> [Symbols -> DebateSteps]]
  BY <1>7 DEF IInv, TypeOK
<1>9. Planned(c)' = S /\ In(c, "writing")' = {} /\ In(c, "over")' = {}
  BY <1>8 DEF Planned, In
<1>10. Counted(c)' = 0
  BY <1>9, FS_EmptySet DEF Counted
<1>11. Patch(c, r)
  BY <1>1
<1> HIDE DEF r, plan
<1>12. /\ refused' = refused /\ row' \in [Runs -> Row] /\ silent' \in [Runs -> BOOLEAN]
       /\ \A d \in Runs : d # c => row'[d] = row[d] /\ silent'[d] = silent[d]
       /\ silent[c] => silent'[c]
       /\ row'[c].status = row[c].status /\ row'[c].recon = row[c].recon
       /\ row'[c].completed = 0
       /\ row'[c].total \in {row[c].total, Cardinality(S)}
  BY <1>4, <1>6, <1>11, PatchIs DEF IInv
<1>13. TypeOK'
  BY <1>2, <1>8, <1>12 DEF IInv, TypeOK, Working
<1>14. pc'[c] = "debating" /\ \A d \in Runs : d # c => Same(d)
  BY <1>2, <1>7, <1>12 DEF Same, IInv, TypeOK
<1>15. LockHeld(c)'
  BY <1>9 DEF LockHeld
<1>16. WorkInv(c)'
  BY <1>2, <1>3, <1>14 DEF WorkInv, Before
<1>17. RowInv(c)'
  <2>1. row[c].total = -1 /\ outcome[c] = "none"
    BY <1>2, <1>3 DEF RowInv, WorkInv, Before
  <2> QED BY <1>2, <1>3, <1>9, <1>10, <1>12, <1>14, <2>1 DEF RowInv, Before, Unrecorded
<1> QED BY <1>13, <1>14, <1>15, <1>16, <1>17, OneRun DEF RunInv
-----------------------------------------------------------------------------
(* The debates                                                             *)

\* A debate that begins or ends is not counted yet.
LEMMA DebateMoves ==
    ASSUME IInv, NEW c \in Runs, NEW s \in Symbols, NEW step \in {"running", "settled"},
           pc[c] = "debating", debate[c][s] \in {"queued", "running"}, SetDebate(c, s, step),
           UNCHANGED <<pc, verdict, halt, payload, outcome, report, event, hasId, rowVars>>
    PROVE  IInv'
<1>1. /\ verdict' = verdict /\ halt' = halt /\ payload' = payload /\ pc' = pc
      /\ outcome' = outcome /\ report' = report /\ event' = event /\ hasId' = hasId
      /\ silent' = silent /\ refused' = refused /\ row' = row
  BY DEF rowVars
<1>2. /\ debate' \in [Runs -> [Symbols -> DebateSteps]]
      /\ \A d \in Runs : d # c => debate'[d] = debate[d]
      /\ debate'[c][s] = step
      /\ \A u \in Symbols : u # s => debate'[c][u] = debate[c][u]
  BY DEF SetDebate, IInv, TypeOK, DebateSteps
<1>3. /\ In(c, "writing")' = In(c, "writing") /\ In(c, "over")' = In(c, "over")
      /\ Planned(c)' = Planned(c)
  BY <1>2 DEF In, Planned
<1>4. Counted(c)' = Counted(c)
  BY <1>3 DEF Counted
<1>5. TypeOK'
  BY <1>1, <1>2 DEF IInv, TypeOK
<1>6. \A d \in Runs : d # c => Same(d)
  BY <1>1, <1>2 DEF Same
<1>7. LockHeld(c)'
  BY <1>1, <1>3, <1>4 DEF LockHeld, IInv, RunInv
<1>8. WorkInv(c)'
  BY <1>1, <1>3 DEF WorkInv, IInv, RunInv, Before
<1>9. RowInv(c)'
  BY <1>1, <1>3, <1>4 DEF RowInv, IInv, RunInv
<1> QED BY <1>5, <1>6, <1>7, <1>8, <1>9, OneRun DEF RunInv

\* Under the lock, one more debate is counted.
LEMMA CountDebateKeeps ==
    ASSUME IInv, NEW c \in Runs, NEW s \in Symbols, CountDebate(c, s) PROVE IInv'
<1>1. /\ verdict' = verdict /\ halt' = halt /\ pc' = pc
      /\ outcome' = outcome /\ report' = report /\ event' = event /\ hasId' = hasId
      /\ silent' = silent /\ refused' = refused /\ row' = row
      /\ payload' = [payload EXCEPT ![c][s] = Counted(c) + 1]
      /\ pc[c] = "debating" /\ debate[c][s] = "settled" /\ In(c, "writing") = {}
  BY DEF CountDebate, rowVars
<1>2. /\ debate' \in [Runs -> [Symbols -> DebateSteps]]
      /\ \A d \in Runs : d # c => debate'[d] = debate[d]
      /\ debate'[c][s] = "writing"
      /\ \A u \in Symbols : u # s => debate'[c][u] = debate[c][u]
  BY DEF CountDebate, SetDebate, IInv, TypeOK, DebateSteps
<1>3. /\ In(c, "writing")' = {s} /\ In(c, "over")' = In(c, "over")
      /\ Planned(c)' = Planned(c)
      /\ s \notin In(c, "over")
  BY <1>1, <1>2 DEF In, Planned
<1>4. Counted(c)' = Counted(c) + 1
  <2>1. IsFiniteSet(In(c, "over"))
    BY SymbolsAreFinite, FS_Subset DEF In
  <2>2. Cardinality(In(c, "over") \cup {s}) = Cardinality(In(c, "over")) + 1
    BY <1>3, <2>1, FS_AddElement
  <2>3. Counted(c) = Cardinality(In(c, "over"))
    BY <1>1 DEF Counted
  <2>4. (In(c, "writing") \cup In(c, "over"))' = In(c, "over") \cup {s}
    BY <1>3
  <2> QED BY <2>2, <2>3, <2>4 DEF Counted
<1>5. Counted(c) \in Nat /\ Counted(c) + 1 \in 0..Cardinality(Symbols)
  <2>1. Counted(c)' \in 0..Cardinality(Symbols)
    <3>1. (In(c, "writing") \cup In(c, "over"))' \in SUBSET Symbols
      BY DEF In
    <3> QED BY <3>1, SymbolsAreFinite, FS_Subset, FS_CardinalityType DEF Counted
  <2> QED BY <1>4, <2>1, CountTyped
<1>6. /\ payload' \in [Runs -> [Symbols -> 0..Cardinality(Symbols)]]
      /\ \A d \in Runs : d # c => payload'[d] = payload[d]
      /\ payload'[c][s] = Counted(c) + 1
  BY <1>1, <1>5 DEF IInv, TypeOK
<1>7. TypeOK'
  BY <1>1, <1>2, <1>6 DEF IInv, TypeOK
<1>8. \A d \in Runs : d # c => Same(d)
  BY <1>1, <1>2, <1>6 DEF Same
<1>9. LockHeld(c)'
  BY <1>3, <1>4, <1>6 DEF LockHeld
<1>10. WorkInv(c)'
  BY <1>1, <1>3 DEF WorkInv, IInv, RunInv, Before
<1>11. RowInv(c)'
  <2>1. RowInv(c) /\ WorkInv(c) /\ row[c].completed \in Nat
    BY DEF IInv, RunInv, TypeOK, Row
  <2>2. row'[c].completed <= Counted(c)'
    BY <1>1, <1>4, <1>5, <2>1 DEF RowInv
  <2>3. In(c, "writing")' # {}
    BY <1>3
  <2> QED BY <1>1, <1>3, <2>1, <2>2, <2>3 DEF RowInv
<1> QED BY <1>7, <1>8, <1>9, <1>10, <1>11, OneRun DEF RunInv

\* The count reaches the row, or the run has lost a write; the lock is free.
LEMMA PublishProgressKeeps ==
    ASSUME IInv, NEW c \in Runs, NEW s \in Symbols, PublishProgress(c, s)
    PROVE  IInv' /\ row'[c].completed >= row[c].completed
                 /\ \A d \in Runs : d # c => row'[d] = row[d]
<1> DEFINE r == [row[c] EXCEPT !.completed = payload[c][s]]
<1>1. /\ verdict' = verdict /\ halt' = halt /\ pc' = pc /\ payload' = payload
      /\ outcome' = outcome /\ report' = report /\ event' = event /\ hasId' = hasId
      /\ pc[c] = "debating" /\ debate[c][s] = "writing" /\ Patch(c, r)
  BY DEF PublishProgress
<1>2. /\ debate' \in [Runs -> [Symbols -> DebateSteps]]
      /\ \A d \in Runs : d # c => debate'[d] = debate[d]
      /\ debate'[c][s] = "over"
      /\ \A u \in Symbols : u # s => debate'[c][u] = debate[c][u]
  BY DEF PublishProgress, SetDebate, IInv, TypeOK, DebateSteps
<1>3. In(c, "writing") = {s} /\ payload[c][s] = Counted(c)
  <2>1. s \in In(c, "writing")
    BY <1>1 DEF In
  <2> QED BY <2>1 DEF IInv, RunInv, LockHeld
<1>4. /\ In(c, "writing")' = {} /\ In(c, "over")' = In(c, "over") \cup {s}
      /\ Planned(c)' = Planned(c)
  BY <1>1, <1>2, <1>3 DEF In, Planned
<1>5. Counted(c)' = Counted(c)
  <2>1. (In(c, "writing") \cup In(c, "over"))' = In(c, "writing") \cup In(c, "over")
    BY <1>3, <1>4
  <2> QED BY <2>1 DEF Counted
<1>6. /\ row[c] \in Row /\ RowInv(c) /\ WorkInv(c) /\ Counted(c) \in Nat
      /\ Cardinality(Planned(c)) \in Nat /\ Counted(c) <= Cardinality(Planned(c))
  BY CountTyped DEF IInv, TypeOK, RunInv
<1>7. /\ r \in Row
      /\ r.recon = row[c].recon /\ r.status = row[c].status /\ r.inferred = row[c].inferred
      /\ r.total = row[c].total /\ r.completed = Counted(c)
  BY <1>3, <1>6 DEF Row
<1> HIDE DEF r
<1>8. Allowed(r)
  BY <1>6, <1>7 DEF RowInv, Allowed
<1>9. /\ refused' = refused /\ row' \in [Runs -> Row] /\ silent' \in [Runs -> BOOLEAN]
      /\ \A d \in Runs : d # c => row'[d] = row[d] /\ silent'[d] = silent[d]
      /\ row'[c].status = row[c].status /\ row'[c].recon = row[c].recon
      /\ row'[c].total = row[c].total
      /\ \/ silent'[c] /\ row'[c].completed = row[c].completed
         \/ silent'[c] = silent[c] /\ row'[c].completed = Counted(c)
  BY <1>1, <1>7, <1>8, PatchIs DEF IInv
<1>10. TypeOK'
  BY <1>1, <1>2, <1>9 DEF IInv, TypeOK
<1>11. \A d \in Runs : d # c => Same(d)
  BY <1>1, <1>2, <1>9 DEF Same
<1>12. LockHeld(c)'
  BY <1>4 DEF LockHeld
<1>13. WorkInv(c)'
  BY <1>1, <1>4, <1>6 DEF WorkInv, Before
<1>14. row'[c].completed <= Counted(c)' /\ row'[c].completed >= row[c].completed
  <2>1. row[c].completed \in Nat /\ row[c].completed <= Counted(c)
    BY <1>6 DEF RowInv, Row
  <2> QED BY <1>5, <1>6, <1>9, <2>1
<1>15. RowInv(c)'
  <2>1. outcome[c] = "none"
    BY <1>1, <1>6 DEF WorkInv
  <2> QED BY <1>1, <1>4, <1>5, <1>6, <1>9, <1>14, <2>1 DEF RowInv, Before, Unrecorded
<1> QED BY <1>9, <1>10, <1>11, <1>12, <1>13, <1>14, <1>15, OneRun DEF RunInv

LEMMA GatherKeeps == ASSUME IInv, NEW c \in Runs, Gather(c) PROVE IInv'
<1>1. /\ verdict' = verdict /\ halt' = halt /\ debate' = debate /\ payload' = payload
      /\ outcome' = outcome /\ report' = report /\ event' = event /\ hasId' = hasId
      /\ silent' = silent /\ refused' = refused /\ row' = row
      /\ pc[c] = "debating" /\ pc' = [pc EXCEPT ![c] = "report"] /\ DebatesOver(c)
  BY DEF Gather, Goto, workVars, rowVars, DebatesOver
<1>2. TypeOK'
  BY <1>1 DEF IInv, TypeOK, Working
<1>3. pc'[c] = "report" /\ \A d \in Runs : d # c => Same(d)
  BY <1>1 DEF Same, IInv, TypeOK
<1>4. WorkInv(c)'
  BY <1>1, <1>3, DebatesStay DEF IInv, RunInv, WorkInv, Before
<1>5. RowInv(c)'
  BY <1>1, <1>3, DebatesStay DEF IInv, RunInv, RowInv, WorkInv, Before, Unrecorded
<1> QED BY <1>1, <1>2, <1>3, <1>4, <1>5, StepKeeps
-----------------------------------------------------------------------------
(* The end of a run, the page and the clock                                *)

LEMMA WriteReportKeeps == ASSUME IInv, NEW c \in Runs, WriteReport(c) PROVE IInv'
<1>1. /\ verdict' = verdict /\ halt' = halt /\ debate' = debate /\ payload' = payload
      /\ outcome' = outcome /\ event' = event /\ hasId' = hasId
      /\ silent' = silent /\ refused' = refused /\ row' = row
      /\ report' = [report EXCEPT ![c] = TRUE]
      /\ pc[c] = "report" /\ pc' = [pc EXCEPT ![c] = "event"]
  BY DEF WriteReport, Goto, rowVars
<1>2. TypeOK'
  BY <1>1 DEF IInv, TypeOK, Working
<1>3. pc'[c] = "event" /\ report'[c] /\ \A d \in Runs : d # c => Same(d)
  BY <1>1 DEF Same, IInv, TypeOK
<1>4. WorkInv(c)'
  BY <1>1, <1>3, DebatesStay DEF IInv, RunInv, WorkInv, Before
<1>5. RowInv(c)'
  BY <1>1, <1>3, DebatesStay DEF IInv, RunInv, RowInv, WorkInv, Before, Unrecorded
<1> QED BY <1>1, <1>2, <1>3, <1>4, <1>5, StepKeeps

LEMMA AppendEventKeeps == ASSUME IInv, NEW c \in Runs, AppendEvent(c) PROVE IInv'
<1>1. /\ verdict' = verdict /\ halt' = halt /\ debate' = debate /\ payload' = payload
      /\ report' = report /\ hasId' = hasId
      /\ silent' = silent /\ refused' = refused /\ row' = row
      /\ event' = [event EXCEPT ![c] = TRUE] /\ outcome' = [outcome EXCEPT ![c] = "ok"]
      /\ pc[c] = "event" /\ pc' = [pc EXCEPT ![c] = "close"]
  BY DEF AppendEvent, Goto, rowVars
<1>2. TypeOK'
  BY <1>1 DEF IInv, TypeOK, Working
<1>3. /\ pc'[c] = "close" /\ event'[c] /\ outcome'[c] = "ok"
      /\ \A d \in Runs : d # c => Same(d)
  BY <1>1 DEF Same, IInv, TypeOK
<1>4. WorkInv(c)'
  BY <1>1, <1>3, DebatesStay DEF IInv, RunInv, WorkInv, Before
<1>5. RowInv(c)'
  BY <1>1, <1>3, DebatesStay DEF IInv, RunInv, RowInv, WorkInv, Before, Unrecorded
<1> QED BY <1>1, <1>2, <1>3, <1>4, <1>5, StepKeeps

LEMMA FailKeeps == ASSUME IInv, NEW c \in Runs, Fail(c) PROVE IInv'
<1>1. /\ verdict' = verdict /\ halt' = halt /\ debate' = debate /\ payload' = payload
      /\ report' = report /\ event' = event /\ hasId' = hasId
      /\ silent' = silent /\ refused' = refused /\ row' = row
      /\ outcome' = [outcome EXCEPT ![c] = "error"]
      /\ pc[c] \in {"scan", "report", "event"} /\ pc' = [pc EXCEPT ![c] = "close"]
  BY DEF Fail, Goto, rowVars
<1>2. TypeOK'
  BY <1>1 DEF IInv, TypeOK, Working
<1>3. pc'[c] = "close" /\ outcome'[c] = "error" /\ \A d \in Runs : d # c => Same(d)
  BY <1>1 DEF Same, IInv, TypeOK
<1>4. WorkInv(c)'
  BY <1>1, <1>3, DebatesStay DEF IInv, RunInv, WorkInv, Before
<1>5. RowInv(c)'
  BY <1>1, <1>3, DebatesStay DEF IInv, RunInv, RowInv, WorkInv, Before, Unrecorded
<1> QED BY <1>1, <1>2, <1>3, <1>4, <1>5, StepKeeps

LEMMA KillKeeps == ASSUME IInv, NEW c \in Runs, Kill(c) PROVE IInv'
<1>1. /\ verdict' = verdict /\ halt' = halt /\ debate' = debate /\ payload' = payload
      /\ outcome' = outcome /\ report' = report /\ event' = event /\ hasId' = hasId
      /\ silent' = silent /\ refused' = refused /\ row' = row
      /\ pc[c] \in Working /\ pc' = [pc EXCEPT ![c] = "dead"]
  BY DEF Kill, Goto, workVars, rowVars
<1>2. TypeOK'
  BY <1>1 DEF IInv, TypeOK
<1>3. pc'[c] = "dead" /\ \A d \in Runs : d # c => Same(d)
  BY <1>1 DEF Same, IInv, TypeOK
<1>4. WorkInv(c)'
  BY <1>1, <1>3, DebatesStay DEF IInv, RunInv, WorkInv, Before
<1>5. RowInv(c)'
  BY <1>1, <1>3, DebatesStay DEF IInv, RunInv, RowInv, WorkInv, Before, Unrecorded, Working
<1> QED BY <1>1, <1>2, <1>3, <1>4, <1>5, StepKeeps

\* The last word: it overwrites what the sweep inferred.
LEMMA FinishKeeps == ASSUME IInv, NEW c \in Runs, Finish(c) PROVE IInv'
<1> DEFINE word == IF outcome[c] = "ok" THEN "complete" ELSE "failed"
           r == [row[c] EXCEPT !.status = IF outcome[c] = "ok" THEN "complete" ELSE "failed",
                               !.inferred = FALSE]
<1>1. /\ verdict' = verdict /\ halt' = halt /\ debate' = debate /\ payload' = payload
      /\ outcome' = outcome /\ report' = report /\ event' = event /\ hasId' = hasId
      /\ pc[c] = "close" /\ pc' = [pc EXCEPT ![c] = "over"] /\ Patch(c, r)
  BY DEF Finish, Goto, workVars
<1>2. row[c] \in Row /\ Allowed(row[c])
  BY RowIsAllowed DEF IInv
<1>3. /\ r \in Row /\ Allowed(r) /\ r.status = word /\ ~r.inferred
      /\ r.recon = row[c].recon /\ r.total = row[c].total /\ r.completed = row[c].completed
  BY <1>2 DEF Row, Allowed
<1> HIDE DEF r
<1>4. /\ refused' = refused /\ row' \in [Runs -> Row] /\ silent' \in [Runs -> BOOLEAN]
      /\ \A d \in Runs : d # c => row'[d] = row[d] /\ silent'[d] = silent[d]
      /\ silent[c] => silent'[c]
      /\ row'[c].recon = row[c].recon
      /\ row'[c].total = row[c].total /\ row'[c].completed = row[c].completed
      /\ \/ silent'[c] /\ row'[c].status = row[c].status
         \/ row'[c].status = word /\ ~row'[c].inferred
  BY <1>1, <1>3, PatchIs DEF IInv
<1>5. TypeOK'
  BY <1>1, <1>4 DEF IInv, TypeOK, Working
<1>6. pc'[c] = "over" /\ \A d \in Runs : d # c => Same(d)
  BY <1>1, <1>4 DEF Same, IInv, TypeOK
<1>7. WorkInv(c)'
  BY <1>1, <1>6, DebatesStay DEF IInv, RunInv, WorkInv, Before
<1>8. RowInv(c)'
  BY <1>1, <1>4, <1>6, DebatesStay DEF IInv, RunInv, RowInv, WorkInv, Before, Unrecorded
<1> QED BY <1>1, <1>5, <1>6, <1>7, <1>8, StepKeeps

\* The sweep and the clock touch rows that say running, and of those only the
\* status, the age and whether the end was inferred.
LEMMA PageKeeps ==
    ASSUME IInv, UNCHANGED <<pc, workVars, hasId, silent, refused>>,
           row' \in [Runs -> Row],
           \A c \in Runs :
             /\ row'[c].recon = row[c].recon /\ row'[c].total = row[c].total
             /\ row'[c].completed = row[c].completed
             /\ row'[c] = row[c] \/ (row[c].status = "running" /\ row'[c].status # "complete")
    PROVE  IInv'
<1>1. /\ verdict' = verdict /\ halt' = halt /\ debate' = debate /\ payload' = payload
      /\ outcome' = outcome /\ report' = report /\ event' = event /\ hasId' = hasId
      /\ pc' = pc /\ silent' = silent /\ refused' = refused
  BY DEF workVars
<1>2. TypeOK'
  BY <1>1 DEF IInv, TypeOK
<1>3. ASSUME NEW c \in Runs PROVE RunInv(c)'
  <2>1. RunInv(c)
    BY DEF IInv
  <2>2. LockHeld(c)'
    BY <1>1, <2>1, LockStays DEF RunInv
  <2>3. WorkInv(c)'
    BY <1>1, <2>1, DebatesStay DEF RunInv, WorkInv
  <2>4. RowInv(c)'
    <3>1. ~(pc[c] = "over" /\ ~silent[c] /\ row[c].status = "running")
      BY <2>1 DEF RunInv, RowInv
    <3> QED BY <1>1, <2>1, <3>1, DebatesStay DEF RunInv, RowInv
  <2> QED BY <2>2, <2>3, <2>4 DEF RunInv
<1> QED BY <1>2, <1>3 DEF IInv

LEMMA SweepIs ==
    ASSUME IInv, Sweep
    PROVE  /\ row' \in [Runs -> Row]
           /\ \A c \in Runs :
                /\ row'[c].recon = row[c].recon /\ row'[c].total = row[c].total
                /\ row'[c].completed = row[c].completed
                /\ row'[c] = row[c] \/ (row[c].status = "running" /\ row'[c].status # "complete")
<1>1. ASSUME NEW c \in Runs
      PROVE  /\ row'[c] \in Row
             /\ row'[c].recon = row[c].recon /\ row'[c].total = row[c].total
             /\ row'[c].completed = row[c].completed
             /\ row'[c] = row[c] \/ (row[c].status = "running" /\ row'[c].status # "complete")
  <2>1. row[c] \in Row
    BY DEF IInv, TypeOK
  <2>2. CASE Stale(c)
    <3>1. row'[c] = [row[c] EXCEPT !.status = "failed", !.inferred = TRUE]
      BY <2>2 DEF Sweep
    <3> QED BY <2>1, <2>2, <3>1 DEF Row, Stale
  <2>3. CASE ~Stale(c)
    BY <2>1, <2>3 DEF Sweep
  <2> QED BY <2>2, <2>3
<1>2. row' = [c \in Runs |-> row'[c]]
  BY DEF Sweep
<1> QED BY <1>1, <1>2

LEMMA TickIs ==
    ASSUME IInv, Tick
    PROVE  /\ row' \in [Runs -> Row]
           /\ \A c \in Runs :
                /\ row'[c].recon = row[c].recon /\ row'[c].total = row[c].total
                /\ row'[c].completed = row[c].completed
                /\ row'[c] = row[c] \/ (row[c].status = "running" /\ row'[c].status # "complete")
<1>1. ASSUME NEW c \in Runs
      PROVE  /\ row'[c] \in Row
             /\ row'[c].recon = row[c].recon /\ row'[c].total = row[c].total
             /\ row'[c].completed = row[c].completed
             /\ row'[c] = row[c] \/ (row[c].status = "running" /\ row'[c].status # "complete")
  <2>1. row[c] \in Row /\ row[c].age \in 0..StaleAfter + 1 /\ StaleAfter \in Nat
    BY StaleAfterIsNat DEF IInv, TypeOK, Row
  <2>2. CASE row[c].status = "running" /\ ~Stale(c)
    <3>1. row'[c] = [row[c] EXCEPT !.age = @ + 1]
      BY <2>2 DEF Tick
    <3>2. row[c].age + 1 \in 0..StaleAfter + 1
      BY <2>1, <2>2 DEF Stale
    <3> QED BY <2>1, <2>2, <3>1, <3>2 DEF Row
  <2>3. CASE ~(row[c].status = "running" /\ ~Stale(c))
    BY <2>1, <2>3 DEF Tick
  <2> QED BY <2>2, <2>3
<1>2. row' = [c \in Runs |-> row'[c]]
  BY DEF Tick
<1> QED BY <1>1, <1>2
-----------------------------------------------------------------------------
(* The theorems                                                            *)

LEMMA InvStep == IInv /\ [Next]_vars => IInv'
<1> SUFFICES ASSUME IInv, [Next]_vars PROVE IInv'
  OBVIOUS
<1>1. ASSUME NEW c \in Runs, Job(c) PROVE IInv'
  <2>1. CASE Start(c)
    BY <2>1, StartKeeps
  <2>2. CASE Reconcile(c)
    BY <2>2, ReconcileKeeps
  <2>3. CASE Record(c)
    BY <2>3, RecordKeeps
  <2>4. CASE Check(c)
    BY <2>4, CheckKeeps
  <2>5. CASE Scan(c)
    BY <2>5, ScanKeeps
  <2>6. CASE PublishScan(c)
    BY <2>6, PublishScanKeeps
  <2>7. CASE SkipDebates(c)
    BY <2>7, SkipDebatesKeeps
  <2>8. CASE PlanDebates(c)
    BY <2>8, PlanDebatesKeeps
  <2>9. ASSUME NEW s \in Symbols, BeginDebate(c, s) PROVE IInv'
    BY <2>9, DebateMoves DEF BeginDebate
  <2>10. ASSUME NEW s \in Symbols, EndDebate(c, s) PROVE IInv'
    BY <2>10, DebateMoves DEF EndDebate
  <2>11. ASSUME NEW s \in Symbols, CountDebate(c, s) PROVE IInv'
    BY <2>11, CountDebateKeeps
  <2>12. ASSUME NEW s \in Symbols, PublishProgress(c, s) PROVE IInv'
    BY <2>12, PublishProgressKeeps
  <2>13. CASE Gather(c)
    BY <2>13, GatherKeeps
  <2>14. CASE WriteReport(c)
    BY <2>14, WriteReportKeeps
  <2>15. CASE AppendEvent(c)
    BY <2>15, AppendEventKeeps
  <2>16. CASE Fail(c)
    BY <2>16, FailKeeps
  <2>17. CASE Finish(c)
    BY <2>17, FinishKeeps
  <2>18. CASE Kill(c)
    BY <2>18, KillKeeps
  <2>19. CASE Debating(c)
    BY <2>9, <2>10, <2>11, <2>12, <2>13, <2>19, SMTT(30) DEF Debating
  <2> QED BY <1>1, <2>1, <2>2, <2>3, <2>4, <2>5, <2>6, <2>7, <2>8, <2>14, <2>15, <2>16, <2>17,
             <2>18, <2>19 DEF Job
<1>2. CASE Sweep
  BY <1>2, SweepIs, PageKeeps DEF Sweep
<1>3. CASE Tick
  BY <1>3, TickIs, PageKeeps DEF Tick
<1>4. CASE UNCHANGED vars
  <2>1. \A c \in Runs : Same(c)
    BY <1>4 DEF vars, Same
  <2>2. TypeOK'
    BY <1>4 DEF vars, IInv, TypeOK
  <2> QED BY <2>1, <2>2, SameKeeps DEF IInv
<1> QED BY <1>1, <1>2, <1>3, <1>4 DEF Next

LEMMA IInvHolds == Spec => []IInv
<1> QED BY InvInit, InvStep, PTL DEF Spec

\* The row never says more than happened: complete only of a run whose report
\* and event are written, a verdict only when the check ran and then the
\* check's, a halt with its reason, a count of debates that are over; and the
\* table refuses no write the job makes, in whatever order and whatever is lost.
THEOREM InvHolds == Spec => []Inv
<1>1. IInv => Inv
  BY InvImplies
<1> QED BY <1>1, IInvHolds, PTL

\* A run that ended and could say so is recorded as it ended, whatever the
\* sweep of the page presumed before and does after.
THEOREM LastWordHolds == Spec => []LastWordIsTheJobs
<1>1. IInv => LastWordIsTheJobs
  BY InvImplies
<1> QED BY <1>1, IInvHolds, PTL

Grows == \A c \in Runs : row'[c].completed >= row[c].completed

LEMMA RowKeptGrows == IInv /\ row' = row => Grows
<1> SUFFICES ASSUME IInv, row' = row, NEW c \in Runs PROVE row'[c].completed >= row[c].completed
  BY DEF Grows
<1>1. row[c].completed \in Nat
  BY DEF IInv, TypeOK, Row
<1> QED BY <1>1

LEMMA PatchGrows ==
    ASSUME IInv, NEW c \in Runs, NEW r \in Row, Allowed(r), Patch(c, r),
           r.completed = row[c].completed
    PROVE  Grows
<1>1. \A d \in Runs : row'[d].completed = row[d].completed
  <2>1. TypeOK
    BY DEF IInv
  <2> QED BY <2>1, PatchIs
<1>2. \A d \in Runs : row[d].completed \in Nat
  BY DEF IInv, TypeOK, Row
<1> QED BY <1>1, <1>2 DEF Grows

LEMMA StepGrows == IInv /\ [Next]_vars => Grows
<1> SUFFICES ASSUME IInv, [Next]_vars PROVE Grows
  OBVIOUS
<1>1. ASSUME NEW c \in Runs, Job(c) PROVE Grows
  <2>0. row[c] \in Row /\ Allowed(row[c])
    BY RowIsAllowed DEF IInv
  <2>1. CASE Start(c)
    <3>1. pc[c] = "idle" /\ RunInv(c)
      BY <2>1 DEF Start, IInv
    <3>2. row[c].completed \in Nat /\ row[c].completed <= Counted(c) /\ Counted(c) = 0
      BY <2>0, <3>1, NoneCounted DEF RunInv, WorkInv, RowInv, Before, Row
    <3>3. row' = row \/ row' = [row EXCEPT ![c] = [NoRow EXCEPT !.status = "running"]]
      BY <2>1 DEF Start
    <3>4. [NoRow EXCEPT !.status = "running"].completed = 0
      BY DEF NoRow
    <3>5. \A d \in Runs : row'[d].completed = row[d].completed \/ (d = c /\ row'[d].completed = 0)
      BY <3>3, <3>4 DEF IInv, TypeOK
    <3>6. \A d \in Runs : row[d].completed \in Nat
      BY DEF IInv, TypeOK, Row
    <3> QED BY <3>2, <3>5, <3>6 DEF Grows
  <2>2. CASE row' = row
    BY <2>2, RowKeptGrows
  <2>3. CASE Record(c)
    <3> DEFINE r == [row[c] EXCEPT !.recon = IF verdict[c] = "in_sync" THEN "true" ELSE "false"]
    <3>1. r \in Row /\ Allowed(r) /\ r.completed = row[c].completed
      BY <2>0 DEF Row, Allowed
    <3>2. row' = row \/ Patch(c, r)
      BY <2>3 DEF Record, rowVars
    <3> HIDE DEF r
    <3> QED BY <2>2, <3>1, <3>2, PatchGrows
  <2>4. CASE PublishScan(c)
    BY <2>0, <2>4, PatchGrows DEF PublishScan
  <2>5. CASE PlanDebates(c)
    <3>1. PICK S \in SUBSET Symbols : Patch(c, [row[c] EXCEPT !.total = Cardinality(S)])
      BY <2>5 DEF PlanDebates
    <3> DEFINE r == [row[c] EXCEPT !.total = Cardinality(S)]
    <3>2. Cardinality(S) \in Nat
      BY SymbolsAreFinite, FS_Subset, FS_CardinalityType
    <3>3. row[c].completed = 0
      <4>1. pc[c] = "plan" /\ RunInv(c)
        BY <2>5 DEF PlanDebates, IInv
      <4>2. row[c].completed \in Nat /\ row[c].completed <= Counted(c) /\ Counted(c) = 0
        BY <2>0, <4>1, NoneCounted DEF RunInv, WorkInv, RowInv, Before, Row
      <4> QED BY <4>2
    <3>4. r \in Row /\ Allowed(r) /\ r.completed = row[c].completed
      BY <2>0, <3>2, <3>3 DEF Row, Allowed
    <3> QED BY <3>1, <3>4, PatchGrows
  <2>6. ASSUME NEW s \in Symbols, PublishProgress(c, s) PROVE Grows
    <3>1. /\ row'[c].completed >= row[c].completed
          /\ \A d \in Runs : d # c => row'[d] = row[d]
      BY <2>6, PublishProgressKeeps
    <3>2. \A d \in Runs : row[d].completed \in Nat
      BY DEF IInv, TypeOK, Row
    <3> QED BY <3>1, <3>2 DEF Grows
  <2>7. CASE Finish(c)
    <3> DEFINE r == [row[c] EXCEPT !.status = IF outcome[c] = "ok" THEN "complete" ELSE "failed",
                                   !.inferred = FALSE]
    <3>1. r \in Row /\ Allowed(r) /\ r.completed = row[c].completed
      BY <2>0 DEF Row, Allowed
    <3>2. Patch(c, r)
      BY <2>7 DEF Finish
    <3> HIDE DEF r
    <3> QED BY <3>1, <3>2, PatchGrows
  <2>8. CASE Debating(c)
    BY <2>2, <2>6, <2>8
       DEF Debating, BeginDebate, EndDebate, CountDebate, Gather, rowVars
  <2> QED BY <1>1, <2>1, <2>2, <2>3, <2>4, <2>5, <2>7, <2>8
          DEF Job, Reconcile, Check, Scan, SkipDebates, WriteReport, AppendEvent, Fail, Kill, rowVars
<1>2. CASE Sweep \/ Tick
  <2>1. \A c \in Runs : row'[c].completed = row[c].completed
    BY <1>2, SweepIs, TickIs
  <2>2. \A c \in Runs : row[c].completed \in Nat
    BY DEF IInv, TypeOK, Row
  <2> QED BY <2>1, <2>2 DEF Grows
<1>3. CASE UNCHANGED vars
  BY <1>3, RowKeptGrows DEF vars
<1> QED BY <1>1, <1>2, <1>3 DEF Next

\* The published count of debates never goes back, at any step.
THEOREM ProgressGrows == Spec => ProgressOnlyGrows
<1>1. IInv /\ [Next]_vars => [\A c \in Runs : row'[c].completed >= row[c].completed]_vars
  BY StepGrows DEF Grows
<1> QED BY <1>1, IInvHolds, PTL DEF Spec, ProgressOnlyGrows

-----------------------------------------------------------------------------
(***************************************************************************)
(* Part 2: Debate                                                          *)
(***************************************************************************)
-----------------------------------------------------------------------------
(* The inductive invariant of Debate                                       *)

Jurors == Lenses \X Vendors
OwnersOf(p) == ToSet(Keys[p])

CallOf(w) == [st : {"none", "ready", "sent", "again", "done", "fail"},
              own : OwnersOf(VendorOf(w)) \cup {None}, try : {1, 2}, out : Outs,
              seen : OwnersOf(VendorOf(w)) \cup {None}]

AnyCall == [st : {"none", "ready", "sent", "again", "done", "fail"}, own : NamedOwners \cup {None},
            try : {1, 2}, out : Outs, seen : NamedOwners \cup {None}]

\* A call in flight is on a key of its vendor; one that has been passed on is on
\* the last key there is; and a limit is reported when no key is left.
CallOK(d, w) ==
    LET c == call[d][w]
    IN  /\ c \in CallOf(w)
        /\ c.st # "none" => Keys[VendorOf(w)] # <<>> /\ (w \in Jurors => w \in seats[d])
        /\ c.st \in {"sent", "again"} => c.own # None
        /\ c.st = "again" => VendorOf(w) = "anthropic" /\ funded \subseteq {c.own}
        /\ c.st = "done" => c.out \in (IF w \in Researchers THEN {"text"} ELSE Votes)
        /\ c.out = "limit" => funded = {}

CallsInv ==
    /\ call \in [Debates -> [Writers -> AnyCall]]
    /\ \A d \in Debates, w \in Writers : CallOK(d, w)

\* The jury is asked after the researchers, ruled by its votes, and what is
\* stored is what was ruled and voted.
StageInv(d) ==
    /\ seats[d] \subseteq Jurors
    /\ stage[d] \in {"new", "research"} => \A w \in Jurors : call[d][w].st = "none"
    /\ stage[d] \in {"new", "research", "jury"} => decision[d] = None
    /\ stage[d] \in {"filing", "storing"} => decision[d] # None
    /\ stage[d] = "storing" => d \in filed
    /\ decision[d] # None =>
         /\ decision[d] = Aggregate(Cast(d), Cardinality(seats[d]))
         /\ \A s \in seats[d] : call[d][s].st \in {"done", "fail"}
    /\ stored[d] # None =>
         stage[d] = "done" /\ d \in filed /\ decision[d] # None /\ stored[d] = Judgments(d)

FlowInv ==
    /\ stage \in [Debates -> {"new", "research", "jury", "filing", "storing", "done", "error", "gone"}]
    /\ round \in [Debates -> 1..4] /\ written \in [Debates -> SUBSET Sides]
    /\ DOMAIN seats = Debates /\ DOMAIN stored = Debates
    /\ decision \in [Debates -> Votes \cup {"ESCALATED", None}] /\ filed \subseteq Debates
    /\ \A d \in Debates : StageInv(d)

MoneyInv ==
    /\ funded \subseteq Owners /\ benched \subseteq Owners \ funded
    /\ DOMAIN ledger = Vendors /\ \A p \in Vendors : ledger[p] \in [OwnersOf(p) -> Nat]
    /\ blind \in Nat /\ faults \in 0..MaxFaults

\* What holds a slot of the jury, and what is in flight.
Sitting(d, p) == {s \in seats[d] : s[2] = p /\ Seated(call[d][s])}
Flight(p) == {x \in Debates \X Writers : InFlight(x[1], x[2]) /\ VendorOf(x[2]) = p}
On(p, o) == {x \in Flight(p) : call[x[1]][x[2]].own = o}

SittingInv ==
    \A d \in Debates :
        /\ \A p \in Vendors : Cardinality(Sitting(d, p)) <= Seating[p]
        /\ (\E w \in Jurors : call[d][w].st # "none") =>
               \E w \in Researchers : call[d][w].st \in {"done", "fail"}

\* An owner is ahead of another who can pay by no more than the calls that are
\* not in flight on his key may have cost.
LedgerInv ==
    \A p \in Vendors : \A o, k \in OwnersOf(p) :
        (p = "anthropic" => k \in funded) =>
            ledger[p][o] - ledger[p][k] + Cardinality(On(p, o)) * MaxCost
                <= (MostInFlight(p) + blind) * MaxCost

\* The strengthening of DebateInv and SpendStaysEven that the steps preserve.
DebateIInv == CallsInv /\ FlowInv /\ MoneyInv /\ SittingInv /\ LedgerInv
-----------------------------------------------------------------------------
(* Writers, keys and counts                                                *)

LEMMA WritersSplit ==
    /\ Writers = Researchers \cup Jurors /\ Researchers \cap Jurors = {}
    /\ Researchers = {<<0, "bull">>, <<0, "bear">>}
    /\ \A w \in Researchers : VendorOf(w) = "anthropic"
    /\ \A w \in Jurors : VendorOf(w) = w[2]
    /\ \A w \in Writers : VendorOf(w) \in Vendors
<1>1. Researchers = {<<0, "bull">>, <<0, "bear">>}
  BY DEF Researchers, Sides
<1>2. \A l \in Lenses : l # 0
  BY DEF Lenses
<1>3. Researchers \cap Jurors = {}
  BY <1>1, <1>2 DEF Jurors
<1>4. \A w \in Jurors : w[2] \in Vendors
  BY DEF Jurors
<1> QED BY <1>1, <1>3, <1>4 DEF Writers, Jurors, VendorOf, Vendors

LEMMA PairIsTwo ==
    ASSUME NEW a, NEW b, a # b
    PROVE  IsFiniteSet({a, b}) /\ Cardinality({a, b}) = 2
<1>1. IsFiniteSet({a}) /\ Cardinality({a}) = 1 /\ b \notin {a}
  BY FS_Singleton
<1>2. IsFiniteSet({a} \cup {b}) /\ Cardinality({a} \cup {b}) = 2
  BY <1>1, FS_AddElement
<1>3. {a} \cup {b} = {a, b}
  OBVIOUS
<1> QED BY <1>2, <1>3

LEMMA WritersAreFinite ==
    /\ IsFiniteSet(Lenses) /\ IsFiniteSet(Jurors) /\ IsFiniteSet(Researchers)
    /\ IsFiniteSet(Writers) /\ IsFiniteSet(Debates \X Writers)
    /\ Cardinality(Researchers) = 2 /\ Cardinality(Debates) \in Nat
<1>1. IsFiniteSet(Lenses)
  <2>1. 1 \in Int /\ 10 \in Int
    OBVIOUS
  <2>3. IsFiniteSet(1..10)
    BY <2>1, FS_Interval
  <2>2. Lenses \subseteq 1..10
    BY DEF Lenses
  <2> QED BY <2>2, <2>3, FS_Subset
<1>2. IsFiniteSet(Vendors)
  BY PairIsTwo DEF Vendors
<1>3. IsFiniteSet(Jurors)
  BY <1>1, <1>2, FS_Product DEF Jurors
<1>4. IsFiniteSet(Researchers) /\ Cardinality(Researchers) = 2
  <2>1. <<0, "bull">> # <<0, "bear">>
    OBVIOUS
  <2> QED BY <2>1, WritersSplit, PairIsTwo
<1>5. IsFiniteSet(Writers)
  BY <1>3, <1>4, WritersSplit, FS_Union
<1>6. IsFiniteSet(Debates) /\ Cardinality(Debates) \in Nat
  BY DebatesAreFinite, FS_CardinalityType
<1>7. IsFiniteSet(Debates \X Writers)
  BY <1>5, <1>6, FS_Product
<1> QED BY <1>1, <1>3, <1>4, <1>5, <1>6, <1>7

\* A vendor has at most two keys.
LEMMA KeysAreTwo ==
    ASSUME NEW p \in Vendors
    PROVE  /\ DOMAIN Keys[p] \subseteq {1, 2} /\ OwnersOf(p) = {Keys[p][i] : i \in DOMAIN Keys[p]}
           /\ Keys[p] # <<>> => 1 \in DOMAIN Keys[p]
           /\ \A i, j \in DOMAIN Keys[p] : Keys[p][i] = Keys[p][j] => i = j
           /\ None \notin OwnersOf(p) /\ Owners = OwnersOf("anthropic")
<1>1. Keys[p] \in Seq(OwnersOf(p)) /\ Len(Keys[p]) <= 2
  BY KeysOfVendors DEF OwnersOf
<1>2. DOMAIN Keys[p] = 1..Len(Keys[p]) /\ Len(Keys[p]) \in Nat
  BY <1>1
<1>3. Keys[p] # <<>> => Len(Keys[p]) # 0
  BY <1>1
<1>4. None \notin OwnersOf(p) /\ Owners = OwnersOf("anthropic")
  BY NoneIsNothing DEF OwnersOf, Owners
<1>5. OwnersOf(p) = {Keys[p][i] : i \in DOMAIN Keys[p]}
  BY DEF OwnersOf, ToSet
<1>6. \A i, j \in DOMAIN Keys[p] : Keys[p][i] = Keys[p][j] => i = j
  BY KeysOfVendors DEF IsInjective
<1> QED BY <1>1, <1>2, <1>3, <1>4, <1>5, <1>6

LEMMA OwnersAreTwo ==
    ASSUME NEW a \in Owners, NEW b \in Owners, a # b
    PROVE  Owners \subseteq {a, b}
<1>1. "anthropic" \in Vendors
  BY DEF Vendors
<1>2. DOMAIN Keys["anthropic"] \subseteq {1, 2} /\ Owners = {Keys["anthropic"][i] : i \in DOMAIN Keys["anthropic"]}
  BY <1>1, KeysAreTwo
<1> QED BY <1>2

\* Another owner's key, if one is left.
LEMMA AlternativeIs ==
    ASSUME NEW o, NEW bench
    PROVE  /\ Alternative(o, bench) = None => Owners \subseteq bench \cup {o}
           /\ Alternative(o, bench) # None => Alternative(o, bench) \in Owners \ (bench \cup {o})
<1> DEFINE slots == Keys["anthropic"]
           free == {i \in DOMAIN slots : slots[i] # o /\ slots[i] \notin bench}
           first == CHOOSE i \in free : \A j \in free : i <= j
<1>1. "anthropic" \in Vendors
  BY DEF Vendors
<1>2. DOMAIN slots \subseteq {1, 2} /\ Owners = {slots[i] : i \in DOMAIN slots} /\ None \notin Owners
  BY <1>1, KeysAreTwo
<1>3. Alternative(o, bench) = IF free = {} THEN None ELSE slots[first]
  BY DEF Alternative
<1> HIDE DEF slots
<1>4. CASE free = {}
  BY <1>2, <1>3, <1>4
<1>5. CASE free # {}
  <2>1. free \subseteq {1, 2}
    BY <1>2
  <2>2. \E i \in free : \A j \in free : i <= j
    <3>1. CASE 1 \in free
      BY <2>1, <3>1
    <3>2. CASE 1 \notin free
      BY <1>5, <2>1, <3>2
    <3> QED BY <3>1, <3>2
  <2>3. first \in free
    BY <2>2
  <2>4. slots[first] \in Owners /\ slots[first] # o /\ slots[first] \notin bench
    BY <1>2, <2>3
  <2> HIDE DEF free, first
  <2> QED BY <1>2, <1>3, <1>5, <2>4
<1> QED BY <1>4, <1>5

\* keys.select points at an owner that nobody is behind.
LEMMA CheapestIs ==
    ASSUME NEW p \in Vendors, Keys[p] # <<>>, NEW spend \in [OwnersOf(p) -> Nat]
    PROVE  /\ Cheapest(p, spend) \in OwnersOf(p)
           /\ \A k \in OwnersOf(p) : spend[Cheapest(p, spend)] <= spend[k]
<1> DEFINE slots == Keys[p]
           Ahead(i) == \A j \in DOMAIN slots :
                          \/ spend[slots[i]] < spend[slots[j]]
                          \/ (spend[slots[i]] = spend[slots[j]] /\ i <= j)
           i0 == CHOOSE i \in DOMAIN slots : Ahead(i)
<1>1. DOMAIN slots \subseteq {1, 2} /\ OwnersOf(p) = {slots[i] : i \in DOMAIN slots} /\ 1 \in DOMAIN slots
  BY KeysAreTwo
<1>2. Cheapest(p, spend) = slots[i0]
  BY DEF Cheapest
<1> HIDE DEF slots
<1>3. \A i \in DOMAIN slots : spend[slots[i]] \in Nat
  BY <1>1
<1>4. \E i \in DOMAIN slots : Ahead(i)
  <2>1. CASE 2 \notin DOMAIN slots
    BY <1>1, <1>3, <2>1
  <2>2. CASE 2 \in DOMAIN slots /\ spend[slots[2]] < spend[slots[1]]
    <3>1. Ahead(2)
      BY <1>1, <1>3, <2>2
    <3> QED BY <2>2, <3>1
  <2>3. CASE 2 \in DOMAIN slots /\ ~(spend[slots[2]] < spend[slots[1]])
    <3>1. Ahead(1)
      BY <1>1, <1>3, <2>3
    <3> QED BY <1>1, <3>1
  <2> QED BY <2>1, <2>2, <2>3
<1>5. i0 \in DOMAIN slots /\ Ahead(i0)
  BY <1>4
<1>6. \A j \in DOMAIN slots : spend[slots[i0]] <= spend[slots[j]]
  BY <1>3, <1>5
<1> HIDE DEF i0
<1> QED BY <1>1, <1>2, <1>5, <1>6

\* The key a call goes out on is nobody's who is ahead of one that can pay.
LEMMA KeyForIs ==
    ASSUME NEW p \in Vendors, Keys[p] # <<>>, NEW spend \in [OwnersOf(p) -> Nat],
           benched \subseteq Owners \ funded
    PROVE  /\ KeyFor(p, spend) \in OwnersOf(p)
           /\ \A k \in OwnersOf(p) : (p = "anthropic" => k \in funded) =>
                 spend[KeyFor(p, spend)] <= spend[k]
<1>1. /\ Cheapest(p, spend) \in OwnersOf(p)
      /\ \A k \in OwnersOf(p) : spend[Cheapest(p, spend)] <= spend[k]
  BY CheapestIs
<1>2. Owners = OwnersOf("anthropic")
  BY KeysAreTwo
<1>3. Alternative(Cheapest(p, spend), benched) # None =>
         Alternative(Cheapest(p, spend), benched) \in Owners \ (benched \cup {Cheapest(p, spend)})
  BY <1>2, AlternativeIs
<1>4. KeyFor(p, spend) = (IF /\ p = "anthropic" /\ Cheapest(p, spend) \in benched
                             /\ Alternative(Cheapest(p, spend), benched) # None
                          THEN Alternative(Cheapest(p, spend), benched) ELSE Cheapest(p, spend))
  BY DEF KeyFor
<1>5. CASE /\ p = "anthropic" /\ Cheapest(p, spend) \in benched
           /\ Alternative(Cheapest(p, spend), benched) # None
  <2>1. PICK c, a : c = Cheapest(p, spend) /\ a = Alternative(Cheapest(p, spend), benched)
    OBVIOUS
  <2>2. c \in Owners /\ a \in Owners /\ a # c /\ c \notin funded /\ KeyFor(p, spend) = a
    BY <1>1, <1>2, <1>3, <1>4, <1>5, <2>1
  <2>3. Owners \subseteq {c, a}
    BY <2>2, OwnersAreTwo
  <2>4. \A k \in OwnersOf(p) : k \in funded => k = a
    BY <1>2, <1>5, <2>2, <2>3
  <2>5. spend[a] \in Nat
    BY <1>2, <1>5, <2>2
  <2> QED BY <1>2, <1>5, <2>2, <2>4, <2>5
<1>6. CASE ~(/\ p = "anthropic" /\ Cheapest(p, spend) \in benched
             /\ Alternative(Cheapest(p, spend), benched) # None)
  BY <1>1, <1>4, <1>6
<1> QED BY <1>5, <1>6

\* What a call that cost so much, on o's key, adds to k's spending.
Paid(k, o, cost) == IF k = o THEN cost ELSE 0

\* The ledger with a cost more on o's account: only what one owner has spent
\* more than another counts.
Raised(new, p, o, cost) ==
    /\ DOMAIN new = Vendors /\ \A q \in Vendors : new[q] \in [OwnersOf(q) -> Nat]
    /\ \A q \in Vendors : q # p => new[q] = ledger[q]
    /\ \E less \in Nat : \A k \in OwnersOf(p) : new[p][k] + less = ledger[p][k] + Paid(k, o, cost)

LEMMA EnteredIs ==
    ASSUME MoneyInv, NEW p \in Vendors, NEW o \in OwnersOf(p), NEW cost \in Nat,
           NEW new, new = Entered(p, o, cost)
    PROVE  Raised(new, p, o, cost)
<1> DEFINE rows == [ledger[p] EXCEPT ![o] = @ + cost]
           values == {rows[k] : k \in DOMAIN rows}
           least == CHOOSE n \in values : \A m \in values : n <= m
<1>1. /\ ledger[p] \in [OwnersOf(p) -> Nat] /\ DOMAIN ledger = Vendors
      /\ \A q \in Vendors : ledger[q] \in [OwnersOf(q) -> Nat]
  BY DEF MoneyInv
<1>2. /\ rows \in [OwnersOf(p) -> Nat] /\ DOMAIN rows = OwnersOf(p)
      /\ \A k \in OwnersOf(p) : rows[k] = ledger[p][k] + Paid(k, o, cost)
  BY <1>1 DEF Paid
<1>3. new = [ledger EXCEPT ![p] = [k \in DOMAIN rows |-> rows[k] - least]]
  BY DEF Entered
<1> HIDE DEF rows
<1>4. least \in values /\ \A m \in values : least <= m
  <2>1. DOMAIN Keys[p] \subseteq {1, 2} /\ OwnersOf(p) = {Keys[p][i] : i \in DOMAIN Keys[p]}
    BY KeysAreTwo
  <2>2. values \subseteq Nat /\ values # {}
    BY <1>2
  <2>3. \E n \in values : \A m \in values : n <= m
    <3>1. CASE OwnersOf(p) = {o}
      BY <1>2, <3>1
    <3>2. CASE \E k \in OwnersOf(p) : k # o
      <4>1. PICK k \in OwnersOf(p) : k # o
        BY <3>2
      <4>2. OwnersOf(p) = {o, k}
        BY <2>1, <4>1
      <4>3. values = {rows[o], rows[k]} /\ rows[o] \in Nat /\ rows[k] \in Nat
        BY <1>2, <4>2
      <4>4. CASE rows[o] <= rows[k]
        BY <4>3, <4>4
      <4>5. CASE ~(rows[o] <= rows[k])
        BY <4>3, <4>5
      <4> QED BY <4>4, <4>5
    <3> QED BY <3>1, <3>2
  <2> HIDE DEF values
  <2> QED BY <2>3
<1>5. least \in Nat /\ \A k \in OwnersOf(p) : rows[k] \in Nat /\ rows[k] - least \in Nat
  <2>1. \A k \in OwnersOf(p) : rows[k] \in Nat /\ rows[k] \in values
    BY <1>2
  <2>2. values \subseteq Nat
    BY <1>2
  <2> HIDE DEF least, values
  <2> QED BY <1>4, <2>1, <2>2
<1> HIDE DEF least, values
<1>6. /\ new[p] = [k \in OwnersOf(p) |-> rows[k] - least] /\ DOMAIN new = Vendors
      /\ \A q \in Vendors : q # p => new[q] = ledger[q]
  BY <1>1, <1>2, <1>3
<1>7. new[p] \in [OwnersOf(p) -> Nat] /\ \A k \in OwnersOf(p) : new[p][k] = rows[k] - least
  BY <1>5, <1>6
<1>8. \A k \in OwnersOf(p) : new[p][k] + least = ledger[p][k] + Paid(k, o, cost)
  <2>1. \A k \in OwnersOf(p) : new[p][k] + least = rows[k]
    BY <1>5, <1>7
  <2> QED BY <1>2, <2>1
<1>9. \E less \in Nat : \A k \in OwnersOf(p) : new[p][k] + less = ledger[p][k] + Paid(k, o, cost)
  BY <1>5, <1>8
<1> QED BY <1>1, <1>6, <1>7, <1>9 DEF Raised
-----------------------------------------------------------------------------
(* What a debate's record depends on                                       *)

LEMMA CastDepends ==
    ASSUME NEW d, seats'[d] = seats[d], \A s \in seats[d] : call'[d][s] = call[d][s]
    PROVE  Cast(d)' = Cast(d)
<1>1. {x \in seats[d] : call'[d][x].st = "done"} = {x \in seats[d] : call[d][x].st = "done"}
  OBVIOUS
<1>2. Cast(d)' = [s \in {x \in seats[d] : call'[d][x].st = "done"} |-> call'[d][s].out]
  BY DEF Cast, Wrote
<1>3. Cast(d) = [s \in {x \in seats[d] : call[d][x].st = "done"} |-> call[d][s].out]
  BY DEF Cast, Wrote
<1> QED BY <1>1, <1>2, <1>3

\* What is stored, of the votes cast, the cases and the ruling.
WhatIsStored(d, cast, cases, ruling) ==
    LET ok(v) == \/ v = "HOLD"
                 \/ v = "BUY" /\ "bull" \in cases
                 \/ v = "SELL" /\ "bear" \in cases
        of(l) == {s \in {l} \X Vendors : s \in DOMAIN cast /\ ok(cast[s])}
        first(l) == IF <<l, "anthropic">> \in of(l) THEN <<l, "anthropic">> ELSE <<l, "gemini">>
    IN  [votes |-> [l \in {x \in Lenses : of(x) # {}} |-> cast[first(l)]],
         synth |-> IF ok(ruling) THEN ruling ELSE None]

LEMMA JudgmentsAre ==
    ASSUME NEW d
    PROVE  /\ Judgments(d) = WhatIsStored(d, Cast(d), written[d], decision[d])
           /\ Judgments(d)' = WhatIsStored(d, Cast(d)', written'[d], decision'[d])
  BY Zenon DEF Judgments, WhatIsStored, Writable

LEMMA JudgmentsDepend ==
    ASSUME NEW d, seats'[d] = seats[d], \A s \in seats[d] : call'[d][s] = call[d][s],
           written'[d] = written[d], decision'[d] = decision[d]
    PROVE  Judgments(d)' = Judgments(d)
  BY CastDepends, JudgmentsAre, Zenon

\* Where the record of a debate is left alone.
LEMMA StageStands ==
    ASSUME NEW d \in Debates, StageInv(d), CallsInv,
           seats'[d] = seats[d], decision'[d] = decision[d], stored'[d] = stored[d],
           stage'[d] = stage[d], filed \subseteq filed',
           stage[d] \in {"new", "research"} =>
               \A w \in Jurors : call'[d][w].st = "none",
           decision[d] # None => \A s \in seats[d] : call'[d][s] = call[d][s],
           stored[d] # None => written'[d] = written[d]
    PROVE  StageInv(d)'
<1>1. decision[d] # None =>
         /\ decision'[d] = Aggregate(Cast(d), Cardinality(seats[d]))'
         /\ \A s \in seats'[d] : call'[d][s].st \in {"done", "fail"}
  <2> SUFFICES ASSUME decision[d] # None
               PROVE  /\ decision'[d] = Aggregate(Cast(d), Cardinality(seats[d]))'
                      /\ \A s \in seats'[d] : call'[d][s].st \in {"done", "fail"}
    OBVIOUS
  <2>1. Cast(d)' = Cast(d) /\ Cardinality(seats[d])' = Cardinality(seats[d])
    BY CastDepends
  <2>2. Aggregate(Cast(d), Cardinality(seats[d]))' = Aggregate(Cast(d), Cardinality(seats[d]))
    BY <2>1 DEF Aggregate
  <2> QED BY <2>2 DEF StageInv
<1>2. stored'[d] # None =>
         stage'[d] = "done" /\ d \in filed' /\ decision'[d] # None /\ stored'[d] = Judgments(d)'
  BY JudgmentsDepend DEF StageInv
<1> QED BY <1>1, <1>2 DEF StageInv
-----------------------------------------------------------------------------
(* A step of one call                                                      *)

\* The new state c of the call of w may follow the old one.
Follows(d, w, c) ==
    /\ call[d][w].st \in {"ready", "sent", "again"}
    /\ call' = [call EXCEPT ![d][w] = c]
    /\ c \in CallOf(w) /\ c.st # "none"
    /\ c.st \in {"sent", "again"} => c.own # None
    /\ c.st = "again" => VendorOf(w) = "anthropic" /\ funded \subseteq {c.own}
    /\ c.st = "done" => c.out \in (IF w \in Researchers THEN {"text"} ELSE Votes)
    /\ c.out = "limit" => funded = {}
    /\ w \in Jurors /\ Seated(c) =>
          Seated(call[d][w]) \/ Cardinality(Sitting(d, VendorOf(w))) < Seating[VendorOf(w)]
    /\ \/ written' = written
       \/ stage[d] = "research" /\ written' = [written EXCEPT ![d] = @ \cup {w[2]}] /\ w \in Researchers
    /\ UNCHANGED <<stage, round, seats, decision, filed, stored, funded>>

LEMMA CallsAreCalls ==
    ASSUME NEW w \in Writers
    PROVE  CallOf(w) \subseteq AnyCall
<1>1. OwnersOf(VendorOf(w)) \subseteq NamedOwners
  BY WritersSplit DEF OwnersOf, NamedOwners
<1> QED BY <1>1 DEF CallOf, AnyCall

LEMMA CallsTyped ==
    ASSUME CallsInv, NEW d \in Debates, NEW w \in Writers
    PROVE  /\ call[d][w] \in CallOf(w) /\ CallOK(d, w) /\ DOMAIN call = Debates /\ DOMAIN call[d] = Writers
           /\ VendorOf(w) \in Vendors
  BY WritersSplit DEF CallsInv, CallOK

LEMMA CallsFollow ==
    ASSUME CallsInv, FlowInv, NEW d \in Debates, NEW w \in Writers, NEW c, Follows(d, w, c)
    PROVE  CallsInv'
<1>1. /\ DOMAIN call' = Debates /\ \A e \in Debates : DOMAIN call'[e] = Writers
      /\ call'[d][w] = c
      /\ \A e \in Debates, x \in Writers : e # d \/ x # w => call'[e][x] = call[e][x]
  <2>1. call' = [call EXCEPT ![d][w] = c]
    BY DEF Follows
  <2> QED BY <2>1 DEF CallsInv
<1>2. funded' = funded /\ seats' = seats
  BY DEF Follows
<1>3. ASSUME NEW e \in Debates, NEW x \in Writers PROVE CallOK(e, x)'
  <2>1. CASE e # d \/ x # w
    <3>1. CallOK(e, x) /\ call'[e][x] = call[e][x]
      BY <1>1, <2>1 DEF CallsInv
    <3> QED BY <1>2, <3>1 DEF CallOK
  <2>2. CASE e = d /\ x = w
    <3>1. Keys[VendorOf(w)] # <<>> /\ (w \in Jurors => w \in seats[d])
      BY CallsTyped DEF Follows, CallOK
    <3> QED BY <1>1, <1>2, <2>2, <3>1 DEF CallOK, Follows
  <2> QED BY <2>1, <2>2
<1>4. call' \in [Debates -> [Writers -> AnyCall]]
  <2>1. c \in AnyCall
    BY CallsAreCalls DEF Follows
  <2>2. call' = [call EXCEPT ![d][w] = c] /\ call \in [Debates -> [Writers -> AnyCall]]
    BY DEF Follows, CallsInv
  <2> QED BY <2>1, <2>2
<1> QED BY <1>3, <1>4 DEF CallsInv

LEMMA FlowFollows ==
    ASSUME CallsInv, FlowInv, NEW d \in Debates, NEW w \in Writers, NEW c, Follows(d, w, c)
    PROVE  FlowInv'
<1>1. /\ DOMAIN call' = Debates /\ \A e \in Debates : DOMAIN call'[e] = Writers
      /\ call'[d][w] = c
      /\ \A e \in Debates, x \in Writers : e # d \/ x # w => call'[e][x] = call[e][x]
  <2>1. call' = [call EXCEPT ![d][w] = c]
    BY DEF Follows
  <2> QED BY <2>1 DEF CallsInv
<1>2. stage' = stage /\ round' = round /\ seats' = seats /\ decision' = decision
      /\ filed' = filed /\ stored' = stored
  BY DEF Follows
<1>3. /\ written' \in [Debates -> SUBSET Sides]
      /\ \A e \in Debates : written'[e] = written[e] \/ (e = d /\ stage[d] = "research")
  <2>1. CASE written' = written
    BY <2>1 DEF FlowInv
  <2>2. CASE stage[d] = "research" /\ written' = [written EXCEPT ![d] = @ \cup {w[2]}] /\ w \in Researchers
    <3>1. w[2] \in Sides
      BY <2>2 DEF Researchers
    <3>2. written \in [Debates -> SUBSET Sides]
      BY DEF FlowInv
    <3> QED BY <2>2, <3>1, <3>2
  <2> QED BY <2>1, <2>2 DEF Follows
<1>4. ASSUME NEW e \in Debates PROVE StageInv(e)'
  <2>1. StageInv(e) /\ seats[e] \subseteq Jurors
    BY DEF FlowInv, StageInv
  <2>2. stage[e] \in {"new", "research"} => \A x \in Jurors : call'[e][x].st = "none"
    <3> SUFFICES ASSUME stage[e] \in {"new", "research"}, NEW x \in Jurors
                 PROVE  call'[e][x].st = "none"
      OBVIOUS
    <3>1. call[e][x].st = "none" /\ x \in Writers
      BY <2>1, WritersSplit DEF StageInv
    <3>2. e # d \/ x # w
      BY <3>1 DEF Follows
    <3> QED BY <1>1, <3>1, <3>2
  <2>3. decision[e] # None => \A s \in seats[e] : call'[e][s] = call[e][s]
    <3> SUFFICES ASSUME decision[e] # None, NEW s \in seats[e]
                 PROVE  call'[e][s] = call[e][s]
      OBVIOUS
    <3>1. call[e][s].st \in {"done", "fail"} /\ s \in Writers
      BY <2>1, WritersSplit DEF StageInv
    <3>2. e # d \/ s # w
      BY <3>1 DEF Follows
    <3> QED BY <1>1, <3>1, <3>2
  <2>4. stored[e] # None => written'[e] = written[e]
    BY <1>3, <2>1 DEF StageInv
  <2> QED BY <1>2, <2>1, <2>2, <2>3, <2>4, StageStands
<1> QED BY <1>2, <1>3, <1>4 DEF FlowInv

LEMMA OneMore ==
    ASSUME NEW S, IsFiniteSet(S), NEW x
    PROVE  /\ IsFiniteSet(S \cup {x}) /\ Cardinality(S) \in Nat /\ Cardinality(S \cup {x}) \in Nat
           /\ Cardinality(S \cup {x}) <= Cardinality(S) + 1
           /\ x \notin S => Cardinality(S \cup {x}) = Cardinality(S) + 1
<1>1. Cardinality(S) \in Nat
  BY FS_CardinalityType
<1>2. /\ IsFiniteSet(S \cup {x})
      /\ Cardinality(S \cup {x}) = IF x \in S THEN Cardinality(S) ELSE Cardinality(S) + 1
  BY FS_AddElement
<1>3. CASE x \in S
  BY <1>1, <1>2, <1>3
<1>4. CASE x \notin S
  BY <1>1, <1>2, <1>4
<1> QED BY <1>3, <1>4

LEMMA SittingIsFinite ==
    ASSUME FlowInv, NEW d \in Debates, NEW p
    PROVE  IsFiniteSet(Sitting(d, p)) /\ Cardinality(Sitting(d, p)) \in Nat
<1>1. Sitting(d, p) \subseteq Jurors
  BY DEF FlowInv, StageInv, Sitting
<1>2. IsFiniteSet(Sitting(d, p))
  BY <1>1, WritersAreFinite, FS_Subset
<1> QED BY <1>2, FS_CardinalityType

LEMMA SittingFollows ==
    ASSUME CallsInv, FlowInv, SittingInv, NEW d \in Debates, NEW w \in Writers, NEW c, Follows(d, w, c)
    PROVE  SittingInv'
<1>1. /\ DOMAIN call' = Debates /\ \A e \in Debates : DOMAIN call'[e] = Writers
      /\ call'[d][w] = c
      /\ \A e \in Debates, x \in Writers : e # d \/ x # w => call'[e][x] = call[e][x]
  <2>1. call' = [call EXCEPT ![d][w] = c]
    BY DEF Follows
  <2> QED BY <2>1 DEF CallsInv
<1>2. seats' = seats /\ \A e \in Debates : seats[e] \subseteq Jurors /\ seats[e] \subseteq Writers
  BY WritersSplit DEF Follows, FlowInv, StageInv
<1>3. ASSUME NEW e \in Debates, NEW p \in Vendors
      PROVE  Cardinality(Sitting(e, p)') <= Seating[p]
  <2>1. IsFiniteSet(Sitting(e, p)) /\ Cardinality(Sitting(e, p)) \in Nat
        /\ Cardinality(Sitting(e, p)) <= Seating[p] /\ Seating[p] \in Nat
    BY <1>3, SittingIsFinite, SeatingOfVendors DEF SittingInv
  <2>2. CASE Sitting(e, p)' \subseteq Sitting(e, p)
    <3>1. Cardinality(Sitting(e, p)') <= Cardinality(Sitting(e, p)) /\ IsFiniteSet(Sitting(e, p)')
      BY <2>1, <2>2, FS_Subset
    <3>2. Cardinality(Sitting(e, p)') \in Nat
      BY <3>1, FS_CardinalityType
    <3> QED BY <2>1, <3>1, <3>2
  <2>3. CASE ~(Sitting(e, p)' \subseteq Sitting(e, p))
    <3>1. PICK s \in Sitting(e, p)' : s \notin Sitting(e, p)
      BY <2>3
    <3>2. s \in seats[e] /\ s[2] = p /\ Seated(call'[e][s]) /\ ~Seated(call[e][s])
      BY <1>2, <3>1 DEF Sitting
    <3>3. e = d /\ s = w /\ w \in Jurors /\ VendorOf(w) = p
      BY <1>1, <1>2, <3>2, WritersSplit
    <3>4. Cardinality(Sitting(e, p)) < Seating[p]
      BY <1>1, <3>2, <3>3 DEF Follows
    <3>5. Sitting(e, p)' \subseteq Sitting(e, p) \cup {w}
      BY <1>1, <1>2, <3>3 DEF Sitting
    <3>6. /\ IsFiniteSet(Sitting(e, p) \cup {w})
          /\ Cardinality(Sitting(e, p) \cup {w}) <= Cardinality(Sitting(e, p)) + 1
          /\ Cardinality(Sitting(e, p) \cup {w}) \in Nat
      BY <2>1, OneMore
    <3>7. /\ IsFiniteSet(Sitting(e, p)')
          /\ Cardinality(Sitting(e, p)') <= Cardinality(Sitting(e, p) \cup {w})
      BY <3>5, <3>6, FS_Subset
    <3>8. Cardinality(Sitting(e, p)') \in Nat
      BY <3>7, FS_CardinalityType
    <3> QED BY <2>1, <3>4, <3>6, <3>7, <3>8
  <2> QED BY <2>2, <2>3
<1>4. ASSUME NEW e \in Debates, \E x \in Jurors : call'[e][x].st # "none"
      PROVE  \E x \in Researchers : call'[e][x].st \in {"done", "fail"}
  <2>1. PICK x \in Jurors : call'[e][x].st # "none"
    BY <1>4
  <2>2. call[e][x].st # "none"
    <3>1. CASE e # d \/ x # w
      BY <1>1, <2>1, <3>1, WritersSplit
    <3>2. CASE e = d /\ x = w
      BY <3>2 DEF Follows
    <3> QED BY <3>1, <3>2
  <2>3. PICK y \in Researchers : call[e][y].st \in {"done", "fail"}
    BY <2>2 DEF SittingInv
  <2>4. e # d \/ y # w
    BY <2>3 DEF Follows
  <2> QED BY <1>1, <2>3, <2>4, WritersSplit
<1> QED BY <1>3, <1>4 DEF SittingInv
-----------------------------------------------------------------------------
(* The calls in flight                                                     *)

LEMMA FlightIsFinite ==
    ASSUME NEW p, NEW o
    PROVE  /\ IsFiniteSet(Flight(p)) /\ IsFiniteSet(On(p, o)) /\ On(p, o) \subseteq Flight(p)
           /\ Cardinality(On(p, o)) <= Cardinality(Flight(p))
           /\ Cardinality(On(p, o)) \in Nat /\ Cardinality(Flight(p)) \in Nat
<1>1. IsFiniteSet(Flight(p))
  BY WritersAreFinite, FS_Subset DEF Flight
<1>2. On(p, o) \subseteq Flight(p)
  BY DEF On
<1>3. IsFiniteSet(On(p, o)) /\ Cardinality(On(p, o)) <= Cardinality(Flight(p))
  BY <1>1, <1>2, FS_Subset
<1> QED BY <1>1, <1>2, <1>3, FS_CardinalityType

\* The most that one debate has in flight.
Width(p) == IF p = "anthropic" THEN Seating[p] + 1 ELSE Seating[p]
FlightOf(d, p) == {w \in Writers : InFlight(d, w) /\ VendorOf(w) = p}

LEMMA OneDebatesFlight ==
    ASSUME CallsInv, FlowInv, SittingInv, NEW d \in Debates, NEW p \in Vendors
    PROVE  /\ IsFiniteSet(FlightOf(d, p)) /\ Cardinality(FlightOf(d, p)) \in Nat
           /\ Cardinality(FlightOf(d, p)) <= Width(p) /\ Width(p) \in Nat
<1> DEFINE writing == {w \in Researchers : InFlight(d, w) /\ p = "anthropic"}
<1>1. Seating[p] \in Nat \ {0} /\ Width(p) \in Nat
  BY SeatingOfVendors DEF Width
<1>2. FlightOf(d, p) \subseteq writing \cup Sitting(d, p)
  <2> SUFFICES ASSUME NEW w \in Writers, InFlight(d, w), VendorOf(w) = p
               PROVE  w \in writing \cup Sitting(d, p)
    BY DEF FlightOf
  <2>1. CASE w \in Researchers
    BY <2>1, WritersSplit
  <2>2. CASE w \in Jurors
    <3>1. w \in seats[d]
      BY <2>2, CallsTyped DEF CallOK, InFlight
    <3>2. w[2] = p
      BY <2>2, WritersSplit
    <3> QED BY <3>1, <3>2 DEF Sitting, Seated, InFlight
  <2> QED BY <2>1, <2>2, WritersSplit
<1>3. IsFiniteSet(writing) /\ Cardinality(writing) <= 2 /\ Cardinality(writing) \in Nat
  <2>1. writing \subseteq Researchers
    OBVIOUS
  <2> QED BY <2>1, WritersAreFinite, FS_Subset, FS_CardinalityType
<1>4. IsFiniteSet(Sitting(d, p)) /\ Cardinality(Sitting(d, p)) \in Nat
      /\ Cardinality(Sitting(d, p)) <= Seating[p]
  BY SittingIsFinite DEF SittingInv
<1>5. CASE \E w \in Jurors : call[d][w].st # "none"
  <2>1. PICK y \in Researchers : call[d][y].st \in {"done", "fail"}
    BY <1>5 DEF SittingInv
  <2>2. writing \subseteq Researchers \ {y}
    BY <2>1 DEF InFlight
  <2>3. IsFiniteSet(Researchers \ {y}) /\ Cardinality(Researchers \ {y}) = 1
    <3>1. IsFiniteSet(Researchers) /\ Cardinality(Researchers) = 2
      BY WritersAreFinite
    <3>2. /\ IsFiniteSet(Researchers \ {y})
          /\ Cardinality(Researchers \ {y}) =
                IF y \in Researchers THEN Cardinality(Researchers) - 1 ELSE Cardinality(Researchers)
      BY <3>1, FS_RemoveElement
    <3> QED BY <3>1, <3>2
  <2>4. Cardinality(writing) <= 1
    BY <2>2, <2>3, FS_Subset
  <2>5. p # "anthropic" => writing = {} /\ Cardinality(writing) = 0
    BY FS_EmptySet
  <2>6. Cardinality(writing) + Cardinality(Sitting(d, p)) <= Width(p)
    BY <1>1, <1>3, <1>4, <2>4, <2>5 DEF Width
  <2> HIDE DEF writing
  <2>7. /\ IsFiniteSet(writing \cup Sitting(d, p))
        /\ Cardinality(writing \cup Sitting(d, p)) =
              Cardinality(writing) + Cardinality(Sitting(d, p)) - Cardinality(writing \cap Sitting(d, p))
    BY <1>3, <1>4, FS_Union
  <2>8. Cardinality(writing \cap Sitting(d, p)) \in Nat
    BY <1>3, FS_Intersection, FS_CardinalityType
  <2>9. Cardinality(writing \cup Sitting(d, p)) <= Width(p)
    BY <1>1, <1>3, <1>4, <2>6, <2>7, <2>8
  <2>10. /\ IsFiniteSet(FlightOf(d, p))
         /\ Cardinality(FlightOf(d, p)) <= Cardinality(writing \cup Sitting(d, p))
    BY <1>2, <2>7, FS_Subset
  <2>11. Cardinality(FlightOf(d, p)) \in Nat /\ Cardinality(writing \cup Sitting(d, p)) \in Nat
    BY <2>7, <2>10, FS_CardinalityType
  <2> QED BY <1>1, <2>9, <2>10, <2>11
<1>6. CASE ~\E w \in Jurors : call[d][w].st # "none"
  <2>1. Sitting(d, p) = {}
    BY <1>6 DEF Sitting, Seated, FlowInv, StageInv
  <2>2. FlightOf(d, p) \subseteq writing
    BY <1>2, <2>1
  <2>3. IsFiniteSet(FlightOf(d, p)) /\ Cardinality(FlightOf(d, p)) <= Cardinality(writing)
        /\ Cardinality(FlightOf(d, p)) \in Nat
    BY <1>3, <2>2, FS_Subset, FS_CardinalityType
  <2>4. p # "anthropic" => writing = {} /\ Cardinality(writing) = 0
    BY FS_EmptySet
  <2> QED BY <1>1, <1>3, <2>3, <2>4 DEF Width
<1> QED BY <1>5, <1>6

\* Each call in flight has a place of its own among those its debate may fill.
LEMMA FlightBound ==
    CallsInv /\ FlowInv /\ SittingInv =>
        \A p \in Vendors : Cardinality(Flight(p)) <= MostInFlight(p) /\ MostInFlight(p) \in Nat
<1> SUFFICES ASSUME CallsInv, FlowInv, SittingInv, NEW p \in Vendors
             PROVE  Cardinality(Flight(p)) <= MostInFlight(p) /\ MostInFlight(p) \in Nat
  OBVIOUS
<1> DEFINE Places == 1..Width(p)
           place == [d \in Debates |-> CHOOSE f \in [FlightOf(d, p) -> Places] :
                        \A v, w \in FlightOf(d, p) : f[v] = f[w] => v = w]
           f == [x \in Flight(p) |-> <<x[1], place[x[1]][x[2]]>>]
<1>1. Width(p) \in Nat /\ IsFiniteSet(Places) /\ Cardinality(Places) = Width(p)
  <2>1. Width(p) \in Nat
    BY SeatingOfVendors DEF Width
  <2>2. 1 \in Int /\ Width(p) \in Int /\ (1 > Width(p) => Width(p) = 0)
    BY <2>1
  <2>3. IsFiniteSet(Places) /\ Cardinality(Places) = IF 1 > Width(p) THEN 0 ELSE Width(p) - 1 + 1
    BY <2>1, FS_Interval
  <2> QED BY <2>1, <2>2, <2>3
<1>2. ASSUME NEW d \in Debates
      PROVE  /\ place[d] \in [FlightOf(d, p) -> Places]
             /\ \A v, w \in FlightOf(d, p) : place[d][v] = place[d][w] => v = w
  <2> DEFINE n == Cardinality(FlightOf(d, p))
  <2>1. /\ IsFiniteSet(FlightOf(d, p)) /\ n \in Nat /\ n <= Width(p)
    BY OneDebatesFlight
  <2>2. IsFiniteSet(1..n) /\ Cardinality(1..n) = n
    <3>1. 1 \in Int /\ n \in Int /\ (1 > n => n = 0)
      BY <2>1
    <3>2. IsFiniteSet(1..n) /\ Cardinality(1..n) = IF 1 > n THEN 0 ELSE n - 1 + 1
      BY <3>1, FS_Interval
    <3> QED BY <2>1, <3>1, <3>2
  <2>3. ExistsBijection(FlightOf(d, p), 1..n)
    BY <2>1, <2>2, FS_SameCardinalityBij
  <2>4. PICK g \in Bijection(FlightOf(d, p), 1..n) : TRUE
    BY <2>3 DEF ExistsBijection
  <2>5. /\ g \in [FlightOf(d, p) -> 1..n]
        /\ \A v, w \in FlightOf(d, p) : g[v] = g[w] => v = w
    BY <2>4 DEF Bijection, Injection, IsInjective
  <2>6. g \in [FlightOf(d, p) -> Places]
    BY <1>1, <2>1, <2>5
  <2>7. \E h \in [FlightOf(d, p) -> Places] : \A v, w \in FlightOf(d, p) : h[v] = h[w] => v = w
    BY <2>5, <2>6
  <2>8. place[d] = CHOOSE h \in [FlightOf(d, p) -> Places] :
                        \A v, w \in FlightOf(d, p) : h[v] = h[w] => v = w
    OBVIOUS
  <2> HIDE DEF place, Places, n
  <2> QED BY <2>7, <2>8
<1> HIDE DEF place
<1>3. \A x \in Flight(p) : x[1] \in Debates /\ x[2] \in FlightOf(x[1], p) /\ x = <<x[1], x[2]>>
  BY DEF Flight, FlightOf
<1>4. f \in [Flight(p) -> Debates \X Places]
  BY <1>2, <1>3
<1>5. \A x, y \in Flight(p) : f[x] = f[y] => x = y
  <2> SUFFICES ASSUME NEW x \in Flight(p), NEW y \in Flight(p), f[x] = f[y]
               PROVE  x = y
    OBVIOUS
  <2>1. x[1] = y[1] /\ place[x[1]][x[2]] = place[y[1]][y[2]]
    OBVIOUS
  <2>2. x[2] = y[2]
    BY <1>2, <1>3, <2>1
  <2> QED BY <1>3, <2>1, <2>2
<1> HIDE DEF f, Places
<1>6. f \in Injection(Flight(p), Debates \X Places)
  BY <1>4, <1>5 DEF Injection, IsInjective
<1>7. /\ IsFiniteSet(Debates \X Places)
      /\ Cardinality(Debates \X Places) = Cardinality(Debates) * Cardinality(Places)
  BY <1>1, DebatesAreFinite, FS_Product
<1>8. Cardinality(Flight(p)) <= Cardinality(Debates \X Places)
  BY <1>6, <1>7, FS_Injection
<1>9. MostInFlight(p) = Cardinality(Debates) * Width(p)
  BY DEF MostInFlight, Width
<1>10. Cardinality(Debates) * Width(p) \in Nat
  BY <1>1, WritersAreFinite
<1> QED BY <1>1, <1>7, <1>8, <1>9, <1>10

\* Where a call comes to or leaves the calls in flight.
LEMMA FlightMoves ==
    ASSUME CallsInv, NEW d \in Debates, NEW w \in Writers, NEW c,
           call' = [call EXCEPT ![d][w] = c], NEW p, NEW o
    PROVE  /\ ~InFlight(d, w) /\ ~(VendorOf(w) = p /\ c.own = o) => On(p, o)' = On(p, o)
           /\ c.st \notin {"sent", "again"} => On(p, o)' = On(p, o) \ {<<d, w>>}
           /\ <<d, w>> \in On(p, o) <=> InFlight(d, w) /\ VendorOf(w) = p /\ call[d][w].own = o
<1>1. /\ DOMAIN call' = Debates /\ \A e \in Debates : DOMAIN call'[e] = Writers
      /\ call'[d][w] = c
      /\ \A e \in Debates, x \in Writers : e # d \/ x # w => call'[e][x] = call[e][x]
  BY DEF CallsInv
<1>2. On(p, o) = {x \in Debates \X Writers : /\ call[x[1]][x[2]].st \in {"sent", "again"}
                                            /\ VendorOf(x[2]) = p /\ call[x[1]][x[2]].own = o}
  BY DEF On, Flight, InFlight
<1>3. On(p, o)' = {x \in Debates \X Writers : /\ call'[x[1]][x[2]].st \in {"sent", "again"}
                                             /\ VendorOf(x[2]) = p /\ call'[x[1]][x[2]].own = o}
  BY DEF On, Flight, InFlight
<1>4. ASSUME NEW x \in Debates \X Writers
      PROVE  x = <<d, w>> \/ call'[x[1]][x[2]] = call[x[1]][x[2]]
  <2>1. x = <<x[1], x[2]>> /\ x[1] \in Debates /\ x[2] \in Writers
    OBVIOUS
  <2> QED BY <1>1, <2>1
<1>5. <<d, w>> \in Debates \X Writers
  OBVIOUS
<1> QED BY <1>1, <1>2, <1>3, <1>4, <1>5 DEF InFlight

LEMMA FlightGrows ==
    ASSUME CallsInv, NEW d \in Debates, NEW w \in Writers, NEW c,
           call' = [call EXCEPT ![d][w] = c], NEW p, NEW o
    PROVE  /\ On(p, o)' \subseteq On(p, o) \cup {<<d, w>>}
           /\ <<d, w>> \in On(p, o)' => VendorOf(w) = p /\ c.own = o
<1>1. /\ DOMAIN call' = Debates /\ \A e \in Debates : DOMAIN call'[e] = Writers
      /\ call'[d][w] = c
      /\ \A e \in Debates, x \in Writers : e # d \/ x # w => call'[e][x] = call[e][x]
  BY DEF CallsInv
<1>2. On(p, o) = {x \in Debates \X Writers : /\ call[x[1]][x[2]].st \in {"sent", "again"}
                                            /\ VendorOf(x[2]) = p /\ call[x[1]][x[2]].own = o}
  BY DEF On, Flight, InFlight
<1>3. On(p, o)' = {x \in Debates \X Writers : /\ call'[x[1]][x[2]].st \in {"sent", "again"}
                                             /\ VendorOf(x[2]) = p /\ call'[x[1]][x[2]].own = o}
  BY DEF On, Flight, InFlight
<1>4. ASSUME NEW x \in Debates \X Writers
      PROVE  x = <<d, w>> \/ call'[x[1]][x[2]] = call[x[1]][x[2]]
  <2>1. x = <<x[1], x[2]>> /\ x[1] \in Debates /\ x[2] \in Writers
    OBVIOUS
  <2> QED BY <1>1, <2>1
<1>5. <<d, w>> \in Debates \X Writers
  OBVIOUS
<1> QED BY <1>1, <1>2, <1>3, <1>4, <1>5 DEF InFlight

LEMMA FlightShrinks ==
    ASSUME CallsInv, NEW d \in Debates, NEW w \in Writers, NEW c,
           call' = [call EXCEPT ![d][w] = c], c.st \notin {"sent", "again"}, NEW p, NEW o
    PROVE  On(p, o)' \subseteq On(p, o)
<1>1. /\ DOMAIN call' = Debates /\ \A e \in Debates : DOMAIN call'[e] = Writers
      /\ call'[d][w] = c
      /\ \A e \in Debates, x \in Writers : e # d \/ x # w => call'[e][x] = call[e][x]
  BY DEF CallsInv
<1>2. On(p, o) = {x \in Debates \X Writers : /\ call[x[1]][x[2]].st \in {"sent", "again"}
                                            /\ VendorOf(x[2]) = p /\ call[x[1]][x[2]].own = o}
  BY DEF On, Flight, InFlight
<1>3. On(p, o)' = {x \in Debates \X Writers : /\ call'[x[1]][x[2]].st \in {"sent", "again"}
                                             /\ VendorOf(x[2]) = p /\ call'[x[1]][x[2]].own = o}
  BY DEF On, Flight, InFlight
<1>4. ASSUME NEW x \in Debates \X Writers
      PROVE  x = <<d, w>> \/ call'[x[1]][x[2]] = call[x[1]][x[2]]
  <2>1. x = <<x[1], x[2]>> /\ x[1] \in Debates /\ x[2] \in Writers
    OBVIOUS
  <2> QED BY <1>1, <2>1
<1>5. <<d, w>> \in Debates \X Writers
  OBVIOUS
<1> QED BY <1>1, <1>2, <1>3, <1>4, <1>5 DEF InFlight

LEMMA OnBound ==
    \A p, o : Cardinality(On(p, o)) <= Cardinality(Flight(p)) /\ Cardinality(On(p, o)) \in Nat
              /\ Cardinality(Flight(p)) \in Nat
  BY FlightIsFinite

LEMMA OneLess ==
    ASSUME NEW S, IsFiniteSet(S), NEW x
    PROVE  /\ x \in S => Cardinality(S \ {x}) = Cardinality(S) - 1
           /\ x \notin S => Cardinality(S \ {x}) = Cardinality(S)
  BY FS_RemoveElement

LEMMA MostIsNat == \A p \in Vendors : MostInFlight(p) \in Nat
<1> SUFFICES ASSUME NEW p \in Vendors PROVE MostInFlight(p) \in Nat
  OBVIOUS
<1>1. Seating[p] \in Nat /\ Cardinality(Debates) \in Nat
  BY SeatingOfVendors, WritersAreFinite
<1>2. \A m, n \in Nat : m * n \in Nat
  OBVIOUS
<1> QED BY <1>1, <1>2 DEF MostInFlight

\* Products with the most a call costs.
LEMMA Times ==
    ASSUME NEW m \in Nat, NEW n \in Nat
    PROVE  /\ m * MaxCost \in Nat /\ (m + 1) * MaxCost = m * MaxCost + MaxCost /\ MaxCost \in Nat
           /\ m <= n => m * MaxCost <= n * MaxCost
<1>1. MaxCost \in Nat
  BY CostsAreNat
<1>2. \A a, b \in Nat : a * b \in Nat
  OBVIOUS
<1>3. \A a, b, c \in Nat : (a + b) * c = a * c + b * c
  OBVIOUS
<1>4. m * MaxCost \in Nat /\ (m + 1) * MaxCost = m * MaxCost + MaxCost
  <2>1. 1 * MaxCost = MaxCost /\ 1 \in Nat
    BY <1>1
  <2>2. (m + 1) * MaxCost = m * MaxCost + 1 * MaxCost
    BY <1>1, <1>3, <2>1
  <2> QED BY <1>1, <1>2, <2>1, <2>2
<1>5. ASSUME m <= n PROVE m * MaxCost <= n * MaxCost
  <2>1. PICK k \in Nat : n = m + k
    <3>1. n - m \in Nat /\ n = m + (n - m)
      BY <1>5
    <3> QED BY <3>1
  <2>2. n * MaxCost = m * MaxCost + k * MaxCost
    BY <1>1, <1>3, <2>1
  <2>3. m * MaxCost \in Nat /\ k * MaxCost \in Nat
    BY <1>1, <1>2
  <2> QED BY <2>2, <2>3
<1> QED BY <1>1, <1>4, <1>5

\* The sums that the bound is made of.
LEMMA LedgerTypes ==
    ASSUME MoneyInv, NEW p \in Vendors, NEW o \in OwnersOf(p)
    PROVE  /\ ledger[p][o] \in Nat /\ blind \in Nat /\ MostInFlight(p) + blind \in Nat
           /\ Cardinality(On(p, o)) \in Nat /\ Cardinality(On(p, o)) * MaxCost \in Nat
           /\ (MostInFlight(p) + blind) * MaxCost \in Nat
<1>1. ledger[p][o] \in Nat /\ blind \in Nat
  BY DEF MoneyInv
<1>2. Cardinality(On(p, o)) \in Nat /\ MostInFlight(p) \in Nat
  BY FlightIsFinite, MostIsNat
<1>3. MostInFlight(p) + blind \in Nat
  BY <1>1, <1>2
<1> QED BY <1>1, <1>2, <1>3, Times

\* Nobody is ahead of himself, nor of one he is not ahead of.
LEMMA BehindIsBound ==
    ASSUME CallsInv, FlowInv, SittingInv, MoneyInv, NEW p \in Vendors,
           NEW o \in OwnersOf(p), NEW k \in OwnersOf(p), ledger[p][o] <= ledger[p][k]
    PROVE  ledger[p][o] - ledger[p][k] + Cardinality(On(p, o)) * MaxCost
               <= (MostInFlight(p) + blind) * MaxCost
<1>1. /\ ledger[p][o] \in Nat /\ ledger[p][k] \in Nat /\ blind \in Nat /\ MostInFlight(p) + blind \in Nat
      /\ Cardinality(On(p, o)) \in Nat /\ Cardinality(On(p, o)) * MaxCost \in Nat
      /\ (MostInFlight(p) + blind) * MaxCost \in Nat
  BY LedgerTypes
<1>2. Cardinality(On(p, o)) <= MostInFlight(p) + blind
  <2>1. Cardinality(Flight(p)) <= MostInFlight(p) /\ MostInFlight(p) \in Nat
    BY FlightBound
  <2>2. Cardinality(On(p, o)) <= Cardinality(Flight(p)) /\ Cardinality(Flight(p)) \in Nat
    BY FlightIsFinite
  <2> QED BY <1>1, <2>1, <2>2
<1>3. Cardinality(On(p, o)) * MaxCost <= (MostInFlight(p) + blind) * MaxCost
  BY <1>1, <1>2, Times
<1> QED BY <1>1, <1>3

LEMMA BehindStaysBound ==
    CallsInv /\ FlowInv /\ SittingInv /\ MoneyInv =>
        \A p \in Vendors : \A o, k \in OwnersOf(p) : ledger[p][o] <= ledger[p][k] =>
            ledger[p][o] - ledger[p][k] + Cardinality(On(p, o)) * MaxCost
                <= (MostInFlight(p) + blind) * MaxCost
  BY BehindIsBound

\* Fewer calls in flight and the same ledger: the bound stands.
LEMMA FewerStaysBound ==
    ASSUME LedgerInv, MoneyInv, ledger' = ledger, blind' = blind, funded' \subseteq funded,
           NEW p \in Vendors, NEW o \in OwnersOf(p), NEW k \in OwnersOf(p),
           p = "anthropic" => k \in funded', On(p, o)' \subseteq On(p, o)
    PROVE  ledger'[p][o] - ledger'[p][k] + Cardinality(On(p, o)') * MaxCost
               <= (MostInFlight(p) + blind') * MaxCost
<1>1. ledger[p][o] - ledger[p][k] + Cardinality(On(p, o)) * MaxCost <= (MostInFlight(p) + blind) * MaxCost
  BY DEF LedgerInv
<1>2. Cardinality(On(p, o)') <= Cardinality(On(p, o)) /\ Cardinality(On(p, o)') \in Nat
  <2>1. IsFiniteSet(On(p, o))
    BY FlightIsFinite
  <2>2. IsFiniteSet(On(p, o)') /\ Cardinality(On(p, o)') <= Cardinality(On(p, o))
    BY <2>1, FS_Subset
  <2> QED BY <2>2, FS_CardinalityType
<1>3. /\ ledger[p][o] \in Nat /\ ledger[p][k] \in Nat /\ Cardinality(On(p, o)) \in Nat
      /\ Cardinality(On(p, o)) * MaxCost \in Nat /\ (MostInFlight(p) + blind) * MaxCost \in Nat
  BY LedgerTypes
<1>4. /\ Cardinality(On(p, o)') * MaxCost <= Cardinality(On(p, o)) * MaxCost
      /\ Cardinality(On(p, o)') * MaxCost \in Nat
  BY <1>2, <1>3, Times
<1> QED BY <1>1, <1>3, <1>4

\* What a call adds to the ledger it takes from the calls in flight.
LEMMA LedgerAnswered ==
    ASSUME DebateIInv, NEW d \in Debates, NEW w \in Writers, NEW c, Follows(d, w, c),
           InFlight(d, w), c.st \notin {"sent", "again"},
           benched' = benched, blind' = blind, faults' \in 0..MaxFaults,
           ledger' = ledger \/ Recorded(VendorOf(w), call[d][w].own)
    PROVE  MoneyInv' /\ LedgerInv'
<1> DEFINE p0 == VendorOf(w)
           o0 == call[d][w].own
<1>1. p0 \in Vendors /\ o0 \in OwnersOf(p0) /\ CallsInv /\ MoneyInv /\ LedgerInv
  BY CallsTyped DEF DebateIInv, CallOK, CallOf, InFlight
<1>2. funded' = funded /\ call' = [call EXCEPT ![d][w] = c]
  BY DEF Follows
<1>3. PICK cost \in 0..MaxCost : ledger' = ledger \/ ledger' = Entered(p0, o0, cost)
  <2>1. 0 \in 0..MaxCost
    BY CostsAreNat
  <2> QED BY <2>1 DEF Recorded
<1>4. cost \in Nat /\ cost <= MaxCost /\ MaxCost \in Nat
  BY CostsAreNat
<1>5. /\ DOMAIN ledger' = Vendors /\ \A q \in Vendors : ledger'[q] \in [OwnersOf(q) -> Nat]
      /\ \A q \in Vendors : q # p0 => ledger'[q] = ledger[q]
      /\ \A q \in Vendors : \A k \in OwnersOf(q) : ledger[q][k] \in Nat /\ ledger'[q][k] \in Nat
      /\ \/ ledger' = ledger
         \/ \E less \in Nat : \A k \in OwnersOf(p0) :
               ledger'[p0][k] + less = ledger[p0][k] + Paid(k, o0, cost)
  <2>1. CASE ledger' = ledger
    BY <1>1, <2>1 DEF MoneyInv
  <2>2. CASE ledger' = Entered(p0, o0, cost)
    <3>1. /\ DOMAIN ledger' = Vendors /\ \A q \in Vendors : ledger'[q] \in [OwnersOf(q) -> Nat]
          /\ \A q \in Vendors : q # p0 => ledger'[q] = ledger[q]
          /\ \E less \in Nat : \A k \in OwnersOf(p0) :
               ledger'[p0][k] + less = ledger[p0][k] + Paid(k, o0, cost)
      <4>1. PICK q0, k0, new : q0 \in Vendors /\ k0 \in OwnersOf(q0) /\ q0 = p0 /\ k0 = o0 /\ new = ledger'
        BY <1>1
      <4>2. MoneyInv /\ new = Entered(q0, k0, cost)
        BY <1>1, <2>2, <4>1
      <4>3. Raised(new, q0, k0, cost)
        BY <1>4, <4>1, <4>2, EnteredIs
      <4> HIDE DEF p0, o0
      <4> QED BY <4>1, <4>3 DEF Raised
    <3> QED BY <1>1, <3>1 DEF MoneyInv
  <2> QED BY <1>3, <2>1, <2>2
<1>6. MoneyInv'
  BY <1>1, <1>2, <1>5 DEF MoneyInv
<1>7. ASSUME NEW p \in Vendors, NEW o \in OwnersOf(p), NEW k \in OwnersOf(p), p = "anthropic" => k \in funded
      PROVE  ledger'[p][o] - ledger'[p][k] + Cardinality(On(p, o)') * MaxCost
                 <= (MostInFlight(p) + blind) * MaxCost
  <2>1. CallsInv /\ call' = [call EXCEPT ![d][w] = c]
    BY <1>1, <1>2
  <2>2. /\ ~InFlight(d, w) /\ ~(VendorOf(w) = p /\ c.own = o) => On(p, o)' = On(p, o)
        /\ c.st \notin {"sent", "again"} => On(p, o)' = On(p, o) \ {<<d, w>>}
        /\ <<d, w>> \in On(p, o) <=> InFlight(d, w) /\ VendorOf(w) = p /\ call[d][w].own = o
    BY <2>1, FlightMoves
  <2>3. On(p, o)' = On(p, o) \ {<<d, w>>} /\ (<<d, w>> \in On(p, o) <=> p = p0 /\ o = o0)
    BY <2>2
  <2>4. CASE p # p0 \/ ledger' = ledger
    <3>1. ledger'[p][o] = ledger[p][o] /\ ledger'[p][k] = ledger[p][k]
      BY <1>5, <2>4
    <3>2. ledger[p][o] - ledger[p][k] + Cardinality(On(p, o)) * MaxCost <= (MostInFlight(p) + blind) * MaxCost
      BY <1>1, <1>7 DEF LedgerInv
    <3>3. Cardinality(On(p, o)') \in Nat /\ Cardinality(On(p, o)') <= Cardinality(On(p, o))
      <4>1. IsFiniteSet(On(p, o)) /\ On(p, o)' \subseteq On(p, o)
        BY <2>3, FlightIsFinite
      <4>2. IsFiniteSet(On(p, o)') /\ Cardinality(On(p, o)') <= Cardinality(On(p, o))
        BY <4>1, FS_Subset
      <4> QED BY <4>2, FS_CardinalityType
    <3>4. /\ ledger[p][o] \in Nat /\ ledger[p][k] \in Nat /\ Cardinality(On(p, o)) \in Nat
          /\ Cardinality(On(p, o)) * MaxCost \in Nat /\ (MostInFlight(p) + blind) * MaxCost \in Nat
      BY <1>1, LedgerTypes
    <3>5. /\ Cardinality(On(p, o)') * MaxCost <= Cardinality(On(p, o)) * MaxCost
          /\ Cardinality(On(p, o)') * MaxCost \in Nat
      BY <3>3, <3>4, Times
    <3> QED BY <3>1, <3>2, <3>4, <3>5
  <2>5. CASE p = p0 /\ ledger' # ledger
    <3>1. PICK less \in Nat : /\ ledger'[p][o] + less = ledger[p][o] + Paid(o, o0, cost)
                              /\ ledger'[p][k] + less = ledger[p][k] + Paid(k, o0, cost)
      BY <1>5, <2>5
    <3>9. Paid(k, o0, cost) \in Nat /\ Paid(o, o0, cost) = IF o = o0 THEN cost ELSE 0
      BY <1>4 DEF Paid
    <3>2. ledger[p][o] - ledger[p][k] + Cardinality(On(p, o)) * MaxCost <= (MostInFlight(p) + blind) * MaxCost
      BY <1>1, <1>7 DEF LedgerInv
    <3>3. IsFiniteSet(On(p, o)) /\ Cardinality(On(p, o)) \in Nat
      BY FlightIsFinite
    <3>4. /\ ledger[p][o] \in Nat /\ ledger[p][k] \in Nat /\ ledger'[p][o] \in Nat /\ ledger'[p][k] \in Nat
          /\ Cardinality(On(p, o)) * MaxCost \in Nat /\ (MostInFlight(p) + blind) * MaxCost \in Nat
      BY <1>1, <1>5, LedgerTypes
    <3>5. CASE o = o0
      <4>1. <<d, w>> \in On(p, o)
        BY <2>3, <2>5, <3>5
      <4>2. Cardinality(On(p, o)') = Cardinality(On(p, o)) - 1
        BY <2>3, <3>3, <4>1, OneLess
      <4>3. Cardinality(On(p, o)') \in Nat
        <5>1. IsFiniteSet(On(p, o)')
          BY <2>3, <3>3, FS_Subset
        <5> QED BY <5>1, FS_CardinalityType
      <4>4. PICK n \in Nat : n = Cardinality(On(p, o)')
        BY <4>3
      <4>5. Cardinality(On(p, o)) = n + 1
        BY <3>3, <4>2, <4>4
      <4>6. Cardinality(On(p, o)) * MaxCost = n * MaxCost + MaxCost /\ n * MaxCost \in Nat
        BY <4>5, Times
      <4>7. Cardinality(On(p, o)') * MaxCost = n * MaxCost
        BY <4>4
      <4>8. PICK a \in Nat, b \in Nat, x \in Nat, r \in Nat, a1 \in Nat, b1 \in Nat, e \in Nat :
              /\ a = ledger[p][o] /\ b = ledger[p][k] /\ x = n * MaxCost /\ r = (MostInFlight(p) + blind) * MaxCost
              /\ a1 = ledger'[p][o] /\ b1 = ledger'[p][k] /\ e = Paid(k, o0, cost)
        BY <3>4, <3>9, <4>6
      <4>9. a - b + (x + MaxCost) <= r
        BY <3>2, <4>6, <4>8
      <4>10. a1 + less = a + cost /\ b1 + less = b + e
        BY <3>1, <3>5, <3>9, <4>8
      <4>11. a1 - b1 + x <= r
        BY <1>4, <4>9, <4>10
      <4> QED BY <4>7, <4>8, <4>11
    <3>6. CASE o # o0
      <4>1. On(p, o)' = On(p, o)
        BY <2>3, <3>6
      <4>2. PICK a \in Nat, b \in Nat, x \in Nat, r \in Nat, a1 \in Nat, b1 \in Nat, e \in Nat :
              /\ a = ledger[p][o] /\ b = ledger[p][k] /\ x = Cardinality(On(p, o)) * MaxCost
              /\ r = (MostInFlight(p) + blind) * MaxCost
              /\ a1 = ledger'[p][o] /\ b1 = ledger'[p][k] /\ e = Paid(k, o0, cost)
        BY <3>4, <3>9
      <4>3. a - b + x <= r
        BY <3>2, <4>2
      <4>4. a1 + less = a /\ b1 + less = b + e
        BY <3>1, <3>6, <3>9, <4>2
      <4>5. a1 - b1 + x <= r
        BY <4>3, <4>4
      <4> QED BY <4>1, <4>2, <4>5
    <3> QED BY <3>5, <3>6
  <2> QED BY <2>4, <2>5
<1>8. LedgerInv'
  BY <1>2, <1>7 DEF LedgerInv, MostInFlight
<1> QED BY <1>6, <1>8

\* A call that leaves on a key nobody who can pay is behind of, or without a
\* look at the ledger.
LEMMA LedgerAsked ==
    ASSUME DebateIInv, NEW d \in Debates, NEW w \in Writers, NEW c, Follows(d, w, c),
           c.st \in {"sent", "again"}, c.own \in OwnersOf(VendorOf(w)),
           UNCHANGED <<ledger, funded>>, MoneyInv',
           \/ blind' = blind + 1
           \/ /\ blind' = blind
              /\ \A k \in OwnersOf(VendorOf(w)) : (VendorOf(w) = "anthropic" => k \in funded) =>
                    ledger[VendorOf(w)][c.own] <= ledger[VendorOf(w)][k]
    PROVE  LedgerInv'
<1> DEFINE p0 == VendorOf(w)
           o0 == c.own
<1>1. p0 \in Vendors /\ CallsInv /\ MoneyInv /\ LedgerInv /\ FlowInv /\ SittingInv
  BY CallsTyped DEF DebateIInv
<1>2. funded' = funded /\ ledger' = ledger /\ call' = [call EXCEPT ![d][w] = c]
  BY DEF Follows
<1>3. CallsInv' /\ FlowInv' /\ SittingInv'
  BY <1>1, CallsFollow, FlowFollows, SittingFollows
<1>4. (CallsInv /\ FlowInv /\ SittingInv /\ MoneyInv =>
        \A p \in Vendors : \A o, k \in OwnersOf(p) : ledger[p][o] <= ledger[p][k] =>
            ledger[p][o] - ledger[p][k] + Cardinality(On(p, o)) * MaxCost
                <= (MostInFlight(p) + blind) * MaxCost)'
  BY BehindStaysBound, PTL
<1>5. ASSUME NEW p \in Vendors, NEW o \in OwnersOf(p), NEW k \in OwnersOf(p), ledger[p][o] <= ledger[p][k]
      PROVE  ledger'[p][o] - ledger'[p][k] + Cardinality(On(p, o)') * MaxCost
                 <= (MostInFlight(p) + blind') * MaxCost
  BY <1>1, <1>2, <1>3, <1>4, <1>5 DEF MostInFlight, OwnersOf
<1>6. ASSUME NEW p \in Vendors, NEW o \in OwnersOf(p), NEW k \in OwnersOf(p), p = "anthropic" => k \in funded
      PROVE  ledger'[p][o] - ledger'[p][k] + Cardinality(On(p, o)') * MaxCost
                 <= (MostInFlight(p) + blind') * MaxCost
  <2>1. ledger[p][o] - ledger[p][k] + Cardinality(On(p, o)) * MaxCost <= (MostInFlight(p) + blind) * MaxCost
    BY <1>1, <1>6 DEF LedgerInv
  <2>2. /\ ledger[p][o] \in Nat /\ ledger[p][k] \in Nat /\ blind \in Nat /\ MostInFlight(p) + blind \in Nat
        /\ Cardinality(On(p, o)) \in Nat /\ Cardinality(On(p, o)) * MaxCost \in Nat
        /\ (MostInFlight(p) + blind) * MaxCost \in Nat
    BY <1>1, LedgerTypes
  <2>3. /\ On(p, o)' \subseteq On(p, o) \cup {<<d, w>>}
        /\ <<d, w>> \in On(p, o)' => p = p0 /\ o = o0
    <3>1. CallsInv /\ call' = [call EXCEPT ![d][w] = c]
      BY <1>1, <1>2
    <3> QED BY <3>1, FlightGrows
  <2>4. IsFiniteSet(On(p, o)) /\ Cardinality(On(p, o)) \in Nat
    BY FlightIsFinite
  <2>5. PICK a \in Nat, b \in Nat, x \in Nat, r \in Nat :
          /\ a = ledger[p][o] /\ b = ledger[p][k] /\ x = Cardinality(On(p, o)) * MaxCost
          /\ r = (MostInFlight(p) + blind) * MaxCost
    BY <2>2
  <2>6. a - b + x <= r
    BY <2>1, <2>5
  <2>7. CASE blind' = blind /\ p = p0 /\ o = o0
    <3>1. ledger[p][o] <= ledger[p][k]
      <4>1. \A m \in OwnersOf(p) : (p = "anthropic" => m \in funded) => ledger[p][o] <= ledger[p][m]
        BY <2>2, <2>7
      <4> QED BY <1>6, <4>1
    <3> QED BY <1>5, <3>1
  <2>8. CASE blind' = blind /\ ~(p = p0 /\ o = o0)
    <3>1. On(p, o)' \subseteq On(p, o)
      BY <2>3, <2>8
    <3>2. IsFiniteSet(On(p, o)') /\ Cardinality(On(p, o)') <= Cardinality(On(p, o))
          /\ Cardinality(On(p, o)') \in Nat
      BY <2>4, <3>1, FS_Subset, FS_CardinalityType
    <3>3. PICK y \in Nat : y = Cardinality(On(p, o)') * MaxCost /\ y <= x
      BY <2>2, <2>5, <3>2, Times
    <3>4. a - b + y <= r
      BY <2>6, <3>3
    <3> QED BY <1>2, <2>5, <2>8, <3>3, <3>4
  <2>9. CASE blind' = blind + 1
    <3>1. Cardinality(On(p, o)') <= Cardinality(On(p, o)) + 1 /\ Cardinality(On(p, o)') \in Nat
      <4>1. /\ IsFiniteSet(On(p, o) \cup {<<d, w>>})
            /\ \/ Cardinality(On(p, o) \cup {<<d, w>>}) = Cardinality(On(p, o)) + 1
               \/ Cardinality(On(p, o) \cup {<<d, w>>}) = Cardinality(On(p, o))
        <5>1. CASE <<d, w>> \in On(p, o)
          <6>1. On(p, o) \cup {<<d, w>>} = On(p, o)
            BY <5>1
          <6> QED BY <2>4, <6>1
        <5>2. CASE <<d, w>> \notin On(p, o)
          BY <2>4, <5>2, FS_AddElement
        <5> QED BY <5>1, <5>2
      <4>2. IsFiniteSet(On(p, o)') /\ Cardinality(On(p, o)') <= Cardinality(On(p, o) \cup {<<d, w>>})
        BY <2>3, <4>1, FS_Subset
      <4>3. Cardinality(On(p, o)') \in Nat /\ Cardinality(On(p, o) \cup {<<d, w>>}) \in Nat
        BY <4>1, <4>2, FS_CardinalityType
      <4>4. PICK n \in Nat, g \in Nat, h \in Nat :
              /\ n = Cardinality(On(p, o)) /\ g = Cardinality(On(p, o) \cup {<<d, w>>})
              /\ h = Cardinality(On(p, o)')
        BY <2>4, <4>3
      <4>5. h <= g /\ (g = n + 1 \/ g = n)
        BY <4>1, <4>2, <4>4
      <4>6. h <= n + 1
        BY <4>5
      <4>7. Cardinality(On(p, o)') <= Cardinality(On(p, o)) + 1
        BY <4>4, <4>6
      <4> QED BY <4>3, <4>7
    <3>2. Cardinality(On(p, o)) + 1 \in Nat /\ (Cardinality(On(p, o)) + 1) * MaxCost = x + MaxCost
      <4>1. PICK n \in Nat : n = Cardinality(On(p, o))
        BY <2>4
      <4>2. (n + 1) * MaxCost = n * MaxCost + MaxCost
        BY Times
      <4> QED BY <2>5, <4>1, <4>2
    <3>3. PICK y \in Nat : y = Cardinality(On(p, o)') * MaxCost /\ y <= x + MaxCost
      BY <3>1, <3>2, Times
    <3>4. MostInFlight(p) + blind' = (MostInFlight(p) + blind) + 1
      BY <2>2, <2>9, MostIsNat
    <3>5. (MostInFlight(p) + blind') * MaxCost = r + MaxCost /\ MaxCost \in Nat
      BY <2>2, <2>5, <3>4, Times
    <3>6. a - b + y <= r + MaxCost
      BY <2>6, <3>3, <3>5
    <3> QED BY <1>2, <2>5, <3>3, <3>5, <3>6
  <2> QED BY <2>7, <2>8, <2>9
<1>7. LedgerInv'
  BY <1>2, <1>6 DEF LedgerInv, MostInFlight
<1> QED BY <1>7
-----------------------------------------------------------------------------
(* A call leaves and comes back                                            *)

LEMMA FollowsAll ==
    ASSUME DebateIInv, NEW d \in Debates, NEW w \in Writers, NEW c, Follows(d, w, c),
           MoneyInv', LedgerInv'
    PROVE  DebateIInv'
<1>1. CallsInv /\ FlowInv /\ SittingInv
  BY DEF DebateIInv
<1>2. CallsInv' /\ FlowInv' /\ SittingInv'
  BY <1>1, CallsFollow, FlowFollows, SittingFollows
<1> QED BY <1>2 DEF DebateIInv

LEMMA FaultIs == faults \in 0..MaxFaults /\ Fault => faults' \in 0..MaxFaults
  BY SeatingOfVendors DEF Fault

LEMMA KeysOfCalls ==
    ASSUME CallsInv, NEW d \in Debates, NEW w \in Writers
    PROVE  /\ call[d][w].st # "none" => Keys[VendorOf(w)] # <<>>
           /\ InFlight(d, w) => call[d][w].own \in OwnersOf(VendorOf(w))
           /\ InFlight(d, w) => call[d][w].out # "limit" \/ funded = {}
           /\ InFlight(d, w) => Seated(call[d][w])
<1>1. CallOK(d, w)
  BY CallsTyped
<1> QED BY <1>1 DEF CallOK, CallOf, InFlight, Seated

LEMMA AskFollows ==
    ASSUME CallsInv, NEW d \in Debates, NEW w \in Writers, NEW k, k \in OwnersOf(VendorOf(w)),
           call[d][w].st = "ready", Due(d, w) \/ MaySit(d, w),
           NEW c, c = [call[d][w] EXCEPT !.st = "sent", !.own = k],
           call' = [call EXCEPT ![d][w] = c],
           UNCHANGED <<stage, round, seats, decision, filed, stored, funded, written>>
    PROVE  Follows(d, w, c)
<1>1. PICK c0 : c0 = call[d][w]
  OBVIOUS
<1>2. c = [c0 EXCEPT !.st = "sent", !.own = k]
  BY <1>1
<1>3. /\ DOMAIN call = Debates /\ DOMAIN call[d] = Writers /\ CallOK(d, w) /\ VendorOf(w) \in Vendors
  BY CallsTyped
<1>4. c0 \in CallOf(w) /\ (c0.out = "limit" => funded = {})
  BY <1>1, <1>3 DEF CallOK
<1>5. c \in CallOf(w) /\ c.st = "sent" /\ c.own = k /\ c.out = c0.out /\ c.try = c0.try
  BY <1>2, <1>4 DEF CallOf
<1>6. call' = [call EXCEPT ![d][w] = c]
  OBVIOUS
<1>7. k # None
  BY <1>3, KeysAreTwo
<1>8. w \in Jurors /\ Seated(c) =>
          Seated(call[d][w]) \/ Cardinality(Sitting(d, VendorOf(w))) < Seating[VendorOf(w)]
  <2> SUFFICES ASSUME w \in Jurors
               PROVE  Seated(call[d][w]) \/ Cardinality(Sitting(d, VendorOf(w))) < Seating[VendorOf(w)]
    OBVIOUS
  <2>1. CASE Due(d, w)
    BY <2>1, WritersSplit DEF Due, Seated
  <2>2. CASE MaySit(d, w)
    <3>1. {s \in {x \in seats[d] : x[2] = VendorOf(w)} : Seated(call[d][s])} = Sitting(d, VendorOf(w))
      BY DEF Sitting
    <3>2. Cardinality({s \in {x \in seats[d] : x[2] = VendorOf(w)} : Seated(call[d][s])}) < Seating[VendorOf(w)]
      BY <2>2 DEF MaySit
    <3> QED BY <3>1, <3>2
  <2> QED BY <2>1, <2>2
<1>9. UNCHANGED <<stage, round, seats, decision, filed, stored, funded, written>>
  OBVIOUS
<1>10. Follows(d, w, c)
  BY <1>4, <1>5, <1>6, <1>7, <1>8, <1>9 DEF Follows
<1> QED BY <1>10

\* What the engine makes of a failed attempt is a call that is not in flight.
LEMMA LapseIs ==
    ASSUME NEW w \in Writers, NEW c \in CallOf(w), NEW why \in {"limit", "error"}, NEW l, l = Lapse(w, c, why)
    PROVE  /\ l \in CallOf(w) /\ l.st \in {"ready", "fail"}
           /\ l.out = "limit" => why = "limit" \/ c.out = "limit"
<1>1. CASE w \notin Researchers /\ why # "limit" /\ c.try = 1
  <2>1. l = [c EXCEPT !.st = "ready", !.own = None, !.try = 2]
    BY <1>1 DEF Lapse
  <2> QED BY <2>1 DEF CallOf
<1>2. CASE ~(w \notin Researchers /\ why # "limit" /\ c.try = 1)
  <2>1. l = [st |-> "fail", own |-> None, try |-> 1, out |-> why, seen |-> None]
    BY <1>2 DEF Lapse, NoCall, NewCall
  <2> QED BY <2>1, NoneIsNothing DEF CallOf, Outs
<1> QED BY <1>1, <1>2

\* A call that comes back, with an answer or without one.
LEMMA BackFollows ==
    ASSUME CallsInv, NEW d \in Debates, NEW w \in Writers, InFlight(d, w), NEW c,
           call' = [call EXCEPT ![d][w] = c], c \in CallOf(w), c.st \in {"ready", "done", "fail"},
           c.st = "done" => c.out \in (IF w \in Researchers THEN {"text"} ELSE Votes),
           c.out = "limit" => funded = {},
           \/ written' = written
           \/ stage[d] = "research" /\ written' = [written EXCEPT ![d] = @ \cup {w[2]}] /\ w \in Researchers,
           UNCHANGED <<stage, round, seats, decision, filed, stored, funded>>
    PROVE  Follows(d, w, c) /\ c.st \notin {"sent", "again"}
<1>1. Seated(call[d][w])
  BY KeysOfCalls
<1> QED BY <1>1 DEF Follows, InFlight

\* An answer, whole or not, on the ledger or not.
LEMMA Answers ==
    ASSUME DebateIInv, NEW d \in Debates, NEW w \in Writers, InFlight(d, w), NEW c,
           call' = [call EXCEPT ![d][w] = c], c \in CallOf(w), c.st \in {"ready", "done", "fail"},
           c.st = "done" => c.out \in (IF w \in Researchers THEN {"text"} ELSE Votes),
           c.out = "limit" => funded = {},
           \/ written' = written
           \/ stage[d] = "research" /\ written' = [written EXCEPT ![d] = @ \cup {w[2]}] /\ w \in Researchers,
           UNCHANGED <<stage, round, seats, decision, filed, stored, funded, benched, blind>>,
           UNCHANGED faults \/ Fault,
           ledger' = ledger \/ Recorded(VendorOf(w), call[d][w].own)
    PROVE  DebateIInv'
<1>1. CallsInv /\ MoneyInv
  BY DEF DebateIInv
<1>2. Follows(d, w, c) /\ c.st \notin {"sent", "again"}
  BY <1>1, BackFollows
<1>3. faults' \in 0..MaxFaults
  BY <1>1, FaultIs DEF MoneyInv
<1>4. benched' = benched /\ blind' = blind
  OBVIOUS
<1>5. MoneyInv' /\ LedgerInv'
  BY <1>2, <1>3, <1>4, LedgerAnswered
<1> QED BY <1>2, <1>5, FollowsAll

LEMMA AskKeeps ==
    ASSUME DebateIInv, NEW d \in Debates, NEW w \in Writers, Ask(d, w)
    PROVE  DebateIInv'
<1> DEFINE p == VendorOf(w)
<1>1. CallsInv /\ MoneyInv
  BY DEF DebateIInv
<1>2. call[d][w].st = "ready" /\ (Due(d, w) \/ MaySit(d, w)) /\ ~InFlight(d, w)
  BY DEF Ask, InFlight
<1>3. UNCHANGED <<flow, records, funded>> /\ UNCHANGED <<benched, ledger, funded>>
  BY DEF Ask
<1>4. p \in Vendors /\ Keys[p] # <<>> /\ ledger[p] \in [OwnersOf(p) -> Nat]
  BY <1>1, <1>2, CallsTyped, KeysOfCalls DEF MoneyInv
<1>5. PICK spend \in [OwnersOf(p) -> Nat] :
         /\ call' = [call EXCEPT ![d][w].st = "sent", ![d][w].own = KeyFor(p, spend)]
         /\ \/ spend = ledger[p] /\ UNCHANGED <<blind, faults>>
            \/ Fault /\ blind' = blind + 1
  <2>1. CASE /\ call' = [call EXCEPT ![d][w].st = "sent", ![d][w].own = KeyFor(p, ledger[p])]
             /\ UNCHANGED <<blind, faults>>
    BY <1>4, <2>1
  <2>2. CASE /\ Fault /\ blind' = blind + 1
             /\ call' = [call EXCEPT ![d][w].st = "sent",
                                     ![d][w].own = KeyFor(p, [o \in ToSet(Keys[p]) |-> 0])]
    <3>1. [o \in ToSet(Keys[p]) |-> 0] \in [OwnersOf(p) -> Nat]
      BY DEF OwnersOf
    <3> QED BY <2>2, <3>1
  <2> QED BY <2>1, <2>2 DEF Ask
<1>6. PICK k : k = KeyFor(p, spend)
  OBVIOUS
<1>7. k \in OwnersOf(p) /\ \A m \in OwnersOf(p) : (p = "anthropic" => m \in funded) => spend[k] <= spend[m]
  BY <1>1, <1>4, <1>6, KeyForIs DEF MoneyInv
<1>8. PICK c : c = [call[d][w] EXCEPT !.st = "sent", !.own = k]
  OBVIOUS
<1>9. Follows(d, w, c) /\ c.st = "sent" /\ c.own = k
  <2>1. k \in OwnersOf(VendorOf(w))
    BY <1>7
  <2>2. call[d][w].st = "ready" /\ (Due(d, w) \/ MaySit(d, w))
    BY <1>2
  <2>3. UNCHANGED <<stage, round, seats, decision, filed, stored, funded, written>>
    BY <1>3 DEF flow, records
  <2>4. c = [call[d][w] EXCEPT !.st = "sent", !.own = k]
    BY <1>8
  <2>5. call' = [call EXCEPT ![d][w] = c]
    <3>1. DOMAIN call = Debates /\ DOMAIN call[d] = Writers
      BY <1>1 DEF CallsInv
    <3>2. call' = [call EXCEPT ![d][w].st = "sent", ![d][w].own = k]
      BY <1>5, <1>6
    <3> QED BY <2>4, <3>1, <3>2
  <2>6. CallsInv
    BY <1>1
  <2>7. c.st = "sent" /\ c.own = k
    <3>1. call[d][w] \in CallOf(w)
      BY <2>6, CallsTyped
    <3> QED BY <2>4, <3>1 DEF CallOf
  <2> HIDE DEF p
  <2>8. Follows(d, w, c)
    BY <2>1, <2>2, <2>3, <2>4, <2>5, <2>6, AskFollows
  <2> QED BY <2>7, <2>8
<1>10. c.own \in OwnersOf(VendorOf(w))
  BY <1>7, <1>9
<1>11. \/ blind' = blind + 1
       \/ /\ blind' = blind
          /\ \A m \in OwnersOf(VendorOf(w)) : (VendorOf(w) = "anthropic" => m \in funded) =>
                ledger[VendorOf(w)][c.own] <= ledger[VendorOf(w)][m]
  BY <1>5, <1>7, <1>9
<1>12. MoneyInv'
  <2>1. faults' \in 0..MaxFaults /\ blind' \in Nat
    BY <1>1, <1>5, FaultIs DEF MoneyInv
  <2> QED BY <1>1, <1>3, <2>1 DEF MoneyInv
<1>13. LedgerInv'
  BY <1>3, <1>9, <1>10, <1>11, <1>12, LedgerAsked
<1> QED BY <1>9, <1>12, <1>13, FollowsAll

LEMMA NoCallIs == NoCall = [st |-> "none", own |-> None, try |-> 1, out |-> None, seen |-> None]
  BY DEF NoCall, NewCall

LEMMA DoneCall ==
    ASSUME NEW w \in Writers, NEW out \in {"text"} \cup Votes,
           NEW c, c = [NoCall EXCEPT !.st = "done", !.out = out]
    PROVE  c \in CallOf(w) /\ c.st = "done" /\ c.out = out /\ c.out # "limit"
<1>1. NoCall \in CallOf(w)
  BY NoCallIs DEF CallOf, Outs
<1>2. out \in Outs /\ out # "limit"
  BY DEF Outs, Votes
<1> QED BY <1>1, <1>2 DEF CallOf

LEMMA ServedKeeps ==
    ASSUME DebateIInv, NEW d \in Debates, NEW w \in Writers, Served(d, w)
    PROVE  DebateIInv'
<1>1. CallsInv /\ InFlight(d, w)
  BY DEF DebateIInv, Served
<1>2. PICK out \in IF w \in Researchers THEN {"text"} ELSE Votes :
         call' = [call EXCEPT ![d][w] = [NoCall EXCEPT !.st = "done", !.out = out]]
  BY DEF Served
<1>3. PICK c : c = [NoCall EXCEPT !.st = "done", !.out = out]
  OBVIOUS
<1>5. call' = [call EXCEPT ![d][w] = c]
  BY <1>2, <1>3
<1>6. /\ c \in CallOf(w) /\ c.st = "done" /\ c.out = out /\ c.out # "limit"
      /\ c.out \in (IF w \in Researchers THEN {"text"} ELSE Votes)
  BY <1>3, DoneCall
<1>7. \/ written' = written
      \/ stage[d] = "research" /\ written' = [written EXCEPT ![d] = @ \cup {w[2]}] /\ w \in Researchers
  BY DEF Served
<1>8. UNCHANGED <<stage, round, seats, decision, filed, stored, funded, benched, blind>>
  BY DEF Served, records
<1>9. /\ UNCHANGED faults \/ Fault
      /\ ledger' = ledger \/ Recorded(VendorOf(w), call[d][w].own)
  BY DEF Served, Book
<1> QED BY <1>1, <1>5, <1>6, <1>7, <1>8, <1>9, Answers

LEMMA BlankKeeps ==
    ASSUME DebateIInv, NEW d \in Debates, NEW w \in Writers, Blank(d, w)
    PROVE  DebateIInv'
<1>1. CallsInv /\ InFlight(d, w) /\ w \in Researchers /\ VendorOf(w) = "anthropic"
  BY WritersSplit DEF DebateIInv, Blank
<1>2. PICK c : c = [NoCall EXCEPT !.st = "done", !.out = "text"]
  OBVIOUS
<1>4. call' = [call EXCEPT ![d][w] = c]
  BY <1>2 DEF Blank
<1>5. /\ c \in CallOf(w) /\ c.st = "done" /\ c.out = "text" /\ c.out # "limit"
      /\ c.out \in (IF w \in Researchers THEN {"text"} ELSE Votes)
  <2>1. "text" \in {"text"} \cup Votes
    OBVIOUS
  <2>2. c \in CallOf(w) /\ c.st = "done" /\ c.out = "text" /\ c.out # "limit"
    BY <1>2, <2>1, DoneCall
  <2> QED BY <1>1, <2>2
<1>6. UNCHANGED <<stage, round, seats, decision, filed, stored, funded, benched, blind>> /\ written' = written
  BY DEF Blank, flow, records
<1>7. Fault /\ Recorded(VendorOf(w), call[d][w].own)
  BY <1>1 DEF Blank
<1> QED BY <1>1, <1>4, <1>5, <1>6, <1>7, Answers

\* What Broke and Spoilt have in common.
LEMMA ErrorKeeps ==
    ASSUME DebateIInv, NEW d \in Debates, NEW w \in Writers, InFlight(d, w),
           NEW s \in {call[d][w].seen, None, call[d][w].own},
           call' = [call EXCEPT ![d][w] = Lapse(w, [call[d][w] EXCEPT !.seen = s], "error")],
           UNCHANGED <<flow, records, funded, benched, blind>>, Fault,
           ledger' = ledger \/ Recorded(VendorOf(w), call[d][w].own)
    PROVE  DebateIInv'
<1>1. CallsInv
  BY DEF DebateIInv
<1>2. CallOK(d, w)
  BY <1>1, CallsTyped
<1>3. PICK c0 : c0 = [call[d][w] EXCEPT !.seen = s]
  OBVIOUS
<1>4. c0 \in CallOf(w) /\ (c0.out = "limit" => funded = {})
  BY <1>2, <1>3 DEF CallOK, CallOf
<1>5. PICK c : c = Lapse(w, c0, "error")
  OBVIOUS
<1>6. c \in CallOf(w) /\ c.st \in {"ready", "fail"} /\ (c.out = "limit" => funded = {})
  BY <1>4, <1>5, LapseIs
<1>7. call' = [call EXCEPT ![d][w] = c]
  BY <1>3, <1>5
<1>8. c.st \in {"ready", "done", "fail"} /\ (c.st = "done" => c.out \in (IF w \in Researchers THEN {"text"} ELSE Votes))
  BY <1>6
<1>9. UNCHANGED <<stage, round, seats, decision, filed, stored, funded, benched, blind>> /\ written' = written
  BY DEF flow, records
<1> QED BY <1>6, <1>7, <1>8, <1>9, Answers

LEMMA SpoiltKeeps ==
    ASSUME DebateIInv, NEW d \in Debates, NEW w \in Writers, Spoilt(d, w)
    PROVE  DebateIInv'
<1>1. CallsInv /\ InFlight(d, w) /\ Fault /\ UNCHANGED <<flow, records, funded, benched, blind>>
  BY DEF DebateIInv, Spoilt
<1>2. call[d][w] \in CallOf(w)
  BY <1>1, CallsTyped
<1>3. call[d][w] = [call[d][w] EXCEPT !.seen = call[d][w].seen]
  BY <1>2 DEF CallOf
<1>4. CASE /\ Recorded(VendorOf(w), call[d][w].own)
           /\ \E s \in {None, call[d][w].own} :
                call' = [call EXCEPT ![d][w] = Lapse(w, [call[d][w] EXCEPT !.seen = s], "error")]
  <2>1. PICK s \in {None, call[d][w].own} :
                call' = [call EXCEPT ![d][w] = Lapse(w, [call[d][w] EXCEPT !.seen = s], "error")]
    BY <1>4
  <2>2. s \in {call[d][w].seen, None, call[d][w].own}
    OBVIOUS
  <2> QED BY <1>1, <1>4, <2>1, <2>2, ErrorKeeps
<1>5. CASE /\ VendorOf(w) = "gemini" /\ UNCHANGED ledger
           /\ call' = [call EXCEPT ![d][w] = Lapse(w, call[d][w], "error")]
  <2>1. call' = [call EXCEPT ![d][w] = Lapse(w, [call[d][w] EXCEPT !.seen = call[d][w].seen], "error")]
    BY <1>3, <1>5
  <2>2. ledger' = ledger
    BY <1>5
  <2> QED BY <1>1, <2>1, <2>2, ErrorKeeps
<1> QED BY <1>4, <1>5 DEF Spoilt

LEMMA BrokeKeeps ==
    ASSUME DebateIInv, NEW d \in Debates, NEW w \in Writers, Broke(d, w)
    PROVE  DebateIInv'
<1>1. /\ CallsInv /\ InFlight(d, w) /\ Fault /\ UNCHANGED <<flow, records, funded, benched, blind>>
      /\ ledger' = ledger
  BY DEF DebateIInv, Broke, money
<1>2. call[d][w] \in CallOf(w) /\ DOMAIN call = Debates /\ DOMAIN call[d] = Writers
  BY <1>1, CallsTyped
<1>3. call[d][w] = [call[d][w] EXCEPT !.seen = call[d][w].seen]
  BY <1>2 DEF CallOf
<1>4. call' = [call EXCEPT ![d][w] = Lapse(w, call[d][w], "error")]
  BY <1>2 DEF Broke
<1>5. call' = [call EXCEPT ![d][w] = Lapse(w, [call[d][w] EXCEPT !.seen = call[d][w].seen], "error")]
  BY <1>3, <1>4
<1> QED BY <1>1, <1>5, ErrorKeeps

\* A call whose key is out of budget: another key takes it, or there is none.
LEMMA RefusedKeeps ==
    ASSUME DebateIInv, NEW d \in Debates, NEW w \in Writers, Refused(d, w)
    PROVE  DebateIInv'
<1>1. CallsInv /\ MoneyInv /\ LedgerInv /\ InFlight(d, w) /\ VendorOf(w) = "anthropic"
  BY DEF DebateIInv, Refused
<1>2. PICK c0 : c0 = call[d][w]
  OBVIOUS
<1>3. PICK alt : alt = Alternative(c0.own, benched \cup {c0.own})
  OBVIOUS
<1>4. PICK last \in BOOLEAN : last <=> c0.st = "again" \/ alt = None
  OBVIOUS
<1>5. /\ c0.own \notin funded
      /\ benched' = benched \cup (IF c0.st = "sent" THEN {c0.own} ELSE {})
                            \cup (IF last /\ w \notin Researchers /\ c0.seen # None THEN {c0.seen} ELSE {})
      /\ call' = [call EXCEPT ![d][w] =
                    IF last THEN Lapse(w, c0, "limit") ELSE [c0 EXCEPT !.st = "again", !.own = alt]]
  BY <1>2, <1>3, <1>4 DEF Refused, Bench
<1>6. UNCHANGED <<flow, records, funded, ledger, blind, faults>>
  BY DEF Refused
<1>7. /\ c0 \in CallOf(w) /\ c0.own \in Owners /\ (c0.out = "limit" => funded = {})
      /\ (c0.st = "again" => funded \subseteq {c0.own}) /\ (c0.seen # None => c0.seen \in Owners)
      /\ c0.st \in {"sent", "again"}
  BY <1>1, <1>2, CallsTyped, KeysAreTwo DEF CallOK, CallOf, InFlight
<1>8. funded \subseteq Owners /\ benched \subseteq Owners \ funded
  BY <1>1 DEF MoneyInv
<1>9. /\ alt = None => Owners \subseteq benched \cup {c0.own}
      /\ alt # None => alt \in Owners \ (benched \cup {c0.own})
  <2>1. /\ Alternative(c0.own, benched \cup {c0.own}) = None
              => Owners \subseteq (benched \cup {c0.own}) \cup {c0.own}
        /\ Alternative(c0.own, benched \cup {c0.own}) # None
              => Alternative(c0.own, benched \cup {c0.own}) \in Owners \ ((benched \cup {c0.own}) \cup {c0.own})
    BY AlternativeIs
  <2> QED BY <1>3, <2>1
<1>10. last => funded = {}
  BY <1>4, <1>5, <1>7, <1>8, <1>9
<1>11. ~last => alt \in Owners /\ funded \subseteq {alt} /\ alt # None
  <2>1. ~last => alt \in Owners /\ c0.own \in Owners /\ alt # c0.own /\ alt # None
    BY <1>4, <1>7, <1>9
  <2>2. ~last => Owners \subseteq {alt, c0.own}
    BY <2>1, OwnersAreTwo
  <2> QED BY <1>5, <1>8, <2>1, <2>2
<1>12. PICK c : c = IF last THEN Lapse(w, c0, "limit") ELSE [c0 EXCEPT !.st = "again", !.own = alt]
  OBVIOUS
<1>13. Follows(d, w, c)
  <2>1. call' = [call EXCEPT ![d][w] = c]
    BY <1>5, <1>12
  <2>2. UNCHANGED <<stage, round, seats, decision, filed, stored, funded, written>>
    BY <1>6 DEF flow, records
  <2>3. CASE last
    <3>1. c = Lapse(w, c0, "limit")
      BY <1>12, <2>3
    <3>2. c \in CallOf(w) /\ c.st \in {"ready", "fail"} /\ (c.out = "limit" => funded = {})
      BY <1>7, <1>10, <2>3, <3>1, LapseIs
    <3>3. /\ c.st \in {"ready", "done", "fail"}
          /\ (c.st = "done" => c.out \in (IF w \in Researchers THEN {"text"} ELSE Votes))
      BY <3>2
    <3> QED BY <1>1, <2>1, <2>2, <3>2, <3>3, BackFollows
  <2>4. CASE ~last
    <3>1. c = [c0 EXCEPT !.st = "again", !.own = alt]
      BY <1>12, <2>4
    <3>2. alt \in OwnersOf(VendorOf(w))
      BY <1>1, <1>11, <2>4, KeysAreTwo DEF Vendors
    <3>3. c \in CallOf(w) /\ c.st = "again" /\ c.own = alt /\ c.out = c0.out
      BY <1>7, <3>1, <3>2 DEF CallOf
    <3>4. Seated(call[d][w]) /\ call[d][w].st \in {"ready", "sent", "again"}
      BY <1>1, KeysOfCalls DEF InFlight
    <3> QED BY <1>1, <1>7, <1>11, <2>1, <2>2, <2>4, <3>3, <3>4 DEF Follows
  <2> QED BY <2>3, <2>4
<1>14. MoneyInv'
  <2>1. benched' \subseteq Owners \ funded
    BY <1>5, <1>7, <1>8, <1>10
  <2> QED BY <1>1, <1>6, <2>1 DEF MoneyInv
<1>15. LedgerInv'
  <2>1. CASE last
    <3>1. c = Lapse(w, c0, "limit")
      BY <1>12, <2>1
    <3>2. c.st \notin {"sent", "again"}
      BY <1>7, <1>10, <2>1, <3>1, LapseIs
    <3>3. ASSUME NEW p \in Vendors, NEW o \in OwnersOf(p) PROVE On(p, o)' \subseteq On(p, o)
      <4>1. CallsInv /\ call' = [call EXCEPT ![d][w] = c]
        BY <1>1, <1>13 DEF Follows
      <4> QED BY <3>2, <4>1, FlightShrinks
    <3>4. ledger' = ledger /\ blind' = blind /\ funded' = funded
      BY <1>6
    <3> QED BY <1>1, <3>3, <3>4, FewerStaysBound DEF LedgerInv, MostInFlight
  <2>2. CASE ~last
    <3>1. c = [c0 EXCEPT !.st = "again", !.own = alt]
      BY <1>12, <2>2
    <3>2. c.st = "again" /\ c.own = alt
      BY <1>7, <3>1 DEF CallOf
    <3>3. c.own \in OwnersOf(VendorOf(w)) /\ OwnersOf(VendorOf(w)) = Owners
      BY <1>1, <1>11, <2>2, <3>2, KeysAreTwo DEF Vendors
    <3>4. \A k \in OwnersOf(VendorOf(w)) : (VendorOf(w) = "anthropic" => k \in funded) =>
             ledger[VendorOf(w)][c.own] <= ledger[VendorOf(w)][k]
      <4>1. \A k \in funded : k = c.own
        BY <1>11, <2>2, <3>2
      <4>2. VendorOf(w) \in Vendors /\ ledger[VendorOf(w)][c.own] \in Nat
        BY <1>1, <3>3 DEF MoneyInv, Vendors
      <4> QED BY <1>1, <4>1, <4>2
    <3> QED BY <1>6, <1>13, <1>14, <3>2, <3>3, <3>4, LedgerAsked
  <2> QED BY <2>1, <2>2
<1> QED BY <1>13, <1>14, <1>15, FollowsAll

LEMMA BudgetsKeep ==
    ASSUME DebateIInv, NEW o \in Owners, RunsOut(o) \/ BenchLapses(o)
    PROVE  DebateIInv'
<1>1. /\ CallsInv /\ FlowInv /\ MoneyInv /\ SittingInv
      /\ UNCHANGED <<stage, round, written, seats, decision, call, filed, stored, ledger, blind>>
      /\ funded' \subseteq funded /\ benched' \subseteq benched
      /\ faults' \in 0..MaxFaults
  <2>1. CallsInv /\ FlowInv /\ MoneyInv /\ SittingInv
    BY DEF DebateIInv
  <2>2. funded \subseteq Owners /\ benched \subseteq Owners \ funded /\ faults \in 0..MaxFaults
    BY <2>1 DEF MoneyInv
  <2>3. CASE RunsOut(o)
    <3>1. faults' \in 0..MaxFaults
      BY <2>2, <2>3, FaultIs DEF RunsOut
    <3> QED BY <2>1, <2>2, <2>3, <3>1 DEF RunsOut, flow, records
  <2>4. CASE BenchLapses(o)
    <3>1. faults' \in 0..MaxFaults
      BY <2>2, <2>4, FaultIs DEF BenchLapses
    <3> QED BY <2>1, <2>2, <2>4, <3>1 DEF BenchLapses, flow, records
  <2> QED BY <2>3, <2>4
<1>2. CallsInv'
  BY <1>1 DEF CallsInv, CallOK
<1>3. MoneyInv'
  <2>1. CASE RunsOut(o)
    BY <1>1, <2>1 DEF MoneyInv, RunsOut
  <2>2. CASE BenchLapses(o)
    BY <1>1, <2>2 DEF MoneyInv, BenchLapses
  <2> QED BY <2>1, <2>2
<1>4. SittingInv'
  BY <1>1 DEF SittingInv, Sitting
<1>5. LedgerInv'
  <2>1. \A p, q : On(p, q)' = On(p, q)
    BY <1>1 DEF On, Flight, InFlight
  <2>2. LedgerInv /\ ledger' = ledger /\ blind' = blind /\ funded' \subseteq funded
    BY <1>1 DEF DebateIInv
  <2> QED BY <2>1, <2>2 DEF LedgerInv, MostInFlight
<1>6. FlowInv'
  <2>1. ASSUME NEW e \in Debates PROVE StageInv(e)'
    <3>1. StageInv(e)
      BY <1>1 DEF FlowInv
    <3> QED BY <1>1, <3>1, StageStands DEF StageInv
  <2> QED BY <1>1, <2>1 DEF FlowInv
<1> QED BY <1>2, <1>3, <1>4, <1>5, <1>6 DEF DebateIInv
-----------------------------------------------------------------------------
(* The coroutine of a debate                                               *)

\* Where only what becomes of the debate changes.
LEMMA Untouched ==
    ASSUME DebateIInv, call' = call, seats' = seats, UNCHANGED money, UNCHANGED faults \/ Fault
    PROVE  CallsInv' /\ MoneyInv' /\ SittingInv' /\ LedgerInv'
<1>1. CallsInv /\ MoneyInv /\ SittingInv /\ LedgerInv
  BY DEF DebateIInv
<1>2. funded' = funded /\ benched' = benched /\ ledger' = ledger /\ blind' = blind
  BY DEF money
<1>3. CallsInv'
  BY <1>1, <1>2 DEF CallsInv, CallOK
<1>4. MoneyInv'
  <2>1. faults' \in 0..MaxFaults
    BY <1>1, FaultIs DEF MoneyInv
  <2> QED BY <1>1, <1>2, <2>1 DEF MoneyInv
<1>5. SittingInv'
  BY <1>1 DEF SittingInv, Sitting
<1>6. LedgerInv'
  BY <1>1, <1>2 DEF LedgerInv, On, Flight, InFlight, MostInFlight
<1> QED BY <1>3, <1>4, <1>5, <1>6

LEMMA OthersStand ==
    ASSUME DebateIInv, NEW d \in Debates, call' = call, seats' = seats, round' = round, written' = written,
           NEW s \in {"jury", "filing", "storing", "done", "error", "gone"}, stage' = [stage EXCEPT ![d] = s],
           decision' \in [Debates -> Votes \cup {"ESCALATED", None}],
           \A e \in Debates : e # d => decision'[e] = decision[e],
           DOMAIN stored' = Debates, \A e \in Debates : e # d => stored'[e] = stored[e],
           filed' \in {filed, filed \cup {d}}, StageInv(d)'
    PROVE  FlowInv'
<1>1. FlowInv /\ CallsInv
  BY DEF DebateIInv
<1>2. ASSUME NEW e \in Debates PROVE StageInv(e)'
  <2>1. StageInv(e)
    BY <1>1 DEF FlowInv
  <2>2. CASE e # d
    <3>1. /\ seats'[e] = seats[e] /\ decision'[e] = decision[e] /\ stored'[e] = stored[e]
          /\ stage'[e] = stage[e] /\ filed \subseteq filed' /\ written'[e] = written[e]
      BY <1>1, <2>2 DEF FlowInv
    <3>2. stage[e] \in {"new", "research"} => \A w \in Jurors : call'[e][w].st = "none"
      BY <2>1 DEF StageInv
    <3> QED BY <1>1, <2>1, <3>1, <3>2, StageStands
  <2> QED BY <2>2
<1>3. /\ stage' \in [Debates -> {"new", "research", "jury", "filing", "storing", "done", "error", "gone"}]
      /\ filed' \subseteq Debates
  BY <1>1 DEF FlowInv
<1> QED BY <1>1, <1>2, <1>3 DEF FlowInv

LEMMA AggregateIs ==
    ASSUME NEW votes, NEW size
    PROVE  Aggregate(votes, size) \in Votes \cup {"ESCALATED"}
<1>1. "HOLD" \in Votes
  BY DEF Votes
<1> QED BY <1>1 DEF Aggregate

LEMMA FlowOf ==
    ASSUME DebateIInv, NEW d \in Debates
    PROVE  /\ CallsInv /\ FlowInv /\ StageInv(d) /\ DOMAIN stored = Debates /\ filed \subseteq Debates
           /\ decision \in [Debates -> Votes \cup {"ESCALATED", None}]
           /\ stage \in [Debates -> {"new", "research", "jury", "filing", "storing", "done", "error", "gone"}]
  BY DEF DebateIInv, FlowInv

LEMMA AbortKeeps ==
    ASSUME DebateIInv, NEW d \in Debates, Abort(d)
    PROVE  DebateIInv'
<1>1. /\ call' = call /\ seats' = seats /\ UNCHANGED money /\ UNCHANGED faults /\ round' = round /\ written' = written
      /\ decision' = decision /\ filed' = filed /\ stored' = stored
      /\ stage[d] = "research" /\ stage' = [stage EXCEPT ![d] = "error"]
  BY DEF Abort, records
<1>2. CallsInv' /\ MoneyInv' /\ SittingInv' /\ LedgerInv'
  BY <1>1, Untouched
<1>3. StageInv(d)'
  BY <1>1, FlowOf DEF StageInv
<1>4. FlowInv'
  <2>1. /\ decision' \in [Debates -> Votes \cup {"ESCALATED", None}]
        /\ \A e \in Debates : e # d => decision'[e] = decision[e]
        /\ DOMAIN stored' = Debates /\ \A e \in Debates : e # d => stored'[e] = stored[e]
        /\ filed' \in {filed, filed \cup {d}}
    BY <1>1, FlowOf
  <2> QED BY <1>1, <1>3, <2>1, OthersStand
<1> QED BY <1>2, <1>4 DEF DebateIInv

LEMMA RuleKeeps ==
    ASSUME DebateIInv, NEW d \in Debates, Rule(d)
    PROVE  DebateIInv'
<1> DEFINE verdictOf == Aggregate(Cast(d), Cardinality(seats[d]))
<1>1. /\ call' = call /\ seats' = seats /\ UNCHANGED money /\ UNCHANGED faults /\ round' = round /\ written' = written
      /\ filed' = filed /\ stored' = stored
      /\ stage[d] = "jury" /\ stage' = [stage EXCEPT ![d] = "filing"]
      /\ \A s \in seats[d] : call[d][s].st \in {"done", "fail"}
      /\ decision' = [decision EXCEPT ![d] = verdictOf]
  BY DEF Rule, records
<1>2. CallsInv' /\ MoneyInv' /\ SittingInv' /\ LedgerInv'
  BY <1>1, Untouched
<1>3. verdictOf \in Votes \cup {"ESCALATED"} /\ verdictOf # None
  <2>1. verdictOf \in Votes \cup {"ESCALATED"}
    BY AggregateIs
  <2> HIDE DEF verdictOf
  <2> QED BY <2>1, NoneIsNothing DEF Votes
<1>4. Aggregate(Cast(d), Cardinality(seats[d]))' = verdictOf
  <2>1. Cast(d)' = Cast(d) /\ Cardinality(seats[d])' = Cardinality(seats[d])
    BY <1>1, CastDepends
  <2> QED BY <2>1 DEF Aggregate
<1> HIDE DEF verdictOf
<1>5. decision'[d] = verdictOf /\ stage'[d] = "filing"
  BY <1>1, FlowOf
<1>6. StageInv(d)'
  BY <1>1, <1>3, <1>4, <1>5, FlowOf DEF StageInv
<1>7. FlowInv'
  <2>1. /\ decision' \in [Debates -> Votes \cup {"ESCALATED", None}]
        /\ \A e \in Debates : e # d => decision'[e] = decision[e]
        /\ DOMAIN stored' = Debates /\ \A e \in Debates : e # d => stored'[e] = stored[e]
        /\ filed' \in {filed, filed \cup {d}}
    BY <1>1, <1>3, FlowOf
  <2> QED BY <1>1, <1>6, <2>1, OthersStand
<1> QED BY <1>2, <1>7 DEF DebateIInv

LEMMA LeaveKeeps ==
    ASSUME DebateIInv, NEW d \in Debates, Leave(d)
    PROVE  DebateIInv'
<1>1. /\ call' = call /\ seats' = seats /\ UNCHANGED money /\ UNCHANGED faults /\ round' = round /\ written' = written
      /\ decision' = decision /\ filed' \in {filed, filed \cup {d}} /\ stored' = stored
      /\ stage[d] \in {"research", "jury", "filing"} /\ stage' = [stage EXCEPT ![d] = "gone"]
  BY DEF Leave
<1>2. CallsInv' /\ MoneyInv' /\ SittingInv' /\ LedgerInv'
  BY <1>1, Untouched
<1>3. stage'[d] = "gone" /\ stored'[d] = None
  BY <1>1, FlowOf DEF StageInv
<1>4. decision'[d] # None =>
         /\ decision'[d] = Aggregate(Cast(d), Cardinality(seats[d]))'
         /\ \A s \in seats'[d] : call'[d][s].st \in {"done", "fail"}
  <2>1. Cast(d)' = Cast(d) /\ Cardinality(seats[d])' = Cardinality(seats[d])
    BY <1>1, CastDepends
  <2>2. Aggregate(Cast(d), Cardinality(seats[d]))' = Aggregate(Cast(d), Cardinality(seats[d]))
    BY <2>1 DEF Aggregate
  <2> QED BY <1>1, <2>2, FlowOf DEF StageInv
<1>5. StageInv(d)'
  BY <1>1, <1>3, <1>4, FlowOf DEF StageInv
<1>6. FlowInv'
  <2>1. /\ decision' \in [Debates -> Votes \cup {"ESCALATED", None}]
        /\ \A e \in Debates : e # d => decision'[e] = decision[e]
        /\ DOMAIN stored' = Debates /\ \A e \in Debates : e # d => stored'[e] = stored[e]
    BY <1>1, FlowOf
  <2> QED BY <1>1, <1>5, <2>1, OthersStand
<1> QED BY <1>2, <1>6 DEF DebateIInv

LEMMA FileKeeps ==
    ASSUME DebateIInv, NEW d \in Debates, File(d)
    PROVE  DebateIInv'
<1>1. /\ call' = call /\ seats' = seats /\ UNCHANGED money /\ (UNCHANGED faults \/ Fault)
      /\ round' = round /\ written' = written
      /\ decision' = decision /\ filed' \in {filed, filed \cup {d}} /\ stored' = stored
      /\ stage[d] = "filing"
  BY DEF File
<1>2. PICK s \in {"storing", "done"} :
         stage' = [stage EXCEPT ![d] = s] /\ (s = "storing" => d \in filed')
  BY DEF File
<1>3. CallsInv' /\ MoneyInv' /\ SittingInv' /\ LedgerInv'
  BY <1>1, Untouched
<1>4. stage'[d] = s /\ stored'[d] = None
  BY <1>1, <1>2, FlowOf DEF StageInv
<1>5. decision'[d] # None =>
         /\ decision'[d] = Aggregate(Cast(d), Cardinality(seats[d]))'
         /\ \A x \in seats'[d] : call'[d][x].st \in {"done", "fail"}
  <2>1. Cast(d)' = Cast(d) /\ Cardinality(seats[d])' = Cardinality(seats[d])
    BY <1>1, CastDepends
  <2>2. Aggregate(Cast(d), Cardinality(seats[d]))' = Aggregate(Cast(d), Cardinality(seats[d]))
    BY <2>1 DEF Aggregate
  <2> QED BY <1>1, <2>2, FlowOf DEF StageInv
<1>6. StageInv(d)'
  BY <1>1, <1>2, <1>4, <1>5, FlowOf DEF StageInv
<1>7. FlowInv'
  <2>1. /\ decision' \in [Debates -> Votes \cup {"ESCALATED", None}]
        /\ \A e \in Debates : e # d => decision'[e] = decision[e]
        /\ DOMAIN stored' = Debates /\ \A e \in Debates : e # d => stored'[e] = stored[e]
    BY <1>1, FlowOf
  <2>2. s \in {"jury", "filing", "storing", "done", "error", "gone"}
    OBVIOUS
  <2> QED BY <1>1, <1>2, <1>6, <2>1, <2>2, OthersStand
<1> QED BY <1>3, <1>7 DEF DebateIInv

LEMMA StoreKeeps ==
    ASSUME DebateIInv, NEW d \in Debates, Store(d)
    PROVE  DebateIInv'
<1>1. /\ call' = call /\ seats' = seats /\ UNCHANGED money /\ (UNCHANGED faults \/ Fault)
      /\ round' = round /\ written' = written /\ decision' = decision /\ filed' = filed
      /\ stage[d] = "storing" /\ stage' = [stage EXCEPT ![d] = "done"]
      /\ stored' = [stored EXCEPT ![d] = Judgments(d)] \/ stored' = stored
  BY DEF Store
<1>2. CallsInv' /\ MoneyInv' /\ SittingInv' /\ LedgerInv'
  BY <1>1, Untouched
<1>3. /\ stage'[d] = "done" /\ stored[d] = None /\ d \in filed /\ decision[d] # None
      /\ stored'[d] \in {None, Judgments(d)}
  BY <1>1, FlowOf DEF StageInv
<1>4. Judgments(d)' = Judgments(d)
  BY <1>1, JudgmentsDepend
<1>5. decision'[d] # None =>
         /\ decision'[d] = Aggregate(Cast(d), Cardinality(seats[d]))'
         /\ \A x \in seats'[d] : call'[d][x].st \in {"done", "fail"}
  <2>1. Cast(d)' = Cast(d) /\ Cardinality(seats[d])' = Cardinality(seats[d])
    BY <1>1, CastDepends
  <2>2. Aggregate(Cast(d), Cardinality(seats[d]))' = Aggregate(Cast(d), Cardinality(seats[d]))
    BY <2>1 DEF Aggregate
  <2> QED BY <1>1, <2>2, FlowOf DEF StageInv
<1>6. StageInv(d)'
  BY <1>1, <1>3, <1>4, <1>5, FlowOf DEF StageInv
<1>7. FlowInv'
  <2>1. /\ decision' \in [Debates -> Votes \cup {"ESCALATED", None}]
        /\ \A e \in Debates : e # d => decision'[e] = decision[e]
        /\ DOMAIN stored' = Debates /\ \A e \in Debates : e # d => stored'[e] = stored[e]
        /\ filed' \in {filed, filed \cup {d}}
    BY <1>1, FlowOf
  <2> QED BY <1>1, <1>6, <2>1, OthersStand
<1> QED BY <1>2, <1>7 DEF DebateIInv
-----------------------------------------------------------------------------
(* A debate asks anew                                                      *)

LEMMA NewCallIs ==
    /\ NewCall.st = "ready" /\ NewCall.own = None /\ NewCall.out = None /\ ~Seated(NewCall)
    /\ \A w \in Writers : NewCall \in CallOf(w)
<1>1. NewCall = [st |-> "ready", own |-> None, try |-> 1, out |-> None, seen |-> None]
  BY DEF NewCall
<1>2. NewCall.st = "ready" /\ NewCall.own = None /\ NewCall.out = None /\ NewCall.try = 1
  BY <1>1
<1>3. \A w \in Writers : NewCall \in CallOf(w)
  BY <1>1 DEF CallOf, Outs
<1> QED BY <1>2, <1>3 DEF Seated

\* The writers in S of debate d are asked anew.
Restarts(d, S) == call' = [call EXCEPT ![d] = [w \in Writers |-> IF w \in S THEN NewCall ELSE call[d][w]]]

LEMMA RestartIs ==
    ASSUME CallsInv, NEW d \in Debates, NEW S, Restarts(d, S)
    PROVE  /\ call' \in [Debates -> [Writers -> AnyCall]]
           /\ DOMAIN call' = Debates /\ \A e \in Debates : DOMAIN call'[e] = Writers
           /\ \A w \in Writers : call'[d][w] = IF w \in S THEN NewCall ELSE call[d][w]
           /\ \A e \in Debates : e # d => call'[e] = call[e]
<1>1. call \in [Debates -> [Writers -> AnyCall]]
  BY DEF CallsInv
<1>2. \A w \in Writers : NewCall \in AnyCall
  BY NewCallIs, CallsAreCalls
<1> QED BY <1>1, <1>2 DEF Restarts

\* The calls that are dropped were not to be on the ledger.
LEMMA RestartCosts ==
    ASSUME DebateIInv, NEW d \in Debates, NEW S, Restarts(d, S), UNCHANGED money, UNCHANGED faults
    PROVE  MoneyInv' /\ LedgerInv'
<1>1. CallsInv /\ MoneyInv /\ LedgerInv
  BY DEF DebateIInv
<1>2. funded' = funded /\ benched' = benched /\ ledger' = ledger /\ blind' = blind /\ faults' = faults
  BY DEF money
<1>3. /\ \A w \in Writers : call'[d][w] = IF w \in S THEN NewCall ELSE call[d][w]
      /\ \A e \in Debates : e # d => call'[e] = call[e]
  BY <1>1, RestartIs
<1>4. MoneyInv'
  BY <1>1, <1>2 DEF MoneyInv
<1>5. ASSUME NEW p, NEW o
      PROVE  On(p, o)' \subseteq On(p, o)
  <2>1. On(p, o) = {x \in Debates \X Writers : /\ call[x[1]][x[2]].st \in {"sent", "again"}
                                              /\ VendorOf(x[2]) = p /\ call[x[1]][x[2]].own = o}
    BY DEF On, Flight, InFlight
  <2>2. On(p, o)' = {x \in Debates \X Writers : /\ call'[x[1]][x[2]].st \in {"sent", "again"}
                                               /\ VendorOf(x[2]) = p /\ call'[x[1]][x[2]].own = o}
    BY DEF On, Flight, InFlight
  <2>3. ASSUME NEW x \in Debates \X Writers, call'[x[1]][x[2]].st \in {"sent", "again"}
        PROVE  call'[x[1]][x[2]] = call[x[1]][x[2]]
    BY <1>3, <2>3, NewCallIs
  <2> QED BY <2>1, <2>2, <2>3
<1>6. LedgerInv'
  BY <1>1, <1>2, <1>5, FewerStaysBound DEF LedgerInv, MostInFlight
<1> QED BY <1>4, <1>6

\* The researchers are asked: for the openings, or for another round.
LEMMA ResearchKeeps ==
    ASSUME DebateIInv, NEW d \in Debates, Restarts(d, Researchers), stage[d] \in {"new", "research"},
           stage' = [stage EXCEPT ![d] = "research"], round' \in [Debates -> 1..4],
           UNCHANGED <<written, seats, decision, filed, stored>>, UNCHANGED money, UNCHANGED faults
    PROVE  DebateIInv'
<1>1. CallsInv /\ FlowInv /\ SittingInv /\ MoneyInv
  BY DEF DebateIInv
<1>2. /\ call' \in [Debates -> [Writers -> AnyCall]]
      /\ DOMAIN call' = Debates /\ \A e \in Debates : DOMAIN call'[e] = Writers
      /\ \A w \in Writers : call'[d][w] = IF w \in Researchers THEN NewCall ELSE call[d][w]
      /\ \A e \in Debates : e # d => call'[e] = call[e]
  BY <1>1, RestartIs
<1>3. funded' = funded /\ seats' = seats
  BY DEF money
<1>4. CallsInv'
  <2>1. ASSUME NEW e \in Debates, NEW w \in Writers PROVE CallOK(e, w)'
    <3>1. CallOK(e, w)
      BY <1>1 DEF CallsInv
    <3>2. CASE call'[e][w] = call[e][w]
      BY <1>3, <3>1, <3>2 DEF CallOK
    <3>3. CASE w \in Researchers /\ call'[e][w] = NewCall
      <4>1. VendorOf(w) = "anthropic" /\ w \notin Jurors
        BY <3>3, WritersSplit
      <4> QED BY <1>3, <3>3, <4>1, NewCallIs, NoneIsNothing, KeysOfVendors DEF CallOK
    <3> QED BY <1>2, <3>2, <3>3
  <2> QED BY <1>2, <2>1 DEF CallsInv
<1>5. StageInv(d) /\ \A w \in Jurors : call[d][w].st = "none" /\ call'[d][w] = call[d][w]
  BY <1>1, <1>2, WritersSplit DEF FlowInv, StageInv
<1>6. FlowInv'
  <2>1. ASSUME NEW e \in Debates PROVE StageInv(e)'
    <3>1. StageInv(e)
      BY <1>1 DEF FlowInv
    <3>2. CASE e = d
      <4>1. stage'[e] = "research"
        BY <1>1, <3>2 DEF FlowInv
      <4>2. decision[e] = None /\ stored[e] = None
        BY <3>1, <3>2 DEF StageInv
      <4> QED BY <1>5, <3>1, <3>2, <4>1, <4>2 DEF StageInv
    <3>3. CASE e # d
      <4>1. stage'[e] = stage[e] /\ call'[e] = call[e]
        BY <1>1, <1>2, <3>3 DEF FlowInv
      <4>2. stage[e] \in {"new", "research"} => \A x \in Jurors : call'[e][x].st = "none"
        BY <3>1, <4>1 DEF StageInv
      <4> QED BY <1>1, <3>1, <4>1, <4>2, StageStands
    <3> QED BY <3>2, <3>3
  <2>2. stage' \in [Debates -> {"new", "research", "jury", "filing", "storing", "done", "error", "gone"}]
    BY <1>1 DEF FlowInv
  <2> QED BY <1>1, <2>1, <2>2 DEF FlowInv
<1>7. SittingInv'
  <2>1. ASSUME NEW e \in Debates, NEW p \in Vendors
        PROVE  Sitting(e, p)' = Sitting(e, p)
    <3>1. seats[e] \subseteq Jurors
      BY <1>1 DEF FlowInv, StageInv
    <3>2. \A s \in seats[e] : call'[e][s] = call[e][s]
      BY <1>2, <1>5, <3>1
    <3> QED BY <1>3, <3>2 DEF Sitting
  <2>2. ASSUME NEW e \in Debates, \E w \in Jurors : call'[e][w].st # "none"
        PROVE  \E w \in Researchers : call'[e][w].st \in {"done", "fail"}
    <3>1. e # d
      BY <1>5, <2>2
    <3> QED BY <1>1, <1>2, <2>2, <3>1 DEF SittingInv
  <2> QED BY <1>1, <2>1, <2>2 DEF SittingInv
<1>8. MoneyInv' /\ LedgerInv'
  BY RestartCosts
<1> QED BY <1>4, <1>6, <1>7, <1>8 DEF DebateIInv

LEMMA ResearchingIs ==
    ASSUME CallsInv, NEW d \in Debates, NEW r, Researching(d, r)
    PROVE  Restarts(d, Researchers)
<1>1. d \in DOMAIN call
  BY DEF CallsInv
<1> QED BY <1>1 DEF Researching, Restarts

LEMMA OpenKeeps ==
    ASSUME DebateIInv, NEW d \in Debates, Open(d)
    PROVE  DebateIInv'
<1>1. Restarts(d, Researchers)
  BY ResearchingIs DEF DebateIInv, Open
<1>2. /\ stage[d] = "new" /\ stage' = [stage EXCEPT ![d] = "research"] /\ round' = round
      /\ UNCHANGED <<written, seats, decision, filed, stored>> /\ UNCHANGED money /\ UNCHANGED faults
  BY DEF Open, records
<1>3. round \in [Debates -> 1..4]
  BY DEF DebateIInv, FlowInv
<1> QED BY <1>1, <1>2, <1>3, ResearchKeeps

LEMMA RebutKeeps ==
    ASSUME DebateIInv, NEW d \in Debates, Rebut(d)
    PROVE  DebateIInv'
<1>1. Restarts(d, Researchers)
  BY ResearchingIs DEF DebateIInv, Rebut
<1>2. /\ round \in [Debates -> 1..4] /\ Rounds[d] \in 1..4
      /\ stage \in [Debates -> {"new", "research", "jury", "filing", "storing", "done", "error", "gone"}]
  BY RoundsOfDebates DEF DebateIInv, FlowInv
<1>3. /\ stage[d] = "research" /\ round[d] < Rounds[d] /\ round' = [round EXCEPT ![d] = @ + 1]
      /\ stage' = stage
      /\ UNCHANGED <<written, seats, decision, filed, stored>> /\ UNCHANGED money /\ UNCHANGED faults
  BY DEF Rebut, records
<1>4. stage' = [stage EXCEPT ![d] = "research"]
  BY <1>2, <1>3
<1>5. round' \in [Debates -> 1..4]
  BY <1>2, <1>3
<1> QED BY <1>1, <1>3, <1>4, <1>5, ResearchKeeps

LEMMA SeatKeeps ==
    ASSUME DebateIInv, NEW d \in Debates, Seat(d)
    PROVE  DebateIInv'
<1>1. CallsInv /\ FlowInv /\ SittingInv /\ MoneyInv
  BY DEF DebateIInv
<1>2. PICK p \in Panels[d] :
         LET jury == (1..p[1]) \X (IF p[2] /\ Keys["gemini"] # <<>> THEN Vendors ELSE {"anthropic"})
         IN  /\ seats' = [seats EXCEPT ![d] = jury]
             /\ call' = [call EXCEPT ![d] = [w \in Writers |-> IF w \in jury THEN NewCall ELSE @[w]]]
  BY DEF Seat
<1>3. PICK jury : jury = (1..p[1]) \X (IF p[2] /\ Keys["gemini"] # <<>> THEN Vendors ELSE {"anthropic"})
  OBVIOUS
<1>4. /\ seats' = [seats EXCEPT ![d] = jury] /\ Restarts(d, jury)
  <2>1. d \in DOMAIN call
    BY <1>1 DEF CallsInv
  <2> QED BY <1>2, <1>3, <2>1 DEF Restarts
<1>5. jury \subseteq Jurors /\ \A w \in jury : Keys[VendorOf(w)] # <<>>
  <2>1. p[1] \in 1..10
    BY PanelsOfDebates
  <2>2. 1..p[1] \subseteq Lenses
    BY <2>1 DEF Lenses
  <2>3. \A w \in jury : w[2] \in Vendors /\ Keys[w[2]] # <<>>
    BY <1>3, KeysOfVendors DEF Vendors
  <2>4. jury \subseteq Jurors
    BY <1>3, <2>2 DEF Jurors, Vendors
  <2> QED BY <2>3, <2>4, WritersSplit
<1>6. /\ stage[d] = "research" /\ stage' = [stage EXCEPT ![d] = "jury"]
      /\ UNCHANGED <<round, written, decision, filed, stored>> /\ UNCHANGED money /\ UNCHANGED faults
  BY DEF Seat, records
<1>7. /\ call' \in [Debates -> [Writers -> AnyCall]]
      /\ DOMAIN call' = Debates /\ \A e \in Debates : DOMAIN call'[e] = Writers
      /\ \A w \in Writers : call'[d][w] = IF w \in jury THEN NewCall ELSE call[d][w]
      /\ \A e \in Debates : e # d => call'[e] = call[e]
  BY <1>1, <1>4, RestartIs
<1>8. /\ DOMAIN seats' = Debates /\ seats'[d] = jury
      /\ \A e \in Debates : e # d => seats'[e] = seats[e]
  BY <1>1, <1>4 DEF FlowInv
<1>9. StageInv(d) /\ \A w \in Jurors : call[d][w].st = "none"
  BY <1>1, <1>6 DEF FlowInv, StageInv
<1>10. funded' = funded
  BY <1>6 DEF money
<1>11. CallsInv'
  <2>1. ASSUME NEW e \in Debates, NEW w \in Writers PROVE CallOK(e, w)'
    <3>1. CallOK(e, w)
      BY <1>1 DEF CallsInv
    <3>2. CASE e # d
      BY <1>7, <1>8, <1>10, <3>1, <3>2 DEF CallOK
    <3>3. CASE e = d /\ w \in jury
      <4>1. call'[e][w] = NewCall
        BY <1>7, <3>3
      <4> QED BY <1>5, <1>8, <1>10, <3>3, <4>1, NewCallIs, NoneIsNothing DEF CallOK
    <3>4. CASE e = d /\ w \notin jury
      <4>1. call'[e][w] = call[e][w] /\ (w \in Jurors => call[e][w].st = "none")
        BY <1>7, <1>9, <3>4
      <4> QED BY <1>10, <3>1, <4>1 DEF CallOK
    <3> QED BY <3>2, <3>3, <3>4
  <2> QED BY <1>7, <2>1 DEF CallsInv
<1>12. FlowInv'
  <2>1. ASSUME NEW e \in Debates PROVE StageInv(e)'
    <3>1. StageInv(e)
      BY <1>1 DEF FlowInv
    <3>2. CASE e = d
      <4>1. stage'[e] = "jury"
        BY <1>1, <1>6, <3>2 DEF FlowInv
      <4>2. decision[e] = None /\ stored[e] = None
        BY <1>6, <3>1, <3>2 DEF StageInv
      <4> QED BY <1>5, <1>6, <1>8, <3>2, <4>1, <4>2 DEF StageInv
    <3>3. CASE e # d
      <4>1. /\ stage'[e] = stage[e] /\ call'[e] = call[e] /\ seats'[e] = seats[e] /\ decision'[e] = decision[e]
            /\ stored'[e] = stored[e] /\ written'[e] = written[e] /\ filed \subseteq filed'
        BY <1>1, <1>6, <1>7, <1>8, <3>3 DEF FlowInv
      <4>2. stage[e] \in {"new", "research"} => \A x \in Jurors : call'[e][x].st = "none"
        BY <3>1, <4>1 DEF StageInv
      <4> QED BY <1>1, <3>1, <4>1, <4>2, StageStands
    <3> QED BY <3>2, <3>3
  <2>2. stage' \in [Debates -> {"new", "research", "jury", "filing", "storing", "done", "error", "gone"}]
    BY <1>1, <1>6 DEF FlowInv
  <2> QED BY <1>1, <1>6, <1>8, <2>1, <2>2 DEF FlowInv
<1>13. SittingInv'
  <2>1. ASSUME NEW e \in Debates, NEW q \in Vendors
        PROVE  Cardinality(Sitting(e, q)') <= Seating[q]
    <3>1. CASE e = d
      <4>1. Sitting(e, q)' = {}
        <5>1. jury \subseteq Writers
          BY <1>5, WritersSplit
        <5>2. \A s \in jury : ~Seated(call'[d][s])
          BY <1>7, <5>1, NewCallIs
        <5> QED BY <1>8, <3>1, <5>2 DEF Sitting
      <4>2. Seating[q] \in Nat /\ Cardinality({}) = 0
        BY SeatingOfVendors, FS_EmptySet
      <4> QED BY <4>1, <4>2
    <3>2. CASE e # d
      <4>1. Sitting(e, q)' = Sitting(e, q)
        BY <1>7, <1>8, <3>2 DEF Sitting
      <4> QED BY <1>1, <4>1 DEF SittingInv
    <3> QED BY <3>1, <3>2
  <2>2. ASSUME NEW e \in Debates, \E w \in Jurors : call'[e][w].st # "none"
        PROVE  \E w \in Researchers : call'[e][w].st \in {"done", "fail"}
    <3>1. CASE e = d
      <4>1. \E w \in Researchers : call[d][w].st \in {"done", "fail"}
        BY WritersSplit DEF Seat, Wrote, Failing
      <4>2. \A w \in Researchers : w \in Writers /\ w \notin jury
        BY <1>5, WritersSplit
      <4> QED BY <1>7, <3>1, <4>1, <4>2
    <3>2. CASE e # d
      BY <1>1, <1>7, <2>2, <3>2 DEF SittingInv
    <3> QED BY <3>1, <3>2
  <2> QED BY <2>1, <2>2 DEF SittingInv
<1>14. MoneyInv' /\ LedgerInv'
  BY <1>4, <1>6, RestartCosts
<1> QED BY <1>11, <1>12, <1>13, <1>14 DEF DebateIInv
-----------------------------------------------------------------------------
(* The invariant holds                                                     *)

LEMMA DebateStarts == DebateInit => DebateIInv
<1> SUFFICES ASSUME DebateInit PROVE DebateIInv
  OBVIOUS
<1>1. /\ stage = [d \in Debates |-> "new"] /\ round = [d \in Debates |-> 1]
      /\ written = [d \in Debates |-> {}] /\ seats = [d \in Debates |-> {}]
      /\ call = [d \in Debates |-> [w \in Writers |-> NoCall]]
      /\ decision = [d \in Debates |-> None]
      /\ filed = {} /\ stored = [d \in Debates |-> None]
      /\ funded = Owners /\ benched = {} /\ blind = 0
      /\ ledger = [p \in Vendors |-> [o \in ToSet(Keys[p]) |-> 0]] /\ faults = 0
  BY DEF DebateInit
<1>2. NoCall.st = "none" /\ NoCall.out = None /\ \A w \in Writers : NoCall \in CallOf(w)
  BY NoCallIs DEF CallOf, Outs
<1>3. CallsInv
  <2>1. call \in [Debates -> [Writers -> AnyCall]]
    BY <1>1, <1>2, CallsAreCalls
  <2>2. \A d \in Debates, w \in Writers : call[d][w] = NoCall
    BY <1>1
  <2> QED BY <1>2, <2>1, <2>2, NoneIsNothing DEF CallsInv, CallOK
<1>4. FlowInv
  <2>1. \A d \in Debates : StageInv(d)
    <3>1. \A d \in Debates, w \in Jurors : call[d][w].st = "none"
      BY <1>1, <1>2, WritersSplit
    <3> QED BY <1>1, <3>1 DEF StageInv
  <2> QED BY <1>1, <2>1 DEF FlowInv
<1>5. MoneyInv
  <2>1. DOMAIN ledger = Vendors /\ \A p \in Vendors : ledger[p] \in [OwnersOf(p) -> Nat]
    BY <1>1 DEF OwnersOf
  <2>2. blind \in Nat /\ faults \in 0..MaxFaults
    BY <1>1, SeatingOfVendors
  <2>3. funded \subseteq Owners /\ benched \subseteq Owners \ funded
    BY <1>1
  <2> QED BY <2>1, <2>2, <2>3 DEF MoneyInv
<1>6. SittingInv
  <2>1. ASSUME NEW d \in Debates, NEW p \in Vendors PROVE Cardinality(Sitting(d, p)) <= Seating[p]
    <3>1. Sitting(d, p) = {} /\ Seating[p] \in Nat /\ Cardinality({}) = 0
      BY <1>1, SeatingOfVendors, FS_EmptySet DEF Sitting
    <3> QED BY <3>1
  <2>2. \A d \in Debates, w \in Jurors : call[d][w].st = "none"
    BY <1>1, <1>2, WritersSplit
  <2> QED BY <2>1, <2>2 DEF SittingInv
<1>7. LedgerInv
  <2>1. ASSUME NEW p \in Vendors, NEW o \in OwnersOf(p), NEW k \in OwnersOf(p)
        PROVE  ledger[p][o] <= ledger[p][k]
    BY <1>1 DEF OwnersOf
  <2> QED BY <1>3, <1>4, <1>5, <1>6, <2>1, BehindIsBound DEF LedgerInv
<1> QED BY <1>3, <1>4, <1>5, <1>6, <1>7 DEF DebateIInv

LEMMA DebateStutters == DebateIInv /\ UNCHANGED debateVars => DebateIInv'
<1> SUFFICES ASSUME DebateIInv, UNCHANGED debateVars PROVE DebateIInv'
  OBVIOUS
<1>1. /\ CallsInv /\ FlowInv
      /\ UNCHANGED <<stage, round, written, seats, decision, call, filed, stored, faults>> /\ UNCHANGED money
  BY DEF DebateIInv, debateVars, flow, records
<1>2. CallsInv' /\ MoneyInv' /\ SittingInv' /\ LedgerInv'
  BY <1>1, Untouched
<1>3. ASSUME NEW d \in Debates PROVE StageInv(d)'
  <2>1. StageInv(d)
    BY <1>1 DEF FlowInv
  <2> QED BY <1>1, <2>1, StageStands DEF StageInv
<1>4. FlowInv'
  BY <1>1, <1>3 DEF FlowInv
<1> QED BY <1>2, <1>4 DEF DebateIInv

LEMMA DebateGoesOn == DebateIInv /\ [DebateNext]_debateVars => DebateIInv'
<1> SUFFICES ASSUME DebateIInv, [DebateNext]_debateVars PROVE DebateIInv'
  OBVIOUS
<1>1. ASSUME NEW d \in Debates, NEW w \in Writers, Ask(d, w) PROVE DebateIInv'
  BY <1>1, AskKeeps
<1>2. ASSUME NEW d \in Debates, NEW w \in Writers, Reply(d, w) PROVE DebateIInv'
  BY <1>2, ServedKeeps, BlankKeeps, SpoiltKeeps, BrokeKeeps, RefusedKeeps DEF Reply
<1>3. ASSUME NEW d \in Debates, Proceed(d) PROVE DebateIInv'
  BY <1>3, RebutKeeps, AbortKeeps, SeatKeeps, RuleKeeps, FileKeeps, StoreKeeps DEF Proceed
<1>4. ASSUME NEW d \in Debates, Open(d) \/ Leave(d) PROVE DebateIInv'
  BY <1>4, OpenKeeps, LeaveKeeps
<1>5. ASSUME NEW o \in Owners, RunsOut(o) \/ BenchLapses(o) PROVE DebateIInv'
  BY <1>5, BudgetsKeep
<1>6. CASE DebateNext
  BY <1>1, <1>2, <1>3, <1>4, <1>5, <1>6 DEF DebateNext, Turn
<1>7. CASE UNCHANGED debateVars
  BY <1>7, DebateStutters
<1> QED BY <1>6, <1>7

THEOREM DebateIInvHolds == DebateSpec => []DebateIInv
  BY DebateStarts, DebateGoesOn, PTL DEF DebateSpec
-----------------------------------------------------------------------------
(* What the invariant says                                                 *)

LEMMA DebateTyped == DebateIInv => DebateTypeOK
<1> SUFFICES ASSUME DebateIInv PROVE DebateTypeOK
  OBVIOUS
<1>1. CallsInv /\ FlowInv /\ MoneyInv
  BY DEF DebateIInv
<1>2. \A d \in Debates : seats[d] \subseteq Writers
  BY <1>1, WritersSplit DEF FlowInv, StageInv
<1>3. call \in [Debates -> [Writers ->
         [st : {"none", "ready", "sent", "again", "done", "fail"}, own : NamedOwners \cup {None},
          try : {1, 2}, out : Outs, seen : NamedOwners \cup {None}]]]
  BY <1>1 DEF CallsInv, AnyCall
<1>4. /\ stage \in [Debates -> {"new", "research", "jury", "filing", "storing", "done", "error", "gone"}]
      /\ round \in [Debates -> 1..4] /\ written \in [Debates -> SUBSET Sides]
      /\ decision \in [Debates -> Votes \cup {"ESCALATED", None}] /\ filed \subseteq Debates
  BY <1>1 DEF FlowInv
<1>5. /\ funded \subseteq Owners /\ benched \subseteq Owners
      /\ \A p \in Vendors : ledger[p] \in [ToSet(Keys[p]) -> Nat]
      /\ blind \in Nat /\ faults \in 0..MaxFaults
  BY <1>1 DEF MoneyInv, OwnersOf
<1> QED BY <1>2, <1>3, <1>4, <1>5 DEF DebateTypeOK

\* aggregate(), read backwards from what it returns.
LEMMA AggregateSays ==
    ASSUME NEW votes, NEW size, NEW n, n = Cardinality(DOMAIN votes),
           NEW tally, tally = [v \in Votes |-> Cardinality({s \in DOMAIN votes : votes[s] = v})],
           NEW a, a = Aggregate(votes, size), a # "ESCALATED"
    PROVE  /\ ~(n < size \div 2 + 1) /\ a \in Votes
           /\ a # "HOLD" => tally[a] >= n \div 2 + 1
           /\ a = "HOLD" => \/ tally["HOLD"] >= n \div 2 + 1
                            \/ /\ \A v \in Votes : ~(tally[v] >= n \div 2 + 1)
                               /\ ~(n % 2 = 0 /\ tally["BUY"] = n \div 2 /\ tally["SELL"] = n \div 2)
<1> DEFINE Most(v) == tally[v] >= n \div 2 + 1
<1>1. \A v \in Votes : Cardinality({s \in DOMAIN votes : votes[s] = v}) = tally[v]
  OBVIOUS
<1>2. "BUY" \in Votes /\ "SELL" \in Votes /\ "HOLD" \in Votes
  BY DEF Votes
<1>3. a = IF n < size \div 2 + 1 THEN "ESCALATED"
          ELSE IF \E v \in Votes : Cardinality({s \in DOMAIN votes : votes[s] = v}) >= n \div 2 + 1
          THEN CHOOSE v \in Votes : Cardinality({s \in DOMAIN votes : votes[s] = v}) >= n \div 2 + 1
          ELSE IF /\ n % 2 = 0 /\ Cardinality({s \in DOMAIN votes : votes[s] = "BUY"}) = n \div 2
                  /\ Cardinality({s \in DOMAIN votes : votes[s] = "SELL"}) = n \div 2 THEN "ESCALATED"
          ELSE "HOLD"
  BY Zenon DEF Aggregate
<1>4. ~(n < size \div 2 + 1)
  BY <1>3
<1>5. CASE \E v \in Votes : Cardinality({s \in DOMAIN votes : votes[s] = v}) >= n \div 2 + 1
  <2>1. a \in Votes /\ Cardinality({s \in DOMAIN votes : votes[s] = a}) >= n \div 2 + 1
    BY <1>3, <1>4, <1>5, Zenon
  <2> QED BY <1>1, <1>4, <2>1
<1>6. CASE ~\E v \in Votes : Cardinality({s \in DOMAIN votes : votes[s] = v}) >= n \div 2 + 1
  <2>1. a = IF /\ n % 2 = 0 /\ Cardinality({s \in DOMAIN votes : votes[s] = "BUY"}) = n \div 2
               /\ Cardinality({s \in DOMAIN votes : votes[s] = "SELL"}) = n \div 2 THEN "ESCALATED"
            ELSE "HOLD"
    BY <1>3, <1>4, <1>6, Zenon
  <2>2. a = "HOLD" /\ ~(n % 2 = 0 /\ tally["BUY"] = n \div 2 /\ tally["SELL"] = n \div 2)
    BY <1>1, <1>2, <2>1
  <2>3. \A v \in Votes : ~(tally[v] >= n \div 2 + 1)
    BY <1>1, <1>6
  <2> QED BY <1>2, <1>4, <2>2, <2>3
<1> QED BY <1>5, <1>6

LEMMA VerdictHeard == DebateIInv => VerdictIsHeard
<1> SUFFICES ASSUME DebateIInv, NEW d \in Debates, decision[d] \in Votes
             PROVE  /\ 2 * Cardinality(Answered(d)) > Cardinality(seats[d])
                    /\ decision[d] # "HOLD" =>
                         2 * Cardinality(Answering(d, decision[d])) > Cardinality(Answered(d))
                    /\ Answering(d, "BUY") \cup Answering(d, "SELL") = Answered(d)
                         => decision[d] # "HOLD"
  BY DEF VerdictIsHeard
<1>1. CallsInv /\ StageInv(d)
  BY FlowOf
<1>2. PICK cast : cast = Cast(d)
  OBVIOUS
<1>3. PICK size : size = Cardinality(seats[d])
  OBVIOUS
<1>4. DOMAIN cast = Answered(d) /\ \A s \in Answered(d) : cast[s] = call[d][s].out
  BY <1>2 DEF Cast, Answered, Wrote
<1>5. \A v : {s \in DOMAIN cast : cast[s] = v} = Answering(d, v)
  BY <1>4 DEF Answering
<1>6. PICK n : n = Cardinality(DOMAIN cast)
  OBVIOUS
<1>7. PICK tally : tally = [v \in Votes |-> Cardinality({s \in DOMAIN cast : cast[s] = v})]
  OBVIOUS
<1>8. decision[d] = Aggregate(cast, size) /\ decision[d] # "ESCALATED"
  BY <1>1, <1>2, <1>3, NoneIsNothing DEF StageInv, Votes
<1>9. /\ ~(n < size \div 2 + 1) /\ decision[d] \in Votes
      /\ decision[d] # "HOLD" => tally[decision[d]] >= n \div 2 + 1
      /\ decision[d] = "HOLD" => \/ tally["HOLD"] >= n \div 2 + 1
                                 \/ /\ \A v \in Votes : ~(tally[v] >= n \div 2 + 1)
                                    /\ ~(n % 2 = 0 /\ tally["BUY"] = n \div 2 /\ tally["SELL"] = n \div 2)
  BY <1>6, <1>7, <1>8, AggregateSays
<1>10. /\ IsFiniteSet(seats[d]) /\ size \in Nat /\ IsFiniteSet(Answered(d)) /\ n \in Nat
       /\ n = Cardinality(Answered(d))
  <2>1. IsFiniteSet(seats[d])
    BY <1>1, WritersAreFinite, FS_Subset DEF StageInv
  <2>2. IsFiniteSet(Answered(d))
    BY <2>1, FS_Subset DEF Answered
  <2> QED BY <1>3, <1>4, <1>6, <2>1, <2>2, FS_CardinalityType
<1>11. ASSUME NEW v \in Votes
       PROVE  IsFiniteSet(Answering(d, v)) /\ tally[v] = Cardinality(Answering(d, v)) /\ tally[v] \in Nat
  <2>1. IsFiniteSet(Answering(d, v))
    BY <1>10, FS_Subset DEF Answering
  <2> QED BY <1>5, <1>7, <2>1, FS_CardinalityType
<1>12. 2 * n > size
  BY <1>9, <1>10
<1>13. decision[d] # "HOLD" => 2 * Cardinality(Answering(d, decision[d])) > n
  BY <1>9, <1>10, <1>11
<1>14. Answering(d, "BUY") \cup Answering(d, "SELL") = Answered(d) => decision[d] # "HOLD"
  <2> SUFFICES ASSUME Answering(d, "BUY") \cup Answering(d, "SELL") = Answered(d), decision[d] = "HOLD"
               PROVE  FALSE
    OBVIOUS
  <2>0. "BUY" \in Votes /\ "SELL" \in Votes /\ "HOLD" \in Votes
    BY DEF Votes
  <2>1. Answering(d, "BUY") \cap Answering(d, "SELL") = {} /\ Answering(d, "HOLD") = {}
    BY DEF Answering
  <2>2. tally["HOLD"] = 0
    BY <1>11, <2>0, <2>1, FS_EmptySet
  <2>3. n = tally["BUY"] + tally["SELL"] /\ tally["BUY"] \in Nat /\ tally["SELL"] \in Nat
    <3>1. /\ IsFiniteSet(Answering(d, "BUY")) /\ tally["BUY"] = Cardinality(Answering(d, "BUY")) /\ tally["BUY"] \in Nat
          /\ IsFiniteSet(Answering(d, "SELL")) /\ tally["SELL"] = Cardinality(Answering(d, "SELL")) /\ tally["SELL"] \in Nat
      BY <1>11, <2>0
    <3>2. Cardinality(Answering(d, "BUY") \cup Answering(d, "SELL")) =
             Cardinality(Answering(d, "BUY")) + Cardinality(Answering(d, "SELL"))
                - Cardinality(Answering(d, "BUY") \cap Answering(d, "SELL"))
      BY <3>1, FS_Union
    <3>3. Cardinality(Answering(d, "BUY") \cap Answering(d, "SELL")) = 0
      BY <2>1, FS_EmptySet
    <3>4. n = Cardinality(Answering(d, "BUY") \cup Answering(d, "SELL"))
      BY <1>10
    <3>5. n = Cardinality(Answering(d, "BUY")) + Cardinality(Answering(d, "SELL")) - 0
      BY <3>2, <3>3, <3>4
    <3> QED BY <3>1, <3>5
  <2>4. CASE tally["HOLD"] >= n \div 2 + 1
    BY <1>10, <2>2, <2>4
  <2>5. CASE /\ \A v \in Votes : ~(tally[v] >= n \div 2 + 1)
             /\ ~(n % 2 = 0 /\ tally["BUY"] = n \div 2 /\ tally["SELL"] = n \div 2)
    <3>1. ~(tally["BUY"] >= n \div 2 + 1) /\ ~(tally["SELL"] >= n \div 2 + 1)
      BY <2>0, <2>5
    <3> QED BY <2>3, <2>5, <3>1
  <2> QED BY <1>9, <2>4, <2>5
<1> QED BY <1>3, <1>10, <1>12, <1>13, <1>14

LEMMA StoredSaid == DebateIInv => StoredWasSaid
<1> SUFFICES ASSUME DebateIInv, NEW d \in Debates, stored[d] # None
             PROVE  /\ d \in filed
                    /\ \A l \in DOMAIN stored[d].votes : \E p \in Vendors :
                         <<l, p>> \in Answered(d) /\ call[d][<<l, p>>].out = stored[d].votes[l]
                    /\ stored[d].synth \in {decision[d], None}
                    /\ \A v \in {stored[d].votes[l] : l \in DOMAIN stored[d].votes} \cup {stored[d].synth} :
                         (v = "BUY" => "bull" \in written[d]) /\ (v = "SELL" => "bear" \in written[d])
                    /\ Plain(d) => /\ \A s \in Answered(d) : s[1] \in DOMAIN stored[d].votes
                                   /\ decision[d] \in Votes => stored[d].synth = decision[d]
  BY DEF StoredWasSaid
<1> DEFINE OfLens(l) == {s \in {l} \X Vendors : s \in DOMAIN Cast(d) /\ Writable(d, Cast(d)[s])}
           Voice(l) == IF <<l, "anthropic">> \in OfLens(l) THEN <<l, "anthropic">> ELSE <<l, "gemini">>
<1>1. CallsInv /\ StageInv(d) /\ d \in filed /\ stored[d] = Judgments(d)
  BY FlowOf DEF StageInv
<1>2. /\ stored[d].votes = [l \in {x \in Lenses : OfLens(x) # {}} |-> Cast(d)[Voice(l)]]
      /\ stored[d].synth = IF Writable(d, decision[d]) THEN decision[d] ELSE None
  <2>1. Judgments(d) = [votes |-> [l \in {x \in Lenses : OfLens(x) # {}} |-> Cast(d)[Voice(l)]],
                        synth |-> IF Writable(d, decision[d]) THEN decision[d] ELSE None]
    BY DEF Judgments
  <2> HIDE DEF OfLens, Voice
  <2> QED BY <1>1, <2>1
<1>3. DOMAIN Cast(d) = Answered(d) /\ \A s \in Answered(d) : Cast(d)[s] = call[d][s].out
  BY DEF Cast, Answered, Wrote
<1>4. ASSUME NEW l \in DOMAIN stored[d].votes
      PROVE  /\ \E p \in Vendors : <<l, p>> \in Answered(d) /\ call[d][<<l, p>>].out = stored[d].votes[l]
             /\ Writable(d, stored[d].votes[l])
  <2>1. l \in Lenses /\ OfLens(l) # {} /\ stored[d].votes[l] = Cast(d)[Voice(l)]
    BY <1>2
  <2>2. Voice(l) \in OfLens(l)
    BY <2>1 DEF Vendors
  <2>3. PICK p \in Vendors : Voice(l) = <<l, p>>
    BY DEF Vendors
  <2> QED BY <1>3, <2>1, <2>2, <2>3
<1>5. \A v \in {stored[d].votes[l] : l \in DOMAIN stored[d].votes} \cup {stored[d].synth} :
         v = None \/ Writable(d, v)
  <2>1. \A l \in DOMAIN stored[d].votes : Writable(d, stored[d].votes[l])
    BY <1>4
  <2>2. stored[d].synth = None \/ Writable(d, stored[d].synth)
    BY <1>2
  <2> HIDE DEF OfLens, Voice
  <2> QED BY <2>1, <2>2
<1>6. None # "BUY" /\ None # "SELL"
  BY NoneIsNothing
<1>7. \A v : v = None \/ Writable(d, v) =>
         (v = "BUY" => "bull" \in written[d]) /\ (v = "SELL" => "bear" \in written[d])
  BY <1>6 DEF Writable
<1>8. \A v \in {stored[d].votes[l] : l \in DOMAIN stored[d].votes} \cup {stored[d].synth} :
         (v = "BUY" => "bull" \in written[d]) /\ (v = "SELL" => "bear" \in written[d])
  BY <1>5, <1>7
<1>9. Plain(d) => /\ \A s \in Answered(d) : s[1] \in DOMAIN stored[d].votes
                  /\ decision[d] \in Votes => stored[d].synth = decision[d]
  <2> SUFFICES ASSUME Plain(d)
               PROVE  /\ \A s \in Answered(d) : s[1] \in DOMAIN stored[d].votes
                      /\ decision[d] \in Votes => stored[d].synth = decision[d]
    OBVIOUS
  <2>1. \A v \in Votes : Writable(d, v)
    BY DEF Plain, Sides, Writable, Votes
  <2>2. ASSUME NEW s \in Answered(d) PROVE s[1] \in DOMAIN stored[d].votes
    <3>1. s \in Lenses \X {"anthropic"} /\ s \in Jurors /\ s \in Writers
      BY <1>1, WritersSplit DEF Plain, Answered, StageInv
    <3>2. call[d][s].out \in Votes
      <4>1. CallOK(d, s) /\ s \notin Researchers /\ call[d][s].st = "done"
        BY <1>1, <3>1, WritersSplit, CallsTyped DEF Answered
      <4> QED BY <4>1 DEF CallOK
    <3>3. s \in OfLens(s[1])
      BY <1>3, <2>1, <3>1, <3>2 DEF Jurors
    <3> QED BY <1>2, <3>1, <3>3
  <2>3. decision[d] \in Votes => stored[d].synth = decision[d]
    BY <1>2, <2>1
  <2> QED BY <2>2, <2>3
<1>10. stored[d].synth \in {decision[d], None}
  BY <1>2
<1> QED BY <1>1, <1>4, <1>8, <1>9, <1>10

\* The counts of the votes, the record, the keys: the invariant of a debate
\* (backend/app/debate/engine.py and aggregate.py, services/debate_store.py,
\* llm/anthropic_client.py), for any debates, jury, keys and number of failures.
THEOREM DebateInvHolds == DebateSpec => []DebateInv
<1>1. DebateIInv => LimitsMeanNoKey
  BY DEF DebateIInv, CallsInv, CallOK, LimitsMeanNoKey
<1>2. DebateIInv => DebateInv
  BY <1>1, DebateTyped, VerdictHeard, StoredSaid DEF DebateInv
<1> QED BY <1>2, DebateIInvHolds, PTL

\* Two owners' spending is never further apart than what the calls in flight may
\* cost, and the calls that were asked without the ledger, as far as the one who
\* is behind can pay (llm/keys.py:7-14, 84-100): whoever a call is given to was
\* not ahead of him when it left.
THEOREM SpendStaysEvenHolds == DebateSpec => []SpendStaysEven
<1>1. DebateIInv => SpendStaysEven
  <2> SUFFICES ASSUME DebateIInv, NEW p \in Vendors, NEW o \in OwnersOf(p), NEW k \in OwnersOf(p),
                      p = "anthropic" => k \in funded
               PROVE  ledger[p][o] - ledger[p][k] <= (MostInFlight(p) + blind) * MaxCost
    BY DEF SpendStaysEven, OwnersOf
  <2>1. ledger[p][o] - ledger[p][k] + Cardinality(On(p, o)) * MaxCost <= (MostInFlight(p) + blind) * MaxCost
    BY DEF DebateIInv, LedgerInv
  <2>2. /\ ledger[p][o] \in Nat /\ ledger[p][k] \in Nat /\ Cardinality(On(p, o)) * MaxCost \in Nat
        /\ (MostInFlight(p) + blind) * MaxCost \in Nat
    BY LedgerTypes DEF DebateIInv
  <2> QED BY <2>1, <2>2
<1> QED BY <1>1, DebateIInvHolds, PTL
=============================================================================
