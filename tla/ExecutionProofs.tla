--------------------------- MODULE ExecutionProofs ---------------------------
(***************************************************************************)
(* Proofs about Execution for every set of requests, operators, previews   *)
(* and windows and every value of the TTLs, caps and bounds.               *)
(***************************************************************************)
EXTENDS Execution, FiniteSetTheorems, TLAPS

(* Typing of the values the actions write.                                 *)

LEMMA NowIsNat == ASSUME TypeOK PROVE now \in Nat /\ boot \in Nat /\ now + 1 \in Nat
  BY BoundsAreNat DEF TypeOK

LEMMA ClosedTyped ==
    ASSUME TypeOK, NEW S, NEW why \in {"manual", "superseded", "rate_cap"}
    PROVE  Closed(S, why) \in [Windows -> Window]
  BY DEF TypeOK, Closed, Window

\* What changing one field of an entry, and of a row, leaves as it was.
LEMMA EntryTaken ==
    ASSUME NEW e \in Preview
    PROVE  LET t == [e EXCEPT !.state = "taken"]
           IN  /\ t \in Preview /\ t.state = "taken"
               /\ t.verdict = e.verdict /\ t.boot = e.boot
  BY DEF Preview

LEMMA RowSettled ==
    ASSUME NEW x \in Row, NEW s \in SubmitStatus \cup {"none"}
    PROVE  LET t == [x EXCEPT !.status = s]
           IN  /\ t \in Row /\ t.status = s
               /\ t.passed = x.passed /\ t.override = x.override
  BY DEF Row

LEMMA TypeInit == Init => TypeOK
  BY BoundsAreNat DEF Init, TypeOK, NoRow, Row, SubmitStatus, NoEntry, Preview, Verdicts,
     Window, ArmTx, NoTx, Steps, Running

\* The operations on windows and previews keep their types.
LEMMA TypeControl ==
    ASSUME TypeOK,
           \/ \E o \in Operators : Arm(o)
           \/ Disarm
           \/ \E p \in Previews : BuildPreview(p)
    PROVE  TypeOK'
<1> USE NowIsNat
<1>1. ASSUME NEW o \in Operators, ArmBegin(o) PROVE TypeOK'
  <2>1. [open |-> TRUE, seen |-> LiveWindows, expires |-> now + ArmTtl] \in ArmTx
    BY <1>1, TtlsAreNat DEF ArmTx, LiveWindows
  <2> QED BY <1>1, <2>1 DEF ArmBegin, TypeOK, confirmVars
<1>2. ASSUME NEW o \in Operators, ArmAbort(o) PROVE TypeOK'
  BY <1>2 DEF ArmAbort, TypeOK, confirmVars, NoTx, ArmTx
<1>3. ASSUME NEW o \in Operators, NEW w \in Windows, ArmCommit(o, w) PROVE TypeOK'
  <2> DEFINE still == {v \in armTx[o].seen : window[v].state = "open"}
  <2>1. Closed(still, "superseded") \in [Windows -> Window]
    BY ClosedTyped
  <2>2. [state |-> "open", expires |-> armTx[o].expires, boot |-> boot] \in Window
    BY DEF TypeOK, ArmTx, Window
  <2>3. window' \in [Windows -> Window]
    BY <1>3, <2>1, <2>2 DEF ArmCommit
  <2> QED BY <1>3, <2>3 DEF ArmCommit, TypeOK, confirmVars, NoTx, ArmTx
<1>4. ASSUME Disarm PROVE TypeOK'
  BY <1>4, ClosedTyped DEF Disarm, TypeOK, confirmVars
<1>5. ASSUME NEW p \in Previews, BuildPreview(p) PROVE TypeOK'
  <2>1. PICK v \in PossibleVerdicts, ok \in Shapes :
          preview' = [preview EXCEPT ![p] = [state |-> "live", made |-> now, verdict |-> v,
                                             wellFormed |-> ok, boot |-> boot]]
    BY <1>5 DEF BuildPreview
  <2>2. v \in Verdicts
    BY InputsAreSets DEF PossibleVerdicts, Verdicts
  <2>3. [state |-> "live", made |-> now, verdict |-> v,
         wellFormed |-> ok, boot |-> boot] \in Preview
    BY <2>2, InputsAreSets DEF Preview
  <2> QED BY <1>5, <2>1, <2>3 DEF BuildPreview, TypeOK, confirmVars
<1> QED BY <1>1, <1>2, <1>3, <1>4, <1>5 DEF Arm

\* So do the steps of a confirm() call.
LEMMA TypeConfirm ==
    ASSUME TypeOK, NEW r \in Requests, Confirm(r)
    PROVE  TypeOK'
<1> USE NowIsNat
<1>1. CASE CheckArmed(r)
  BY <1>1 DEF CheckArmed, Goto, TypeOK, Steps, Running
<1>2. CASE RefuseUnarmed(r)
  BY <1>2 DEF RefuseUnarmed, Goto, TypeOK, Steps, Running
<1>3. CASE CheckRateCap(r)
  BY <1>3 DEF CheckRateCap, Goto, TypeOK, Steps, Running
<1>4. CASE TripDisarm(r)
  BY <1>4, ClosedTyped DEF TripDisarm, Goto, TypeOK, Steps, Running
<1>5. CASE DbErrorRefuses(r)
  BY <1>5 DEF DbErrorRefuses, Goto, TypeOK, Steps, Running
<1>6. CASE Take(r)
  <2>1. ASSUME NEW p \in Previews, NEW written \in BOOLEAN, TakePreview(r, p, written)
        PROVE  TypeOK'
    <3>0. preview[p] \in Preview /\ NoEntry("gone") \in Preview
      BY DEF TypeOK, Preview, NoEntry, Verdicts
    <3>1. preview' \in [Previews -> Preview]
      <4>1. CASE Clears(preview[p].verdict, written)
        <5> DEFINE taken == [preview[p] EXCEPT !.state = "taken"]
        <5>1. taken \in Preview
          BY <3>0, EntryTaken
        <5>2. preview' = [preview EXCEPT ![p] = taken]
          BY <2>1, <4>1 DEF TakePreview
        <5> HIDE DEF taken
        <5> QED BY <5>1, <5>2 DEF TypeOK
      <4>2. CASE ~Clears(preview[p].verdict, written)
        BY <2>1, <3>0, <4>2 DEF TakePreview, TypeOK
      <4> QED BY <4>1, <4>2
    <3>2. holds' \in [Requests -> Previews \cup {NoPreview}]
          /\ reason' \in [Requests -> BOOLEAN] /\ pc' \in [Requests -> Steps]
      BY <2>1 DEF TakePreview, TypeOK, Goto, Steps, Running
    <3> QED BY <2>1, <3>1, <3>2 DEF TakePreview, TypeOK
  <2>2. ASSUME NEW p \in Previews, ExpirePreview(r, p) PROVE TypeOK'
    BY <2>2 DEF ExpirePreview, Goto, TypeOK, Steps, Running, Preview, NoEntry, Verdicts
  <2>3. ASSUME NEW p \in Previews, RefuseUnknownPreview(r, p) PROVE TypeOK'
    BY <2>3 DEF RefuseUnknownPreview, Goto, TypeOK, Steps, Running
  <2> QED BY <1>6, <2>1, <2>2, <2>3 DEF Take
<1>7. CASE InsertRow(r)
  <2>1. [status |-> "submitting", at |-> now, passed |-> preview[holds[r]].verdict = {},
         override |-> "overridable" \in preview[holds[r]].verdict] \in Row
    BY DEF Row, SubmitStatus
  <2>2. row' \in [Requests -> Row] /\ pc' \in [Requests -> Steps]
    BY <1>7, <2>1 DEF InsertRow, Goto, TypeOK, Steps, Running
  <2> QED BY <1>7, <2>2 DEF InsertRow, TypeOK
<1>8. CASE RefuseRow(r)
  BY <1>8 DEF RefuseRow, Goto, TypeOK, Steps, Running
<1>9. CASE SubmitOrder(r)
  BY <1>9 DEF SubmitOrder, Goto, TypeOK, Steps, Running
<1>10. CASE Conclude(r)
  <2>1. Conclusions(wire[r]) \subseteq SubmitStatus
    BY DEF Conclusions, SubmitStatus
  <2> QED BY <1>10, <2>1 DEF Conclude, Goto, TypeOK, Steps, Running
<1>11. CASE Finish(r)
  <2> DEFINE settled == [row[r] EXCEPT !.status = outcome[r]]
  <2>0. settled \in Row
    BY RowSettled DEF TypeOK
  <2>1. row' = [row EXCEPT ![r] = settled] \/ row' = row
    BY <1>11 DEF Finish
  <2> HIDE DEF settled
  <2>2. row' \in [Requests -> Row]
    BY <2>0, <2>1 DEF TypeOK
  <2> QED BY <1>11, <2>2 DEF Finish, Goto, TypeOK, Steps, Running
<1> QED BY <1>1, <1>2, <1>3, <1>4, <1>5, <1>6, <1>7, <1>8, <1>9, <1>10, <1>11 DEF Confirm

\* And those of the environment.
LEMMA TypeEnvironment ==
    ASSUME TypeOK,
           \/ \E r \in Requests : BrokerCreate(r) \/ BrokerRefuse(r)
           \/ Tick
           \/ Restart
    PROVE  TypeOK'
<1>1. ASSUME NEW r \in Requests, BrokerCreate(r) \/ BrokerRefuse(r) PROVE TypeOK'
  BY <1>1 DEF BrokerCreate, BrokerRefuse, TypeOK, confirmVars
<1>2. ASSUME Tick PROVE TypeOK'
  BY <1>2, BoundsAreNat DEF Tick, TypeOK, confirmVars
<1>3. ASSUME Restart PROVE TypeOK'
  <2>1. preview' \in [Previews -> Preview]
    BY <1>3 DEF Restart, TypeOK, NoEntry, Preview, Verdicts
  <2>2. armTx' \in [Operators -> ArmTx] /\ boot' \in 0..MaxBoots
    BY <1>3, BoundsAreNat DEF Restart, TypeOK, NoTx, ArmTx
  <2>3. pc' \in [Requests -> Steps] /\ outcome' \in [Requests -> SubmitStatus \cup {"none"}]
    BY <1>3 DEF Restart, TypeOK, Steps, Running
  <2> QED BY <1>3, <2>1, <2>2, <2>3 DEF Restart, TypeOK
<1> QED BY <1>1, <1>2, <1>3

LEMMA TypeStep == TypeOK /\ [Next]_vars => TypeOK'
<1> SUFFICES ASSUME TypeOK, [Next]_vars PROVE TypeOK'
  OBVIOUS
<1>1. CASE Next
  BY <1>1, TypeControl, TypeConfirm, TypeEnvironment DEF Next
<1>2. CASE UNCHANGED vars
  BY <1>2 DEF vars, TypeOK
<1> QED BY <1>1, <1>2

(* Every variable keeps its type, whatever the threads, the clock, the      *)
(* broker and the restarts do.                                             *)
THEOREM TypeCorrect == Spec => []TypeOK
  BY TypeInit, TypeStep, PTL DEF Spec
-----------------------------------------------------------------------------
(* The inductive invariant.                                                *)

LEMMA InvInit == Init => IInv
<1> SUFFICES ASSUME Init PROVE IInv
  OBVIOUS
<1>1. TypeOK
  BY TypeInit
<1> QED
  BY <1>1 DEF Init, IInv, PreviewSpentOnce, SpentIsPopped, CallShape, RowShape,
     AuditBeforeBroker, StatusIsHonest, OutcomeIsHonest, LivePreviewsAreOurs,
     NoPreviewSurvivesRestart, Before, NoRow, NoEntry

\* Steps that touch only windows, transactions or the clock.
LEMMA InvFrame ==
    ASSUME IInv, TypeOK',
           UNCHANGED <<boot, preview, pc, holds, reason, row, outcome, wire>>
    PROVE  IInv'
  BY DEF IInv, PreviewSpentOnce, SpentIsPopped, CallShape, RowShape,
     AuditBeforeBroker, StatusIsHonest, OutcomeIsHonest, LivePreviewsAreOurs,
     NoPreviewSurvivesRestart, Before

\* Steps of a call that move it on and change nothing the invariant is about:
\* between two steps before the preview is taken, or straight to the end.
LEMMA InvMove ==
    ASSUME IInv, TypeOK', NEW r \in Requests, NEW s \in Steps,
           Goto(r, s),
           s = "done" \/ (pc[r] \in Before /\ s \in Before),
           UNCHANGED <<boot, preview, holds, reason, row, outcome, wire>>
    PROVE  IInv'
<1>1. pc' = [pc EXCEPT ![r] = s] /\ pc \in [Requests -> Steps]
  BY DEF Goto, IInv, TypeOK
<1>2. CallShape'
  BY <1>1 DEF IInv, CallShape, Before
<1>3. OutcomeIsHonest' /\ NoPreviewSurvivesRestart'
  BY <1>1 DEF IInv, OutcomeIsHonest, NoPreviewSurvivesRestart, Before
<1> QED
  BY <1>1, <1>2, <1>3 DEF IInv, PreviewSpentOnce, SpentIsPopped, RowShape,
     AuditBeforeBroker, StatusIsHonest, LivePreviewsAreOurs

\* Taking a preview: the entry was live, so no call held it.
LEMMA InvTake ==
    ASSUME IInv, TypeOK', NEW r \in Requests, NEW p \in Previews,
           NEW written \in BOOLEAN, TakePreview(r, p, written)
    PROVE  IInv'
<1>0. TypeOK /\ preview[p] \in Preview /\ p # NoPreview
  BY NoPreviewIsNone DEF IInv, TypeOK
<1>f. UNCHANGED <<boot, row, outcome, wire>> /\ pc[r] = "budgeted" /\ preview[p].state = "live"
  BY DEF TakePreview
<1>n. \A q \in Requests : holds[q] # p
  BY <1>0, <1>f DEF IInv, SpentIsPopped
<1>1. CASE Clears(preview[p].verdict, written)
  <2> DEFINE taken == [preview[p] EXCEPT !.state = "taken"]
  <2>1. taken.state = "taken" /\ taken.verdict = preview[p].verdict /\ taken.boot = preview[p].boot
    BY <1>0, EntryTaken
  <2>2. preview' = [preview EXCEPT ![p] = taken] /\ holds' = [holds EXCEPT ![r] = p]
        /\ reason' = [reason EXCEPT ![r] = written] /\ pc' = [pc EXCEPT ![r] = "cleared"]
    BY <1>1 DEF TakePreview, Goto
  <2> HIDE DEF taken
  <2>3. PreviewSpentOnce' /\ SpentIsPopped'
    BY <1>0, <1>n, <2>1, <2>2 DEF IInv, PreviewSpentOnce, SpentIsPopped, TypeOK
  <2>4. CallShape'
    BY <1>0, <1>f, <2>2 DEF IInv, CallShape, Before, TypeOK
  <2>5. RowShape'
    BY <1>0, <1>1, <1>f, <1>n, <2>1, <2>2 DEF IInv, CallShape, RowShape, Before, TypeOK
  <2>6. AuditBeforeBroker' /\ StatusIsHonest' /\ OutcomeIsHonest'
    BY <1>0, <1>f, <2>2 DEF IInv, AuditBeforeBroker, StatusIsHonest, OutcomeIsHonest, TypeOK
  <2>7. LivePreviewsAreOurs' /\ NoPreviewSurvivesRestart'
    BY <1>0, <1>f, <1>n, <2>1, <2>2
       DEF IInv, LivePreviewsAreOurs, NoPreviewSurvivesRestart, CallShape, TypeOK
  <2> QED BY <2>3, <2>4, <2>5, <2>6, <2>7 DEF IInv
<1>2. CASE ~Clears(preview[p].verdict, written)
  <2>1. preview' = [preview EXCEPT ![p] = NoEntry("gone")] /\ UNCHANGED <<holds, reason>>
        /\ pc' = [pc EXCEPT ![r] = "done"]
    BY <1>2 DEF TakePreview, Goto
  <2> QED
    BY <1>0, <1>f, <1>n, <2>1
       DEF IInv, PreviewSpentOnce, SpentIsPopped, CallShape, RowShape, AuditBeforeBroker,
           StatusIsHonest, OutcomeIsHonest, LivePreviewsAreOurs, NoPreviewSurvivesRestart,
           Before, NoEntry, TypeOK
<1> QED BY <1>1, <1>2

LEMMA InvExpire ==
    ASSUME IInv, TypeOK', NEW r \in Requests, NEW p \in Previews, ExpirePreview(r, p)
    PROVE  IInv'
<1>0. TypeOK /\ p # NoPreview
  BY NoPreviewIsNone DEF IInv
<1>1. \A q \in Requests : holds[q] # p
  BY <1>0 DEF IInv, SpentIsPopped, ExpirePreview
<1> QED
  BY <1>0, <1>1
     DEF ExpirePreview, Goto, IInv, PreviewSpentOnce, SpentIsPopped, CallShape, RowShape,
         AuditBeforeBroker, StatusIsHonest, OutcomeIsHonest, LivePreviewsAreOurs,
         NoPreviewSurvivesRestart, Before, NoEntry, TypeOK

\* Building a preview: its id was never popped, so no call holds it.
LEMMA InvBuild ==
    ASSUME IInv, TypeOK', NEW p \in Previews, BuildPreview(p)
    PROVE  IInv'
<1>0. TypeOK /\ p # NoPreview
  BY NoPreviewIsNone DEF IInv
<1>1. \A q \in Requests : holds[q] # p
  BY <1>0 DEF IInv, SpentIsPopped, BuildPreview
<1>2. PICK v \in PossibleVerdicts, ok \in Shapes :
        preview' = [preview EXCEPT ![p] = [state |-> "live", made |-> now, verdict |-> v,
                                           wellFormed |-> ok, boot |-> boot]]
  BY DEF BuildPreview
<1>3. UNCHANGED <<boot, pc, holds, reason, row, outcome, wire>>
  BY DEF BuildPreview, confirmVars
<1>4. \A q \in Previews \ {p} : preview'[q] = preview[q]
  BY <1>0, <1>2 DEF TypeOK
<1>5. preview'[p].state = "live" /\ preview'[p].boot = boot
  BY <1>0, <1>2 DEF TypeOK
<1>6. \A q \in Requests : holds[q] # NoPreview => preview'[holds[q]] = preview[holds[q]]
  BY <1>0, <1>1, <1>4 DEF TypeOK
<1>7. SpentIsPopped' /\ RowShape'
  BY <1>3, <1>6 DEF IInv, SpentIsPopped, RowShape
<1>8. LivePreviewsAreOurs' /\ NoPreviewSurvivesRestart'
  BY <1>3, <1>4, <1>5, <1>6 DEF IInv, LivePreviewsAreOurs, NoPreviewSurvivesRestart, CallShape
<1> QED
  BY <1>3, <1>7, <1>8
     DEF IInv, PreviewSpentOnce, CallShape, AuditBeforeBroker, StatusIsHonest,
         OutcomeIsHonest

\* Writing the audit row: the call holds a preview that cleared.
LEMMA InvInsert ==
    ASSUME IInv, TypeOK', NEW r \in Requests, InsertRow(r)
    PROVE  IInv'
<1>0. TypeOK /\ pc[r] = "cleared" /\ UNCHANGED <<boot, preview, holds, reason, outcome, wire>>
  BY DEF IInv, InsertRow
<1>1. /\ \A q \in Requests \ {r} : row'[q] = row[q] /\ pc'[q] = pc[q]
      /\ row'[r].status = "submitting"
      /\ row'[r].passed = (preview[holds[r]].verdict = {})
      /\ row'[r].override = ("overridable" \in preview[holds[r]].verdict)
      /\ pc'[r] \in {"recorded", "done"}
  BY <1>0 DEF InsertRow, Goto, TypeOK
<1>2. CallShape' /\ RowShape'
  BY <1>0, <1>1, ZenonT(60) DEF IInv, CallShape, RowShape, Before
<1>3. AuditBeforeBroker' /\ StatusIsHonest'
  BY <1>0, <1>1 DEF IInv, AuditBeforeBroker, StatusIsHonest, CallShape
<1>4. OutcomeIsHonest' /\ NoPreviewSurvivesRestart'
  BY <1>0, <1>1 DEF IInv, OutcomeIsHonest, NoPreviewSurvivesRestart
<1> QED
  BY <1>0, <1>2, <1>3, <1>4 DEF IInv, PreviewSpentOnce, SpentIsPopped, LivePreviewsAreOurs

\* Submitting, and drawing the conclusion: the row is there and says submitting.
LEMMA InvSubmit ==
    ASSUME IInv, TypeOK', NEW r \in Requests, SubmitOrder(r)
    PROVE  IInv'
<1>0. TypeOK
  BY DEF IInv
<1> QED
  BY <1>0 DEF SubmitOrder, Goto, IInv, PreviewSpentOnce, SpentIsPopped, CallShape, RowShape,
     AuditBeforeBroker, StatusIsHonest, OutcomeIsHonest, LivePreviewsAreOurs,
     NoPreviewSurvivesRestart, Before, TypeOK

LEMMA InvConclude ==
    ASSUME IInv, TypeOK', NEW r \in Requests, Conclude(r)
    PROVE  IInv'
<1>0. TypeOK /\ UNCHANGED <<boot, preview, holds, reason, row, wire>>
  BY DEF IInv, Conclude
<1>1. PICK s \in Conclusions(wire[r]) : outcome' = [outcome EXCEPT ![r] = s]
  BY DEF Conclude
<1>2. /\ s \in {"accepted", "rejected", "unknown"}
      /\ s = "accepted" => wire[r] = "landed"
      /\ s = "rejected" => wire[r] = "turned_away"
  BY DEF Conclusions
<1>3. pc' = [pc EXCEPT ![r] = "settling"] /\ pc[r] = "waiting"
  BY DEF Conclude, Goto
<1>4. CallShape' /\ OutcomeIsHonest'
  BY <1>0, <1>1, <1>2, <1>3 DEF IInv, CallShape, OutcomeIsHonest, Before, TypeOK
<1> QED
  BY <1>0, <1>3, <1>4
     DEF IInv, PreviewSpentOnce, SpentIsPopped, RowShape, AuditBeforeBroker, StatusIsHonest,
         LivePreviewsAreOurs, NoPreviewSurvivesRestart, TypeOK

\* Settling the row: the conclusion it takes over was right.
LEMMA InvFinish ==
    ASSUME IInv, TypeOK', NEW r \in Requests, Finish(r)
    PROVE  IInv'
<1>0. TypeOK /\ UNCHANGED <<boot, preview, holds, reason, wire>>
  BY DEF IInv, Finish
<1> DEFINE settled == [row[r] EXCEPT !.status = outcome[r]]
<1>1. settled.status = outcome[r] /\ settled.passed = row[r].passed
      /\ settled.override = row[r].override
  BY <1>0, RowSettled DEF TypeOK
<1>2. row' = [row EXCEPT ![r] = settled] \/ row' = row
  BY DEF Finish
<1> HIDE DEF settled
<1>3. /\ \A q \in Requests \ {r} : row'[q] = row[q]
      /\ row'[r].passed = row[r].passed /\ row'[r].override = row[r].override
      /\ row'[r].status = outcome[r] \/ row'[r].status = row[r].status
  BY <1>0, <1>1, <1>2 DEF TypeOK
<1>4. pc' = [pc EXCEPT ![r] = "done"] /\ outcome' = [outcome EXCEPT ![r] = "none"]
      /\ pc[r] = "settling"
  BY DEF Finish, Goto
<1>5. row[r].status = "submitting" /\ outcome[r] # "none"
  BY <1>4 DEF IInv, CallShape, OutcomeIsHonest
<1>6. CallShape'
  BY <1>0, <1>3, <1>4 DEF IInv, CallShape, Before, TypeOK
<1>7. RowShape' /\ AuditBeforeBroker'
  BY <1>0, <1>3, <1>5 DEF IInv, RowShape, AuditBeforeBroker
<1>8. StatusIsHonest'
  BY <1>0, <1>3 DEF IInv, StatusIsHonest, OutcomeIsHonest
<1>9. OutcomeIsHonest' /\ NoPreviewSurvivesRestart'
  BY <1>0, <1>4 DEF IInv, OutcomeIsHonest, NoPreviewSurvivesRestart, TypeOK
<1> QED
  BY <1>0, <1>6, <1>7, <1>8, <1>9 DEF IInv, PreviewSpentOnce, SpentIsPopped, LivePreviewsAreOurs

\* The broker decides only what is still open to it.
LEMMA InvBroker ==
    ASSUME IInv, TypeOK', NEW r \in Requests, BrokerCreate(r) \/ BrokerRefuse(r)
    PROVE  IInv'
<1>0. TypeOK
  BY DEF IInv
<1> QED
  BY <1>0 DEF BrokerCreate, BrokerRefuse, confirmVars, IInv, PreviewSpentOnce, SpentIsPopped,
     CallShape, RowShape, AuditBeforeBroker, StatusIsHonest, OutcomeIsHonest,
     LivePreviewsAreOurs, NoPreviewSurvivesRestart, Before, TypeOK

\* A restart: no call is running, no preview is live.
LEMMA InvRestart ==
    ASSUME IInv, TypeOK', Restart
    PROVE  IInv'
<1>0. TypeOK /\ UNCHANGED <<holds, reason, row, wire>>
  BY DEF IInv, Restart
<1>1. \A r \in Requests : pc'[r] = pc[r] \/ pc'[r] = "dead"
  BY <1>0 DEF Restart, TypeOK
<1>2. \A r \in Requests : pc'[r] \in {"idle", "done", "dead"}
  BY <1>0 DEF Restart, TypeOK, Steps, Running
<1>3. \A p \in Previews : preview[p].state = "taken" => preview'[p] = preview[p]
  BY <1>0 DEF Restart, TypeOK
<1>4. \A p \in Previews : preview'[p].state # "live"
  BY <1>0 DEF Restart, TypeOK, NoEntry
<1>5. \A r \in Requests : outcome'[r] = "none"
  BY DEF Restart
<1>6. \A r \in Requests : holds[r] # NoPreview => preview'[holds[r]] = preview[holds[r]]
  BY <1>0, <1>3 DEF IInv, SpentIsPopped, TypeOK
<1>7. CallShape'
  BY <1>0, <1>1, <1>2 DEF IInv, CallShape, Before
<1>8. SpentIsPopped' /\ RowShape'
  BY <1>0, <1>6 DEF IInv, SpentIsPopped, RowShape
<1>9. OutcomeIsHonest' /\ NoPreviewSurvivesRestart' /\ LivePreviewsAreOurs'
  BY <1>2, <1>4, <1>5 DEF OutcomeIsHonest, NoPreviewSurvivesRestart, LivePreviewsAreOurs
<1> QED
  BY <1>0, <1>7, <1>8, <1>9 DEF IInv, PreviewSpentOnce, AuditBeforeBroker, StatusIsHonest

LEMMA InvStep == IInv /\ [Next]_vars => IInv'
<1> SUFFICES ASSUME IInv, [Next]_vars PROVE IInv'
  OBVIOUS
<1>t. TypeOK'
  BY TypeStep DEF IInv
<1>1. ASSUME NEW o \in Operators, Arm(o) PROVE IInv'
  BY <1>1, <1>t, InvFrame DEF Arm, ArmBegin, ArmCommit, ArmAbort, confirmVars
<1>2. ASSUME Disarm \/ Tick PROVE IInv'
  BY <1>2, <1>t, InvFrame DEF Disarm, Tick, confirmVars
<1>3. ASSUME NEW p \in Previews, BuildPreview(p) PROVE IInv'
  BY <1>3, <1>t, InvBuild
<1>4. ASSUME NEW r \in Requests, Confirm(r) PROVE IInv'
  <2>1. ASSUME \/ CheckArmed(r) \/ RefuseUnarmed(r) \/ CheckRateCap(r) \/ TripDisarm(r)
               \/ DbErrorRefuses(r) \/ RefuseRow(r)
               \/ \E p \in Previews : RefuseUnknownPreview(r, p)
        PROVE  IInv'
    <3>1. PICK s \in {"armed", "done", "tripped", "budgeted"} :
            Goto(r, s) /\ (s = "done" \/ (pc[r] \in Before /\ s \in Before))
      BY <2>1 DEF CheckArmed, RefuseUnarmed, CheckRateCap, TripDisarm, DbErrorRefuses,
         RefuseRow, RefuseUnknownPreview, Before
    <3>2. UNCHANGED <<boot, preview, holds, reason, row, outcome, wire>>
      BY <2>1 DEF CheckArmed, RefuseUnarmed, CheckRateCap, TripDisarm, DbErrorRefuses,
         RefuseRow, RefuseUnknownPreview
    <3>3. s \in Steps
      BY DEF Steps, Running
    <3> QED BY <1>t, <3>1, <3>2, <3>3, InvMove
  <2>2. ASSUME NEW p \in Previews, NEW written \in BOOLEAN, TakePreview(r, p, written)
        PROVE  IInv'
    BY <1>t, <2>2, InvTake
  <2>3. ASSUME NEW p \in Previews, ExpirePreview(r, p) PROVE IInv'
    BY <1>t, <2>3, InvExpire
  <2>4. ASSUME InsertRow(r) \/ SubmitOrder(r) \/ Conclude(r) \/ Finish(r) PROVE IInv'
    BY <1>t, <2>4, InvInsert, InvSubmit, InvConclude, InvFinish
  <2> QED BY <1>4, <2>1, <2>2, <2>3, <2>4 DEF Confirm, Take
<1>5. ASSUME NEW r \in Requests, BrokerCreate(r) \/ BrokerRefuse(r) PROVE IInv'
  BY <1>5, <1>t, InvBroker
<1>6. ASSUME Restart PROVE IInv'
  BY <1>6, <1>t, InvRestart
<1>7. ASSUME UNCHANGED vars PROVE IInv'
  BY <1>7, <1>t, InvFrame DEF vars
<1> QED BY <1>1, <1>2, <1>3, <1>4, <1>5, <1>6, <1>7 DEF Next

THEOREM InvHolds == Spec => []IInv
  BY InvInit, InvStep, PTL DEF Spec

(* No two confirm() calls ever get hold of the same preview.               *)
THEOREM PreviewsAreSpentOnce == Spec => []PreviewSpentOnce
<1>1. IInv => PreviewSpentOnce
  BY DEF IInv
<1> QED BY <1>1, InvHolds, PTL

(* Whatever reached the broker is on record.                               *)
THEOREM AuditComesFirst == Spec => []AuditBeforeBroker
<1>1. IInv => AuditBeforeBroker
  BY DEF IInv
<1> QED BY <1>1, InvHolds, PTL

(* "accepted" and "rejected" are facts about the broker, for ever.         *)
THEOREM StatusesAreHonest == Spec => []StatusIsHonest
<1>1. IInv => StatusIsHonest
  BY DEF IInv
<1> QED BY <1>1, InvHolds, PTL

(* Nothing halted is ever submitted, and nothing blocked without its        *)
(* override on the audit row.                                              *)
THEOREM GuardrailsAlwaysHold == Spec => []GuardrailsHeld
<1>1. ASSUME IInv PROVE GuardrailsHeld
  <2> SUFFICES ASSUME NEW r \in Requests, wire[r] # "unsent"
               PROVE  /\ "halt" \notin preview[holds[r]].verdict
                      /\ row[r].passed \/ (row[r].override /\ reason[r])
    BY DEF GuardrailsHeld
  <2>1. row[r].status # "none" /\ holds[r] \in Previews
    BY <1>1 DEF IInv, AuditBeforeBroker
  <2>2. /\ Clears(preview[holds[r]].verdict, reason[r])
        /\ row[r].passed <=> preview[holds[r]].verdict = {}
        /\ row[r].override <=> "overridable" \in preview[holds[r]].verdict
    BY <1>1, <2>1, NoPreviewIsNone DEF IInv, RowShape
  <2>3. preview[holds[r]].verdict \in SUBSET {"overridable", "halt"}
    BY <1>1, <2>1 DEF IInv, TypeOK, Preview, Verdicts
  <2> QED BY <2>2, <2>3 DEF Clears
<1> QED BY <1>1, InvHolds, PTL

(* A process submits only what was previewed since it started.             *)
THEOREM NoPreviewOutlivesRestart == Spec => []NoPreviewSurvivesRestart
<1>1. IInv => NoPreviewSurvivesRestart
  BY DEF IInv
<1> QED BY <1>1, InvHolds, PTL
-----------------------------------------------------------------------------
(* Execution implements OrderLedger.                                       *)

\* The preview in a call's hands has that call for its one holder.
LEMMA HolderIs ==
    ASSUME PreviewSpentOnce, NEW r \in Requests, holds[r] # NoPreview
    PROVE  Held(holds[r]) /\ Holder(holds[r]) = r
  BY DEF PreviewSpentOnce, Held, Holder

\* What the abstract variables are at the preview a call holds, and elsewhere.
LEMMA MapAt ==
    ASSUME PreviewSpentOnce, NEW r \in Requests, holds[r] \in Previews
    PROVE  OrderStatus[holds[r]] = row[r].status /\ BrokerStatus[holds[r]] = BrokerSays[wire[r]]
  BY HolderIs, NoPreviewIsNone DEF OrderStatus, BrokerStatus

LEMMA MapElsewhere ==
    ASSUME NEW p \in Previews, ~Held(p)
    PROVE  OrderStatus[p] = "none" /\ BrokerStatus[p] = "unasked"
  BY DEF OrderStatus, BrokerStatus

\* A step in which no call takes a preview changes the map only at the calls
\* whose row or wire it changes.
LEMMA MapFrame ==
    ASSUME PreviewSpentOnce, PreviewSpentOnce', holds' = holds,
           NEW p \in Previews,
           \A r \in Requests : holds[r] = p =>
               row'[r].status = row[r].status /\ wire'[r] = wire[r]
    PROVE  OrderStatus'[p] = OrderStatus[p] /\ BrokerStatus'[p] = BrokerStatus[p]
<1>1. Held(p)' <=> Held(p)
  BY DEF Held
<1>2. CASE ~Held(p)
  BY <1>1, <1>2 DEF OrderStatus, BrokerStatus
<1>3. CASE Held(p)
  <2>1. PICK r \in Requests : holds[r] = p
    BY <1>3 DEF Held
  <2>2. p # NoPreview
    BY NoPreviewIsNone
  <2>3. OrderStatus[p] = row[r].status /\ BrokerStatus[p] = BrokerSays[wire[r]]
    BY <2>1, <2>2, MapAt
  <2>4. Holder(p)' = Holder(p)
    BY DEF Holder
  <2>5. Holder(p) = r
    BY <2>1, <2>2, HolderIs
  <2> QED BY <1>1, <1>3, <2>1, <2>3, <2>4, <2>5 DEF OrderStatus, BrokerStatus, BrokerSays
<1> QED BY <1>2, <1>3

\* A step of one call changes the map at its preview only.
LEMMA MapChange ==
    ASSUME PreviewSpentOnce, PreviewSpentOnce', holds' = holds,
           NEW r \in Requests, holds[r] \in Previews,
           \A q \in Requests \ {r} : row'[q].status = row[q].status /\ wire'[q] = wire[q]
    PROVE  /\ OrderStatus' = [OrderStatus EXCEPT ![holds[r]] = row'[r].status]
           /\ BrokerStatus' = [BrokerStatus EXCEPT ![holds[r]] = BrokerSays[wire'[r]]]
<1> DEFINE h == holds[r]
<1>1. OrderStatus'[h] = row'[r].status /\ BrokerStatus'[h] = BrokerSays[wire'[r]]
  <2>1. Held(h)' /\ Holder(h)' = r
    BY HolderIs, NoPreviewIsNone DEF PreviewSpentOnce, Held, Holder
  <2> QED BY <2>1 DEF OrderStatus, BrokerStatus, BrokerSays
<1>2. ASSUME NEW p \in Previews \ {h}
      PROVE  OrderStatus'[p] = OrderStatus[p] /\ BrokerStatus'[p] = BrokerStatus[p]
  BY <1>2, MapFrame
<1>3. /\ OrderStatus = [p \in Previews |-> OrderStatus[p]]
      /\ OrderStatus' = [p \in Previews |-> OrderStatus'[p]]
      /\ BrokerStatus = [p \in Previews |-> BrokerStatus[p]]
      /\ BrokerStatus' = [p \in Previews |-> BrokerStatus'[p]]
  BY DEF OrderStatus, BrokerStatus
<1> QED BY <1>1, <1>2, <1>3

\* A step that touches no row's status, no wire and no holder is a stutter.
LEMMA MapStutter ==
    ASSUME holds' = holds, row' = row, wire' = wire
    PROVE  OrderStatus' = OrderStatus /\ BrokerStatus' = BrokerStatus
  BY DEF OrderStatus, BrokerStatus, Held, Holder, BrokerSays

\* Taking a preview is a stutter too: the call has no row and has sent nothing.
LEMMA MapTake ==
    ASSUME IInv, IInv', NEW r \in Requests, NEW p \in Previews,
           NEW written \in BOOLEAN, TakePreview(r, p, written)
    PROVE  OrderStatus' = OrderStatus /\ BrokerStatus' = BrokerStatus
<1>0. UNCHANGED <<row, wire>> /\ row[r].status = "none" /\ wire[r] = "unsent"
      /\ holds[r] = NoPreview /\ p # NoPreview
  BY NoPreviewIsNone DEF TakePreview, IInv, CallShape, Before
<1>1. CASE holds' = holds
  BY <1>0, <1>1, MapStutter
<1>2. CASE holds' = [holds EXCEPT ![r] = p]
  <2>1. ~Held(p)
    <3>1. preview[p].state = "live"
      BY DEF TakePreview
    <3> QED BY <1>0, <3>1 DEF IInv, SpentIsPopped, Held
  <2>2. holds'[r] = p /\ \A q \in Requests \ {r} : holds'[q] = holds[q]
    BY <1>2 DEF IInv, TypeOK
  <2>3. Held(p)' /\ Holder(p)' = r
    BY <1>0, <2>1, <2>2 DEF Held, Holder
  <2>4. OrderStatus'[p] = OrderStatus[p] /\ BrokerStatus'[p] = BrokerStatus[p]
    BY <1>0, <2>1, <2>3 DEF OrderStatus, BrokerStatus, BrokerSays
  <2>5. ASSUME NEW x \in Previews \ {p}
        PROVE  OrderStatus'[x] = OrderStatus[x] /\ BrokerStatus'[x] = BrokerStatus[x]
    <3>1. \A q \in Requests : holds'[q] = x <=> holds[q] = x
      BY <1>0, <2>2, <2>5, NoPreviewIsNone
    <3>2. Held(x)' <=> Held(x)
      BY <3>1 DEF Held
    <3>3. Holder(x)' = Holder(x)
      BY <3>1 DEF Holder
    <3> QED BY <1>0, <3>2, <3>3 DEF OrderStatus, BrokerStatus, BrokerSays
  <2>6. /\ OrderStatus = [x \in Previews |-> OrderStatus[x]]
        /\ OrderStatus' = [x \in Previews |-> OrderStatus'[x]]
        /\ BrokerStatus = [x \in Previews |-> BrokerStatus[x]]
        /\ BrokerStatus' = [x \in Previews |-> BrokerStatus'[x]]
    BY DEF OrderStatus, BrokerStatus
  <2> QED BY <2>4, <2>5, <2>6
<1> QED BY <1>1, <1>2 DEF TakePreview

LEMMA LedgerInitially == Init => Ledger!LedgerInit
  BY NoPreviewIsNone DEF Init, Ledger!LedgerInit, OrderStatus, BrokerStatus, Held

LEMMA InsertRecords ==
    ASSUME IInv, IInv', NEW r \in Requests, InsertRow(r)
    PROVE  Ledger!Record(holds[r])
<1>1. holds' = holds /\ wire' = wire /\ holds[r] \in Previews /\ row[r].status = "none"
      /\ wire[r] = "unsent"
  BY DEF InsertRow, IInv, CallShape, TypeOK, Before
<1>2. row'[r].status = "submitting" /\ \A q \in Requests \ {r} : row'[q] = row[q]
  BY DEF InsertRow, IInv, TypeOK
<1>3. /\ OrderStatus' = [OrderStatus EXCEPT ![holds[r]] = "submitting"]
      /\ BrokerStatus' = [BrokerStatus EXCEPT ![holds[r]] = BrokerSays[wire[r]]]
  BY <1>1, <1>2, MapChange DEF IInv
<1>4. OrderStatus[holds[r]] = "none" /\ BrokerStatus[holds[r]] = BrokerSays[wire[r]]
  BY <1>1, MapAt DEF IInv
<1>5. BrokerStatus' = BrokerStatus
  BY <1>3, <1>4 DEF BrokerStatus
<1> QED BY <1>3, <1>4, <1>5 DEF Ledger!Record

LEMMA SubmitAsks ==
    ASSUME IInv, IInv', NEW r \in Requests, SubmitOrder(r)
    PROVE  Ledger!Ask(holds[r])
<1>1. holds' = holds /\ row' = row /\ holds[r] \in Previews
      /\ row[r].status = "submitting" /\ wire[r] = "unsent"
  BY DEF SubmitOrder, IInv, CallShape, TypeOK, Before
<1>2. wire'[r] = "flying" /\ \A q \in Requests \ {r} : wire'[q] = wire[q]
  BY DEF SubmitOrder, IInv, TypeOK
<1>3. /\ OrderStatus' = [OrderStatus EXCEPT ![holds[r]] = row[r].status]
      /\ BrokerStatus' = [BrokerStatus EXCEPT ![holds[r]] = "asked"]
  BY <1>1, <1>2, MapChange DEF IInv, BrokerSays
<1>4. OrderStatus[holds[r]] = "submitting" /\ BrokerStatus[holds[r]] = "unasked"
      /\ OrderStatus[holds[r]] = row[r].status
  BY <1>1, MapAt DEF IInv, BrokerSays
<1>5. OrderStatus' = OrderStatus
  BY <1>3, <1>4 DEF OrderStatus
<1> QED BY <1>3, <1>4, <1>5 DEF Ledger!Ask

LEMMA BrokerDecides ==
    ASSUME IInv, IInv', NEW r \in Requests, BrokerCreate(r) \/ BrokerRefuse(r)
    PROVE  Ledger!Decide(holds[r])
<1>1. holds' = holds /\ row' = row /\ wire[r] = "flying" /\ holds[r] \in Previews
  BY DEF BrokerCreate, BrokerRefuse, confirmVars, IInv, AuditBeforeBroker
<1>2. wire'[r] \in {"landed", "turned_away"} /\ \A q \in Requests \ {r} : wire'[q] = wire[q]
  BY DEF BrokerCreate, BrokerRefuse, IInv, TypeOK
<1>3. /\ OrderStatus' = [OrderStatus EXCEPT ![holds[r]] = row[r].status]
      /\ BrokerStatus' = [BrokerStatus EXCEPT ![holds[r]] = BrokerSays[wire'[r]]]
  BY <1>1, <1>2, MapChange DEF IInv
<1>4. BrokerStatus[holds[r]] = "asked" /\ OrderStatus[holds[r]] = row[r].status
  BY <1>1, MapAt DEF IInv, BrokerSays
<1>5. BrokerSays[wire'[r]] \in {"holds", "refused"}
  BY <1>2 DEF BrokerSays
<1>6. OrderStatus' = OrderStatus
  BY <1>3, <1>4 DEF OrderStatus
<1> QED BY <1>3, <1>4, <1>5, <1>6 DEF Ledger!Decide

LEMMA FinishSettles ==
    ASSUME IInv, IInv', NEW r \in Requests, Finish(r)
    PROVE  Ledger!Settle(holds[r]) \/ (OrderStatus' = OrderStatus /\ BrokerStatus' = BrokerStatus)
<1>1. holds' = holds /\ wire' = wire /\ holds[r] \in Previews
      /\ row[r].status = "submitting" /\ wire[r] # "unsent"
  BY DEF Finish, IInv, CallShape, TypeOK, Before
<1>2. CASE row' = row
  BY <1>1, <1>2, MapStutter
<1>3. CASE row' = [row EXCEPT ![r].status = outcome[r]]
  <2> DEFINE settled == [row[r] EXCEPT !.status = outcome[r]]
  <2>1. settled.status = outcome[r]
    BY RowSettled DEF IInv, TypeOK
  <2>2. row' = [row EXCEPT ![r] = settled]
    BY <1>3
  <2> HIDE DEF settled
  <2>3. row'[r].status = outcome[r] /\ \A q \in Requests \ {r} : row'[q] = row[q]
    BY <2>1, <2>2 DEF IInv, TypeOK
  <2>4. /\ OrderStatus' = [OrderStatus EXCEPT ![holds[r]] = outcome[r]]
        /\ BrokerStatus' = [BrokerStatus EXCEPT ![holds[r]] = BrokerSays[wire[r]]]
    BY <1>1, <2>3, MapChange DEF IInv
  <2>5. OrderStatus[holds[r]] = "submitting" /\ BrokerStatus[holds[r]] = BrokerSays[wire[r]]
    BY <1>1, MapAt DEF IInv
  <2>6. BrokerStatus' = BrokerStatus
    BY <2>4, <2>5 DEF BrokerStatus
  <2>7. /\ outcome[r] \in {"accepted", "rejected", "unknown"}
        /\ outcome[r] = "accepted" => wire[r] = "landed"
        /\ outcome[r] = "rejected" => wire[r] = "turned_away"
    BY DEF Finish, IInv, OutcomeIsHonest, TypeOK, SubmitStatus
  <2>8. wire[r] \in {"flying", "landed", "turned_away"}
    BY <1>1 DEF IInv, TypeOK
  <2>9. /\ BrokerStatus[holds[r]] # "unasked"
        /\ outcome[r] = "accepted" => BrokerStatus[holds[r]] = "holds"
        /\ outcome[r] = "rejected" => BrokerStatus[holds[r]] = "refused"
    BY <2>5, <2>7, <2>8 DEF BrokerSays
  <2> QED BY <2>4, <2>5, <2>6, <2>7, <2>9 DEF Ledger!Settle
<1> QED BY <1>2, <1>3 DEF Finish

LEMMA LedgerSteps ==
    ASSUME IInv, IInv', [Next]_vars
    PROVE  [Ledger!LedgerNext]_<<OrderStatus, BrokerStatus>>
<1> DEFINE Stutter == OrderStatus' = OrderStatus /\ BrokerStatus' = BrokerStatus
<1>1. ASSUME NEW r \in Requests, InsertRow(r) \/ SubmitOrder(r) \/ BrokerCreate(r) \/ BrokerRefuse(r)
      PROVE  Ledger!LedgerNext
  <2>1. holds[r] \in Previews
    BY <1>1 DEF InsertRow, SubmitOrder, BrokerCreate, BrokerRefuse, IInv, CallShape,
       AuditBeforeBroker, TypeOK, Before
  <2> QED BY <1>1, <2>1, InsertRecords, SubmitAsks, BrokerDecides DEF Ledger!LedgerNext
<1>2. ASSUME NEW r \in Requests, Finish(r) PROVE Ledger!LedgerNext \/ Stutter
  <2>1. holds[r] \in Previews
    BY <1>2 DEF Finish, IInv, CallShape, TypeOK
  <2> QED BY <1>2, <2>1, FinishSettles DEF Ledger!LedgerNext
<1>3. ASSUME NEW r \in Requests, Take(r) PROVE Stutter
  BY <1>3, MapTake, MapStutter DEF Take, ExpirePreview, RefuseUnknownPreview
<1>4. ASSUME NEW r \in Requests,
             \/ CheckArmed(r) \/ RefuseUnarmed(r) \/ CheckRateCap(r) \/ TripDisarm(r)
             \/ DbErrorRefuses(r) \/ RefuseRow(r) \/ Conclude(r)
      PROVE  Stutter
  BY <1>4, MapStutter DEF CheckArmed, RefuseUnarmed, CheckRateCap, TripDisarm, DbErrorRefuses,
     RefuseRow, Conclude
<1>5. ASSUME \/ \E o \in Operators : Arm(o)
             \/ \E p \in Previews : BuildPreview(p)
             \/ Disarm \/ Tick \/ Restart \/ UNCHANGED vars
      PROVE  Stutter
  BY <1>5, MapStutter DEF Arm, ArmBegin, ArmCommit, ArmAbort, BuildPreview, Disarm, Tick,
     Restart, confirmVars, vars
<1> QED BY <1>1, <1>2, <1>3, <1>4, <1>5 DEF Next, Confirm

(* The execution path keeps the promise of OrderLedger for each             *)
(* client_order_id: recorded before it is asked for, asked for once, and    *)
(* settled only by what the broker did.                                     *)
THEOREM ExecutionImplementsLedger == Spec => ImplementsLedger
  BY InvHolds, LedgerInitially, LedgerSteps, PTL
     DEF Spec, ImplementsLedger, Ledger!LedgerSpec
-----------------------------------------------------------------------------
(* How far overlapping confirms can overshoot the rate cap.                *)

LEMMA CallsAreFinite ==
    ASSUME NEW S \in SUBSET Requests
    PROVE  IsFiniteSet(S) /\ Cardinality(S) \in Nat
  BY RequestsAreFinite, FS_Subset, FS_CardinalityType

LEMMA SmallerIsFewer ==
    ASSUME NEW S \in SUBSET Requests, NEW T \in SUBSET S
    PROVE  Cardinality(T) <= Cardinality(S)
  BY CallsAreFinite, FS_Subset

LEMMA CapInit == Init => CapInv
<1> SUFFICES ASSUME Init PROVE CapInv
  OBVIOUS
<1>1. InFlight = {} /\ RecentRows \cup Pending = {}
  BY DEF Init, InFlight, RecentRows, Pending, Running, NoRow
<1> QED BY <1>1, FS_EmptySet, CapsAreNat DEF CapInv

\* A step that starts no call and lets none past the cap adds to neither set.
LEMMA CapShrinks ==
    ASSUME CapInv, InFlight' \subseteq InFlight,
           (RecentRows \cup Pending)' \subseteq RecentRows \cup Pending
    PROVE  CapInv'
<1>1. InFlight \subseteq Requests /\ RecentRows \cup Pending \subseteq Requests
  BY DEF InFlight, RecentRows, Pending
<1>2. /\ Cardinality(InFlight') <= Cardinality(InFlight)
      /\ Cardinality((RecentRows \cup Pending)') <= Cardinality(RecentRows \cup Pending)
  BY <1>1, SmallerIsFewer
<1>3. /\ Cardinality(InFlight) \in Nat /\ Cardinality(InFlight') \in Nat
      /\ Cardinality(RecentRows \cup Pending) \in Nat
      /\ Cardinality((RecentRows \cup Pending)') \in Nat
  BY <1>1, CallsAreFinite
<1> QED BY <1>2, <1>3, CapsAreNat DEF CapInv

LEMMA CapStep == IInv /\ CapInv /\ [Next]_vars => CapInv'
<1> SUFFICES ASSUME IInv, CapInv, [Next]_vars PROVE CapInv'
  OBVIOUS
<1>0. TypeOK
  BY DEF IInv
<1> USE <1>0
<1>1. ASSUME NEW r \in Requests, CheckArmed(r) PROVE CapInv'
  <2>1. InFlight' \subseteq InFlight \cup {r} /\ (RecentRows \cup Pending)' \subseteq RecentRows \cup Pending
    BY <1>1 DEF CheckArmed, Goto, InFlight, RecentRows, Pending, Running, TypeOK
  <2>2. InFlight \in SUBSET Requests /\ InFlight \cup {r} \in SUBSET Requests
        /\ RecentRows \cup Pending \in SUBSET Requests
    BY DEF InFlight, RecentRows, Pending
  <2>3. Cardinality(InFlight \cup {r}) <= Cardinality(InFlight) + 1
    BY <2>2, CallsAreFinite, FS_AddElement
  <2>4. Cardinality(InFlight') <= Cardinality(InFlight \cup {r})
        /\ Cardinality((RecentRows \cup Pending)') <= Cardinality(RecentRows \cup Pending)
    BY <2>1, <2>2, SmallerIsFewer
  <2>5. /\ Cardinality(InFlight) \in Nat /\ Cardinality(InFlight') \in Nat
        /\ Cardinality(InFlight \cup {r}) \in Nat
        /\ Cardinality(RecentRows \cup Pending) \in Nat
        /\ Cardinality((RecentRows \cup Pending)') \in Nat
    BY <2>1, <2>2, CallsAreFinite
  <2>6. Cardinality(InFlight) < MaxInFlight
    BY <1>1 DEF CheckArmed
  <2> QED BY <2>3, <2>4, <2>5, <2>6, CapsAreNat DEF CapInv
<1>2. ASSUME NEW r \in Requests, CheckRateCap(r) PROVE CapInv'
  <2>1. InFlight' \subseteq InFlight /\ RecentRows' = RecentRows /\ Pending' \subseteq InFlight'
    BY <1>2 DEF CheckRateCap, Goto, InFlight, RecentRows, Pending, Running, TypeOK
  <2>2. CASE Cardinality(RecentRows) < MaxOrders
    <3>1. /\ InFlight \in SUBSET Requests /\ InFlight' \in SUBSET Requests
          /\ RecentRows \in SUBSET Requests /\ Pending' \in SUBSET Requests
          /\ (RecentRows \cup Pending)' \in SUBSET Requests
      BY <2>1 DEF InFlight, RecentRows, Pending
    <3>2. /\ Cardinality(InFlight) \in Nat /\ Cardinality(InFlight') \in Nat
          /\ Cardinality(RecentRows) \in Nat /\ Cardinality(Pending') \in Nat
          /\ Cardinality((RecentRows \cup Pending)') \in Nat
      BY <3>1, CallsAreFinite
    <3>3. Cardinality(InFlight') <= Cardinality(InFlight) /\ Cardinality(Pending') <= Cardinality(InFlight')
      BY <2>1, <3>1, SmallerIsFewer
    <3>4. Cardinality(RecentRows \cup Pending') <= Cardinality(RecentRows) + Cardinality(Pending')
      <4>1. IsFiniteSet(RecentRows) /\ IsFiniteSet(Pending') /\ IsFiniteSet(RecentRows \cap Pending')
        BY <3>1, CallsAreFinite
      <4>2. Cardinality(RecentRows \cap Pending') \in Nat
        BY <4>1, FS_CardinalityType
      <4>3. Cardinality(RecentRows \cup Pending')
            = Cardinality(RecentRows) + Cardinality(Pending') - Cardinality(RecentRows \cap Pending')
        BY <4>1, FS_Union
      <4> QED BY <3>2, <4>2, <4>3
    <3>5. (RecentRows \cup Pending)' = RecentRows \cup Pending'
      BY <2>1
    <3> QED BY <2>1, <2>2, <3>2, <3>3, <3>4, <3>5, CapsAreNat DEF CapInv
  <2>3. CASE ~(Cardinality(RecentRows) < MaxOrders)
    <3>1. Cardinality(RecentRows) \in Nat
      BY CallsAreFinite DEF RecentRows
    <3>2. Cardinality(RecentRows) >= MaxOrders
      BY <2>3, <3>1, CapsAreNat
    <3>3. Pending' \subseteq Pending
      BY <1>2, <3>2 DEF CheckRateCap, Goto, Pending, TypeOK
    <3> QED BY <2>1, <3>3, CapShrinks
  <2> QED BY <2>2, <2>3
<1>3. ASSUME NEW r \in Requests, Confirm(r), ~CheckArmed(r), ~CheckRateCap(r) PROVE CapInv'
  <2>1. /\ pc' \in [Requests -> Steps] /\ \A q \in Requests \ {r} : pc'[q] = pc[q]
        /\ pc'[r] \in Running => pc[r] \in Running
        /\ pc'[r] \in {"budgeted", "cleared"} => pc[r] \in {"budgeted", "cleared"}
    <3>1. TypeOK'
      BY <1>3, TypeConfirm
    <3> QED
      BY <1>3, <3>1
         DEF Confirm, RefuseUnarmed, TripDisarm, DbErrorRefuses, Take, TakePreview,
             ExpirePreview, RefuseUnknownPreview, InsertRow, RefuseRow, SubmitOrder, Conclude,
             Finish, Goto, Running, TypeOK
  <2>2. now' = now
    BY <1>3 DEF Confirm, RefuseUnarmed, TripDisarm, DbErrorRefuses, Take, TakePreview,
       ExpirePreview, RefuseUnknownPreview, InsertRow, RefuseRow, SubmitOrder, Conclude, Finish
  <2>3. RecentRows' \subseteq RecentRows \cup Pending
    <3>1. CASE InsertRow(r)
      BY <2>2, <3>1 DEF InsertRow, RecentRows, Pending, TypeOK
    <3>2. CASE Finish(r)
      <4> DEFINE settled == [row[r] EXCEPT !.status = outcome[r]]
      <4>1. row' = row \/ row' = [row EXCEPT ![r] = settled]
        BY <3>2 DEF Finish
      <4>2. settled.at = row[r].at
        BY DEF TypeOK, Row
      <4>3. row[r].status = "submitting"
        BY <3>2 DEF Finish, IInv, CallShape
      <4> HIDE DEF settled
      <4>4. \A q \in Requests : row'[q].status # "none" => row[q].status # "none" /\ row'[q].at = row[q].at
        BY <4>1, <4>2, <4>3 DEF TypeOK
      <4> QED BY <2>2, <4>4 DEF RecentRows
    <3>3. CASE row' = row
      BY <2>2, <3>3 DEF RecentRows
    <3> QED
      BY <1>3, <3>1, <3>2, <3>3
         DEF Confirm, RefuseUnarmed, TripDisarm, DbErrorRefuses, Take, TakePreview,
             ExpirePreview, RefuseUnknownPreview, RefuseRow, SubmitOrder, Conclude
  <2>4. InFlight' \subseteq InFlight /\ Pending' \subseteq Pending
    BY <2>1 DEF InFlight, Pending
  <2> QED BY <2>3, <2>4, CapShrinks
<1>4. ASSUME \/ \E o \in Operators : Arm(o)
             \/ \E p \in Previews : BuildPreview(p)
             \/ \E r \in Requests : BrokerCreate(r) \/ BrokerRefuse(r)
             \/ Disarm \/ UNCHANGED vars
      PROVE  CapInv'
  <2>1. UNCHANGED <<now, pc, row>>
    BY <1>4 DEF Arm, ArmBegin, ArmCommit, ArmAbort, BuildPreview, BrokerCreate, BrokerRefuse,
       Disarm, confirmVars, vars
  <2> QED BY <2>1, CapShrinks DEF InFlight, RecentRows, Pending
<1>5. ASSUME Tick PROVE CapInv'
  <2>1. \A q \in Requests : row[q].at \in Nat
    BY DEF TypeOK, Row
  <2>2. RecentRows' \subseteq RecentRows
    BY <1>5, <2>1, NowIsNat, TtlsAreNat DEF Tick, RecentRows, confirmVars
  <2>3. InFlight' = InFlight /\ Pending' = Pending
    BY <1>5 DEF Tick, InFlight, Pending, confirmVars
  <2> QED BY <2>2, <2>3, CapShrinks
<1>6. ASSUME Restart PROVE CapInv'
  <2>1. InFlight' \subseteq InFlight /\ Pending' \subseteq Pending /\ RecentRows' = RecentRows
    BY <1>6 DEF Restart, InFlight, Pending, RecentRows, Running, TypeOK
  <2> QED BY <2>1, CapShrinks
<1> QED BY <1>1, <1>2, <1>3, <1>4, <1>5, <1>6 DEF Next

(* Confirms that overlap overshoot the rate cap by less than their number;  *)
(* when they do not overlap (MaxInFlight = 1) the cap is hard.             *)
THEOREM RateCapOvershoot == Spec => []OvershootBounded
<1>1. IInv /\ CapInv => OvershootBounded
  <2> SUFFICES ASSUME CapInv PROVE OvershootBounded
    OBVIOUS
  <2>1. RecentRows \cup Pending \in SUBSET Requests /\ RecentRows \in SUBSET (RecentRows \cup Pending)
    BY DEF RecentRows, Pending
  <2>2. Cardinality(RecentRows) <= Cardinality(RecentRows \cup Pending)
    BY <2>1, SmallerIsFewer
  <2>3. Cardinality(RecentRows) \in Nat /\ Cardinality(RecentRows \cup Pending) \in Nat
    BY <2>1, CallsAreFinite
  <2> QED BY <2>2, <2>3, CapsAreNat DEF CapInv, OvershootBounded
<1> QED BY <1>1, InvHolds, CapInit, CapStep, PTL DEF Spec
=============================================================================
