------------------------------ MODULE Execution ------------------------------
(***************************************************************************)
(* The execution path of the dashboard: arming windows, order previews,    *)
(* and confirm(), the one function that can move money                     *)
(* (backend/app/services/execution.py over src/alpaca_execution.py and the *)
(* tables of db/migrations/014_orders.up.sql).                             *)
(*                                                                         *)
(* confirm() is a blocking call made in a backend worker thread; each DB   *)
(* statement it makes is a transaction of its own, so each is a step here  *)
(* and any other thread, the operators, the broker, the clock or a crash   *)
(* of the process may come between two steps.  EXECUTION_ENABLED is true   *)
(* and the broker credentials are configured: with either absent every     *)
(* operation but disarm() is refused and nothing below can happen.  No     *)
(* route calls these functions yet: their callers are any that may overlap, *)
(* as the lock on _previews expects.                                       *)
(***************************************************************************)
EXTENDS Integers, FiniteSets

CONSTANTS
    Requests,     \* calls of confirm(); each is made at most once
    Operators,    \* calls of arm() are made by operators
    Previews,     \* preview ids; a client_order_id is "ww-" and one of these
    Windows,      \* ids of execution_arming rows
    NoPreview,    \* what a request holds before it has taken a preview
    ArmTtl,       \* execution_arm_ttl_seconds
    PreviewTtl,   \* execution_preview_ttl_seconds
    RateWindow,   \* execution_rate_window_seconds
    MaxOrders,    \* execution_max_orders_per_window
    FloorOrders,  \* how many orders the account can pay for above the cash floor
    MaxInFlight,  \* worker threads: confirms that may overlap
    Blocks,       \* what rules other than the cash floor may block with
    Shapes,       \* whether a preview may be well or ill formed
    DbMayFail,    \* TRUE when a database statement may fail
    MaxTime,      \* bound on the clock
    MaxBoots      \* bound on the number of restarts

ASSUME NoPreviewIsNone == NoPreview \notin Previews
ASSUME TtlsAreNat == ArmTtl \in Nat /\ PreviewTtl \in Nat /\ RateWindow \in Nat
ASSUME BoundsAreNat == MaxTime \in Nat /\ MaxBoots \in Nat
ASSUME CapsAreNat == MaxOrders \in Nat /\ FloorOrders \in Nat /\ MaxInFlight \in Nat \ {0}
ASSUME RequestsAreFinite == IsFiniteSet(Requests)
ASSUME InputsAreSets == Blocks \subseteq {"overridable", "halt"} /\ Shapes \subseteq BOOLEAN
ASSUME DbMayFailIsBoolean == DbMayFail \in BOOLEAN

VARIABLES
    now,      \* the clock (the process clock and the database's are one here)
    boot,     \* how many times the backend process has been restarted
    window,   \* execution_arming, by row id
    armTx,    \* the transaction of an arm() call under way, by operator
    preview,  \* _previews, with the ids already spent ("taken": held by a call)
    pc,       \* where a confirm() call stands
    holds,    \* the preview a confirm() call took
    reason,   \* whether its override_reason is a written one (8 characters)
    checked,  \* when a confirm() call passed the rate cap
    row,      \* the orders row a confirm() call inserted
    outcome,  \* what a confirm() call concluded about its submission
    wire      \* the broker's side of a submission

vars == <<now, boot, window, armTx, preview, pc, holds, reason, checked, row, outcome, wire>>
confirmVars == <<pc, holds, reason, checked, row, outcome>>
-----------------------------------------------------------------------------
(* Types                                                                   *)

\* Every step of confirm(), between which another actor may run.
Running == {"armed", "tripped", "budgeted", "cleared", "recorded", "waiting", "settling"}
Steps == Running \cup {"idle", "done", "dead"}

SubmitStatus == {"submitting", "accepted", "rejected", "unknown"}
Row == [status : SubmitStatus \cup {"none"}, at : Nat, passed : BOOLEAN, override : BOOLEAN]
NoRow == [status |-> "none", at |-> 0, passed |-> FALSE, override |-> FALSE]

\* A verdict is the kinds of block it holds: those a written override clears,
\* and the drawdown halt, which nothing clears.  A preview is well formed when
\* the CHECKs of the orders table accept its side, quantity and limit price:
\* build_preview() does not ask.
Verdicts == SUBSET {"overridable", "halt"}
Preview == [state : {"unbuilt", "live", "taken", "gone"}, made : Nat,
            verdict : Verdicts, wellFormed : BOOLEAN, boot : Nat]
NoEntry(s) == [state |-> s, made |-> 0, verdict |-> {}, wellFormed |-> FALSE, boot |-> 0]

Window == [state : {"absent", "open", "manual", "superseded", "rate_cap"},
           expires : Nat, boot : Nat]
ArmTx == [open : BOOLEAN, seen : SUBSET Windows, expires : Nat]
NoTx == [open |-> FALSE, seen |-> {}, expires |-> 0]

TypeOK ==
    /\ now \in 0..MaxTime
    /\ boot \in 0..MaxBoots
    /\ window \in [Windows -> Window]
    /\ armTx \in [Operators -> ArmTx]
    /\ preview \in [Previews -> Preview]
    /\ pc \in [Requests -> Steps]
    /\ holds \in [Requests -> Previews \cup {NoPreview}]
    /\ reason \in [Requests -> BOOLEAN]
    /\ checked \in [Requests -> Nat \cup {-1}]
    /\ row \in [Requests -> Row]
    /\ outcome \in [Requests -> SubmitStatus \cup {"none"}]
    /\ wire \in [Requests -> {"unsent", "flying", "landed", "turned_away"}]

Init ==
    /\ now = 0
    /\ boot = 0
    /\ window = [w \in Windows |-> [state |-> "absent", expires |-> 0, boot |-> 0]]
    /\ armTx = [o \in Operators |-> NoTx]
    /\ preview = [p \in Previews |-> NoEntry("unbuilt")]
    /\ pc = [r \in Requests |-> "idle"]
    /\ holds = [r \in Requests |-> NoPreview]
    /\ reason = [r \in Requests |-> FALSE]
    /\ checked = [r \in Requests |-> -1]
    /\ row = [r \in Requests |-> NoRow]
    /\ outcome = [r \in Requests |-> "none"]
    /\ wire = [r \in Requests |-> "unsent"]
-----------------------------------------------------------------------------
(* Arming windows                                                          *)

\* The rows current_arming(), arm() and disarm() all select.
LiveWindows == {w \in Windows : window[w].state = "open" /\ window[w].expires > now}

\* UPDATE execution_arming SET disarmed_at = now(), disarm_reason = why.
Closed(S, why) ==
    [w \in Windows |-> IF w \in S THEN [window[w] EXCEPT !.state = why] ELSE window[w]]

\* arm() opens its transaction: it reads the clock, and its UPDATE picks the
\* rows the statement's snapshot shows.  READ COMMITTED: a window another
\* arm() has inserted and not committed is not among them.
ArmBegin(o) ==
    /\ ~armTx[o].open
    /\ armTx' = [armTx EXCEPT ![o] = [open |-> TRUE, seen |-> LiveWindows,
                                      expires |-> now + ArmTtl]]
    /\ UNCHANGED <<now, boot, window, preview, confirmVars, wire>>

\* ... and commits: the rows it saw are closed unless another transaction
\* closed them first, and its own row appears.
ArmCommit(o, w) ==
    /\ armTx[o].open
    /\ window[w].state = "absent"
    /\ LET stillOpen == {v \in armTx[o].seen : window[v].state = "open"}
       IN  window' = [Closed(stillOpen, "superseded") EXCEPT
                        ![w] = [state |-> "open", expires |-> armTx[o].expires, boot |-> boot]]
    /\ armTx' = [armTx EXCEPT ![o] = NoTx]
    /\ UNCHANGED <<now, boot, preview, confirmVars, wire>>

\* The transaction fails and is rolled back: connection() raises.
ArmAbort(o) ==
    /\ DbMayFail
    /\ armTx[o].open
    /\ armTx' = [armTx EXCEPT ![o] = NoTx]
    /\ UNCHANGED <<now, boot, window, preview, confirmVars, wire>>

\* disarm(): one UPDATE in one transaction, gated on nothing.  When it meets the
\* row locks of an arm() under way it waits, and the row is superseded instead:
\* here it comes first, and only the reason on the closed row differs.
Disarm ==
    /\ LiveWindows # {}
    /\ window' = Closed(LiveWindows, "manual")
    /\ UNCHANGED <<now, boot, armTx, preview, confirmVars, wire>>
-----------------------------------------------------------------------------
(* Previews                                                                *)

\* The orders the broker holds.  Each is one unit of cash: FloorOrders of
\* them bring the account to its cash floor.
Landed == {r \in Requests : wire[r] = "landed"}

\* guardrails.evaluate(), by what confirm() tells apart: a buy that would
\* leave less than the cash floor is blocked; other rules (position size, no
\* recorded exit) may block it too, and the drawdown halt comes on top.
PossibleVerdicts ==
    LET floor == IF Cardinality(Landed) < FloorOrders THEN {} ELSE {"overridable"}
    IN  {floor \cup b : b \in SUBSET Blocks}

\* build_preview(): reads the account uncached, evaluates the guardrails and
\* stores the artefact under a fresh id.  It is not gated on arming.
BuildPreview(p) ==
    /\ preview[p].state = "unbuilt"
    /\ \E v \in PossibleVerdicts, ok \in Shapes :
         preview' = [preview EXCEPT ![p] = [state |-> "live", made |-> now, verdict |-> v,
                                            wellFormed |-> ok, boot |-> boot]]
    /\ UNCHANGED <<now, boot, window, armTx, confirmVars, wire>>
-----------------------------------------------------------------------------
(* confirm()                                                               *)

InFlight == {r \in Requests : pc[r] \in Running}

Goto(r, step) == pc' = [pc EXCEPT ![r] = step]

\* _require_armed(): the SELECT finds a live window.
CheckArmed(r) ==
    /\ pc[r] = "idle"
    /\ Cardinality(InFlight) < MaxInFlight
    /\ LiveWindows # {}
    /\ Goto(r, "armed")
    /\ UNCHANGED <<now, boot, window, armTx, preview, holds, reason, checked, row, outcome, wire>>

\* ... or it finds none, or the database is unavailable, which current_arming()
\* reads as disarmed.
RefuseUnarmed(r) ==
    /\ pc[r] = "idle"
    /\ LiveWindows = {} \/ DbMayFail
    /\ Goto(r, "done")
    /\ UNCHANGED <<now, boot, window, armTx, preview, holds, reason, checked, row, outcome, wire>>

\* SELECT count(*) FROM orders WHERE submitted_at >= since
RecentRows == {r \in Requests : row[r].status # "none" /\ row[r].at >= now - RateWindow}

\* Mutant: the cap compared with > .
BugCapOffByOne(r) ==
    /\ pc[r] = "armed"
    /\ IF Cardinality(RecentRows) > MaxOrders
         THEN Goto(r, "tripped") /\ UNCHANGED checked
         ELSE Goto(r, "budgeted") /\ checked' = [checked EXCEPT ![r] = now]
    /\ UNCHANGED <<now, boot, window, armTx, preview, holds, reason, row, outcome, wire>>

\* _check_rate_cap(): the count is read in a transaction of its own, and
\* nothing holds it until the row is inserted.
CheckRateCap(r) ==
    /\ pc[r] = "armed"
    /\ IF Cardinality(RecentRows) >= MaxOrders
         THEN Goto(r, "tripped") /\ UNCHANGED checked
         ELSE Goto(r, "budgeted") /\ checked' = [checked EXCEPT ![r] = now]
    /\ UNCHANGED <<now, boot, window, armTx, preview, holds, reason, row, outcome, wire>>

\* The cap is spent: disarm(reason="rate_cap") in a second transaction, then
\* RateCapExceeded.
TripDisarm(r) ==
    /\ pc[r] = "tripped"
    /\ window' = Closed(LiveWindows, "rate_cap")
    /\ Goto(r, "done")
    /\ UNCHANGED <<now, boot, armTx, preview, holds, reason, checked, row, outcome, wire>>

\* A database error before the row is written propagates out of confirm().
DbErrorRefuses(r) ==
    /\ DbMayFail
    /\ pc[r] \in {"armed", "tripped", "cleared"}
    /\ Goto(r, "done")
    /\ UNCHANGED <<now, boot, window, armTx, preview, holds, reason, checked, row, outcome, wire>>

\* Mutant: the halt is treated as one more overridable block.
BugHaltOverridable(verdict, written) == verdict # {} => written

\* The guardrail test: a halt refuses, any other block needs a written reason.
Clears(verdict, written) == "halt" \notin verdict /\ (verdict # {} => written)

\* _take_preview() pops the entry under the lock, and the guardrail test runs
\* on what it popped: a preview that fails it is spent all the same.
TakePreview(r, p, written) ==
    /\ pc[r] = "budgeted"
    /\ preview[p].state = "live"
    /\ now - preview[p].made <= PreviewTtl
    /\ IF Clears(preview[p].verdict, written)
         THEN /\ Goto(r, "cleared")
              /\ preview' = [preview EXCEPT ![p].state = "taken"]
              /\ holds' = [holds EXCEPT ![r] = p]
              /\ reason' = [reason EXCEPT ![r] = written]
         ELSE /\ Goto(r, "done")
              /\ preview' = [preview EXCEPT ![p] = NoEntry("gone")]
              /\ UNCHANGED <<holds, reason>>
    /\ UNCHANGED <<now, boot, window, armTx, checked, row, outcome, wire>>

\* A preview past its TTL is deleted and refused.
ExpirePreview(r, p) ==
    /\ pc[r] = "budgeted"
    /\ preview[p].state = "live"
    /\ now - preview[p].made > PreviewTtl
    /\ preview' = [preview EXCEPT ![p] = NoEntry("gone")]
    /\ Goto(r, "done")
    /\ UNCHANGED <<now, boot, window, armTx, holds, reason, checked, row, outcome, wire>>

\* A preview that is unknown or already used is refused.
RefuseUnknownPreview(r, p) ==
    /\ pc[r] = "budgeted"
    /\ preview[p].state # "live"
    /\ Goto(r, "done")
    /\ UNCHANGED <<now, boot, window, armTx, preview, holds, reason, checked, row, outcome, wire>>

\* The constraints of the orders table: client_order_id is UNIQUE, the order is
\* well formed, an override has its reason, a failed verdict its override.
Insertable(r) ==
    LET p == preview[holds[r]]
    IN  /\ \A q \in Requests : row[q].status # "none" => holds[q] # holds[r]
        /\ p.wellFormed
        /\ "overridable" \in p.verdict => reason[r]
        /\ p.verdict = {} \/ "overridable" \in p.verdict

\* Mutant: the override is not written on the row.
BugOverrideNotRecorded(r) ==
    /\ pc[r] = "cleared"
    /\ Insertable(r)
    /\ row' = [row EXCEPT ![r] = [status |-> "submitting", at |-> now,
                                  passed |-> preview[holds[r]].verdict = {},
                                  override |-> FALSE]]
    /\ Goto(r, "recorded")
    /\ UNCHANGED <<now, boot, window, armTx, preview, holds, reason, checked, outcome, wire>>

\* INSERT INTO orders ... 'submitting'.  The commit may also succeed with its
\* acknowledgement lost: confirm() raises and the row stays.
InsertRow(r) ==
    /\ pc[r] = "cleared"
    /\ Insertable(r)
    /\ row' = [row EXCEPT ![r] = [status |-> "submitting", at |-> now,
                                  passed |-> preview[holds[r]].verdict = {},
                                  override |-> "overridable" \in preview[holds[r]].verdict]]
    /\ \/ Goto(r, "recorded")
       \/ DbMayFail /\ Goto(r, "done")
    /\ UNCHANGED <<now, boot, window, armTx, preview, holds, reason, checked, outcome, wire>>

\* A constraint refuses the INSERT: confirm() raises, the preview is spent.
RefuseRow(r) ==
    /\ pc[r] = "cleared"
    /\ ~Insertable(r)
    /\ Goto(r, "done")
    /\ UNCHANGED <<now, boot, window, armTx, preview, holds, reason, checked, row, outcome, wire>>

\* Mutant: the POST goes out before the row is committed.
BugSubmitBeforeRow(r) ==
    /\ pc[r] \in {"cleared", "recorded"}
    /\ wire' = [wire EXCEPT ![r] = "flying"]
    /\ Goto(r, "waiting")
    /\ UNCHANGED <<now, boot, window, armTx, preview, holds, reason, checked, row, outcome>>

\* submit_order(): the one POST, never retried there.
SubmitOrder(r) ==
    /\ pc[r] = "recorded"
    /\ wire' = [wire EXCEPT ![r] = "flying"]
    /\ Goto(r, "waiting")
    /\ UNCHANGED <<now, boot, window, armTx, preview, holds, reason, checked, row, outcome>>

\* What the caller can conclude: from a readable 2xx, accepted; from 401, 403
\* or 422, rejected; from an exception, a timeout, a 5xx, an undecodable body
\* or any other status, unknown, whatever the broker did.
Conclusions(w) ==
    CASE w = "landed"      -> {"accepted", "unknown"}
      [] w = "turned_away" -> {"rejected", "unknown"}
      [] OTHER             -> {"unknown"}

\* Mutant: the POST has no timeout.
BugWaitForBroker(r) ==
    /\ pc[r] = "waiting"
    /\ wire[r] # "flying"
    /\ \E s \in Conclusions(wire[r]) : outcome' = [outcome EXCEPT ![r] = s]
    /\ Goto(r, "settling")
    /\ UNCHANGED <<now, boot, window, armTx, preview, holds, reason, checked, row, wire>>

Conclude(r) ==
    /\ pc[r] = "waiting"
    /\ \E s \in Conclusions(wire[r]) : outcome' = [outcome EXCEPT ![r] = s]
    /\ Goto(r, "settling")
    /\ UNCHANGED <<now, boot, window, armTx, preview, holds, reason, checked, row, wire>>

\* Mutant: nothing is written for an order whose fate is unknown.
BugUnknownNotWritten(r) ==
    /\ pc[r] = "settling"
    /\ row' = IF outcome[r] = "unknown" THEN row ELSE [row EXCEPT ![r].status = outcome[r]]
    /\ outcome' = [outcome EXCEPT ![r] = "none"]
    /\ Goto(r, "done")
    /\ UNCHANGED <<now, boot, window, armTx, preview, holds, reason, checked, wire>>

\* _finish(): UPDATE orders by row id.  If the database fails the row keeps
\* 'submitting' and the error propagates.
Finish(r) ==
    /\ pc[r] = "settling"
    /\ \/ row' = [row EXCEPT ![r].status = outcome[r]]
       \/ DbMayFail /\ UNCHANGED row
    /\ outcome' = [outcome EXCEPT ![r] = "none"]
    /\ Goto(r, "done")
    /\ UNCHANGED <<now, boot, window, armTx, preview, holds, reason, checked, wire>>
-----------------------------------------------------------------------------
(* The environment: the broker, the clock, the process                     *)

\* The broker creates an order for a POST that reached it, however late, and
\* refuses a client_order_id it already has.
BrokerCreate(r) ==
    /\ wire[r] = "flying"
    /\ \A q \in Landed : holds[q] # holds[r]
    /\ wire' = [wire EXCEPT ![r] = "landed"]
    /\ UNCHANGED <<now, boot, window, armTx, preview, confirmVars>>

BrokerRefuse(r) ==
    /\ wire[r] = "flying"
    /\ wire' = [wire EXCEPT ![r] = "turned_away"]
    /\ UNCHANGED <<now, boot, window, armTx, preview, confirmVars>>

Tick ==
    /\ now < MaxTime
    /\ now' = now + 1
    /\ UNCHANGED <<boot, window, armTx, preview, confirmVars, wire>>

\* The backend dies and is started again: its calls and its previews are
\* gone, open transactions are rolled back, the tables and what is already on
\* the wire are not touched.
Restart ==
    /\ boot < MaxBoots
    /\ boot' = boot + 1
    /\ pc' = [r \in Requests |-> IF pc[r] \in Running THEN "dead" ELSE pc[r]]
    /\ armTx' = [o \in Operators |-> NoTx]
    /\ preview' = [p \in Previews |->
                     IF preview[p].state = "live" THEN NoEntry("gone") ELSE preview[p]]
    /\ outcome' = [r \in Requests |-> "none"]
    /\ UNCHANGED <<now, window, holds, reason, checked, row, wire>>
-----------------------------------------------------------------------------
Take(r) ==
    \E p \in Previews :
        \/ \E written \in BOOLEAN : TakePreview(r, p, written)
        \/ ExpirePreview(r, p)
        \/ RefuseUnknownPreview(r, p)

Confirm(r) ==
    \/ CheckArmed(r)
    \/ RefuseUnarmed(r)
    \/ CheckRateCap(r)
    \/ TripDisarm(r)
    \/ DbErrorRefuses(r)
    \/ Take(r)
    \/ InsertRow(r)
    \/ RefuseRow(r)
    \/ SubmitOrder(r)
    \/ Conclude(r)
    \/ Finish(r)

Arm(o) == ArmBegin(o) \/ ArmAbort(o) \/ \E w \in Windows : ArmCommit(o, w)

Next ==
    \/ \E o \in Operators : Arm(o)
    \/ Disarm
    \/ \E p \in Previews : BuildPreview(p)
    \/ \E r \in Requests : Confirm(r) \/ BrokerCreate(r) \/ BrokerRefuse(r)
    \/ Tick
    \/ Restart

Spec == Init /\ [][Next]_vars

\* A worker thread that has begun a call keeps running it: every blocking
\* operation in it has a timeout.  Nothing obliges an operator, the broker or
\* the clock to act.
ConfirmRuns(r) == pc[r] # "idle" /\ Confirm(r)
Fairness == \A r \in Requests : WF_vars(ConfirmRuns(r))
-----------------------------------------------------------------------------
(* What must hold                                                          *)

\* A preview reaches at most one confirm() call, whichever threads race for
\* it: the entry is popped under the lock (_take_preview).
PreviewSpentOnce ==
    \A r, q \in Requests : holds[r] = holds[q] /\ holds[r] # NoPreview => r = q

\* Nothing is sent to the broker that has no row in the audit trail, and the
\* row is that of the preview sent (confirm(), ordering rule 3).
AuditBeforeBroker ==
    \A r \in Requests : wire[r] # "unsent" => row[r].status # "none" /\ holds[r] \in Previews

\* A row that says accepted or rejected is right, and stays right however
\* late the broker acts: only "unknown" and "submitting" leave it open.
StatusIsHonest ==
    \A r \in Requests :
        /\ row[r].status = "accepted" => wire[r] = "landed"
        /\ row[r].status = "rejected" => wire[r] = "turned_away"

\* An order on its way to the broker passed the guardrails, or every block on
\* it could be overridden and was, in writing, on the audit row.
GuardrailsHeld ==
    \A r \in Requests : wire[r] # "unsent" =>
        /\ "halt" \notin preview[holds[r]].verdict
        /\ row[r].passed \/ (row[r].override /\ reason[r])

\* A restarted process submits nothing that was previewed before the gap.
NoPreviewSurvivesRestart ==
    \A r \in Requests : pc[r] \in {"cleared", "recorded"} => preview[holds[r]].boot = boot

\* The rate cap is read in one transaction and spent in another, so confirms
\* that overlap can pass it together; they overshoot it by less than their
\* number.
OvershootBounded ==
    Cardinality(RecentRows) <= MaxOrders + MaxInFlight - 1

\* Each client_order_id goes through the life OrderLedger promises.
Held(p) == \E r \in Requests : holds[r] = p
Holder(p) == CHOOSE r \in Requests : holds[r] = p
BrokerSays == [unsent |-> "unasked", flying |-> "asked", landed |-> "holds",
               turned_away |-> "refused"]

OrderStatus == [p \in Previews |-> IF Held(p) THEN row[Holder(p)].status ELSE "none"]
BrokerStatus == [p \in Previews |-> IF Held(p) THEN BrokerSays[wire[Holder(p)]] ELSE "unasked"]

Ledger == INSTANCE OrderLedger WITH
    Ids <- Previews, ledger <- OrderStatus, broker <- BrokerStatus

ImplementsLedger == Ledger!LedgerSpec

\* A confirm() that has begun returns or dies with the process: no broker and
\* no other thread can hold it for ever (timeouts on the POST and the pool).
ConfirmReturns == \A r \in Requests : pc[r] # "idle" ~> pc[r] \in {"done", "dead"}

\* When the database answers and the process lives, every row leaves
\* 'submitting': the state is one of passage.
SubmittingIsTransient ==
    \A r \in Requests : row[r].status = "submitting" ~> row[r].status # "submitting"
-----------------------------------------------------------------------------
(* The inductive invariant behind the safety properties                    *)

Before == {"idle", "armed", "tripped", "budgeted"}   \* no preview taken yet

\* A preview id is held by a call only after it was popped, and by one call.
SpentIsPopped ==
    \A r \in Requests : holds[r] # NoPreview => preview[holds[r]].state = "taken"

\* Where each call stands tells what it holds and what it has written.
CallShape ==
    \A r \in Requests :
        /\ pc[r] \in Before => holds[r] = NoPreview
        /\ pc[r] \in Before \cup {"cleared"} => row[r].status = "none"
        /\ pc[r] \in Before \cup {"cleared", "recorded"} => wire[r] = "unsent"
        /\ pc[r] \in {"recorded", "waiting", "settling"} => row[r].status = "submitting"
        /\ pc[r] \in {"waiting", "settling"} => wire[r] # "unsent"
        /\ pc[r] \in {"cleared", "recorded", "waiting", "settling"} => holds[r] # NoPreview

\* A preview in hand cleared the guardrails, and the row says how.
RowShape ==
    \A r \in Requests :
        /\ holds[r] # NoPreview => Clears(preview[holds[r]].verdict, reason[r])
        /\ row[r].status # "none" =>
              /\ holds[r] # NoPreview
              /\ row[r].passed <=> preview[holds[r]].verdict = {}
              /\ row[r].override <=> "overridable" \in preview[holds[r]].verdict

\* A conclusion waiting to be written is right.
OutcomeIsHonest ==
    \A r \in Requests :
        /\ pc[r] = "settling" => outcome[r] # "none" /\ outcome[r] # "submitting"
        /\ outcome[r] = "accepted" => wire[r] = "landed"
        /\ outcome[r] = "rejected" => wire[r] = "turned_away"

\* The entries of _previews were made by this process.
LivePreviewsAreOurs ==
    \A p \in Previews : preview[p].state = "live" => preview[p].boot = boot

\* A call past the cap that has not written its row yet.
Pending == {r \in Requests : pc[r] \in {"budgeted", "cleared"}}

\* What the cap allows is bounded by the rows it counted and the calls under way.
CapInv ==
    /\ Cardinality(InFlight) <= MaxInFlight
    /\ Cardinality(RecentRows \cup Pending) <= MaxOrders + MaxInFlight - 1

\* What every step of the service preserves: the safety properties above and the
\* facts they rest on.
IInv ==
    /\ TypeOK
    /\ PreviewSpentOnce /\ SpentIsPopped
    /\ CallShape /\ RowShape
    /\ AuditBeforeBroker
    /\ StatusIsHonest /\ OutcomeIsHonest
    /\ LivePreviewsAreOurs /\ NoPreviewSurvivesRestart
-----------------------------------------------------------------------------
(* What the repository says and the code does not do                       *)

\* execution.py:135 "so there is never more than one live row".
OneLiveWindow == Cardinality(LiveWindows) <= 1

\* EXECUTION_DESIGN.md:62 "a hard per-window order cap enforced server-side".
RateCapIsHard == Cardinality(RecentRows) <= MaxOrders

\* EXECUTION_DESIGN.md:63-64 "The cap counts attempts, not successes - a loop
\* that fails on validation still burns the budget".
AttemptsBurnBudget ==
    Cardinality({r \in Requests : checked[r] # -1 /\ checked[r] >= now - RateWindow}) <= MaxOrders

\* EXECUTION_DESIGN.md:98-99 "re-checks arming and the guardrails that can
\* change (price, buying power)": orders nobody overrode stay above the floor.
CashFloorHeld ==
    (\A r \in Landed : row[r].passed) => Cardinality(Landed) <= FloorOrders
=============================================================================
