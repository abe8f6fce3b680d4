-------------------------------- MODULE Debate --------------------------------
(***************************************************************************)
(* The debate engine (backend/app/debate) and the keys it calls the model  *)
(* vendors with (app/llm).                                                 *)
(*                                                                         *)
(* A debate is a coroutine: two researchers write their cases, answer each *)
(* other for some rounds, a jury votes, the votes are aggregated and the   *)
(* record goes to a file and, in one transaction, to the database          *)
(* (services/debate_store.py).  Debates share the vendors' keys, the bench *)
(* of exhausted keys and the ledger of what each owner has spent.          *)
(* Prompts, texts, confidences and the events of the stream are left out;  *)
(* of a case only whether it is empty is kept.                             *)
(***************************************************************************)
EXTENDS Integers, Sequences, FiniteSets, SequencesExt

CONSTANTS
    Debates,    \* the debates that run in the process
    Watched,    \* those a browser follows, which may go away
    Rounds,     \* of each debate: debate_rounds, clamped
    Panels,     \* of each debate: the possible <<lenses, paired>>
    Keys,       \* of each vendor: the owners of its keys, in slot order
    Seating,    \* of each vendor: the calls of one jury it may have in flight
    MaxCost,    \* the most a call costs: dollars, or Gemini's tokens
    MaxFaults,  \* bound: failures of vendors, database and disk, budgets used up, benches that lapse
    None

Vendors == {"anthropic", "gemini"}

ASSUME WatchedDebates == Watched \subseteq Debates
ASSUME RoundsOfDebates == Rounds \in [Debates -> 1..4]
ASSUME PanelsOfDebates == Panels \in [Debates -> SUBSET ((1..10) \X BOOLEAN)]
\* _SLOTS of keys.py: two slots for each vendor.
ASSUME KeysOfVendors ==
    /\ DOMAIN Keys = Vendors /\ Keys["anthropic"] # <<>>
    /\ \A p \in Vendors : /\ Keys[p] \in Seq(ToSet(Keys[p])) /\ Len(Keys[p]) <= 2
                          /\ IsInjective(Keys[p])
ASSUME SeatingOfVendors == Seating \in [Vendors -> Nat \ {0}] /\ MaxFaults \in Nat
ASSUME CostsAreNat == MaxCost \in Nat
ASSUME DebatesAreFinite == IsFiniteSet(Debates)
ASSUME NoneIsNothing ==
    /\ None \notin {"text", "limit", "error", "BUY", "SELL", "HOLD", "ESCALATED"}
    /\ \A p \in Vendors : None \notin ToSet(Keys[p])

VARIABLES
    stage,     \* where each debate's coroutine is
    round,     \* the round the researchers are writing
    written,   \* the sides whose opening case is not empty
    seats,     \* the jury
    call,      \* what each researcher and juror is doing
    decision,   \* record.final_decision
    filed,     \* the debates whose record is on disk
    stored,    \* committed judgments of each debate
    funded,    \* the owners whose Anthropic budget is not used up
    benched,   \* _EXHAUSTED, while it lasts
    ledger,    \* llm_usage: what each owner has spent at a vendor, less the least
    blind,     \* the reads of the ledger that failed
    faults     \* failures so far

records == <<filed, stored>>
flow == <<stage, round, written, seats, decision>>
money == <<funded, benched, ledger, blind>>
debateVars == <<flow, call, records, money, faults>>
-----------------------------------------------------------------------------
Sides == {"bull", "bear"}
Researchers == {0} \X Sides

\* Every lens may be judged by both families.
Lenses == {l \in 1..10 : \E d \in Debates : \E p \in Panels[d] : l <= p[1]}
Writers == Researchers \cup (Lenses \X Vendors)

Owners == ToSet(Keys["anthropic"])

VendorOf(w) == IF w \in Researchers THEN "anthropic" ELSE w[2]

Votes == {"BUY", "SELL", "HOLD"}

\* seen: the owner that served the juror's first attempt, for the second.
NewCall == [st |-> "ready", own |-> None, try |-> 1, out |-> None, seen |-> None]
NoCall == [NewCall EXCEPT !.st = "none"]

DebateInit ==
    /\ stage = [d \in Debates |-> "new"] /\ round = [d \in Debates |-> 1]
    /\ written = [d \in Debates |-> {}] /\ seats = [d \in Debates |-> {}]
    /\ call = [d \in Debates |-> [w \in Writers |-> NoCall]]
    /\ decision = [d \in Debates |-> None]
    /\ filed = {} /\ stored = [d \in Debates |-> None]
    /\ funded = Owners /\ benched = {} /\ blind = 0
    /\ ledger = [p \in Vendors |-> [o \in ToSet(Keys[p]) |-> 0]]
    /\ faults = 0

Fault == faults < MaxFaults /\ faults' = faults + 1
-----------------------------------------------------------------------------
(* The keys. *)

\* Mutant: the ledger is not consulted.
BugFirstSlot(p, spend) == Head(Keys[p])

\* keys.select: the owner that has spent least, ties in slot order.  Without
\* the ledger (spend = zero for all) that is the first slot.
Cheapest(p, spend) ==
    Keys[p][CHOOSE i \in DOMAIN Keys[p] :
        \A j \in DOMAIN Keys[p] :
            \/ spend[Keys[p][i]] < spend[Keys[p][j]]
            \/ (spend[Keys[p][i]] = spend[Keys[p][j]] /\ i <= j)]

\* The first key that is neither o's nor benched; None when there is none.
Alternative(o, bench) ==
    LET slots == Keys["anthropic"]
        free == {i \in DOMAIN slots : slots[i] # o /\ slots[i] \notin bench}
    IN  IF free = {} THEN None ELSE slots[CHOOSE i \in free : \A j \in free : i <= j]

\* _client() and the Gemini branch of _vote_via: whose key a call goes out on.
KeyFor(p, spend) ==
    LET o == Cheapest(p, spend)
    IN  IF p = "anthropic" /\ o \in benched /\ Alternative(o, benched) # None
        THEN Alternative(o, benched) ELSE o

\* Mutant: a juror that abstains keeps its slot.
BugSlotKept(c) == c.st \in {"sent", "again", "fail"} \/ (c.st = "ready" /\ c.try = 2)

\* _run_juror holds the semaphore of its vendor over both attempts.
Seated(c) == c.st \in {"sent", "again"} \/ (c.st = "ready" /\ c.try = 2)

\* The semaphores are first come, first served.
MaySit(d, w) ==
    LET p == VendorOf(w)
        mates == {s \in seats[d] : s[2] = p}
    IN  /\ Cardinality({s \in mates : Seated(call[d][s])}) < Seating[p]
        /\ \A s \in mates : s[1] < w[1] => call[d][s].st # "ready"

\* The event loop does not turn to anything else before this call has left: the
\* researchers start together, and a second attempt follows the first at once.
Due(d, w) == call[d][w].st = "ready" /\ (w \in Researchers \/ call[d][w].try = 2)
Idle == \A d \in Debates, w \in Writers : ~Due(d, w)

\* A call leaves on the key the ledger points at.  Nothing is awaited between
\* the choice and the request, so no other coroutine comes between.
Ask(d, w) ==
    /\ call[d][w].st = "ready" /\ (Due(d, w) \/ (Idle /\ MaySit(d, w)))
    /\ w = <<0, "bear">> => call[d][<<0, "bull">>].st # "ready"
    /\ LET p == VendorOf(w)
       IN \/ /\ call' = [call EXCEPT ![d][w].st = "sent",
                                     ![d][w].own = KeyFor(p, ledger[p])]
             /\ UNCHANGED <<blind, faults>>
          \/ /\ Fault /\ blind' = blind + 1    \* spend_by_owner() could not read
             /\ call' = [call EXCEPT ![d][w].st = "sent",
                                     ![d][w].own = KeyFor(p, [o \in ToSet(Keys[p]) |-> 0])]
    /\ UNCHANGED <<flow, records, funded, benched, ledger>>

\* What the engine makes of a failed attempt: a researcher has failed; a juror
\* tries again, unless no key has budget left.
Lapse(w, c, why) ==
    IF w \notin Researchers /\ why # "limit" /\ c.try = 1
    THEN [c EXCEPT !.st = "ready", !.own = None, !.try = 2]
    ELSE [NoCall EXCEPT !.st = "fail", !.out = why]

\* mark_exhausted, by the failover and, when that leaves nothing, by the juror:
\* with the owner its first attempt was answered by, if any.
Bench(o, w, c, last) ==
    benched \cup (IF c.st = "sent" THEN {o} ELSE {})
            \cup (IF last /\ w \notin Researchers /\ c.seen # None THEN {c.seen} ELSE {})

\* Only what one owner has spent more than another matters: spending is counted
\* from the owner that has spent least.
Entered(p, o, cost) ==
    LET spent == [ledger[p] EXCEPT ![o] = @ + cost]
        least == CHOOSE n \in {spent[k] : k \in DOMAIN spent} :
                     \A m \in {spent[k] : k \in DOMAIN spent} : n <= m
    IN  [ledger EXCEPT ![p] = [k \in DOMAIN spent |-> spent[k] - least]]

\* The row of a call goes in.  A model without a published rate costs NULL,
\* which the sum leaves out as if it were nothing.
Recorded(p, o) == \E cost \in 0..MaxCost : ledger' = Entered(p, o, cost)

\* ledger.record: swallows its failures.
Book(p, o) ==
    \/ Recorded(p, o) /\ UNCHANGED faults
    \/ Fault /\ UNCHANGED ledger

InFlight(d, w) == call[d][w].st \in {"sent", "again"}

\* The vendor serves the call.
Served(d, w) ==
    /\ InFlight(d, w)
    /\ LET c == call[d][w]
           p == VendorOf(w)
       IN  /\ p = "anthropic" => c.own \in funded
           /\ Book(p, c.own)
           /\ \E out \in IF w \in Researchers THEN {"text"} ELSE Votes :
                call' = [call EXCEPT ![d][w] = [NoCall EXCEPT !.st = "done", !.out = out]]
           /\ written' = IF w \in Researchers /\ round[d] = 1 /\ stage[d] = "research"
                         THEN [written EXCEPT ![d] = @ \cup {w[2]}] ELSE written
    /\ UNCHANGED <<stage, round, seats, decision, records, funded, benched, blind>>

\* A case without any text is a case; it gets no proposal.
Blank(d, w) ==
    /\ InFlight(d, w) /\ w \in Researchers /\ Fault
    /\ call[d][w].own \in funded
    /\ Recorded("anthropic", call[d][w].own)
    /\ call' = [call EXCEPT ![d][w] = [NoCall EXCEPT !.st = "done", !.out = "text"]]
    /\ UNCHANGED <<flow, records, funded, benched, blind>>

\* An answer without a usable vote.  It is on the ledger unless it is Gemini's
\* and could not even be parsed.
Spoilt(d, w) ==
    /\ InFlight(d, w) /\ w \notin Researchers /\ Fault
    /\ LET c == call[d][w]
           p == VendorOf(w)
       IN  /\ p = "anthropic" => c.own \in funded
           /\ \/ /\ Recorded(p, c.own)
                 /\ \E s \in {None, c.own} :
                      call' = [call EXCEPT ![d][w] = Lapse(w, [c EXCEPT !.seen = s], "error")]
              \/ /\ p = "gemini"
                 /\ call' = [call EXCEPT ![d][w] = Lapse(w, c, "error")]
                 /\ UNCHANGED ledger
    /\ UNCHANGED <<flow, records, funded, benched, blind>>

\* A timeout, an error of the vendor's, or Gemini's quota.
Broke(d, w) ==
    /\ InFlight(d, w) /\ Fault
    /\ call' = [call EXCEPT ![d][w] = Lapse(w, @, "error")]
    /\ UNCHANGED <<flow, records, money>>

\* _create_with_failover: a key out of budget is benched, and the call goes out
\* once more on another owner's.
Refused(d, w) ==
    /\ InFlight(d, w) /\ VendorOf(w) = "anthropic"
    /\ LET c == call[d][w]
           alt == Alternative(c.own, benched \cup {c.own})
           last == c.st = "again" \/ alt = None
       IN  /\ c.own \notin funded
           /\ benched' = Bench(c.own, w, c, last)
           /\ call' = [call EXCEPT ![d][w] =
                         IF last THEN Lapse(w, c, "limit") ELSE [c EXCEPT !.st = "again", !.own = alt]]
    /\ UNCHANGED <<flow, records, funded, ledger, blind, faults>>

\* An owner's budget is used up; it comes back on a date beyond the model.
RunsOut(o) ==
    /\ o \in funded /\ Fault /\ funded' = funded \ {o}
    /\ UNCHANGED <<flow, call, records, benched, ledger, blind>>

\* An hour later the key is tried again.
BenchLapses(o) ==
    /\ o \in benched /\ Fault /\ benched' = benched \ {o}
    /\ UNCHANGED <<flow, call, records, funded, ledger, blind>>
-----------------------------------------------------------------------------
(* The coroutine of a debate. *)

Wrote(d, w) == call[d][w].st = "done"

Researching(d, r) ==
    call' = [call EXCEPT ![d] = [w \in Writers |-> IF w \in Researchers THEN NewCall ELSE @[w]]]

\* run_debate, up to the openings.  A failed fetch of the context stops nothing.
Open(d) ==
    /\ stage[d] = "new"
    /\ stage' = [stage EXCEPT ![d] = "research"]
    /\ Researching(d, 1)
    /\ UNCHANGED <<round, written, seats, decision, records, money, faults>>

\* Both researchers have written, and there is another round.
Rebut(d) ==
    /\ stage[d] = "research" /\ \A w \in Researchers : Wrote(d, w)
    /\ round[d] < Rounds[d]
    /\ round' = [round EXCEPT ![d] = @ + 1]
    /\ Researching(d, round[d] + 1)
    /\ UNCHANGED <<stage, written, seats, decision, records, money, faults>>

\* gather() raises with the first failure, and does not wait for the other.
Failing(d) == \E w \in Researchers : call[d][w].st = "fail"

\* Without openings there is no debate; nothing of it is kept.
Abort(d) ==
    /\ stage[d] = "research" /\ round[d] = 1 /\ Failing(d)
    /\ stage' = [stage EXCEPT ![d] = "error"]
    /\ UNCHANGED <<round, written, seats, decision, call, records, money, faults>>

\* The rounds are over, or one has failed: the jury is seated.
Seat(d) ==
    /\ stage[d] = "research"
    /\ \/ round[d] = Rounds[d] /\ \A w \in Researchers : Wrote(d, w)
       \/ round[d] > 1 /\ Failing(d)
    /\ \E p \in Panels[d] :
         LET jury == (1..p[1]) \X (IF p[2] /\ Keys["gemini"] # <<>> THEN Vendors ELSE {"anthropic"})
         IN  /\ seats' = [seats EXCEPT ![d] = jury]
             /\ call' = [call EXCEPT ![d] = [w \in Writers |-> IF w \in jury THEN NewCall ELSE @[w]]]
    /\ stage' = [stage EXCEPT ![d] = "jury"]
    /\ UNCHANGED <<round, written, decision, records, money, faults>>

\* Mutant: a juror that could not be reached votes HOLD.
BugAbstainHolds(d) == [s \in seats[d] |-> IF Wrote(d, s) THEN call[d][s].out ELSE "HOLD"]

\* The votes cast.  An abstention is none.
Cast(d) == [s \in {x \in seats[d] : Wrote(d, x)} |-> call[d][s].out]

\* aggregate(): a verdict needs votes of most of the jury it was asked of, and
\* more than half of them.
Aggregate(votes, size) ==
    LET n == Cardinality(DOMAIN votes)
        For(v) == Cardinality({s \in DOMAIN votes : votes[s] = v})
    IN  IF n < size \div 2 + 1 THEN "ESCALATED"
        ELSE IF \E v \in Votes : For(v) >= n \div 2 + 1
        THEN CHOOSE v \in Votes : For(v) >= n \div 2 + 1
        ELSE IF n % 2 = 0 /\ For("BUY") = n \div 2 /\ For("SELL") = n \div 2 THEN "ESCALATED"
        ELSE "HOLD"

\* Every juror has voted or abstained.
Rule(d) ==
    /\ stage[d] = "jury"
    /\ \A s \in seats[d] : call[d][s].st \in {"done", "fail"}
    /\ decision' = [decision EXCEPT ![d] = Aggregate(Cast(d), Cardinality(seats[d]))]
    /\ stage' = [stage EXCEPT ![d] = "filing"]
    /\ UNCHANGED <<round, written, seats, call, records, money, faults>>

\* The browser goes away: the generator is closed where it is.  Jurors that have
\* a task go on, and so does a thread that has begun.
Leave(d) ==
    /\ d \in Watched /\ stage[d] \in {"research", "jury", "filing"}
    /\ stage' = [stage EXCEPT ![d] = "gone"]
    /\ filed' \in {filed, IF stage[d] = "filing" THEN filed \cup {d} ELSE filed}
    /\ UNCHANGED <<round, written, seats, decision, call, stored, money, faults>>
-----------------------------------------------------------------------------
(* The record. *)

\* persist_record(), in a thread; when it raises, persist_debate() is not reached.
File(d) ==
    /\ stage[d] = "filing"
    /\ \/ /\ filed' = filed \cup {d} /\ UNCHANGED faults
          /\ stage' = [stage EXCEPT ![d] = "storing"]
       \/ /\ Fault /\ UNCHANGED filed
          /\ stage' = [stage EXCEPT ![d] = "done"]
    /\ UNCHANGED <<round, written, seats, decision, call, stored, money>>

\* _decision_of and _write_judgment: "escalated" is no decision the table knows,
\* and a directional one needs the proposal it chose.
Writable(d, v) ==
    \/ v = "HOLD"
    \/ v = "BUY" /\ "bull" \in written[d]
    \/ v = "SELL" /\ "bear" \in written[d]

\* A lens is one agent whoever sits for it, and only its first judgment, in the
\* order of the seats, survives ON CONFLICT DO NOTHING.
Judgments(d) ==
    LET cast == Cast(d)
        of(l) == {s \in {l} \X Vendors : s \in DOMAIN cast /\ Writable(d, cast[s])}
        first(l) == IF <<l, "anthropic">> \in of(l) THEN <<l, "anthropic">> ELSE <<l, "gemini">>
    IN  [votes |-> [l \in {x \in Lenses : of(x) # {}} |-> cast[first(l)]],
         synth |-> IF Writable(d, decision[d]) THEN decision[d] ELSE None]

\* persist_debate(): one transaction.  A security the reference data does not
\* know is not stored; what the database raises is swallowed, the unique index of
\* agents among it, when another debate is first to need the same new agent.
Store(d) ==
    /\ stage[d] = "storing"
    /\ stage' = [stage EXCEPT ![d] = "done"]
    /\ \/ stored' = [stored EXCEPT ![d] = Judgments(d)] /\ UNCHANGED faults
       \/ Fault /\ UNCHANGED stored
    /\ UNCHANGED <<round, written, seats, decision, call, filed, money>>
-----------------------------------------------------------------------------
Reply(d, w) ==
    /\ InFlight(d, w)
    /\ Served(d, w) \/ Blank(d, w) \/ Spoilt(d, w) \/ Broke(d, w) \/ Refused(d, w)

Proceed(d) == Rebut(d) \/ Abort(d) \/ Seat(d) \/ Rule(d) \/ File(d) \/ Store(d)

\* Whatever a debate does by itself, or a vendor for it.
Turn(d) ==
    \/ \E w \in Writers : Ask(d, w)
    \/ Idle /\ (Proceed(d) \/ \E w \in Writers : Reply(d, w))

DebateNext ==
    \/ \E d \in Debates : Turn(d)
    \/ Idle /\ \E d \in Debates : Open(d) \/ Leave(d)
    \/ Idle /\ \E o \in Owners : RunsOut(o) \/ BenchLapses(o)

\* Every call has a timeout and the event loop serves every coroutine.  It is
\* enough that a debate with something to do does something.
Fairness == \A d \in Debates : WF_debateVars(Turn(d))

DebateSpec == DebateInit /\ [][DebateNext]_debateVars /\ Fairness
-----------------------------------------------------------------------------
Outs == {"text", "limit", "error", None} \cup Votes
NamedOwners == UNION {ToSet(Keys[p]) : p \in Vendors}

DebateTypeOK ==
    /\ stage \in [Debates -> {"new", "research", "jury", "filing", "storing", "done", "error", "gone"}]
    /\ round \in [Debates -> 1..4] /\ written \in [Debates -> SUBSET Sides]
    /\ \A d \in Debates : seats[d] \subseteq Writers
    /\ call \in [Debates -> [Writers ->
         [st : {"none", "ready", "sent", "again", "done", "fail"}, own : NamedOwners \cup {None},
          try : {1, 2}, out : Outs, seen : NamedOwners \cup {None}]]]
    /\ decision \in [Debates -> Votes \cup {"ESCALATED", None}]
    /\ filed \subseteq Debates
    /\ funded \subseteq Owners /\ benched \subseteq Owners
    /\ \A p \in Vendors : ledger[p] \in [ToSet(Keys[p]) -> Nat]
    /\ blind \in Nat /\ faults \in 0..MaxFaults

Answered(d) == {s \in seats[d] : call[d][s].st = "done"}
Answering(d, v) == {s \in Answered(d) : call[d][s].out = v}

\* A verdict other than ESCALATED rests on answers of most of the jury that was
\* asked; BUY and SELL on more than half of the answers; and an even split
\* between the two is never resolved (aggregate.py:75-145, engine.py:87-99).
VerdictIsHeard ==
    \A d \in Debates : decision[d] \in Votes =>
        LET n == Cardinality(Answered(d))
        IN  /\ 2 * n > Cardinality(seats[d])
            /\ decision[d] # "HOLD" => 2 * Cardinality(Answering(d, decision[d])) > n
            /\ Answering(d, "BUY") \cup Answering(d, "SELL") = Answered(d)
                 => decision[d] # "HOLD"

\* Both sides have a case on record and one family judges.
Plain(d) == written[d] = Sides /\ seats[d] \subseteq Lenses \X {"anthropic"}

\* What calibration will score is what was said: a stored judgment of a lens is
\* a vote cast for that lens in this debate, the synthesiser's is the verdict, a
\* directional one has the case it chose, the file was written first, and of a
\* plain debate nothing is missing (debate_store.py:9-29).
StoredWasSaid ==
    \A d \in Debates : stored[d] # None =>
        LET votes == stored[d].votes
        IN  /\ d \in filed
            /\ \A l \in DOMAIN votes : \E p \in Vendors :
                 <<l, p>> \in Answered(d) /\ call[d][<<l, p>>].out = votes[l]
            /\ stored[d].synth \in {decision[d], None}
            /\ \A v \in {votes[l] : l \in DOMAIN votes} \cup {stored[d].synth} :
                 (v = "BUY" => "bull" \in written[d]) /\ (v = "SELL" => "bear" \in written[d])
            /\ Plain(d) => /\ \A s \in Answered(d) : s[1] \in DOMAIN votes
                           /\ decision[d] \in Votes => stored[d].synth = decision[d]

\* A call is given up for lack of budget only when no owner has any left: one
\* owner's limit never silences a juror (anthropic_client.py:172-187).
LimitsMeanNoKey ==
    \A d \in Debates, w \in Writers : call[d][w].out = "limit" => funded = {}

\* The parts that are checked together: a verdict rests on votes, what is stored
\* was said, and a limit silences nobody while a key is left.
DebateInv == DebateTypeOK /\ VerdictIsHeard /\ StoredWasSaid /\ LimitsMeanNoKey

\* The most calls of a vendor that can be in flight at once: a jury's, and the
\* rebuttal whose counterpart has failed, or the two researchers'.
MostInFlight(p) ==
    Cardinality(Debates) * (IF p = "anthropic" THEN Seating[p] + 1 ELSE Seating[p])

\* No owner is ahead of another who can pay by more than what the calls in
\* flight may cost, although every one of those was given to the one who was
\* behind; a call that could not be recorded counts for nothing, and each read
\* of the ledger that failed may add the cost of one call (keys.py:7-14, 84-100,
\* ledger.py:78-84).  An owner without budget falls behind: the calls that are
\* refused go to the other.
SpendStaysEven ==
    \A p \in Vendors : \A o, k \in ToSet(Keys[p]) :
        (p = "anthropic" => k \in funded) =>
            ledger[p][o] - ledger[p][k] <= (MostInFlight(p) + blind) * MaxCost

\* Every debate that has begun ends, with a record, with an error or because its
\* reader left, whatever the vendors and the database do.
DebatesEnd ==
    \A d \in Debates : (stage[d] # "new") ~> (stage[d] \in {"done", "error", "gone"})
=============================================================================
