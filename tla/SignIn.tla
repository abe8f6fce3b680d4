-------------------------------- MODULE SignIn -------------------------------
(***************************************************************************)
(* The second factor of one operator (complete_mfa() in backend/app/       *)
(* services/auth.py over migration 012), beside bin/manage_operator.py.    *)
(* A call is one READ COMMITTED transaction: a SELECT sees what is         *)
(* committed, an UPDATE waits for the row it changes and then looks at it  *)
(* again, and a refusal COMMITS what it has written.  Statements that wait *)
(* for nobody are joined to the one before them.                           *)
(*                                                                         *)
(* What a call has written and not committed follows from where it is:     *)
(* from "gate", "spend" or "strike" on it holds the challenge's row, with  *)
(* a recovery code also its consumption; from "clear" on the code's row;   *)
(* at "mint" the row of operator_totp.                                     *)
(***************************************************************************)
EXTENDS Integers, Sequences

CONSTANTS
    Calls,        \* threads that serve POST /api/auth/login/totp
    Challenges,   \* rows of mfa_login_challenges
    NoChallenge,  \* what a thread without a call is at
    Slips,        \* how many recovery codes come with a secret
    MaxFailed,    \* totp_max_failed_attempts
    MaxStep,      \* bound on the clock, in steps of 30 seconds
    MaxSecrets,   \* bound on the number of secrets: re-enrolments and one
    MaxAttempts,  \* bound on the attempts counted before a challenge is left alone
    DbMayFail     \* TRUE when a transaction may be lost, or a secret not be decrypted

ASSUME NoChallengeIsNone == NoChallenge \notin Challenges
ASSUME LimitsAreNat == /\ Slips \in Nat /\ MaxFailed \in Nat \ {0} /\ MaxStep \in Nat \ {0}
                       /\ MaxSecrets \in Nat \ {0} /\ MaxAttempts \in Nat
                       /\ DbMayFail \in BOOLEAN

\* What may be typed into the one field: the code of a step of a secret, a
\* recovery code, or something that is neither (n = 0).
Code == [kind : {"totp"}, secret : 1..MaxSecrets, n : 0..MaxStep]
          \cup [kind : {"recovery"}, secret : 1..MaxSecrets, n : 0..Slips]

VARIABLES
    clock,      \* the current step
    challenge,  \* mfa_login_challenges, as committed
    totp,       \* the operator's row of operator_totp, as committed
    unused,     \* recovery_codes without a used_at
    used,       \* recovery_codes with one
    sessions,   \* sessions, in the order they were committed
    call,       \* the transaction of each thread
    clerk       \* how far a reset-totp is

vars == <<clock, challenge, totp, unused, used, sessions, call, clerk>>
codes == <<unused, used>>
-----------------------------------------------------------------------------
NoCode == [kind |-> "totp", secret |-> 1, n |-> 0]

\* A call, with what its SELECT of operator_totp saw; the last two fields are
\* the sessions its UPDATE has stamped and, no part of the code, whether
\* its code bought another call a session meanwhile.
Idle == [at |-> "idle", ch |-> NoChallenge, code |-> NoCode,
         secret |-> 1, mark |-> 0, failed |-> 0, revokes |-> {}, raced |-> FALSE]

Call == [at : {"idle", "totp", "count", "gate", "spend", "clear", "mint", "strike"},
         ch : Challenges \cup {NoChallenge}, code : Code,
         secret : 1..MaxSecrets, mark : 0..MaxStep, failed : Nat,
         revokes : SUBSET Nat, raced : BOOLEAN]

Challenge == [issued : BOOLEAN, consumed : BOOLEAN, lapsed : BOOLEAN, attempts : Nat]
Totp == [secret : 1..MaxSecrets, mark : 0..MaxStep, failed : Nat, locked : BOOLEAN]
Session == [ch : Challenges, code : Code, live : BOOLEAN]

\* The recovery codes printed with a secret.
Card(s) == [kind : {"recovery"}, secret : {s}, n : 1..Slips]

TypeOK ==
    /\ clock \in 0..MaxStep
    /\ challenge \in [Challenges -> Challenge]
    /\ totp \in Totp
    /\ unused \cup used \subseteq Card(totp.secret) /\ unused \cap used = {}
    /\ sessions \in Seq(Session)
    /\ call \in [Calls -> Call]
    /\ clerk \in {"idle", "delete", "revoke"}
    /\ clerk # "idle" => totp.secret < MaxSecrets

Init ==
    /\ clock = 1
    /\ challenge = [c \in Challenges |-> [issued |-> FALSE, consumed |-> FALSE,
                                          lapsed |-> FALSE, attempts |-> 0]]
    /\ totp = [secret |-> 1, mark |-> 0, failed |-> 0, locked |-> FALSE]
    /\ unused = Card(1)
    /\ used = {}
    /\ sessions = <<>>
    /\ call = [r \in Calls |-> Idle]
    /\ clerk = "idle"
-----------------------------------------------------------------------------
(* Row locks                                                               *)

ChallengeFree(r) ==
    \A q \in Calls \ {r} :
        call[q].ch = call[r].ch => call[q].at \notin {"gate", "spend", "clear", "mint", "strike"}

CodeTaken(code) == \E q \in Calls : call[q].at \in {"clear", "mint"} /\ call[q].code = code

TotpFree == clerk = "idle" /\ \A q \in Calls : call[q].at # "mint"
-----------------------------------------------------------------------------
(* Time and the password step                                              *)

Tick ==
    /\ clock < MaxStep
    /\ clock' = clock + 1
    /\ UNCHANGED <<challenge, totp, codes, sessions, call, clerk>>

\* expires_at passes; of a consumed challenge nobody would notice.
Lapse(c) ==
    /\ challenge[c].issued /\ ~challenge[c].consumed /\ ~challenge[c].lapsed
    /\ challenge' = [challenge EXCEPT ![c].lapsed = TRUE]
    /\ UNCHANGED <<clock, totp, codes, sessions, call, clerk>>

\* locked_until passes.  Nothing takes the strikes back.
LockLapses ==
    /\ totp.locked
    /\ totp' = [totp EXCEPT !.locked = FALSE]
    /\ UNCHANGED <<clock, challenge, codes, sessions, call, clerk>>

\* password_login() with the right password; any other leaves nothing but an event.
PasswordLogin(c) ==
    /\ ~challenge[c].issued
    /\ challenge' = [challenge EXCEPT ![c].issued = TRUE]
    /\ UNCHANGED <<clock, totp, codes, sessions, call, clerk>>
-----------------------------------------------------------------------------
(* complete_mfa()                                                          *)

Goto(r, step) == call' = [call EXCEPT ![r].at = step]
Forget(r, step) == call' = [call EXCEPT ![r].at = step, ![r].secret = 1, ![r].mark = 0]
Return(r) == call' = [call EXCEPT ![r] = Idle]

\* The call's first SELECT: any challenge that is not live is refused at once.
Begin(r, c, code) ==
    /\ call[r].at = "idle"
    /\ challenge[c].issued /\ ~challenge[c].consumed /\ ~challenge[c].lapsed
    /\ challenge[c].attempts < MaxAttempts
    /\ IF code.n = 0 THEN code.secret = 1 ELSE code.secret <= totp.secret
    /\ call' = [call EXCEPT ![r] = [Idle EXCEPT !.at = "totp", !.ch = c, !.code = code]]
    /\ UNCHANGED <<clock, challenge, totp, codes, sessions, clerk>>

\* The lockout gate comes before any verification.
ReadTotp(r) ==
    /\ call[r].at = "totp"
    /\ IF totp.locked
         THEN Return(r)
         ELSE call' = [call EXCEPT ![r].at = "count", ![r].secret = totp.secret,
                                   ![r].mark = totp.mark, ![r].failed = totp.failed]
    /\ UNCHANGED <<clock, challenge, totp, codes, sessions, clerk>>

\* _match_totp_step(): the current step or a neighbour, by the secret that was read.
Matches(k) ==
    /\ k.code.n # 0
    /\ k.code.secret = k.secret
    /\ k.code.n \in clock - 1 .. clock + 1

\* Commit what the call has written to its challenge, and nothing else of it.
CountAttempt(r) ==
    challenge' = [challenge EXCEPT ![call[r].ch].attempts = @ + 1,
        ![call[r].ch].consumed = @ \/ (call[r].code.kind = "recovery" /\ call[r].at # "count")]

\* attempts + 1, which waits for the challenge's row; then a TOTP code is
\* verified, and a recovery code consumes the challenge before anything else.
\* Of what was read of operator_totp only the strikes are used after this.
Count(r) ==
    /\ call[r].at = "count" /\ ChallengeFree(r)
    /\ \/ /\ call[r].code.kind = "totp"
          /\ Forget(r, IF Matches(call[r]) /\ call[r].code.n > call[r].mark
                       THEN "gate" ELSE "strike")
          /\ UNCHANGED challenge
       \/ /\ call[r].code.kind = "recovery" /\ ~challenge[call[r].ch].consumed
          /\ Forget(r, "spend")
          /\ UNCHANGED challenge
       \/ /\ call[r].code.kind = "recovery" /\ challenge[call[r].ch].consumed
          /\ CountAttempt(r)
          /\ Return(r)
    /\ UNCHANGED <<clock, totp, codes, sessions, clerk>>

\* The secret cannot be decrypted: 503, and the attempt stays counted.
SecretUnreadable(r) ==
    /\ call[r].at = "count" /\ ChallengeFree(r)
    /\ call[r].code.kind = "totp" /\ DbMayFail
    /\ CountAttempt(r)
    /\ Return(r)
    /\ UNCHANGED <<clock, totp, codes, sessions, clerk>>

\* Mutant: the mark is written whatever it is by now.
BugGateOpen(r) ==
    /\ call[r].at = "gate" /\ TotpFree
    /\ Goto(r, "mint")
    /\ UNCHANGED <<clock, challenge, totp, codes, sessions, clerk>>

\* UPDATE operator_totp WHERE last_used_step < step: a code another call has
\* used meanwhile is refused, without a strike.
Gate(r) ==
    /\ call[r].at = "gate" /\ TotpFree
    /\ \/ /\ totp.mark < call[r].code.n
          /\ Goto(r, "mint")
          /\ UNCHANGED challenge
       \/ /\ totp.mark >= call[r].code.n
          /\ CountAttempt(r)
          /\ Return(r)
    /\ UNCHANGED <<clock, totp, codes, sessions, clerk>>

\* UPDATE recovery_codes WHERE used_at IS NULL.
Spend(r) ==
    /\ call[r].at = "spend" /\ ~CodeTaken(call[r].code) /\ clerk # "revoke"
    /\ Goto(r, IF call[r].code \in unused THEN "clear" ELSE "strike")
    /\ UNCHANGED <<clock, challenge, totp, codes, sessions, clerk>>

Live == {i \in DOMAIN sessions : sessions[i].live}

\* The sessions once revoked_at is set on some of them.
Stamped(S) == [i \in DOMAIN sessions |-> [sessions[i] EXCEPT !.live = @ /\ i \notin S]]

\* The strikes are reset, which waits for the row of operator_totp; then the
\* sessions that are live by now are revoked.
Clear(r) ==
    /\ call[r].at = "clear" /\ TotpFree
    /\ call' = [call EXCEPT ![r].at = "mint", ![r].revokes = Live]
    /\ UNCHANGED <<clock, challenge, totp, codes, sessions, clerk>>

\* Mutant: the strike is written with the lock as it was computed from.
BugStrikeUnlocks(r) ==
    /\ call[r].at = "strike" /\ TotpFree
    /\ LET failed == call[r].failed + 1
       IN  totp' = [totp EXCEPT !.failed = failed, !.locked = failed >= MaxFailed]
    /\ CountAttempt(r)
    /\ Return(r)
    /\ UNCHANGED <<clock, codes, sessions, clerk>>

\* No match: a strike on top of those that were read, and at the limit the lock.
Strike(r) ==
    /\ call[r].at = "strike" /\ TotpFree
    /\ LET failed == call[r].failed + 1
       IN  totp' = [totp EXCEPT !.failed = failed, !.locked = @ \/ failed >= MaxFailed]
    /\ CountAttempt(r)
    /\ Return(r)
    /\ UNCHANGED <<clock, codes, sessions, clerk>>

\* Mutant: whether the challenge was still there to consume is not looked at.
BugMintUngated(r) ==
    LET k == call[r] IN
    /\ k.at = "mint"
    /\ challenge' = [challenge EXCEPT ![k.ch].attempts = @ + 1, ![k.ch].consumed = TRUE]
    /\ totp' = [totp EXCEPT !.failed = 0, !.locked = FALSE,
                            !.mark = IF k.code.kind = "totp" THEN k.code.n ELSE @]
    /\ unused' = unused \ {k.code}
    /\ used' = used \cup ({k.code} \cap unused)
    /\ sessions' = Append(Stamped(k.revokes), [ch |-> k.ch, code |-> k.code, live |-> TRUE])
    /\ Return(r)
    /\ UNCHANGED <<clock, clerk>>

\* The challenge is consumed if it still can be (a recovery code has seen to
\* that in Count), and then the session inserted; committed either way.
Mint(r) ==
    LET k == call[r]
        won == ~challenge[k.ch].consumed
        stamped == Stamped(k.revokes)
    IN  /\ k.at = "mint"
        /\ challenge' = [challenge EXCEPT ![k.ch].attempts = @ + 1, ![k.ch].consumed = TRUE]
        /\ totp' = [totp EXCEPT !.failed = 0, !.locked = FALSE,
                                !.mark = IF k.code.kind = "totp" THEN k.code.n ELSE @]
        /\ unused' = unused \ {k.code}
        /\ used' = used \cup ({k.code} \cap unused)
        /\ sessions' = IF won THEN Append(stamped, [ch |-> k.ch, code |-> k.code, live |-> TRUE])
                              ELSE stamped
        /\ call' = [q \in Calls |->
                      IF q = r THEN Idle
                      ELSE [call[q] EXCEPT !.raced = @ \/ (won /\ call[q].at # "idle"
                                                            /\ call[q].code = k.code)]]
        /\ UNCHANGED <<clock, clerk>>

\* The transaction is lost before it commits: rolled back, 503.
Lose(r) ==
    /\ DbMayFail /\ call[r].at # "idle"
    /\ Return(r)
    /\ UNCHANGED <<clock, challenge, totp, codes, sessions, clerk>>
-----------------------------------------------------------------------------
(* Sessions, and the host's command line                                   *)

\* revoke_session()
Logout(i) ==
    /\ sessions[i].live
    /\ \A r \in Calls : i \notin call[r].revokes
    /\ sessions' = Stamped({i})
    /\ UNCHANGED <<clock, challenge, totp, codes, call, clerk>>

\* cmd_unlock()
Unlock ==
    /\ TotpFree
    /\ totp.failed # 0 \/ totp.locked
    /\ totp' = [totp EXCEPT !.failed = 0, !.locked = FALSE]
    /\ UNCHANGED <<clock, challenge, codes, sessions, call, clerk>>

\* cmd_reset_totp(): the enrolment first,
ResetTotp ==
    /\ TotpFree /\ totp.secret < MaxSecrets
    /\ clerk' = "delete"
    /\ UNCHANGED <<clock, challenge, totp, codes, sessions, call>>

\* then the old codes, which waits for a call that is spending one of them,
DeleteCodes ==
    /\ clerk = "delete"
    /\ ~\E code \in unused \cup used : CodeTaken(code)
    /\ clerk' = "revoke"
    /\ UNCHANGED <<clock, challenge, totp, codes, sessions, call>>

\* and last the sessions; then all of it is committed.
RevokeAll ==
    /\ clerk = "revoke"
    /\ totp' = [secret |-> totp.secret + 1, mark |-> 0, failed |-> 0, locked |-> FALSE]
    /\ unused' = Card(totp.secret + 1) /\ used' = {}
    /\ sessions' = Stamped(DOMAIN sessions)
    /\ clerk' = "idle"
    /\ UNCHANGED <<clock, challenge, call>>

\* The command dies before it commits.
ResetLost ==
    /\ DbMayFail /\ clerk # "idle"
    /\ clerk' = "idle"
    /\ UNCHANGED <<clock, challenge, totp, codes, sessions, call>>

\* A call that spends a code waits for operator_totp, and the reset that holds
\* that row waits for the code: the server rolls one of the two back, and the
\* call is answered 503.
Deadlocked(r) == /\ call[r].at = "clear" /\ clerk = "delete"
                 /\ call[r].code \in unused \cup used

DeadlockBroken(r) ==
    /\ Deadlocked(r)
    /\ \/ Return(r) /\ UNCHANGED clerk
       \/ clerk' = "idle" /\ UNCHANGED call
    /\ UNCHANGED <<clock, challenge, totp, codes, sessions>>
-----------------------------------------------------------------------------
CompleteMfa(r) ==
    \/ \E c \in Challenges, code \in Code : Begin(r, c, code)
    \/ ReadTotp(r) \/ Count(r) \/ SecretUnreadable(r)
    \/ Gate(r) \/ Spend(r) \/ Clear(r) \/ Strike(r) \/ Mint(r)
    \/ Lose(r) \/ DeadlockBroken(r)

Next ==
    \/ Tick \/ LockLapses
    \/ \E c \in Challenges : PasswordLogin(c) \/ Lapse(c)
    \/ \E r \in Calls : CompleteMfa(r)
    \/ \E i \in DOMAIN sessions : Logout(i)
    \/ Unlock \/ ResetTotp \/ DeleteCodes \/ RevokeAll \/ ResetLost

Spec == Init /\ [][Next]_vars
-----------------------------------------------------------------------------
(* What must hold                                                          *)

\* A challenge buys one session, however many calls present it at once and
\* whichever codes they carry.
OneSessionPerChallenge ==
    \A i, j \in DOMAIN sessions : sessions[i].ch = sessions[j].ch => i = j

\* No code keeps two sessions alive, on whatever challenges it was presented
\* and whether or not the mark it is compared with was reset in between.
OneLiveSessionPerCode ==
    \A i, j \in Live : sessions[i].code = sessions[j].code => i = j

\* Once a recovery code has bought a session, every session committed before
\* it is revoked: also one whose call was under way at the same time.
RecoveryClearsTheOthers ==
    \A i, j \in DOMAIN sessions :
        i < j /\ sessions[j].code.kind = "recovery" => ~sessions[i].live

\* A recovery code is never spent for nothing: a call that loses its challenge
\* loses it before its code.
SpentCodesBought == \A code \in used : \E i \in DOMAIN sessions : sessions[i].code = code

\* For one secret the mark never goes back, in whatever order calls that
\* carry codes of different steps commit.
MarkOnlyGrows == [][totp'.secret = totp.secret => totp'.mark >= totp.mark]_totp

\* A lock that calls have run into ends by time, by the host, or by a call that
\* got in with a right code it had begun before: never by one more failure.
OnlyTheRightCodeUnlocks ==
    [][totp.locked /\ ~totp'.locked /\ call' # call
         => totp'.mark > totp.mark \/ used' # used]_vars
-----------------------------------------------------------------------------
(* The inductive invariant behind them                                     *)

Counted == {"gate", "spend", "clear", "mint", "strike"}   \* the challenge's row is held

\* The row locks exclude each other.
ChallengeLocked ==
    \A r, q \in Calls : call[r].at \in Counted /\ call[q].at \in Counted
                          /\ call[r].ch = call[q].ch => r = q
TotpRowLocked ==
    \A r \in Calls : call[r].at = "mint" =>
        clerk = "idle" /\ \A q \in Calls : call[q].at = "mint" => q = r

\* Which kind of code gets where.
KindFits ==
    \A r \in Calls :
        /\ call[r].at # "idle" => call[r].ch \in Challenges
        /\ call[r].at = "gate" => call[r].code.kind = "totp"
        /\ call[r].at \in {"spend", "clear"} => call[r].code.kind = "recovery"

\* What a call relies on while it holds its rows: a recovery's challenge is
\* not consumed by another, a mark is still below the step, and no session
\* has come that the UPDATE did not see.
ChallengeStillOurs ==
    \A r \in Calls : call[r].at \in {"spend", "clear", "mint"} /\ call[r].code.kind = "recovery"
                        => ~challenge[call[r].ch].consumed
MintIsRight ==
    \A r \in Calls : call[r].at = "mint" =>
        IF call[r].code.kind = "totp" THEN totp.mark < call[r].code.n ELSE Live \subseteq call[r].revokes

\* A session leaves its challenge consumed, and the mark at its step or above.
SessionsLeaveTraces ==
    \A i \in DOMAIN sessions :
        /\ challenge[sessions[i].ch].consumed
        /\ sessions[i].live /\ sessions[i].code.kind = "totp" => sessions[i].code.n <= totp.mark

\* A code whose row is held has not been used, and nobody else holds it; a
\* reset that has deleted the codes has waited for those who did.
CodeLocked ==
    /\ \A r \in Calls :
         call[r].at \in {"clear", "mint"} /\ call[r].code.kind = "recovery" =>
            /\ call[r].code \in unused
            /\ \A q \in Calls : call[q].at \in {"clear", "mint"}
                                  /\ call[q].code = call[r].code => q = r
    /\ clerk = "revoke" => \A r \in Calls : call[r].at # "clear"

\* What every step of a sign-in preserves: one session per challenge and per
\* code, recoveries that revoke the rest, and the row locks these rest on.
IInv ==
    /\ TypeOK
    /\ ChallengeLocked /\ TotpRowLocked
    /\ KindFits /\ ChallengeStillOurs /\ MintIsRight
    /\ SessionsLeaveTraces
    /\ OneSessionPerChallenge /\ OneLiveSessionPerCode
    /\ RecoveryClearsTheOthers /\ SpentCodesBought
-----------------------------------------------------------------------------
(* What the repository says and the code does not do                       *)

\* auth.py:510 of the loser of a double click: "rejected, but never a §5.8
\* strike".  A call whose code has bought another call a session since it began
\* does not get as far as a strike.
DoubleClickIsNoStrike ==
    \A r \in Calls : call[r].raced /\ call[r].code.kind = "totp" => call[r].at # "strike"
=============================================================================
