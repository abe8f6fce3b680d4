----------------------------- MODULE SignInProofs ----------------------------
(***************************************************************************)
(* Proofs about SignIn for any number of calls, challenges, secrets and    *)
(* recovery codes, and every value of the limits.                          *)
(***************************************************************************)
EXTENDS SignIn, SequenceTheorems, TLAPS

(* The sessions                                                            *)

\* Revoking changes which sessions are live and nothing else.
LEMMA StampedIs ==
    ASSUME sessions \in Seq(Session), NEW S
    PROVE  /\ Stamped(S) \in Seq(Session)
           /\ DOMAIN Stamped(S) = DOMAIN sessions
           /\ Len(Stamped(S)) = Len(sessions)
           /\ \A i \in DOMAIN sessions :
                /\ Stamped(S)[i].ch = sessions[i].ch
                /\ Stamped(S)[i].code = sessions[i].code
                /\ Stamped(S)[i].live = (sessions[i].live /\ i \notin S)
<1> DEFINE n == Len(sessions)
<1>1. n \in Nat /\ DOMAIN sessions = 1..n /\ sessions \in [1..n -> Session]
  BY LenProperties
<1>2. \A i \in 1..n : sessions[i] \in Session
  BY <1>1
<1>3. ASSUME NEW i \in 1..n
      PROVE  LET t == [sessions[i] EXCEPT !.live = sessions[i].live /\ i \notin S]
             IN  /\ t \in Session /\ t.ch = sessions[i].ch /\ t.code = sessions[i].code
                 /\ t.live = (sessions[i].live /\ i \notin S)
  BY <1>2, <1>3 DEF Session
<1>4. Stamped(S) = [i \in 1..n |-> [sessions[i] EXCEPT !.live = sessions[i].live /\ i \notin S]]
  BY <1>1 DEF Stamped
<1>5. Stamped(S) \in [1..n -> Session]
  BY <1>3, <1>4
<1>6. Stamped(S) \in Seq(Session)
  BY <1>1, <1>5, SeqDef
<1>7. DOMAIN Stamped(S) = 1..n
  BY <1>5
<1>8. Len(Stamped(S)) = n
  BY <1>1, <1>6, <1>7, LenProperties
<1>9. ASSUME NEW i \in 1..n
      PROVE  /\ Stamped(S)[i].ch = sessions[i].ch
             /\ Stamped(S)[i].code = sessions[i].code
             /\ Stamped(S)[i].live = (sessions[i].live /\ i \notin S)
  <2>1. Stamped(S)[i] = [sessions[i] EXCEPT !.live = sessions[i].live /\ i \notin S]
    BY <1>4, <1>9
  <2> QED BY <2>1, <1>3, <1>9
<1> QED BY <1>1, <1>6, <1>7, <1>8, <1>9

\* What a session costs: the sequence after Mint.
LEMMA MintedIs ==
    ASSUME sessions \in Seq(Session), NEW S, NEW s \in Session
    PROVE  LET t == Append(Stamped(S), s)
               n == Len(sessions) + 1
           IN  /\ t \in Seq(Session) /\ DOMAIN t = DOMAIN sessions \cup {n}
               /\ n \notin DOMAIN sessions /\ t[n] = s
               /\ \A i \in DOMAIN sessions : i < n /\ t[i] = Stamped(S)[i]
<1> DEFINE t == Append(Stamped(S), s)
           n == Len(sessions) + 1
<1>1. Stamped(S) \in Seq(Session) /\ Len(Stamped(S)) = Len(sessions)
  BY StampedIs
<1>2. Len(sessions) \in Nat /\ DOMAIN sessions = 1..Len(sessions)
  BY LenProperties
<1>3. /\ t \in Seq(Session) /\ Len(t) = n /\ t[n] = s
      /\ \A i \in 1..Len(sessions) : t[i] = Stamped(S)[i]
  BY <1>1, AppendProperties
<1>4. DOMAIN t = 1..n
  BY <1>3, LenProperties
<1> QED BY <1>2, <1>3, <1>4
-----------------------------------------------------------------------------
(* Types                                                                   *)

LEMMA NoCodeTyped == NoCode \in Code
  BY LimitsAreNat DEF NoCode, Code

LEMMA IdleTyped == Idle \in Call
  BY NoCodeTyped, LimitsAreNat DEF Idle, Call

LEMMA TypeInit == Init => TypeOK
<1> SUFFICES ASSUME Init PROVE TypeOK
  OBVIOUS
<1>1. sessions \in Seq(Session)
  BY EmptySeq DEF Init
<1>2. totp \in Totp /\ clock \in 0..MaxStep
  BY LimitsAreNat DEF Init, Totp
<1>3. challenge \in [Challenges -> Challenge] /\ call \in [Calls -> Call]
  BY IdleTyped DEF Init, Challenge
<1>4. totp.secret = 1 /\ clerk = "idle" /\ unused = Card(1) /\ used = {}
  BY DEF Init
<1> QED BY <1>1, <1>2, <1>3, <1>4 DEF TypeOK

\* Committing a call's writes to its challenge.
LEMMA CountTyped ==
    ASSUME TypeOK, NEW r \in Calls, call[r].ch \in Challenges, CountAttempt(r)
    PROVE  /\ challenge' \in [Challenges -> Challenge]
           /\ \A c \in Challenges : challenge'[c].consumed =
                (challenge[c].consumed \/ (c = call[r].ch /\ call[r].code.kind = "recovery"
                                              /\ call[r].at # "count"))
<1>1. challenge \in [Challenges -> Challenge] /\ call[r] \in Call
  BY DEF TypeOK
<1>2. call[r].code.kind \in {"totp", "recovery"}
  BY <1>1 DEF Call, Code
<1> QED BY <1>1, <1>2 DEF CountAttempt, Challenge

LEMMA ConsumedIs ==
    ASSUME NEW c \in Challenge
    PROVE  LET d == [c EXCEPT !.attempts = c.attempts + 1, !.consumed = TRUE]
           IN  d \in Challenge /\ d.consumed
<1>1. c.attempts + 1 \in Nat
  BY DEF Challenge
<1> QED BY <1>1 DEF Challenge

LEMMA TypeStep == ASSUME TypeOK, KindFits, Next PROVE TypeOK'
<1> USE LimitsAreNat
<1>1. /\ challenge \in [Challenges -> Challenge] /\ totp \in Totp
      /\ sessions \in Seq(Session) /\ call \in [Calls -> Call] /\ clock \in 0..MaxStep
      /\ clerk \in {"idle", "delete", "revoke"}
      /\ unused \cup used \subseteq Card(totp.secret) /\ unused \cap used = {}
      /\ clerk # "idle" => totp.secret < MaxSecrets
  BY DEF TypeOK
<1>2. CASE Tick
  BY <1>1, <1>2 DEF Tick, TypeOK, codes
<1>3. CASE LockLapses
  BY <1>1, <1>3 DEF LockLapses, TypeOK, codes, Totp
<1>4. ASSUME NEW c \in Challenges, PasswordLogin(c) \/ Lapse(c) PROVE TypeOK'
  BY <1>1, <1>4, ZenonT(60) DEF PasswordLogin, Lapse, TypeOK, codes, Challenge
<1>5. ASSUME NEW r \in Calls, CompleteMfa(r) PROVE TypeOK'
  <2>1. call[r] \in Call
    BY <1>1
  <2>2. call[r].at # "idle" => call[r].ch \in Challenges
    BY DEF KindFits
  <2>3. ASSUME NEW c \in Challenges, NEW code \in Code, Begin(r, c, code) PROVE TypeOK'
    <3>1. [Idle EXCEPT !.at = "totp", !.ch = c, !.code = code] \in Call
      BY IdleTyped DEF Call
    <3> QED BY <1>1, <2>3, <3>1 DEF Begin, TypeOK, codes
  <2>4. ASSUME NEW step \in {"idle", "totp", "count", "gate", "spend", "clear", "mint", "strike"}
        PROVE  /\ Goto(r, step) => call' \in [Calls -> Call]
               /\ Forget(r, step) => call' \in [Calls -> Call]
    <3>1. [call[r] EXCEPT !.at = step] \in Call
      BY <2>1 DEF Call
    <3>2. [call[r] EXCEPT !.at = step, !.secret = 1, !.mark = 0] \in Call
      <4>1. 1 \in 1..MaxSecrets /\ 0 \in 0..MaxStep
        OBVIOUS
      <4> QED BY <2>1, <4>1 DEF Call
    <3>3. Forget(r, step) =>
            call' = [call EXCEPT ![r] = [call[r] EXCEPT !.at = step, !.secret = 1, !.mark = 0]]
      BY <1>1 DEF Forget
    <3> QED BY <1>1, <3>1, <3>2, <3>3 DEF Goto
  <2>5. Return(r) => call' \in [Calls -> Call]
    BY <1>1, IdleTyped DEF Return
  <2>6. CASE ReadTotp(r)
    <3>1. [call[r] EXCEPT !.at = "count", !.secret = totp.secret, !.mark = totp.mark,
                          !.failed = totp.failed] \in Call
      BY <1>1, <2>1 DEF Call, Totp
    <3>2. call' \in [Calls -> Call]
      BY <1>1, <2>5, <2>6, <3>1 DEF ReadTotp
    <3> QED BY <1>1, <2>6, <3>2 DEF ReadTotp, TypeOK, codes
  <2>7. CASE Count(r)
    <3>1. call' \in [Calls -> Call]
      BY <2>4, <2>5, <2>7 DEF Count
    <3>2. challenge' \in [Challenges -> Challenge]
      BY <1>1, <2>2, <2>7, CountTyped DEF Count
    <3> QED BY <1>1, <2>7, <3>1, <3>2 DEF Count, TypeOK, codes
  <2>8. CASE SecretUnreadable(r)
    BY <1>1, <2>2, <2>5, <2>8, CountTyped DEF SecretUnreadable, TypeOK, codes
  <2>9. CASE Gate(r)
    <3>1. call' \in [Calls -> Call]
      BY <2>4, <2>5, <2>9 DEF Gate
    <3>2. challenge' \in [Challenges -> Challenge]
      BY <1>1, <2>2, <2>9, CountTyped DEF Gate
    <3> QED BY <1>1, <2>9, <3>1, <3>2 DEF Gate, TypeOK, codes
  <2>10. CASE Spend(r)
    BY <1>1, <2>4, <2>10 DEF Spend, TypeOK, codes
  <2>11. CASE Clear(r)
    <3>1. Live \in SUBSET Nat
      BY <1>1, LenProperties DEF Live
    <3>2. [call[r] EXCEPT !.at = "mint", !.revokes = Live] \in Call
      BY <2>1, <3>1 DEF Call
    <3> QED BY <1>1, <2>11, <3>2 DEF Clear, TypeOK, codes
  <2>12. CASE Strike(r)
    <3>1. call[r].failed + 1 \in Nat
      BY <2>1 DEF Call
    <3>2. totp' \in Totp /\ totp'.secret = totp.secret
      BY <1>1, <2>12, <3>1 DEF Strike, Totp
    <3>3. challenge' \in [Challenges -> Challenge]
      BY <2>2, <2>12, CountTyped DEF Strike
    <3> QED BY <1>1, <2>5, <2>12, <3>2, <3>3 DEF Strike, TypeOK, codes
  <2>13. CASE Mint(r)
    <3> DEFINE k == call[r]
    <3>1. k.ch \in Challenges /\ k.code \in Code
      BY <2>1, <2>2, <2>13 DEF Mint, Call
    <3>2. challenge' \in [Challenges -> Challenge]
      <4>1. challenge' = [challenge EXCEPT ![k.ch] =
                [challenge[k.ch] EXCEPT !.attempts = challenge[k.ch].attempts + 1,
                                        !.consumed = TRUE]]
        BY <1>1, <2>13, <3>1 DEF Mint, Challenge
      <4>2. [challenge[k.ch] EXCEPT !.attempts = challenge[k.ch].attempts + 1,
                                    !.consumed = TRUE] \in Challenge
        BY <1>1, <3>1, ConsumedIs
      <4>3. \A c \in Challenges, e \in Challenge : [challenge EXCEPT ![c] = e] \in [Challenges -> Challenge]
        BY <1>1
      <4> QED BY <3>1, <4>1, <4>2, <4>3
    <3>3. totp' \in Totp /\ totp'.secret = totp.secret
      BY <1>1, <2>13, <3>1 DEF Mint, Totp, Code
    <3>4. [ch |-> k.ch, code |-> k.code, live |-> TRUE] \in Session
      BY <3>1 DEF Session
    <3>5. sessions' \in Seq(Session)
      BY <1>1, <2>13, <3>4, StampedIs, MintedIs DEF Mint
    <3>6. ASSUME NEW q \in Calls, NEW b \in BOOLEAN
          PROVE  [call[q] EXCEPT !.raced = call[q].raced \/ b] \in Call
      BY <1>1, <3>6, ZenonT(60) DEF Call
    <3>7. call' \in [Calls -> Call]
      BY <2>13, <3>6, IdleTyped DEF Mint
    <3>8. unused' \cup used' \subseteq Card(totp'.secret) /\ unused' \cap used' = {}
      BY <1>1, <2>13, <3>3 DEF Mint
    <3> QED BY <1>1, <2>13, <3>2, <3>3, <3>5, <3>7, <3>8 DEF Mint, TypeOK
  <2>14. CASE Lose(r)
    BY <1>1, <2>5, <2>14 DEF Lose, TypeOK, codes
  <2>15. CASE DeadlockBroken(r)
    BY <1>1, <2>5, <2>15 DEF DeadlockBroken, TypeOK, codes
  <2> QED BY <1>5, <2>3, <2>6, <2>7, <2>8, <2>9, <2>10, <2>11, <2>12, <2>13, <2>14, <2>15
       DEF CompleteMfa
<1>6. ASSUME NEW i \in DOMAIN sessions, Logout(i) PROVE TypeOK'
  BY <1>1, <1>6, StampedIs DEF Logout, TypeOK, codes
<1>7. CASE Unlock
  BY <1>1, <1>7 DEF Unlock, TypeOK, codes, Totp
<1>8. CASE ResetTotp \/ DeleteCodes \/ ResetLost
  BY <1>1, <1>8 DEF ResetTotp, DeleteCodes, ResetLost, TypeOK, codes
<1>9. CASE RevokeAll
  BY <1>1, <1>9, StampedIs DEF RevokeAll, TypeOK, Totp, Card
<1> QED BY <1>2, <1>3, <1>4, <1>5, <1>6, <1>7, <1>8, <1>9 DEF Next
-----------------------------------------------------------------------------
(* The invariant                                                           *)

LEMMA InvInit == Init => IInv
<1> SUFFICES ASSUME Init PROVE IInv
  OBVIOUS
<1>1. \A r \in Calls : call[r].at = "idle"
  BY DEF Init, Idle
<1>2. DOMAIN sessions = {} /\ used = {}
  BY DEF Init
<1> QED BY <1>1, <1>2, TypeInit DEF IInv, ChallengeLocked, Counted, TotpRowLocked, KindFits,
     ChallengeStillOurs, MintIsRight, SessionsLeaveTraces, OneSessionPerChallenge,
     OneLiveSessionPerCode, RecoveryClearsTheOthers, SpentCodesBought, Live

\* What is said of the sessions stays true while they and the mark stay.
LEMMA SessionsKept ==
    ASSUME IInv, sessions' = sessions, used' \subseteq used, totp'.mark = totp.mark,
           \A c \in Challenges : challenge[c].consumed => challenge'[c].consumed
    PROVE  /\ SessionsLeaveTraces' /\ OneSessionPerChallenge' /\ OneLiveSessionPerCode'
           /\ RecoveryClearsTheOthers' /\ SpentCodesBought'
<1>1. \A i \in DOMAIN sessions : sessions[i].ch \in Challenges
  <2>1. sessions \in Seq(Session)
    BY DEF IInv, TypeOK
  <2>2. sessions \in [1..Len(sessions) -> Session] /\ DOMAIN sessions = 1..Len(sessions)
    BY <2>1, LenProperties
  <2>3. \A i \in DOMAIN sessions : sessions[i] \in Session
    BY <2>2
  <2> QED BY <2>3 DEF Session
<1>2. SessionsLeaveTraces'
  BY <1>1 DEF IInv, SessionsLeaveTraces
<1> QED BY <1>2 DEF IInv, OneSessionPerChallenge, OneLiveSessionPerCode, Live,
     RecoveryClearsTheOthers, SpentCodesBought

\* Only one call moves.
Others(r) ==
    \A q \in Calls \ {r} : /\ call'[q].at = call[q].at /\ call'[q].ch = call[q].ch
                           /\ call'[q].code = call[q].code /\ call'[q].revokes = call[q].revokes

\* A call that moves without committing a session: it takes the challenge's row
\* when it is free, that of operator_totp when that is, and what it consumes
\* is the challenge it holds.
LEMMA InvMove ==
    ASSUME IInv, TypeOK', NEW r \in Calls, Others(r), clerk' = clerk,
           sessions' = sessions, used' = used, totp'.mark = totp.mark,
           \A c \in Challenges : challenge[c].consumed => challenge'[c].consumed,
           \A c \in Challenges : challenge'[c].consumed =>
               challenge[c].consumed
               \/ (c = call[r].ch /\ call[r].at \in Counted /\ call'[r].at = "idle"),
           call'[r].at \in Counted =>
               call'[r].ch = call[r].ch /\ (call[r].at \in Counted \/ ChallengeFree(r)),
           call'[r].at = "mint" =>
               /\ TotpFree
               /\ IF call'[r].code.kind = "totp" THEN totp.mark < call'[r].code.n
                                                 ELSE Live \subseteq call'[r].revokes,
           call'[r].at # "idle" => call'[r].ch \in Challenges,
           call'[r].at = "gate" => call'[r].code.kind = "totp",
           call'[r].at \in {"spend", "clear"} => call'[r].code.kind = "recovery",
           call'[r].at \in {"spend", "clear", "mint"} /\ call'[r].code.kind = "recovery"
               => ~challenge[call'[r].ch].consumed
    PROVE  IInv'
<1> USE DEF Others
<1>1. ChallengeLocked'
  <2>1. ASSUME NEW q \in Calls \ {r}, call'[q].at \in Counted, call'[r].at \in Counted,
               call'[q].ch = call'[r].ch
        PROVE  FALSE
    BY <2>1 DEF IInv, ChallengeLocked, ChallengeFree, Counted
  <2> QED BY <2>1 DEF IInv, ChallengeLocked
<1>2. TotpRowLocked'
  BY DEF IInv, TotpRowLocked, TotpFree
<1>3. KindFits'
  BY DEF IInv, KindFits
<1>4. ChallengeStillOurs'
  <2> SUFFICES ASSUME NEW q \in Calls, call'[q].at \in {"spend", "clear", "mint"},
                      call'[q].code.kind = "recovery", challenge'[call'[q].ch].consumed
               PROVE  FALSE
    BY DEF ChallengeStillOurs
  <2>1. call'[q].ch \in Challenges
    BY <1>3 DEF KindFits
  <2>2. CASE q = r
    BY <2>1, <2>2
  <2>3. CASE q # r
    BY <2>1, <2>3 DEF IInv, ChallengeStillOurs, ChallengeLocked, Counted
  <2> QED BY <2>2, <2>3
<1>5. MintIsRight'
  BY DEF IInv, MintIsRight, Live
<1> QED BY <1>1, <1>2, <1>3, <1>4, <1>5, SessionsKept DEF IInv
-----------------------------------------------------------------------------
(* One step                                                                *)

\* The steps of a call that commit no session.
LEMMA InvCall ==
    ASSUME IInv, TypeOK', NEW r \in Calls,
           \/ \E c \in Challenges, code \in Code : Begin(r, c, code)
           \/ ReadTotp(r) \/ Count(r) \/ SecretUnreadable(r) \/ Gate(r) \/ Spend(r)
           \/ Clear(r) \/ Strike(r) \/ Lose(r)
           \/ /\ Deadlocked(r) /\ Return(r)
              /\ UNCHANGED <<clock, challenge, totp, codes, sessions, clerk>>
    PROVE  IInv'
<1>1. /\ TypeOK /\ KindFits /\ ChallengeStillOurs
      /\ call \in [Calls -> Call] /\ call[r] \in Call /\ totp \in Totp
  BY DEF IInv, TypeOK
<1>2. call[r].code.kind \in {"totp", "recovery"} /\ call[r].code \in Code
  BY <1>1 DEF Call, Code
<1>3. call[r].at # "idle" => call[r].ch \in Challenges
  BY <1>1 DEF KindFits
<1>4. ASSUME Return(r) PROVE Others(r) /\ call'[r].at = "idle"
  BY <1>1, <1>4 DEF Return, Others, Idle
<1>5. ASSUME NEW step, Goto(r, step)
      PROVE  /\ Others(r) /\ call'[r].at = step /\ call'[r].ch = call[r].ch
             /\ call'[r].code = call[r].code /\ call'[r].revokes = call[r].revokes
  BY <1>1, <1>5 DEF Goto, Others, Call
<1>6. ASSUME NEW step, Forget(r, step)
      PROVE  /\ Others(r) /\ call'[r].at = step /\ call'[r].ch = call[r].ch
             /\ call'[r].code = call[r].code /\ call'[r].revokes = call[r].revokes
  <2>1. call' = [call EXCEPT ![r] = [call[r] EXCEPT !.at = step, !.secret = 1, !.mark = 0]]
    BY <1>1, <1>6 DEF Forget
  <2> QED BY <1>1, <2>1 DEF Others, Call
<1>7. ASSUME NEW c \in Challenges, NEW code \in Code, Begin(r, c, code) PROVE IInv'
  <2>1. /\ call'[r].at = "totp" /\ call'[r].ch = c /\ Others(r)
    BY <1>1, <1>7 DEF Begin, Others, Idle
  <2> QED BY <1>7, <2>1, InvMove DEF Begin, codes, Counted
<1>8. CASE ReadTotp(r)
  <2>1. Others(r) /\ call'[r].at \in {"idle", "count"}
                  /\ (call'[r].at = "count" => call'[r].ch = call[r].ch)
    BY <1>1, <1>4, <1>8 DEF ReadTotp, Others, Call
  <2>2. call[r].at = "totp" /\ UNCHANGED <<clock, challenge, totp, codes, sessions, clerk>>
    BY <1>8 DEF ReadTotp
  <2> QED BY <1>3, <2>1, <2>2, InvMove DEF codes, Counted
<1>9. ASSUME call[r].at # "idle", CountAttempt(r)
      PROVE  /\ \A c \in Challenges : challenge[c].consumed => challenge'[c].consumed
             /\ \A c \in Challenges : challenge'[c].consumed => challenge[c].consumed
                    \/ (c = call[r].ch /\ call[r].at # "count")
  BY <1>1, <1>3, <1>9, CountTyped
<1>10. CASE Count(r)
  <2>1. /\ call[r].at = "count" /\ ChallengeFree(r)
        /\ UNCHANGED <<clock, totp, codes, sessions, clerk>>
    BY <1>10 DEF Count
  <2>2. Others(r) /\ call'[r].at \in {"idle", "gate", "spend", "strike"}
    BY <1>4, <1>6, <1>10 DEF Count
  <2>3. call'[r].at # "idle" =>
           /\ call'[r].ch = call[r].ch /\ call'[r].code = call[r].code
           /\ call'[r].at = "gate" => call[r].code.kind = "totp"
           /\ call'[r].at = "spend" => call[r].code.kind = "recovery"
                                         /\ ~challenge[call[r].ch].consumed
    BY <1>4, <1>6, <1>10 DEF Count
  <2>4. /\ \A c \in Challenges : challenge[c].consumed => challenge'[c].consumed
        /\ \A c \in Challenges : challenge'[c].consumed => challenge[c].consumed
    BY <1>9, <1>10, <2>1 DEF Count
  <2>5. CASE call'[r].at = "idle"
    BY <2>1, <2>2, <2>4, <2>5, InvMove DEF codes, Counted
  <2>6. CASE call'[r].at # "idle"
    <3>1. call'[r].at = "spend" => ~challenge[call'[r].ch].consumed
      BY <2>3, <2>6
    <3>2. call'[r].ch \in Challenges /\ call'[r].ch = call[r].ch
      BY <1>3, <2>1, <2>3, <2>6
    <3>3. /\ call'[r].at = "gate" => call'[r].code.kind = "totp"
          /\ call'[r].at = "spend" => call'[r].code.kind = "recovery"
      BY <2>3, <2>6
    <3>4. sessions' = sessions /\ used' = used /\ totp'.mark = totp.mark /\ clerk' = clerk
      BY <2>1 DEF codes
    <3>5. call'[r].at \in {"gate", "spend", "strike"}
      BY <2>2, <2>6
    <3> QED BY <2>1, <2>2, <2>4, <3>1, <3>2, <3>3, <3>4, <3>5, InvMove
  <2> QED BY <2>5, <2>6
<1>11. CASE SecretUnreadable(r)
  BY <1>4, <1>9, <1>11, InvMove DEF SecretUnreadable, codes, Counted
<1>12. CASE Gate(r)
  <2>1. /\ call[r].at = "gate" /\ TotpFree /\ call[r].code.kind = "totp"
        /\ UNCHANGED <<clock, totp, codes, sessions, clerk>>
    BY <1>1, <1>12 DEF Gate, KindFits
  <2>2. CASE totp.mark < call[r].code.n /\ Goto(r, "mint") /\ UNCHANGED challenge
    <3>1. /\ Others(r) /\ call'[r].at = "mint" /\ call'[r].ch = call[r].ch
          /\ call'[r].code = call[r].code
      BY <1>5, <2>2
    <3> QED BY <1>3, <2>1, <2>2, <3>1, InvMove DEF codes, Counted
  <2>3. CASE CountAttempt(r) /\ Return(r)
    BY <1>4, <1>9, <2>1, <2>3, InvMove DEF codes, Counted
  <2> QED BY <1>12, <2>2, <2>3 DEF Gate
<1>13. CASE Spend(r)
  <2>1. /\ call[r].at = "spend" /\ call[r].code.kind = "recovery"
        /\ ~challenge[call[r].ch].consumed
        /\ UNCHANGED <<clock, challenge, totp, codes, sessions, clerk>>
    BY <1>1, <1>13 DEF Spend, KindFits, ChallengeStillOurs
  <2>2. /\ Others(r) /\ call'[r].at \in {"clear", "strike"} /\ call'[r].ch = call[r].ch
        /\ call'[r].code = call[r].code
    BY <1>5, <1>13 DEF Spend
  <2> QED BY <1>3, <2>1, <2>2, InvMove DEF codes, Counted
<1>14. CASE Clear(r)
  <2>1. /\ call[r].at = "clear" /\ call[r].code.kind = "recovery" /\ TotpFree
        /\ ~challenge[call[r].ch].consumed
        /\ UNCHANGED <<clock, challenge, totp, codes, sessions, clerk>>
    BY <1>1, <1>14 DEF Clear, KindFits, ChallengeStillOurs
  <2>2. /\ Others(r) /\ call'[r].at = "mint" /\ call'[r].ch = call[r].ch
        /\ call'[r].code = call[r].code /\ call'[r].revokes = Live
    BY <1>1, <1>14 DEF Clear, Others, Call
  <2> QED BY <1>3, <2>1, <2>2, InvMove DEF codes, Counted
<1>15. CASE Strike(r)
  <2>1. /\ call[r].at = "strike" /\ CountAttempt(r) /\ Return(r)
        /\ UNCHANGED <<clock, codes, sessions, clerk>> /\ totp'.mark = totp.mark
    BY <1>1, <1>15 DEF Strike, Totp
  <2> QED BY <1>4, <1>9, <2>1, InvMove DEF codes, Counted
<1>16. CASE Lose(r)
  BY <1>4, <1>16, InvMove DEF Lose, codes, Counted
<1>17. CASE Deadlocked(r) /\ Return(r)
              /\ UNCHANGED <<clock, challenge, totp, codes, sessions, clerk>>
  BY <1>4, <1>17, InvMove DEF codes, Counted
<1> QED BY <1>7, <1>8, <1>10, <1>11, <1>12, <1>13, <1>14, <1>15, <1>16, <1>17

\* The last step of a call, the one that commits a session.
LEMMA InvMint == ASSUME IInv, TypeOK', NEW r \in Calls, Mint(r) PROVE IInv'
<1> DEFINE k == call[r]
           won == ~challenge[k.ch].consumed
           n == Len(sessions) + 1
           new == [ch |-> k.ch, code |-> k.code, live |-> TRUE]
<1>1. /\ TypeOK /\ call \in [Calls -> Call] /\ sessions \in Seq(Session) /\ totp \in Totp
      /\ challenge \in [Challenges -> Challenge] /\ unused \cup used \subseteq Card(totp.secret)
  BY DEF IInv, TypeOK
<1>2. /\ k.at = "mint" /\ k.ch \in Challenges /\ k.code \in Code /\ k \in Call
      /\ k.code.kind \in {"totp", "recovery"} /\ new \in Session
  BY <1>1 DEF Mint, IInv, KindFits, Call, Code, Session
<1>3. clerk = "idle" /\ clerk' = "idle" /\ \A q \in Calls \ {r} : call[q].at # "mint"
  BY <1>2 DEF IInv, TotpRowLocked, Mint
<1>4. /\ call'[r] = Idle /\ call'[r].at = "idle"
      /\ \A q \in Calls \ {r} : /\ call'[q].at = call[q].at /\ call'[q].ch = call[q].ch
                                /\ call'[q].code = call[q].code
                                /\ call'[q].revokes = call[q].revokes
  BY <1>1 DEF Mint, Idle, Call
<1>5. /\ k.code.kind = "recovery" => won /\ Live \subseteq k.revokes
      /\ k.code.kind = "totp" => totp.mark < k.code.n
  BY <1>2 DEF IInv, MintIsRight, ChallengeStillOurs
<1>6. totp'.mark = IF k.code.kind = "totp" THEN k.code.n ELSE totp.mark
  BY <1>1 DEF Mint, Totp
<1>7. \A c \in Challenges : challenge'[c].consumed = (challenge[c].consumed \/ c = k.ch)
  BY <1>1, <1>2, ConsumedIs DEF Mint, Challenge
<1>8. \A i \in DOMAIN sessions :
          sessions[i].ch \in Challenges /\ challenge[sessions[i].ch].consumed
  <2>1. sessions \in [1..Len(sessions) -> Session] /\ DOMAIN sessions = 1..Len(sessions)
    BY <1>1, LenProperties
  <2>2. \A i \in DOMAIN sessions : sessions[i] \in Session
    BY <2>1
  <2> QED BY <2>2 DEF Session, IInv, SessionsLeaveTraces
<1>9. /\ n \in Nat /\ n \notin DOMAIN sessions /\ \A i \in DOMAIN sessions : i \in Nat /\ i < n
      /\ \A i \in DOMAIN sessions :
            /\ i \in DOMAIN sessions'
            /\ sessions'[i].ch = sessions[i].ch /\ sessions'[i].code = sessions[i].code
            /\ sessions'[i].live <=> sessions[i].live /\ i \notin k.revokes
      /\ ~won => DOMAIN sessions' = DOMAIN sessions
      /\ won => /\ DOMAIN sessions' = DOMAIN sessions \cup {n}
                /\ sessions'[n].ch = k.ch /\ sessions'[n].code = k.code /\ sessions'[n].live
  <2>1. n \notin DOMAIN sessions /\ n \in Nat /\ \A i \in DOMAIN sessions : i \in Nat /\ i < n
    BY <1>1, LenProperties
  <2>2. /\ DOMAIN Stamped(k.revokes) = DOMAIN sessions
        /\ \A i \in DOMAIN sessions :
              /\ Stamped(k.revokes)[i].ch = sessions[i].ch
              /\ Stamped(k.revokes)[i].code = sessions[i].code
              /\ Stamped(k.revokes)[i].live = (sessions[i].live /\ i \notin k.revokes)
    BY <1>1, StampedIs
  <2>3. CASE won
    <3>1. sessions' = Append(Stamped(k.revokes), new)
      BY <2>3 DEF Mint
    <3>2. /\ DOMAIN sessions' = DOMAIN sessions \cup {n} /\ sessions'[n] = new
          /\ \A i \in DOMAIN sessions : sessions'[i] = Stamped(k.revokes)[i]
      BY <1>1, <1>2, <3>1, MintedIs
    <3>3. new.ch = k.ch /\ new.code = k.code /\ new.live
      OBVIOUS
    <3> HIDE DEF k, n, new
    <3> QED BY <2>1, <2>2, <2>3, <3>2, <3>3
  <2>4. CASE ~won
    <3>1. sessions' = Stamped(k.revokes)
      BY <2>4 DEF Mint
    <3> HIDE DEF k, n, new
    <3> QED BY <2>1, <2>2, <2>4, <3>1
  <2> QED BY <2>3, <2>4
<1> HIDE DEF k, won, n, new
<1>10. ChallengeLocked'
  BY <1>4 DEF IInv, ChallengeLocked, Counted
<1>11. TotpRowLocked'
  BY <1>3, <1>4 DEF TotpRowLocked
<1>12. KindFits'
  BY <1>4 DEF IInv, KindFits
<1>13. ChallengeStillOurs'
  <2> SUFFICES ASSUME NEW q \in Calls, call'[q].at \in {"spend", "clear", "mint"},
                      call'[q].code.kind = "recovery", challenge'[call'[q].ch].consumed
               PROVE  FALSE
    BY DEF ChallengeStillOurs
  <2>1. q # r /\ call[q].at \in {"spend", "clear", "mint"} /\ call[q].code.kind = "recovery"
    BY <1>4
  <2>2. call[q].ch \in Challenges /\ ~challenge[call[q].ch].consumed
    BY <2>1 DEF IInv, ChallengeStillOurs, KindFits
  <2>3. call[q].ch # call[r].ch
    BY <1>2, <2>1 DEF IInv, ChallengeLocked, Counted, k
  <2> QED BY <1>4, <1>7, <2>1, <2>2, <2>3 DEF k
<1>14. MintIsRight'
  BY <1>3, <1>4 DEF MintIsRight
<1>15. \A i \in DOMAIN sessions : sessions[i].live /\ sessions[i].code.kind = "totp" =>
                                  sessions[i].code.n <= totp.mark
  BY DEF IInv, SessionsLeaveTraces
<1>16. totp.mark \in Int /\ totp'.mark \in Int /\ k.code.n \in Int /\ totp.mark <= totp'.mark
  BY <1>1, <1>2, <1>5, <1>6 DEF Totp, Code
<1>17. \A i \in DOMAIN sessions : sessions[i].code \in Code
  <2>1. sessions \in [1..Len(sessions) -> Session] /\ DOMAIN sessions = 1..Len(sessions)
    BY <1>1, LenProperties
  <2>2. \A i \in DOMAIN sessions : sessions[i] \in Session
    BY <2>1
  <2> QED BY <2>2 DEF Session
<1>18. \A c \in Code : c.kind \in {"totp", "recovery"} /\ c.n \in Int
  BY LimitsAreNat DEF Code
<1>19. SessionsLeaveTraces'
  <2>1. ASSUME NEW i \in DOMAIN sessions
        PROVE  /\ challenge'[sessions'[i].ch].consumed
               /\ sessions'[i].live /\ sessions'[i].code.kind = "totp" =>
                    sessions'[i].code.n <= totp'.mark
    <3>1. sessions'[i].ch = sessions[i].ch /\ sessions'[i].code = sessions[i].code
          /\ (sessions'[i].live => sessions[i].live)
      BY <1>9
    <3>2. challenge'[sessions[i].ch].consumed
      BY <1>7, <1>8
    <3>3. sessions[i].live /\ sessions[i].code.kind = "totp" => sessions[i].code.n <= totp'.mark
      BY <1>15, <1>16, <1>17, <1>18
    <3> QED BY <3>1, <3>2, <3>3
  <2>2. ASSUME won
        PROVE  /\ challenge'[sessions'[n].ch].consumed
               /\ sessions'[n].code.kind = "totp" => sessions'[n].code.n <= totp'.mark
    <3>1. sessions'[n].ch = k.ch /\ sessions'[n].code = k.code
      BY <1>9, <2>2
    <3>2. challenge'[k.ch].consumed
      BY <1>2, <1>7
    <3>3. k.code.kind = "totp" => k.code.n <= totp'.mark
      BY <1>6, <1>16
    <3> QED BY <3>1, <3>2, <3>3
  <2> QED BY <1>9, <2>1, <2>2 DEF SessionsLeaveTraces
<1>20. OneSessionPerChallenge'
  <2>1. ASSUME won, NEW i \in DOMAIN sessions PROVE sessions'[i].ch # sessions'[n].ch
    BY <1>8, <1>9, <2>1 DEF won
  <2> QED BY <1>9, <2>1 DEF IInv, OneSessionPerChallenge
<1>21. OneLiveSessionPerCode'
  <2>1. ASSUME won, NEW i \in DOMAIN sessions, sessions'[i].live
        PROVE  sessions'[i].code # sessions'[n].code
    <3>1. CASE k.code.kind = "totp"
      <4>1. sessions[i].live /\ sessions'[i].code = sessions[i].code /\ sessions'[n].code = k.code
        BY <1>9, <2>1
      <4>2. sessions[i].code.kind = "totp" => sessions[i].code.n <= totp.mark
        BY <1>15, <4>1
      <4>3. ~(k.code.n <= totp.mark)
        BY <1>5, <1>16, <3>1
      <4> QED BY <3>1, <4>1, <4>2, <4>3
    <3>2. CASE k.code.kind = "recovery"
      BY <1>5, <1>9, <2>1, <3>2 DEF Live
    <3> QED BY <1>2, <3>1, <3>2
  <2>2. ASSUME NEW i \in DOMAIN sessions, NEW j \in DOMAIN sessions,
               sessions'[i].live, sessions'[j].live, sessions'[i].code = sessions'[j].code
        PROVE  i = j
    <3>1. sessions[i].live /\ sessions[j].live /\ sessions[i].code = sessions[j].code
      BY <1>9, <2>2
    <3> QED BY <3>1 DEF IInv, OneLiveSessionPerCode, Live
  <2>3. \A i \in DOMAIN sessions' : i \in DOMAIN sessions \/ (won /\ i = n)
    BY <1>9
  <2> QED BY <2>1, <2>2, <2>3 DEF OneLiveSessionPerCode, Live
<1>22. RecoveryClearsTheOthers'
  <2>1. ASSUME won, k.code.kind = "recovery", NEW i \in DOMAIN sessions
        PROVE  ~sessions'[i].live
    BY <1>5, <1>9, <2>1 DEF Live
  <2>2. ASSUME NEW i \in DOMAIN sessions' , NEW j \in DOMAIN sessions', i < j,
               sessions'[j].code.kind = "recovery"
        PROVE  ~sessions'[i].live
    <3>1. i \in DOMAIN sessions
      BY <1>9, <2>2
    <3> QED BY <1>9, <2>1, <2>2, <3>1 DEF IInv, RecoveryClearsTheOthers
  <2> QED BY <2>2 DEF RecoveryClearsTheOthers
<1>23. SpentCodesBought'
  <2> SUFFICES ASSUME NEW code \in used'
               PROVE  \E i \in DOMAIN sessions' : sessions'[i].code = code
    BY DEF SpentCodesBought
  <2>1. CASE code \in used
    BY <1>9, <2>1 DEF IInv, SpentCodesBought
  <2>2. CASE code = k.code /\ code \in unused
    <3>1. k.code.kind = "recovery"
      BY <1>1, <2>2 DEF Card
    <3> QED BY <1>5, <1>9, <2>2, <3>1
  <2> QED BY <2>1, <2>2 DEF Mint, k
<1> QED BY <1>10, <1>11, <1>12, <1>13, <1>14, <1>19, <1>20, <1>21, <1>22, <1>23 DEF IInv

\* A step of the clock, a lock, a password or the host that leaves calls,
\* sessions, mark and consumption as they are, and the row of operator_totp to
\* whoever holds it.
LEMMA InvQuiet ==
    ASSUME IInv, TypeOK', call' = call, sessions' = sessions, used' = used,
           totp'.mark = totp.mark,
           \A c \in Challenges : challenge'[c].consumed <=> challenge[c].consumed,
           \A r \in Calls : call[r].at = "mint" => clerk' = "idle"
    PROVE  IInv'
<1>1. ChallengeLocked' /\ KindFits'
  BY DEF IInv, ChallengeLocked, KindFits
<1>2. TotpRowLocked'
  BY DEF IInv, TotpRowLocked
<1>3. ChallengeStillOurs'
  BY DEF IInv, ChallengeStillOurs, KindFits
<1>4. MintIsRight'
  BY DEF IInv, MintIsRight, Live
<1> QED BY <1>1, <1>2, <1>3, <1>4, SessionsKept DEF IInv

\* Revoking sessions, S of them, by a logout or by a reset.
LEMMA InvRevoke ==
    ASSUME IInv, TypeOK', NEW S, sessions' = Stamped(S), call' = call,
           challenge' = challenge, clerk' = clerk \/ clerk' = "idle",
           \/ totp' = totp /\ used' = used
           \/ used' = {} /\ S = DOMAIN sessions /\ \A r \in Calls : call[r].at # "mint"
    PROVE  IInv'
<1>1. ChallengeLocked' /\ KindFits' /\ ChallengeStillOurs'
  BY DEF IInv, ChallengeLocked, KindFits, ChallengeStillOurs
<1>2. TotpRowLocked'
  BY DEF IInv, TotpRowLocked
<1>3. /\ DOMAIN sessions' = DOMAIN sessions
      /\ \A i \in DOMAIN sessions :
            /\ sessions'[i].ch = sessions[i].ch /\ sessions'[i].code = sessions[i].code
            /\ sessions'[i].live <=> sessions[i].live /\ i \notin S
  <2>1. sessions \in Seq(Session)
    BY DEF IInv, TypeOK
  <2> QED BY <2>1, StampedIs
<1>4. Live' \subseteq Live /\ (S = DOMAIN sessions => Live' = {})
  BY <1>3 DEF Live
<1>5. MintIsRight'
  BY <1>4 DEF IInv, MintIsRight
<1>6. OneSessionPerChallenge' /\ RecoveryClearsTheOthers'
  BY <1>3 DEF IInv, OneSessionPerChallenge, RecoveryClearsTheOthers
<1>7. OneLiveSessionPerCode'
  BY <1>3, <1>4 DEF IInv, OneLiveSessionPerCode, Live
<1>8. SpentCodesBought'
  BY <1>3 DEF IInv, SpentCodesBought
<1>9. SessionsLeaveTraces'
  BY <1>3 DEF IInv, SessionsLeaveTraces
<1> QED BY <1>1, <1>2, <1>5, <1>6, <1>7, <1>8, <1>9 DEF IInv

LEMMA InvStep == ASSUME IInv, [Next]_vars PROVE IInv'
<1>1. /\ TypeOK /\ KindFits /\ totp \in Totp /\ challenge \in [Challenges -> Challenge]
  BY DEF IInv, TypeOK
<1>2. TypeOK'
  <2>1. CASE Next
    BY <1>1, <2>1, TypeStep
  <2>2. CASE UNCHANGED vars
    BY <1>1, <2>2 DEF TypeOK, vars, codes
  <2> QED BY <2>1, <2>2
<1>3. \A r \in Calls : call[r].at = "mint" => clerk = "idle"
  BY DEF IInv, TotpRowLocked
<1>4. CASE Tick \/ ResetTotp \/ DeleteCodes \/ ResetLost \/ UNCHANGED vars
  BY <1>2, <1>3, <1>4, InvQuiet
     DEF Tick, ResetTotp, DeleteCodes, ResetLost, TotpFree, vars, codes
<1>5. CASE LockLapses \/ Unlock
  <2>1. totp'.mark = totp.mark
    BY <1>1, <1>5 DEF LockLapses, Unlock, Totp
  <2> QED BY <1>2, <1>3, <1>5, <2>1, InvQuiet DEF LockLapses, Unlock, codes
<1>6. ASSUME NEW c \in Challenges, PasswordLogin(c) \/ Lapse(c) PROVE IInv'
  <2>1. \A d \in Challenges : challenge'[d].consumed <=> challenge[d].consumed
    BY <1>1, <1>6 DEF PasswordLogin, Lapse, Challenge
  <2> QED BY <1>2, <1>3, <1>6, <2>1, InvQuiet DEF PasswordLogin, Lapse, codes
<1>7. ASSUME NEW r \in Calls, CompleteMfa(r) PROVE IInv'
  <2>1. CASE Mint(r)
    BY <1>2, <2>1, InvMint
  <2>2. CASE DeadlockBroken(r)
    <3>1. CASE Return(r) /\ UNCHANGED clerk
      BY <1>2, <2>2, <3>1, InvCall DEF DeadlockBroken, codes
    <3>2. CASE clerk' = "idle" /\ UNCHANGED call
      BY <1>2, <2>2, <3>2, InvQuiet DEF DeadlockBroken, codes
    <3> QED BY <2>2, <3>1, <3>2 DEF DeadlockBroken
  <2> QED BY <1>2, <1>7, <2>1, <2>2, InvCall DEF CompleteMfa
<1>8. ASSUME NEW i \in DOMAIN sessions, Logout(i) PROVE IInv'
  BY <1>2, <1>8, InvRevoke DEF Logout, codes
<1>9. CASE RevokeAll
  BY <1>2, <1>3, <1>9, InvRevoke DEF RevokeAll
<1> QED BY <1>4, <1>5, <1>6, <1>7, <1>8, <1>9 DEF Next
-----------------------------------------------------------------------------
(* What follows                                                            *)

\* The inductive invariant holds in every reachable state: the row locks
\* exclude each other, and what a call relies on while it holds them stays true.
THEOREM SignInInvariant == Spec => []IInv
<1>1. Init => IInv
  BY InvInit
<1>2. IInv /\ [Next]_vars => IInv'
  BY InvStep
<1> QED BY <1>1, <1>2, PTL DEF Spec

\* Every reachable state is well typed, for any number of calls and challenges.
THEOREM SignInTypes == Spec => []TypeOK
<1>1. IInv => TypeOK
  BY DEF IInv
<1> QED BY <1>1, SignInInvariant, PTL

\* However many complete_mfa() calls race, a challenge buys one session: the
\* consuming UPDATE is won once, and a recovery code consumes it first.
THEOREM ChallengesBuyOnce == Spec => []OneSessionPerChallenge
<1>1. IInv => OneSessionPerChallenge
  BY DEF IInv
<1> QED BY <1>1, SignInInvariant, PTL

\* No code keeps two sessions alive: last_used_step and used_at are compared
\* and written under the row lock, and a reset revokes what they forget.
THEOREM CodesKeepOneSession == Spec => []OneLiveSessionPerCode
<1>1. IInv => OneLiveSessionPerCode
  BY DEF IInv
<1> QED BY <1>1, SignInInvariant, PTL

\* A recovery revokes every session committed before its own: resetting the
\* strikes makes it wait for the call that holds operator_totp.
THEOREM RecoveryClears == Spec => []RecoveryClearsTheOthers
<1>1. IInv => RecoveryClearsTheOthers
  BY DEF IInv
<1> QED BY <1>1, SignInInvariant, PTL

\* A recovery code that is spent has bought a session, also when calls with
\* other codes present the same challenge.
THEOREM CodesAreNotWasted == Spec => []SpentCodesBought
<1>1. IInv => SpentCodesBought
  BY DEF IInv
<1> QED BY <1>1, SignInInvariant, PTL

\* last_used_step never goes back while the secret stays: Gate compares and
\* Mint writes it under one row lock.
THEOREM MarksOnlyGrow == Spec => MarkOnlyGrows
<1>1. ASSUME IInv, [Next]_vars
      PROVE  [totp'.secret = totp.secret => totp'.mark >= totp.mark]_totp
  <2>1. totp \in Totp /\ call \in [Calls -> Call] /\ MaxStep \in Nat /\ MaxSecrets \in Nat
    BY <1>1, LimitsAreNat DEF IInv, TypeOK
  <2>2. totp.mark \in Int /\ totp.secret \in Int
    BY <2>1 DEF Totp
  <2>3. CASE LockLapses \/ Unlock \/ \E r \in Calls : Strike(r)
    <3>1. totp'.mark = totp.mark
      BY <2>1, <2>3 DEF LockLapses, Unlock, Strike, Totp
    <3> QED BY <2>2, <3>1
  <2>4. ASSUME NEW r \in Calls, Mint(r) PROVE totp'.mark >= totp.mark
    <3>1. call[r].code \in Code /\ call[r].code.n \in Int
      <4>1. call[r].code \in Code
        BY <2>1 DEF Call
      <4> QED BY <4>1, LimitsAreNat DEF Code
    <3>2. totp'.mark = IF call[r].code.kind = "totp" THEN call[r].code.n ELSE totp.mark
      BY <2>1, <2>4 DEF Mint, Totp
    <3>3. call[r].code.kind = "totp" => totp.mark < call[r].code.n
      BY <1>1, <2>4 DEF Mint, IInv, MintIsRight
    <3> QED BY <2>2, <3>1, <3>2, <3>3
  <2>5. CASE RevokeAll
    <3>1. totp'.secret = totp.secret + 1
      BY <2>5 DEF RevokeAll
    <3> QED BY <2>2, <3>1
  <2>6. CASE totp' = totp
    BY <2>6, SMTT(30)
  <2>7. \/ LockLapses \/ Unlock \/ RevokeAll \/ totp' = totp
        \/ \E r \in Calls : Strike(r) \/ Mint(r)
    BY <1>1 DEF Next, CompleteMfa, Tick, PasswordLogin, Lapse, Begin, ReadTotp, Count,
       SecretUnreadable, Gate, Spend, Clear, Lose, DeadlockBroken, Logout, ResetTotp,
       DeleteCodes, ResetLost, vars
  <2> QED BY <2>3, <2>4, <2>5, <2>6, <2>7
<1> QED BY <1>1, SignInInvariant, PTL DEF Spec, MarkOnlyGrows
-----------------------------------------------------------------------------
(* The rows of recovery_codes                                              *)

LEMMA CodeLockedStep == ASSUME IInv, CodeLocked, [Next]_vars PROVE CodeLocked'
<1>1. /\ TypeOK /\ KindFits /\ TotpRowLocked /\ call \in [Calls -> Call]
      /\ \A r \in Calls : call[r] \in Call
  BY DEF IInv, TypeOK
<1>2. ASSUME NEW r \in Calls, Others(r), call'[r].at \notin {"clear", "mint"},
             unused' = unused, clerk' \in {clerk, "idle"}
      PROVE  CodeLocked'
  BY <1>2 DEF CodeLocked, Others
<1>3. ASSUME call' = call, unused' = unused, clerk' = "revoke" => clerk = "revoke"
      PROVE  CodeLocked'
  BY <1>3 DEF CodeLocked
<1>4. ASSUME NEW r \in Calls, CompleteMfa(r) PROVE CodeLocked'
  <2>1. ASSUME Return(r) PROVE Others(r) /\ call'[r].at = "idle"
    BY <1>1, <2>1 DEF Return, Others, Idle
  <2>2. ASSUME NEW step, Goto(r, step)
        PROVE  /\ Others(r) /\ call'[r].at = step /\ call'[r].code = call[r].code
    BY <1>1, <2>2 DEF Goto, Others, Call
  <2>3. ASSUME NEW step, Forget(r, step)
        PROVE  Others(r) /\ call'[r].at = step
    <3>1. call' = [call EXCEPT ![r] = [call[r] EXCEPT !.at = step, !.secret = 1, !.mark = 0]]
      BY <1>1, <2>3 DEF Forget
    <3> QED BY <1>1, <3>1 DEF Others, Call
  <2>4. ASSUME NEW c \in Challenges, NEW code \in Code, Begin(r, c, code) PROVE CodeLocked'
    <3>1. Others(r) /\ call'[r].at = "totp"
      BY <1>1, <2>4 DEF Begin, Others, Idle
    <3> QED BY <1>2, <2>4, <3>1 DEF Begin, codes
  <2>5. CASE ReadTotp(r)
    <3>1. Others(r) /\ call'[r].at \in {"idle", "count"}
      BY <1>1, <2>1, <2>5 DEF ReadTotp, Others, Call
    <3> QED BY <1>2, <2>5, <3>1 DEF ReadTotp, codes
  <2>6. CASE Count(r)
    <3>1. Others(r) /\ call'[r].at \in {"idle", "gate", "spend", "strike"}
      BY <2>1, <2>3, <2>6 DEF Count
    <3> QED BY <1>2, <2>6, <3>1 DEF Count, codes
  <2>7. CASE SecretUnreadable(r) \/ Strike(r) \/ Lose(r)
    BY <1>2, <2>1, <2>7 DEF SecretUnreadable, Strike, Lose, codes
  <2>8. CASE Gate(r)
    <3>1. call[r].code.kind = "totp" /\ unused' = unused /\ clerk' = clerk
      BY <1>1, <2>8 DEF Gate, KindFits, codes
    <3>2. CASE Goto(r, "mint")
      <4>1. Others(r) /\ call'[r].at = "mint" /\ call'[r].code = call[r].code
        BY <2>2, <3>2
      <4>2. \A q \in Calls \ {r} : call'[q].code.kind = "recovery" => call'[q].code # call'[r].code
        BY <3>1, <4>1
      <4> QED BY <3>1, <4>1, <4>2 DEF CodeLocked, Others
    <3>3. CASE Return(r)
      BY <1>2, <2>1, <3>1, <3>3
    <3> QED BY <2>8, <3>2, <3>3 DEF Gate
  <2>9. CASE Spend(r)
    <3>1. /\ call[r].at = "spend" /\ call[r].code.kind = "recovery" /\ clerk # "revoke"
          /\ unused' = unused /\ clerk' = clerk
          /\ \A q \in Calls : call[q].at \in {"clear", "mint"} => call[q].code # call[r].code
      BY <1>1, <2>9 DEF Spend, KindFits, CodeTaken, codes
    <3>2. /\ Others(r) /\ call'[r].code = call[r].code
          /\ call'[r].at = IF call[r].code \in unused THEN "clear" ELSE "strike"
      BY <2>2, <2>9 DEF Spend
    <3>3. CASE call[r].code \in unused
      BY <3>1, <3>2, <3>3 DEF CodeLocked, Others
    <3>4. CASE call[r].code \notin unused
      BY <1>2, <3>1, <3>2, <3>4
    <3> QED BY <3>3, <3>4
  <2>10. CASE Clear(r)
    <3>1. /\ call[r].at = "clear" /\ call[r].code.kind = "recovery"
          /\ unused' = unused /\ clerk' = clerk
      BY <1>1, <2>10 DEF Clear, KindFits, codes
    <3>2. Others(r) /\ call'[r].at = "mint" /\ call'[r].code = call[r].code
      BY <1>1, <2>10 DEF Clear, Others, Call
    <3> QED BY <3>1, <3>2 DEF CodeLocked, Others
  <2>11. CASE Mint(r)
    <3>1. /\ call[r].at = "mint" /\ clerk' = clerk /\ unused' = unused \ {call[r].code}
          /\ call'[r].at = "idle"
          /\ \A q \in Calls \ {r} : call'[q].at = call[q].at /\ call'[q].code = call[q].code
      BY <1>1, <2>11 DEF Mint, Idle, Call
    <3>2. ASSUME NEW q \in Calls \ {r}, call[q].at \in {"clear", "mint"},
                 call[q].code.kind = "recovery"
          PROVE  call[q].code \in unused'
      BY <3>1, <3>2 DEF CodeLocked
    <3> QED BY <3>1, <3>2 DEF CodeLocked
  <2>12. CASE DeadlockBroken(r)
    BY <1>2, <1>3, <2>1, <2>12 DEF DeadlockBroken, codes
  <2> QED BY <1>4, <2>4, <2>5, <2>6, <2>7, <2>8, <2>9, <2>10, <2>11, <2>12 DEF CompleteMfa
<1>5. CASE DeleteCodes
  <2>1. \A r \in Calls : call[r].at # "clear"
    BY <1>1, <1>5 DEF DeleteCodes, CodeTaken, CodeLocked, KindFits
  <2> QED BY <1>5, <2>1 DEF DeleteCodes, CodeLocked, codes
<1>6. CASE RevokeAll
  <2>1. \A r \in Calls : call'[r].at \notin {"clear", "mint"}
    BY <1>1, <1>6 DEF RevokeAll, CodeLocked, TotpRowLocked
  <2> QED BY <1>6, <2>1 DEF RevokeAll, CodeLocked
<1>7. CASE \/ Tick \/ LockLapses \/ Unlock \/ ResetTotp \/ ResetLost \/ UNCHANGED vars
           \/ \E c \in Challenges : PasswordLogin(c) \/ Lapse(c)
           \/ \E i \in DOMAIN sessions : Logout(i)
  BY <1>3, <1>7 DEF Tick, LockLapses, Unlock, ResetTotp, ResetLost, vars, PasswordLogin, Lapse,
     Logout, codes
<1> QED BY <1>4, <1>5, <1>6, <1>7 DEF Next

\* A call takes a lock away only with a right code: failures, even ones that
\* were computed from an older count, leave it, and a call that mints has
\* raised the mark or used a code.
THEOREM LocksFallToRightCodes == Spec => OnlyTheRightCodeUnlocks
<1>1. Init => CodeLocked
  BY DEF Init, CodeLocked, Idle
<1>2. Spec => []CodeLocked
  BY <1>1, CodeLockedStep, SignInInvariant, PTL DEF Spec
<1>3. ASSUME IInv, CodeLocked, [Next]_vars
      PROVE  [totp.locked /\ ~totp'.locked /\ call' # call
                => totp'.mark > totp.mark \/ used' # used]_vars
  <2> SUFFICES ASSUME Next, totp.locked, ~totp'.locked, call' # call
               PROVE  totp'.mark > totp.mark \/ used' # used
    BY <1>3
  <2>1. /\ totp \in Totp /\ call \in [Calls -> Call] /\ unused \cap used = {}
        /\ \A r \in Calls : call[r].code.kind \in {"totp", "recovery"}
    BY <1>3 DEF IInv, TypeOK, Call, Code
  <2>2. ASSUME NEW r \in Calls PROVE ~Strike(r)
    BY <2>1 DEF Strike, Totp
  <2>3. PICK r \in Calls : Mint(r)
    BY <2>2 DEF Next, CompleteMfa, Tick, PasswordLogin, Lapse, Begin, ReadTotp, Count,
       SecretUnreadable, Gate, Spend, Clear, Lose, DeadlockBroken, Logout, ResetTotp,
       DeleteCodes, ResetLost, LockLapses, Unlock, RevokeAll
  <2>4. CASE call[r].code.kind = "totp"
    <3>1. totp'.mark = call[r].code.n
      BY <2>1, <2>3, <2>4 DEF Mint, Totp
    <3>2. totp.mark < call[r].code.n
      BY <1>3, <2>3, <2>4 DEF Mint, IInv, MintIsRight
    <3> QED BY <3>1, <3>2
  <2>5. CASE call[r].code.kind = "recovery"
    BY <1>3, <2>1, <2>3, <2>5 DEF Mint, CodeLocked
  <2> QED BY <2>1, <2>4, <2>5
<1> QED BY <1>2, <1>3, SignInInvariant, PTL DEF Spec, OnlyTheRightCodeUnlocks
=============================================================================
