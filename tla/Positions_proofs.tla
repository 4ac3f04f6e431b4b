-------------------------- MODULE Positions_proofs --------------------------
(***************************************************************************)
(* Proofs about positions, real and simulated.  A close run, for every     *)
(* snapshot, number of workers and retries and timing: a position is sold  *)
(* at most once, closed means closed on the chain, the run implements      *)
(* CloseContract, and no attempt begins for a close that was given up.     *)
(* The broker emulator, for every script, price and quantity: its book is  *)
(* that of the position, and a stop that trails only tightens.             *)
(***************************************************************************)
EXTENDS CloseRun, StrategyEngine, FiniteSetTheorems, SequenceTheorems,
        WellFoundedInduction, TLAPS

-----------------------------------------------------------------------------
(* The close run.                                                          *)


Warned == <<"close_failed">>
Closed == <<"position_closed">>
Upgraded == <<"close_failed", "position_closed">>

\* What is announced for a position is fixed by where its close is: nothing
\* before a verdict, the warning once the timer fired, and one of three
\* endings.  A recorded "closed" was announced as closed and nothing else.
AnnouncedByPhase ==
    \A p \in Positions :
        /\ phase[p] # "done" /\ timer[p] # "fired" => trail[p] = <<>>
        /\ phase[p] # "done" /\ timer[p] = "fired" => trail[p] = Warned
        /\ phase[p] = "done" => trail[p] \in {Warned, Closed, Upgraded}
        /\ timer[p] = "armed" => phase[p] \notin {"queued", "done"}
        /\ phase[p] = "queued" => timer[p] = "off"
        /\ results[p] = "closed" => phase[p] = "done" /\ trail[p] = Closed

\* Only the attempt a close is in can have sent a sale, and it has not while
\* the loop is before the send or on its way to the next attempt.
OnlyCurrentAttemptSent ==
    \A p \in Positions : \A a \in Attempts :
        tx[p][a] # "none" =>
            a = attempt[p] /\ phase[p] \in {"sent", "verifying", "done"}

\* An announced close is on the chain.
AnnouncedIsLanded ==
    \A p \in Positions :
        trail[p] \in {Closed, Upgraded} => \E a \in Attempts : tx[p][a] = "landed"

SummaryIsLast == run # "resolved" => \A p \in Positions : summary[p] = "open"

RetryLeft == \A p \in Positions : phase[p] = "backoff" => attempt[p] < MaxRetries

CloseInv ==
    /\ TypeOK
    /\ AnnouncedByPhase
    /\ OnlyCurrentAttemptSent
    /\ AnnouncedIsLanded
    /\ SummaryIsLast
    /\ RetryLeft

\* The announcements a verdict can make.
LEMMA Announcing ==
    /\ Append(<<>>, "close_failed") = Warned
    /\ Append(<<>>, "position_closed") = Closed
    /\ Append(Warned, "position_closed") = Upgraded
    /\ Warned # <<>> /\ Closed # <<>> /\ Upgraded # <<>>
    /\ Warned # Closed /\ Warned # Upgraded /\ Closed # Upgraded
    /\ {<<>>, Warned, Closed, Upgraded} \subseteq Seq({"position_closed", "close_failed"})
<1>1. Append(<<>>, "close_failed") = Warned
  BY DEF Warned
<1>2. Append(<<>>, "position_closed") = Closed
  BY DEF Closed
<1>3. Append(Warned, "position_closed") = Upgraded
  <2>1. Warned \in Seq({"close_failed", "position_closed"}) /\ Len(Warned) = 1
        /\ Warned[1] = "close_failed"
    BY DEF Warned
  <2>2. Upgraded \in Seq({"close_failed", "position_closed"}) /\ Len(Upgraded) = 2
        /\ Upgraded[1] = "close_failed" /\ Upgraded[2] = "position_closed"
    BY DEF Upgraded
  <2> DEFINE s == Append(Warned, "position_closed")
             T == {"close_failed", "position_closed"}
  <2>3. s \in Seq(T) /\ Len(s) = 2 /\ s[1] = "close_failed" /\ s[2] = "position_closed"
    <3>1. "position_closed" \in T
      OBVIOUS
    <3> HIDE DEF T
    <3>2. /\ s \in Seq(T)
          /\ Len(s) = Len(Warned) + 1
          /\ \A i \in 1..Len(Warned) : s[i] = Warned[i]
          /\ s[Len(Warned) + 1] = "position_closed"
      BY <2>1, <3>1, AppendProperties DEF T
    <3>3. QED BY <2>1, <3>2
  <2>4. \A i \in 1..2 : s[i] = Upgraded[i]
    BY <2>2, <2>3
  <2> HIDE DEF s
  <2>5. s = Upgraded
    BY <2>2, <2>3, <2>4, SeqEqual
  <2>6. QED BY <2>5 DEF s
<1>4. Len(Warned) = 1 /\ Len(Closed) = 1 /\ Len(Upgraded) = 2 /\ Len(<<>>) = 0
  BY DEF Warned, Closed, Upgraded
<1>5. Warned[1] = "close_failed" /\ Closed[1] = "position_closed"
  BY DEF Warned, Closed
<1>6. {<<>>, Warned, Closed, Upgraded} \subseteq Seq({"position_closed", "close_failed"})
  BY DEF Warned, Closed, Upgraded
<1>7. QED BY <1>1, <1>2, <1>3, <1>4, <1>5, <1>6

\* What fireVerdict() announces for a close that has not ended.
LEMMA Verdicts ==
    ASSUME CloseInv, NEW p \in Positions, phase[p] # "done",
           NEW status \in {"closed", "failed", "timed_out"}, FireVerdict(p, status)
    PROVE  /\ status # "closed" /\ timer[p] # "fired" => trail' = [trail EXCEPT ![p] = Warned]
           /\ status # "closed" /\ timer[p] = "fired" => trail' = trail
           /\ status = "closed" /\ timer[p] # "fired" => trail' = [trail EXCEPT ![p] = Closed]
           /\ status = "closed" /\ timer[p] = "fired" => trail' = [trail EXCEPT ![p] = Upgraded]
<1>1. /\ timer[p] # "fired" => trail[p] = <<>>
      /\ timer[p] = "fired" => trail[p] = Warned
  BY DEF CloseInv, AnnouncedByPhase
<1>2. Event(status) = IF status = "closed" THEN "position_closed" ELSE "close_failed"
  BY DEF Event
<1>3. QED BY <1>1, <1>2, Announcing DEF FireVerdict

\* A close that ends keeps the invariant, whichever step it ends in, provided
\* that it reports "closed" for a landed sale only.
LEMMA ReturnInv ==
    ASSUME CloseInv, NEW p \in Positions, phase[p] # "done",
           NEW status \in {"closed", "failed", "timed_out"}, Return(p, status),
           status = "closed" => \E a \in Attempts : tx[p][a] = "landed",
           UNCHANGED <<now, run, tx, open, summary>>,
           pulledAt' \in [Positions -> 0..Horizon],
           attempt' \in [Positions -> Attempts],
           \A q \in Positions : phase[q] = "backoff" /\ q # p => attempt'[q] = attempt[q],
           \A q \in Positions : \A a \in Attempts : tx[q][a] # "none" => a = attempt'[q]
    PROVE  CloseInv'
<1>0. /\ phase \in [Positions -> {"queued", "preflight", "quoting", "sent", "verifying",
                                  "backoff", "done"}]
      /\ timer \in [Positions -> {"off", "armed", "cleared", "fired"}]
      /\ results \in [Positions -> {"none", "closed", "failed", "timed_out"}]
  BY DEF CloseInv, TypeOK
<1>1. /\ phase' = [phase EXCEPT ![p] = "done"]
      /\ FireVerdict(p, status)
      /\ \/ timer[p] = "fired" /\ timer' = timer /\ results' = results
         \/ /\ timer[p] # "fired"
            /\ timer' = [timer EXCEPT ![p] = "cleared"]
            /\ results' = [results EXCEPT ![p] = status]
  BY DEF Return
<1>2. \/ status # "closed" /\ timer[p] # "fired" /\ trail' = [trail EXCEPT ![p] = Warned]
      \/ status # "closed" /\ timer[p] = "fired" /\ trail' = trail /\ trail[p] = Warned
      \/ status = "closed" /\ timer[p] # "fired" /\ trail' = [trail EXCEPT ![p] = Closed]
      \/ status = "closed" /\ timer[p] = "fired" /\ trail' = [trail EXCEPT ![p] = Upgraded]
  BY <1>1, Verdicts DEF CloseInv, AnnouncedByPhase
<1> DEFINE T == Seq({"position_closed", "close_failed"})
<1>a. /\ trail' \in [Positions -> T]
      /\ trail'[p] \in {Warned, Closed, Upgraded}
      /\ \A q \in Positions \ {p} : trail'[q] = trail[q]
      /\ status = "closed" /\ timer[p] # "fired" => trail'[p] = Closed
      /\ status # "closed" => trail'[p] = Warned
  <2>1. Warned \in T /\ Closed \in T /\ Upgraded \in T
    BY Announcing
  <2>2. trail \in [Positions -> T]
    BY DEF CloseInv, TypeOK
  <2> HIDE DEF T
  <2>3. QED BY <1>2, <2>1, <2>2
<1> HIDE DEF T
<1>b. /\ phase'[p] = "done" /\ timer'[p] \in {"cleared", "fired"}
      /\ results'[p] = results[p] \/ (results'[p] = status /\ timer[p] # "fired")
      /\ \A q \in Positions \ {p} : /\ phase'[q] = phase[q]
                                    /\ timer'[q] = timer[q]
                                    /\ results'[q] = results[q]
  BY <1>0, <1>1
<1>3. TypeOK'
  <2>1. trail' \in [Positions -> Seq({"position_closed", "close_failed"})]
    BY <1>a DEF T
  <2>2. /\ phase' \in [Positions -> {"queued", "preflight", "quoting", "sent", "verifying",
                                     "backoff", "done"}]
        /\ timer' \in [Positions -> {"off", "armed", "cleared", "fired"}]
        /\ results' \in [Positions -> {"none", "closed", "failed", "timed_out"}]
    BY <1>0, <1>1
  <2>3. QED BY <2>1, <2>2 DEF CloseInv, TypeOK
<1>4. AnnouncedByPhase'
  <2>1. results[p] # "closed"
    BY DEF CloseInv, AnnouncedByPhase
  <2> SUFFICES ASSUME NEW q \in Positions
               PROVE  /\ phase'[q] # "done" /\ timer'[q] # "fired" => trail'[q] = <<>>
                      /\ phase'[q] # "done" /\ timer'[q] = "fired" => trail'[q] = Warned
                      /\ phase'[q] = "done" => trail'[q] \in {Warned, Closed, Upgraded}
                      /\ timer'[q] = "armed" => phase'[q] \notin {"queued", "done"}
                      /\ phase'[q] = "queued" => timer'[q] = "off"
                      /\ results'[q] = "closed" => phase'[q] = "done" /\ trail'[q] = Closed
    BY DEF AnnouncedByPhase
  <2>2. CASE q = p
    BY <1>a, <1>b, <2>1, <2>2
  <2>3. CASE q # p
    BY <1>a, <1>b, <2>3 DEF CloseInv, AnnouncedByPhase
  <2>4. QED BY <2>2, <2>3
<1>5. OnlyCurrentAttemptSent'
  BY <1>1 DEF CloseInv, TypeOK, OnlyCurrentAttemptSent
<1>6. AnnouncedIsLanded'
  <2> SUFFICES ASSUME NEW q \in Positions, trail'[q] \in {Closed, Upgraded}
               PROVE  \E a \in Attempts : tx[q][a] = "landed"
    BY DEF AnnouncedIsLanded
  <2>1. CASE q = p
    BY <1>a, <2>1, Announcing
  <2>2. CASE q # p
    BY <1>a, <2>2 DEF CloseInv, AnnouncedIsLanded
  <2>3. QED BY <2>1, <2>2
<1>7. SummaryIsLast'
  BY DEF CloseInv, SummaryIsLast
<1>8. RetryLeft'
  BY <1>1 DEF CloseInv, TypeOK, RetryLeft
<1>9. QED BY <1>3, <1>4, <1>5, <1>6, <1>7, <1>8 DEF CloseInv

\* A failed attempt keeps the invariant when nothing was sent or it cannot be
\* retried.
LEMMA AttemptFailedInv ==
    ASSUME CloseInv, NEW p \in Positions, phase[p] \notin {"queued", "done"},
           NEW retryable \in BOOLEAN, AttemptFailed(p, retryable),
           retryable => phase[p] = "quoting",
           UNCHANGED <<now, run, attempt, pulledAt, tx, open, summary>>
    PROVE  CloseInv'
<1>1. CASE Return(p, "failed")
  <2>1. \A q \in Positions : \A a \in Attempts : tx[q][a] # "none" => a = attempt'[q]
    BY DEF CloseInv, OnlyCurrentAttemptSent
  <2>2. pulledAt' \in [Positions -> 0..Horizon] /\ attempt' \in [Positions -> Attempts]
    BY DEF CloseInv, TypeOK
  <2>3. QED BY <1>1, <2>1, <2>2, ReturnInv
<1>2. CASE /\ retryable /\ attempt[p] < MaxRetries
           /\ phase' = [phase EXCEPT ![p] = "backoff"]
           /\ UNCHANGED <<timer, results, trail>>
  BY <1>2
  DEF CloseInv, TypeOK, AnnouncedByPhase, OnlyCurrentAttemptSent, AnnouncedIsLanded,
      SummaryIsLast, RetryLeft
<1>3. QED BY <1>1, <1>2 DEF AttemptFailed

-----------------------------------------------------------------------------
(* The invariant: one fact per action.                                     *)

LEMMA ClockFacts == Horizon \in Nat /\ 0 \in 0..Horizon /\ 0 \in Attempts
BY CloseRunAssumption DEF Horizon, Attempts

LEMMA InitInv == Init => CloseInv
<1> SUFFICES ASSUME Init PROVE CloseInv
  OBVIOUS
<1>1. TypeOK
  <2> DEFINE T == Seq({"position_closed", "close_failed"})
  <2>1. <<>> \in T
    BY Announcing
  <2> HIDE DEF T
  <2>2. trail \in [Positions -> T]
    BY <2>1 DEF Init
  <2>3. tx \in [Positions -> [Attempts -> {"none", "pending", "landed", "dropped"}]]
    BY DEF Init
  <2>4. QED BY <2>2, <2>3, ClockFacts DEF Init, TypeOK, T
<1>2. AnnouncedByPhase /\ OnlyCurrentAttemptSent /\ SummaryIsLast /\ RetryLeft
  BY DEF Init, AnnouncedByPhase, OnlyCurrentAttemptSent, SummaryIsLast, RetryLeft
<1>3. AnnouncedIsLanded
  BY Announcing DEF Init, AnnouncedIsLanded
<1>4. QED BY <1>1, <1>2, <1>3 DEF CloseInv

\* The steps of the run itself: the keypair, the end of the race, the clock.
LEMMA RunInv ==
    ASSUME CloseInv, AcquireKeypair \/ ResolveRun \/ Tick
    PROVE  CloseInv'
<1>1. CASE AcquireKeypair
  BY <1>1
  DEF AcquireKeypair, CloseInv, TypeOK, AnnouncedByPhase, OnlyCurrentAttemptSent,
      AnnouncedIsLanded, SummaryIsLast, RetryLeft
<1>2. CASE ResolveRun
  BY <1>2
  DEF ResolveRun, CloseInv, TypeOK, AnnouncedByPhase, OnlyCurrentAttemptSent,
      AnnouncedIsLanded, SummaryIsLast, RetryLeft
<1>3. CASE Tick
  BY <1>3, ClockFacts
  DEF Tick, CloseInv, TypeOK, AnnouncedByPhase, OnlyCurrentAttemptSent,
      AnnouncedIsLanded, SummaryIsLast, RetryLeft
<1>4. QED BY <1>1, <1>2, <1>3

LEMMA PullInv == ASSUME CloseInv, NEW p \in Positions, PullPosition(p) PROVE CloseInv'
<1>1. /\ phase[p] = "queued"
      /\ pulledAt' = [pulledAt EXCEPT ![p] = now]
      /\ UNCHANGED <<now, run, attempt, tx, open, summary>>
  BY DEF PullPosition
<1>2. pulledAt' \in [Positions -> 0..Horizon]
  BY <1>1 DEF CloseInv, TypeOK
<1>3. CASE Return(p, "failed")
  <2>1. \A q \in Positions : \A a \in Attempts : tx[q][a] # "none" => a = attempt'[q]
    BY <1>1 DEF CloseInv, OnlyCurrentAttemptSent
  <2>2. attempt' \in [Positions -> Attempts]
    BY <1>1 DEF CloseInv, TypeOK
  <2>3. QED BY <1>1, <1>2, <1>3, <2>1, <2>2, ReturnInv
<1>4. CASE /\ phase' = [phase EXCEPT ![p] = "preflight"]
           /\ timer' = [timer EXCEPT ![p] = "armed"]
           /\ UNCHANGED <<results, trail>>
  <2>1. TypeOK'
    BY <1>1, <1>2, <1>4 DEF CloseInv, TypeOK
  <2>2. timer[p] # "fired"
    BY <1>1 DEF CloseInv, AnnouncedByPhase
  <2>3. QED
    BY <1>1, <1>4, <2>1, <2>2
    DEF CloseInv, TypeOK, AnnouncedByPhase, OnlyCurrentAttemptSent, AnnouncedIsLanded,
        SummaryIsLast, RetryLeft
<1>5. QED BY <1>3, <1>4 DEF PullPosition

LEMMA TimeOutInv == ASSUME CloseInv, NEW p \in Positions, CloseTimesOut(p) PROVE CloseInv'
<1>1. /\ timer[p] = "armed"
      /\ timer' = [timer EXCEPT ![p] = "fired"]
      /\ results' = [results EXCEPT ![p] = "timed_out"]
      /\ FireVerdict(p, "timed_out")
      /\ UNCHANGED <<now, run, phase, attempt, pulledAt, tx, open, summary>>
  BY DEF CloseTimesOut
<1>2. phase[p] \notin {"queued", "done"}
  BY <1>1 DEF CloseInv, AnnouncedByPhase
<1>3. trail' = [trail EXCEPT ![p] = Warned]
  BY <1>1, <1>2, Verdicts
<1>4. TypeOK'
  <2> DEFINE T == Seq({"position_closed", "close_failed"})
  <2>1. Warned \in T
    BY Announcing
  <2>2. trail \in [Positions -> T]
    BY DEF CloseInv, TypeOK
  <2> HIDE DEF T
  <2>3. trail' \in [Positions -> T]
    BY <1>3, <2>1, <2>2
  <2>4. QED BY <1>1, <2>3 DEF CloseInv, TypeOK, T
<1>5. \A q \in Positions : trail'[q] = IF q = p THEN Warned ELSE trail[q]
  BY <1>3 DEF CloseInv, TypeOK
<1>6. AnnouncedByPhase'
  BY <1>1, <1>2, <1>5 DEF CloseInv, TypeOK, AnnouncedByPhase
<1>7. AnnouncedIsLanded'
  BY <1>1, <1>5, Announcing DEF CloseInv, AnnouncedIsLanded
<1>8. (OnlyCurrentAttemptSent /\ SummaryIsLast /\ RetryLeft)'
  BY <1>1 DEF CloseInv, OnlyCurrentAttemptSent, SummaryIsLast, RetryLeft
<1>9. QED BY <1>4, <1>6, <1>7, <1>8 DEF CloseInv

\* The steps of an attempt up to the send.
LEMMA SendInv ==
    ASSUME CloseInv, NEW p \in Positions, Preflight(p) \/ QuoteAndSend(p)
    PROVE  CloseInv'
<1>1. CASE \E retryable \in BOOLEAN :
              /\ AttemptFailed(p, retryable)
              /\ retryable => phase[p] = "quoting"
              /\ phase[p] \in {"preflight", "quoting"}
              /\ UNCHANGED <<now, run, attempt, pulledAt, tx, open, summary>>
  BY <1>1, AttemptFailedInv
<1>2. CASE /\ phase[p] = "preflight"
           /\ phase' = [phase EXCEPT ![p] = "quoting"]
           /\ UNCHANGED <<now, run, attempt, pulledAt, timer, tx, open, results, trail, summary>>
  BY <1>2
  DEF CloseInv, TypeOK, AnnouncedByPhase, OnlyCurrentAttemptSent, AnnouncedIsLanded,
      SummaryIsLast, RetryLeft
<1>3. CASE /\ phase[p] = "quoting"
           /\ phase' = [phase EXCEPT ![p] = "sent"]
           /\ tx' = [tx EXCEPT ![p][attempt[p]] = "pending"]
           /\ UNCHANGED <<now, run, attempt, pulledAt, timer, open, results, trail, summary>>
  <2>1. TypeOK'
    BY <1>3 DEF CloseInv, TypeOK
  <2>2. \A q \in Positions : \A a \in Attempts :
           tx'[q][a] = IF q = p /\ a = attempt[p] THEN "pending" ELSE tx[q][a]
    BY <1>3 DEF CloseInv, TypeOK
  <2>3. OnlyCurrentAttemptSent'
    BY <1>3, <2>2 DEF CloseInv, TypeOK, OnlyCurrentAttemptSent
  <2>4. \A a \in Attempts : tx[p][a] = "none"
    BY <1>3 DEF CloseInv, OnlyCurrentAttemptSent
  <2>5. AnnouncedIsLanded'
    BY <1>3, <2>2, <2>4 DEF CloseInv, AnnouncedIsLanded
  <2>6. (AnnouncedByPhase /\ SummaryIsLast /\ RetryLeft)'
    BY <1>3 DEF CloseInv, TypeOK, AnnouncedByPhase, SummaryIsLast, RetryLeft
  <2>7. QED BY <2>1, <2>3, <2>5, <2>6 DEF CloseInv
<1>4. QED BY <1>1, <1>2, <1>3 DEF Preflight, QuoteAndSend

LEMMA ChainInv ==
    ASSUME CloseInv, NEW p \in Positions, NEW a \in Attempts, SettleOnChain(p, a)
    PROVE  CloseInv'
<1>1. PICK outcome \in {"landed", "dropped"} : tx' = [tx EXCEPT ![p][a] = outcome]
  BY DEF SettleOnChain
<1>2. /\ tx[p][a] = "pending"
      /\ UNCHANGED <<now, run, phase, attempt, pulledAt, timer, open, results, trail, summary>>
  BY DEF SettleOnChain
<1>3. \A q \in Positions : \A b \in Attempts :
         tx'[q][b] = IF q = p /\ b = a THEN outcome ELSE tx[q][b]
  BY <1>1 DEF CloseInv, TypeOK
<1>4. TypeOK'
  BY <1>1, <1>2 DEF CloseInv, TypeOK
<1>5. OnlyCurrentAttemptSent'
  BY <1>2, <1>3 DEF CloseInv, OnlyCurrentAttemptSent
<1>6. AnnouncedIsLanded'
  BY <1>2, <1>3 DEF CloseInv, AnnouncedIsLanded
<1>7. (AnnouncedByPhase /\ SummaryIsLast /\ RetryLeft)'
  BY <1>2 DEF CloseInv, AnnouncedByPhase, SummaryIsLast, RetryLeft
<1>8. QED BY <1>4, <1>5, <1>6, <1>7 DEF CloseInv

\* The steps after the send.
LEMMA OutcomeInv ==
    ASSUME CloseInv, NEW p \in Positions, SwapReturns(p) \/ Verify(p)
    PROVE  CloseInv'
<1>1. /\ phase[p] \in {"sent", "verifying"}
      /\ UNCHANGED <<now, run, attempt, pulledAt, tx, open, summary>>
  BY DEF SwapReturns, Verify
<1>2. CASE tx[p][attempt[p]] = "landed" /\ Return(p, "closed")
  <2>1. \A q \in Positions : \A a \in Attempts : tx[q][a] # "none" => a = attempt'[q]
    BY <1>1 DEF CloseInv, OnlyCurrentAttemptSent
  <2>2. pulledAt' \in [Positions -> 0..Horizon] /\ attempt' \in [Positions -> Attempts]
    BY <1>1 DEF CloseInv, TypeOK
  <2>3. \E a \in Attempts : tx[p][a] = "landed"
    BY <1>2 DEF CloseInv, TypeOK
  <2>4. QED BY <1>1, <1>2, <2>1, <2>2, <2>3, ReturnInv
<1>3. CASE AttemptFailed(p, FALSE)
  BY <1>1, <1>3, AttemptFailedInv
<1>4. CASE phase' = [phase EXCEPT ![p] = "verifying"] /\ UNCHANGED <<timer, results, trail>>
  BY <1>1, <1>4
  DEF CloseInv, TypeOK, AnnouncedByPhase, OnlyCurrentAttemptSent, AnnouncedIsLanded,
      SummaryIsLast, RetryLeft
<1>5. QED BY <1>2, <1>3, <1>4 DEF SwapReturns, Verify

LEMMA RetryInv == ASSUME CloseInv, NEW p \in Positions, Retry(p) PROVE CloseInv'
<1>1. /\ phase[p] = "backoff"
      /\ attempt' = [attempt EXCEPT ![p] = @ + 1]
      /\ UNCHANGED <<now, run, pulledAt, tx, open, summary>>
  BY DEF Retry
<1>2. attempt' \in [Positions -> Attempts]
  BY <1>1, CloseRunAssumption DEF CloseInv, TypeOK, RetryLeft, Attempts
<1>3. \A a \in Attempts : tx[p][a] = "none"
  BY <1>1 DEF CloseInv, OnlyCurrentAttemptSent
<1>4. \A q \in Positions : q # p => attempt'[q] = attempt[q]
  BY <1>1 DEF CloseInv, TypeOK
<1>5. CASE \E status \in {"failed", "timed_out"} : Return(p, status)
  <2>1. \A q \in Positions : \A a \in Attempts : tx[q][a] # "none" => a = attempt'[q]
    BY <1>3, <1>4 DEF CloseInv, OnlyCurrentAttemptSent
  <2>2. pulledAt' \in [Positions -> 0..Horizon]
    BY <1>1 DEF CloseInv, TypeOK
  <2>3. QED BY <1>1, <1>2, <1>4, <1>5, <2>1, <2>2, ReturnInv
<1>6. CASE phase' = [phase EXCEPT ![p] = "preflight"] /\ UNCHANGED <<timer, results, trail>>
  <2>1. TypeOK'
    BY <1>1, <1>2, <1>6 DEF CloseInv, TypeOK
  <2>2. OnlyCurrentAttemptSent'
    BY <1>1, <1>3, <1>4, <1>6 DEF CloseInv, TypeOK, OnlyCurrentAttemptSent
  <2>3. QED
    BY <1>1, <1>4, <1>6, <2>1, <2>2
    DEF CloseInv, TypeOK, AnnouncedByPhase, AnnouncedIsLanded, SummaryIsLast, RetryLeft
<1>7. QED BY <1>5, <1>6 DEF Retry

LEMMA ForgetInv == ASSUME CloseInv, NEW p \in Positions, EngineForgets(p) PROVE CloseInv'
BY DEF EngineForgets, CloseInv, TypeOK, AnnouncedByPhase, OnlyCurrentAttemptSent,
       AnnouncedIsLanded, SummaryIsLast, RetryLeft

LEMMA NextInv == CloseInv /\ [Next]_vars => CloseInv'
<1> SUFFICES ASSUME CloseInv, [Next]_vars PROVE CloseInv'
  OBVIOUS
<1>1. CASE AcquireKeypair \/ ResolveRun \/ Tick
  BY <1>1, RunInv
<1>2. CASE UNCHANGED vars
  BY <1>2
  DEF vars, CloseInv, TypeOK, AnnouncedByPhase, OnlyCurrentAttemptSent, AnnouncedIsLanded,
      SummaryIsLast, RetryLeft
<1>3. ASSUME NEW p \in Positions, CloseStep(p) \/ EngineForgets(p)
      PROVE  CloseInv'
  BY <1>3, PullInv, TimeOutInv, SendInv, OutcomeInv, RetryInv, ForgetInv DEF CloseStep
<1>4. ASSUME NEW p \in Positions, NEW a \in Attempts, SettleOnChain(p, a)
      PROVE  CloseInv'
  BY <1>4, ChainInv
<1>5. QED BY <1>1, <1>2, <1>3, <1>4 DEF Next, Finished

-----------------------------------------------------------------------------
(* The theorems.                                                           *)

\* The inductive invariant holds in every run of closes.
THEOREM Invariance == Spec => []CloseInv
<1>1. QED BY InitInv, NextInv, PTL DEF Spec

\* Every variable of a close run keeps its type (the fields of the close
\* manager and of withTimeout()).
THEOREM TypeCorrect == Spec => []TypeOK
<1>1. CloseInv => TypeOK
  BY DEF CloseInv
<1>2. QED BY <1>1, Invariance, PTL

\* However many workers, retries and timers there are and whatever the RPC
\* loses, no position has two sales on the chain or on their way to it
\* (attemptClose() retries only errors raised before the send).
THEOREM NeverSoldTwice == Spec => []SoldAtMostOnce
<1>1. CloseInv => SoldAtMostOnce
  BY DEF CloseInv, OnlyCurrentAttemptSent, SoldAtMostOnce
<1>2. QED BY <1>1, Invariance, PTL

LEMMA ClosedWasConfirmed == CloseInv => ClosedIsOnChain
<1> SUFFICES ASSUME CloseInv, NEW p \in Positions,
                    results[p] = "closed" \/ Announced(p, "position_closed")
             PROVE  Landed(p) # {}
  BY DEF ClosedIsOnChain
<1>1. trail[p] \in {<<>>, Warned, Closed, Upgraded}
  BY DEF CloseInv, AnnouncedByPhase, TypeOK
<1>2. trail[p] = <<>> => ~Announced(p, "position_closed")
  BY DEF Announced
<1>3. trail[p] = Warned => ~Announced(p, "position_closed")
  BY DEF Announced, Warned
<1>4. results[p] = "closed" => trail[p] = Closed
  BY DEF CloseInv, AnnouncedByPhase
<1>5. trail[p] \in {Closed, Upgraded}
  BY <1>1, <1>2, <1>3, <1>4
<1>6. QED BY <1>5 DEF CloseInv, AnnouncedIsLanded, Landed

\* A position is recorded or announced as closed only when one of its sales is
\* on the chain (swap() confirmed it, or resolveAmbiguousOutcome() read it).
THEOREM ClosedMeansOnChain == Spec => []ClosedIsOnChain
<1>1. QED BY Invariance, ClosedWasConfirmed, PTL

-----------------------------------------------------------------------------
(* The run implements CloseContract.                                       *)

LEMMA InitKeepsContract == Init => Contract!Init
BY DEF Init, Contract!Init, Landed

\* A verdict is a warning, a confirmation of a landed sale, or nothing new.
LEMMA VerdictKeepsContract ==
    ASSUME CloseInv, NEW p \in Positions, phase[p] # "done",
           NEW status \in {"closed", "failed", "timed_out"}, FireVerdict(p, status),
           status = "closed" => \E a \in Attempts : tx[p][a] = "landed",
           UNCHANGED <<tx, summary>>
    PROVE  Contract!Next \/ UNCHANGED <<[q \in Positions |-> Landed(q)], trail, summary>>
<1> DEFINE landed == [q \in Positions |-> Landed(q)]
<1>1. landed' = landed
  BY DEF Landed
<1>2. landed[p] = Landed(p)
  OBVIOUS
<1>3. CASE status # "closed" /\ timer[p] # "fired"
  <2>1. trail[p] = <<>> /\ trail' = [trail EXCEPT ![p] = Warned]
    BY <1>3, Verdicts DEF CloseInv, AnnouncedByPhase
  <2>2. Contract!Warn(p)
    BY <1>1, <2>1 DEF Contract!Warn, Warned
  <2>3. QED BY <2>2 DEF Contract!Next
<1>4. CASE status # "closed" /\ timer[p] = "fired"
  BY <1>1, <1>4, Verdicts
<1>5. CASE status = "closed"
  <2>1. Landed(p) # {}
    BY <1>5 DEF Landed
  <2>2. trail[p] \in {<<>>, Warned}
    BY DEF CloseInv, AnnouncedByPhase
  <2>3. trail' = [trail EXCEPT ![p] = Append(@, "position_closed")]
    BY <1>5 DEF FireVerdict, Event
  <2>4. Contract!Confirm(p)
    BY <1>1, <1>2, <2>1, <2>2, <2>3 DEF Contract!Confirm, Warned
  <2>5. QED BY <2>4 DEF Contract!Next
<1>6. QED BY <1>3, <1>4, <1>5

\* Every step of a close run is a step of the contract or leaves what the
\* contract speaks of unchanged.
LEMMA StepKeepsContract ==
    ASSUME CloseInv, [Next]_vars
    PROVE  Contract!Next \/ UNCHANGED <<[p \in Positions |-> Landed(p)], trail, summary>>
<1> DEFINE landed == [q \in Positions |-> Landed(q)]
           Kept == Contract!Next \/ UNCHANGED <<landed, trail, summary>>
<1>1. ASSUME UNCHANGED <<tx, trail, summary>> PROVE Kept
  BY <1>1 DEF Landed
<1>2. ASSUME AcquireKeypair PROVE Kept
  <2>1. CASE run' = "racing"
    BY <1>1, <1>2, <2>1 DEF AcquireKeypair
  <2>2. CASE run' = "resolved"
    <3>1. /\ \A p \in Positions : summary[p] = "open"
          /\ summary' = [p \in Positions |-> "failed"]
          /\ UNCHANGED <<tx, trail>>
      BY <1>2, <2>2 DEF AcquireKeypair, CloseInv, SummaryIsLast
    <3>2. landed' = landed
      BY <3>1 DEF Landed
    <3>3. Contract!Resolve
      BY <3>1, <3>2 DEF Contract!Resolve
    <3>4. QED BY <3>3 DEF Contract!Next
  <2>3. QED BY <1>2, <2>1, <2>2 DEF AcquireKeypair
<1>3. ASSUME ResolveRun PROVE Kept
  <2>1. /\ \A p \in Positions : summary[p] = "open"
        /\ UNCHANGED <<tx, trail>>
    BY <1>3 DEF ResolveRun, CloseInv, SummaryIsLast
  <2>2. summary' = [p \in Positions |-> IF results[p] = "none" THEN "timed_out" ELSE results[p]]
    BY <1>3 DEF ResolveRun
  <2>3. results \in [Positions -> {"none", "closed", "failed", "timed_out"}]
    BY DEF CloseInv, TypeOK
  <2>4. summary' \in [Positions -> {"closed", "failed", "timed_out"}]
    BY <2>2, <2>3
  <2>5. \A p \in Positions : summary'[p] = "closed" => trail[p] = <<"position_closed">>
    BY <2>2, <2>3 DEF CloseInv, AnnouncedByPhase, Closed
  <2>6. landed' = landed
    BY <2>1 DEF Landed
  <2>7. Contract!Resolve
    BY <2>1, <2>4, <2>5, <2>6 DEF Contract!Resolve
  <2>8. QED BY <2>7 DEF Contract!Next
<1>4. ASSUME NEW p \in Positions, NEW status \in {"closed", "failed", "timed_out"},
             phase[p] # "done", FireVerdict(p, status),
             status = "closed" => tx[p][attempt[p]] = "landed",
             UNCHANGED <<tx, summary>>
      PROVE  Kept
  <2>1. status = "closed" => \E a \in Attempts : tx[p][a] = "landed"
    BY <1>4 DEF CloseInv, TypeOK
  <2>2. QED BY <1>4, <2>1, VerdictKeepsContract
<1>5. ASSUME NEW p \in Positions, NEW retryable \in BOOLEAN, AttemptFailed(p, retryable),
             phase[p] # "done", UNCHANGED <<tx, summary>>
      PROVE  Kept
  BY <1>1, <1>4, <1>5 DEF AttemptFailed, Return
<1>6. ASSUME NEW p \in Positions, CloseStep(p) PROVE Kept
  <2>1. CASE PullPosition(p)
    BY <1>1, <1>4, <2>1 DEF PullPosition, Return
  <2>2. CASE CloseTimesOut(p)
    BY <1>4, <2>2 DEF CloseTimesOut, CloseInv, AnnouncedByPhase
  <2>3. CASE Preflight(p)
    BY <1>1, <1>5, <2>3 DEF Preflight
  <2>4. CASE QuoteAndSend(p)
    <3>1. CASE tx' = tx
      BY <1>1, <1>5, <2>4, <3>1 DEF QuoteAndSend
    <3>2. CASE tx' = [tx EXCEPT ![p][attempt[p]] = "pending"] /\ UNCHANGED <<trail, summary>>
      <4>1. phase[p] = "quoting"
        BY <2>4 DEF QuoteAndSend
      <4>2. \A q \in Positions : \A a \in Attempts :
               tx'[q][a] = "landed" <=> tx[q][a] = "landed"
        BY <3>2, <4>1 DEF CloseInv, TypeOK, OnlyCurrentAttemptSent
      <4>3. landed' = landed
        BY <4>2 DEF Landed
      <4>4. QED BY <3>2, <4>3
    <3>3. QED BY <2>4, <3>1, <3>2 DEF QuoteAndSend
  <2>5. CASE SwapReturns(p)
    BY <1>1, <1>4, <1>5, <2>5 DEF SwapReturns, Return
  <2>6. CASE Verify(p)
    BY <1>4, <1>5, <2>6 DEF Verify, Return
  <2>7. CASE Retry(p)
    BY <1>1, <1>4, <2>7 DEF Retry, Return
  <2>8. QED BY <1>6, <2>1, <2>2, <2>3, <2>4, <2>5, <2>6, <2>7 DEF CloseStep
<1>7. ASSUME NEW p \in Positions, NEW a \in Attempts, SettleOnChain(p, a) PROVE Kept
  <2>1. /\ tx[p][a] = "pending"
        /\ tx' = [tx EXCEPT ![p][a] = "landed"] \/ tx' = [tx EXCEPT ![p][a] = "dropped"]
        /\ UNCHANGED <<trail, summary>>
    BY <1>7 DEF SettleOnChain
  <2>2. \A b \in Attempts : tx[p][b] # "landed"
    BY <2>1 DEF CloseInv, OnlyCurrentAttemptSent
  <2>3. CASE tx' = [tx EXCEPT ![p][a] = "landed"]
    <3>1. \A q \in Positions : \A b \in Attempts :
             tx'[q][b] = "landed" <=> (q = p /\ b = a) \/ tx[q][b] = "landed"
      BY <2>3 DEF CloseInv, TypeOK
    <3>2. Landed(p) = {} /\ Landed(p)' = {a}
      BY <2>2, <3>1 DEF Landed
    <3>3. \A q \in Positions : q # p => Landed(q)' = Landed(q)
      BY <3>1 DEF Landed
    <3> HIDE DEF Kept
    <3>4. landed' = [landed EXCEPT ![p] = {a}] /\ landed[p] = {}
      BY <3>2, <3>3
    <3>5. Contract!Sell(p)
      BY <2>1, <3>4 DEF Contract!Sell
    <3>6. QED BY <3>5 DEF Contract!Next, Kept
  <2>4. CASE tx' = [tx EXCEPT ![p][a] = "dropped"]
    <3>1. \A q \in Positions : \A b \in Attempts :
             tx'[q][b] = "landed" <=> tx[q][b] = "landed"
      BY <2>1, <2>4 DEF CloseInv, TypeOK
    <3>2. landed' = landed
      BY <3>1 DEF Landed
    <3>3. QED BY <2>1, <3>2
  <2>5. QED BY <2>1, <2>3, <2>4
<1>8. ASSUME UNCHANGED vars PROVE Kept
  BY <1>1, <1>8 DEF vars
<1>9. ASSUME NEW p \in Positions, EngineForgets(p) PROVE Kept
  BY <1>1, <1>9 DEF EngineForgets
<1>10. ASSUME Tick \/ Finished PROVE Kept
  BY <1>1, <1>10 DEF Tick, Finished, vars
<1> HIDE DEF Kept
<1>11. Kept
  BY <1>2, <1>3, <1>6, <1>7, <1>8, <1>9, <1>10 DEF Next
<1>12. QED BY <1>11 DEF Kept

\* The run keeps the contract of a close run: it sells each position once,
\* announces only confirmed closes, upgrades a warning but never takes back a
\* close, and resolves once with a summary that overstates nothing.
THEOREM RunKeepsContract == Spec => KeepsContract
<1>1. Init => Contract!Init
  BY InitKeepsContract
<1>2. CloseInv /\ [Next]_vars => [Contract!Next]_(Contract!vars)
  BY StepKeepsContract DEF Contract!vars
<1>3. QED BY <1>1, <1>2, Invariance, PTL DEF Spec, KeepsContract, Contract!Spec

-----------------------------------------------------------------------------
(* Attempts                                                                *)

\* A close in progress has its timer, which fires no sooner than the budget
\* of the close is spent.
TimerInv ==
    \A p \in Positions :
        /\ phase[p] \notin {"queued", "done"} => timer[p] \in {"armed", "fired"}
        /\ timer[p] = "fired" => ~BudgetLeft(pulledAt[p])

\* A step that leaves the clocks alone and begins no close keeps the timers,
\* if it clears none but that of a close it ends.
LEMMA TimersKept ==
    ASSUME CloseInv, TimerInv, UNCHANGED <<now, pulledAt>>, NEW p \in Positions,
           \/ UNCHANGED <<phase, timer>>
           \/ /\ phase[p] \notin {"queued", "done"} /\ UNCHANGED timer
              /\ \E x : phase' = [phase EXCEPT ![p] = x]
           \/ \E status : Return(p, status)
    PROVE  TimerInv'
<1>1. /\ phase \in [Positions -> {"queued", "preflight", "quoting", "sent", "verifying",
                                  "backoff", "done"}]
      /\ timer \in [Positions -> {"off", "armed", "cleared", "fired"}]
  BY DEF CloseInv, TypeOK
<1>2. \A q \in Positions : BudgetLeft(pulledAt[q])' <=> BudgetLeft(pulledAt[q])
  BY DEF BudgetLeft
<1>3. CASE UNCHANGED <<phase, timer>> BY <1>2, <1>3 DEF TimerInv
<1>4. CASE phase[p] \notin {"queued", "done"} /\ UNCHANGED timer
           /\ \E x : phase' = [phase EXCEPT ![p] = x]
  BY <1>1, <1>2, <1>4 DEF TimerInv
<1>5. ASSUME NEW status, Return(p, status) PROVE TimerInv'
  BY <1>1, <1>2, <1>5 DEF Return, TimerInv
<1>6. QED BY <1>3, <1>4, <1>5

LEMMA StepKeepsTimers ==
    ASSUME CloseInv, TimerInv, [Next]_vars
    PROVE  TimerInv'
<1>1. /\ phase \in [Positions -> {"queued", "preflight", "quoting", "sent", "verifying",
                                  "backoff", "done"}]
      /\ timer \in [Positions -> {"off", "armed", "cleared", "fired"}]
      /\ pulledAt \in [Positions -> 0..Horizon] /\ now \in Nat
      /\ \A p \in Positions : pulledAt[p] \in Nat
  BY ClockFacts DEF CloseInv, TypeOK
<1>2. \A p \in Positions : phase[p] = "queued" => timer[p] = "off"
  BY DEF CloseInv, AnnouncedByPhase
<1>3. ASSUME UNCHANGED <<now, pulledAt, phase, timer>> PROVE TimerInv'
  BY <1>3 DEF TimerInv, BudgetLeft
<1>4. CASE AcquireKeypair \/ ResolveRun \/ Finished \/ UNCHANGED vars
  BY <1>3, <1>4 DEF AcquireKeypair, ResolveRun, Finished, vars
<1>5. CASE Tick
  <2>1. now' = now + 1 /\ UNCHANGED <<pulledAt, phase, timer>> BY <1>5 DEF Tick
  <2>2. \A p \in Positions : ~BudgetLeft(pulledAt[p]) => ~BudgetLeft(pulledAt[p])'
    BY <2>1, <1>1, CloseRunAssumption DEF BudgetLeft
  <2>3. QED BY <2>1, <2>2 DEF TimerInv
<1>6. ASSUME NEW p \in Positions, PullPosition(p) PROVE TimerInv'
  <2>1. /\ phase[p] = "queued" /\ timer[p] = "off" /\ now' = now
        /\ pulledAt' = [pulledAt EXCEPT ![p] = now]
        /\ \/ phase' = [phase EXCEPT ![p] = "preflight"] /\ timer' = [timer EXCEPT ![p] = "armed"]
           \/ phase' = [phase EXCEPT ![p] = "done"] /\ timer' = [timer EXCEPT ![p] = "cleared"]
    BY <1>2, <1>6 DEF PullPosition, Return
  <2>2. \A q \in Positions \ {p} :
           /\ phase'[q] = phase[q] /\ timer'[q] = timer[q]
           /\ BudgetLeft(pulledAt[q])' <=> BudgetLeft(pulledAt[q])
    BY <1>1, <2>1 DEF BudgetLeft
  <2>3. phase'[p] \in {"preflight", "done"} /\ timer'[p] # "fired"
        /\ (phase'[p] = "preflight" => timer'[p] = "armed")
    BY <1>1, <2>1
  <2>4. QED BY <2>2, <2>3 DEF TimerInv
<1>7. ASSUME NEW p \in Positions, CloseTimesOut(p) PROVE TimerInv'
  <2>1. /\ ~BudgetLeft(pulledAt[p]) /\ timer' = [timer EXCEPT ![p] = "fired"]
        /\ UNCHANGED <<now, pulledAt, phase>>
    BY <1>7 DEF CloseTimesOut
  <2>2. \A q \in Positions : BudgetLeft(pulledAt[q])' <=> BudgetLeft(pulledAt[q])
    BY <2>1 DEF BudgetLeft
  <2>3. QED BY <1>1, <2>1, <2>2 DEF TimerInv
<1>8. ASSUME NEW p \in Positions,
             Preflight(p) \/ QuoteAndSend(p) \/ SwapReturns(p) \/ Verify(p) \/ Retry(p)
      PROVE  TimerInv'
  <2>1. UNCHANGED <<now, pulledAt>> /\ phase[p] \notin {"queued", "done"}
    BY <1>8 DEF Preflight, QuoteAndSend, SwapReturns, Verify, Retry
  <2>2. \/ UNCHANGED timer /\ \E x : phase' = [phase EXCEPT ![p] = x]
        \/ \E status : Return(p, status)
    BY <1>8 DEF Preflight, QuoteAndSend, SwapReturns, Verify, Retry, AttemptFailed
  <2>3. QED BY <2>1, <2>2, TimersKept
<1>9. ASSUME NEW p \in Positions, EngineForgets(p) PROVE TimerInv'
  BY <1>3, <1>9 DEF EngineForgets
<1>10. ASSUME NEW p \in Positions, NEW a \in Attempts, SettleOnChain(p, a) PROVE TimerInv'
  BY <1>3, <1>10 DEF SettleOnChain
<1>11. QED
  BY <1>4, <1>5, <1>6, <1>7, <1>8, <1>9, <1>10 DEF Next, CloseStep

\* The step that takes a close into an attempt.
LEMMA AttemptBegins ==
    ASSUME CloseInv, TimerInv, [Next]_vars, NEW p \in Positions,
           phase[p] # "preflight", phase'[p] = "preflight"
    PROVE  timer'[p] = "armed"
<1>1. /\ phase \in [Positions -> {"queued", "preflight", "quoting", "sent", "verifying",
                                  "backoff", "done"}]
      /\ timer \in [Positions -> {"off", "armed", "cleared", "fired"}]
  BY DEF CloseInv, TypeOK
<1>2. ASSUME UNCHANGED phase PROVE FALSE BY <1>2
<1>3. ASSUME NEW q \in Positions, NEW x, phase' = [phase EXCEPT ![q] = x], x # "preflight"
      PROVE  FALSE
  BY <1>1, <1>3
<1>4. ~(AcquireKeypair \/ ResolveRun \/ Tick \/ Finished \/ UNCHANGED vars)
  BY <1>2 DEF AcquireKeypair, ResolveRun, Tick, Finished, vars
<1>5. PICK q \in Positions :
        CloseStep(q) \/ EngineForgets(q) \/ \E a \in Attempts : SettleOnChain(q, a)
  BY <1>4 DEF Next
<1>6. ~EngineForgets(q) /\ ~(\E a \in Attempts : SettleOnChain(q, a))
  BY <1>2 DEF EngineForgets, SettleOnChain
<1>7. ~CloseTimesOut(q) BY <1>2 DEF CloseTimesOut
<1>8. \A status : ~Return(q, status) BY <1>3 DEF Return
<1>9. ~Preflight(q) /\ ~QuoteAndSend(q) /\ ~SwapReturns(q) /\ ~Verify(q)
  BY <1>3, <1>8 DEF Preflight, QuoteAndSend, SwapReturns, Verify, AttemptFailed
<1>10. CASE PullPosition(q)
  <2>1. phase' = [phase EXCEPT ![q] = "preflight"] /\ timer' = [timer EXCEPT ![q] = "armed"]
    BY <1>8, <1>10 DEF PullPosition
  <2>2. q = p BY <1>1, <2>1
  <2>3. QED BY <1>1, <2>1, <2>2
<1>11. CASE Retry(q)
  <2>1. /\ phase[q] = "backoff" /\ BudgetLeft(pulledAt[q])
        /\ phase' = [phase EXCEPT ![q] = "preflight"] /\ timer' = timer
    BY <1>8, <1>11 DEF Retry
  <2>2. q = p BY <1>1, <2>1
  <2>3. timer[p] = "armed" BY <2>1, <2>2 DEF TimerInv
  <2>4. QED BY <2>1, <2>3
<1>12. QED BY <1>5, <1>6, <1>7, <1>9, <1>10, <1>11 DEF CloseStep

\* A close whose worker has given up on it begins no attempt any more, for
\* every budget, deadline and number of retries (close-manager.ts, the check of
\* the elapsed time at the head of the retry loop).
THEOREM TimedOutClosesEnd == Spec => NoAttemptAfterTimeout
<1>1. Init => TimerInv BY DEF Init, TimerInv
<1>2. CloseInv /\ TimerInv /\ [Next]_vars => TimerInv' BY StepKeepsTimers
<1>3. ASSUME CloseInv, TimerInv, [Next]_vars
      PROVE  [\A p \in Positions :
                 phase[p] # "preflight" /\ phase'[p] = "preflight" => timer'[p] = "armed"]_vars
  BY <1>3, AttemptBegins
<1>4. QED BY <1>1, <1>2, <1>3, Invariance, PTL DEF Spec, NoAttemptAfterTimeout

-----------------------------------------------------------------------------
(* The broker emulator: sequences.                                         *)

LEMMA MinIsLeast ==
    ASSUME NEW S \in SUBSET Nat, S # {}
    PROVE  Min(S) \in S /\ \A k \in S : Min(S) <= k
<1>1. PICK n \in S : \A k \in S : ~ (<<k, n>> \in OpToRel(<, Nat))
  BY WFMin, NatLessThanWellFounded, Zenon
<1>2. ASSUME NEW k \in S, k < n PROVE FALSE
  <2>1. <<k, n>> \in Nat \X Nat /\ <<k, n>>[1] < <<k, n>>[2] BY <1>2
  <2>2. <<k, n>> \in OpToRel(<, Nat) BY <2>1, Zenon DEF OpToRel
  <2>3. QED BY <1>1, <2>2
<1>3. \A k \in S : n <= k BY <1>2
<1>4. QED BY <1>3, Zenon DEF Min

LEMMA ListIs ==
    ASSUME NEW S, NEW n \in Nat, NEW f \in [1..n -> S]
    PROVE  f \in Seq(S) /\ Len(f) = n /\ DOMAIN f = 1..n
OBVIOUS

-----------------------------------------------------------------------------
(* The entries of a sequence at given places.                              *)

\* At(s, I) has an entry for each place of I, and has it from there.
LEMMA AtIs ==
    ASSUME NEW S, NEW s \in Seq(S), NEW I \in SUBSET DOMAIN s
    PROVE  /\ At(s, I) \in Seq(S)
           /\ Len(At(s, I)) = Cardinality(I)
           /\ \A k \in DOMAIN At(s, I) : \E i \in I : At(s, I)[k] = s[i]
<1> DEFINE Upto(i) == {j \in I : j <= i}
           c == Cardinality(I)
           rank == [i \in I |-> Cardinality(Upto(i))]
           Source(k) == CHOOSE i \in I : Cardinality(Upto(i)) = k
<1>1. Len(s) \in Nat /\ DOMAIN s = 1..Len(s) BY LenProperties
<1>2. IsFiniteSet(1..Len(s)) BY <1>1, FS_Interval
<1>3. IsFiniteSet(I) BY <1>1, <1>2, FS_Subset
<1>4. c \in Nat BY <1>3, FS_CardinalityType
<1>5. ASSUME NEW i \in I
      PROVE  IsFiniteSet(Upto(i)) /\ Cardinality(Upto(i)) \in 1..c
  <2>1. Upto(i) \subseteq I /\ i \in Upto(i) BY <1>1
  <2>2. IsFiniteSet(Upto(i)) /\ Cardinality(Upto(i)) <= c BY <2>1, <1>3, FS_Subset
  <2>3. Cardinality(Upto(i)) \in Nat BY <2>2, FS_CardinalityType
  <2>4. Cardinality(Upto(i)) # 0 BY <2>1, <2>2, FS_EmptySet
  <2>5. QED BY <2>2, <2>3, <2>4, <1>4
<1>6. ASSUME NEW i \in I, NEW k \in I, i < k
      PROVE  Cardinality(Upto(i)) # Cardinality(Upto(k))
  <2>1. i \in Int /\ k \in Int /\ \A j \in I : j \in Int BY <1>1
  <2>2. Upto(i) \subseteq Upto(k) /\ k \in Upto(k) /\ k \notin Upto(i) BY <2>1, <1>6
  <2>3. Upto(i) # Upto(k) BY <2>2
  <2>4. QED BY <2>2, <2>3, <1>5, FS_Subset
<1>7. ASSUME NEW k \in 1..c PROVE \E i \in I : Cardinality(Upto(i)) = k
  <2> SUFFICES ASSUME \A i \in I : Cardinality(Upto(i)) # k PROVE FALSE OBVIOUS
  <2> DEFINE rest == (1..c) \ {k}
  <2>1. IsFiniteSet(1..c) /\ Cardinality(1..c) = c BY <1>4, FS_Interval
  <2>2. IsFiniteSet(rest) /\ Cardinality(rest) = c - 1 BY <2>1, FS_RemoveElement
  <2>3. rank \in [I -> rest] BY <1>5
  <2>4. c - 1 < c BY <1>4
  <2> HIDE DEF rank, rest, Upto, c
  <2>5. Cardinality(I) = c BY DEF c
  <2>6. \E x, y \in I : x # y /\ rank[x] = rank[y]
    BY <1>3, <2>2, <2>3, <2>4, <2>5, FS_PigeonHole
  <2>7. PICK x \in I, y \in I : x # y /\ rank[x] = rank[y] BY <2>6
  <2>8. x \in Int /\ y \in Int BY <1>1
  <2>9. x < y \/ y < x BY <2>7, <2>8
  <2>10. rank[x] # rank[y] BY <2>9, <1>6 DEF rank
  <2>11. QED BY <2>7, <2>10
<1>8. \A k \in 1..c : Source(k) \in I BY <1>7
<1>9. At(s, I) = [k \in 1..c |-> s[Source(k)]] BY DEF At
<1>10. \A i \in I : s[i] \in S BY <1>1, ElementOfSeq
<1> HIDE DEF Source, c
<1>11. At(s, I) \in [1..c -> S] BY <1>8, <1>9, <1>10
<1>12. At(s, I) \in Seq(S) /\ Len(At(s, I)) = c /\ DOMAIN At(s, I) = 1..c
  BY <1>4, <1>11, ListIs
<1>13. ASSUME NEW k \in DOMAIN At(s, I) PROVE \E i \in I : At(s, I)[k] = s[i]
  BY <1>8, <1>9, <1>12
<1>14. QED BY <1>12, <1>13 DEF c

-----------------------------------------------------------------------------
(* What lots add up to.                                                    *)

\* f is what Sums() returns for the lots.
AddsUp(lots, f) ==
    /\ f \in [0..Len(lots) -> Int]
    /\ f[0] = 0
    /\ \A n \in 1..Len(lots) : f[n] = f[n - 1] + lots[n].qty

LEMMA SumsExist == \A lots \in Seq(Lots) : \E f : AddsUp(lots, f)
<1> SUFFICES ASSUME NEW lots \in Seq(Lots) PROVE \E f : AddsUp(lots, f) OBVIOUS
<1> DEFINE Upto(n, f) == /\ f \in [0..n -> Int]
                         /\ f[0] = 0
                         /\ \A k \in 1..n : f[k] = f[k - 1] + lots[k].qty
           missing == {n \in 0..Len(lots) : ~ \E f : Upto(n, f)}
<1>1. Len(lots) \in Nat /\ \A k \in 1..Len(lots) : lots[k] \in Lots BY LenProperties, ElementOfSeq
<1>2. Upto(0, [k \in {0} |-> 0]) OBVIOUS
<1>3. ASSUME missing # {} PROVE FALSE
  <2>1. missing \in SUBSET Nat BY <1>1
  <2>2. PICK n \in missing : \A k \in missing : n <= k BY <1>3, <2>1, MinIsLeast
  <2>3. n \in 0..Len(lots) /\ ~ \E f : Upto(n, f) OBVIOUS
  <2>4. n # 0 BY <1>2, <2>3
  <2>5. n - 1 \in 0..Len(lots) /\ ~(n <= n - 1) BY <2>3, <2>4, <1>1
  <2>6. n - 1 \notin missing BY <2>2, <2>5
  <2>7. PICK f : Upto(n - 1, f) BY <2>5, <2>6
  <2> DEFINE g == [k \in 0..n |-> IF k = n THEN f[n - 1] + lots[n].qty ELSE f[k]]
  <2>8. n \in 1..Len(lots) /\ lots[n].qty \in Nat BY <2>3, <2>4, <1>1 DEF Lots
  <2>9. g \in [0..n -> Int] BY <2>7, <2>8, <1>1
  <2>10. g[0] = 0 BY <2>7, <2>8, <1>1
  <2>11. \A k \in 1..n : g[k] = g[k - 1] + lots[k].qty
    <3> TAKE k \in 1..n
    <3>1. CASE k = n BY <3>1, <2>8, <1>1
    <3>2. CASE k # n
      <4>1. k \in 1..(n - 1) /\ k \in 0..n /\ k - 1 \in 0..n /\ k - 1 # n BY <3>2, <2>8, <1>1
      <4>2. f[k] = f[k - 1] + lots[k].qty BY <4>1, <2>7
      <4>3. QED BY <4>1, <4>2, <3>2
    <3>3. QED BY <3>1, <3>2
  <2>12. Upto(n, g) BY <2>9, <2>10, <2>11
  <2>13. QED BY <2>12, <2>3
<1>4. Len(lots) \notin missing BY <1>3
<1>5. QED BY <1>1, <1>4 DEF AddsUp

LEMMA SumsAgree ==
    ASSUME NEW lots \in Seq(Lots), NEW f, NEW g, AddsUp(lots, f), AddsUp(lots, g)
    PROVE  f = g
<1> DEFINE differ == {n \in 0..Len(lots) : f[n] # g[n]}
<1>1. Len(lots) \in Nat BY LenProperties
<1>2. ASSUME differ # {} PROVE FALSE
  <2>1. differ \in SUBSET Nat BY <1>1
  <2>2. PICK n \in differ : \A k \in differ : n <= k BY <1>2, <2>1, MinIsLeast
  <2>3. n \in 0..Len(lots) /\ f[n] # g[n] OBVIOUS
  <2>4. n # 0 BY <2>3 DEF AddsUp
  <2>5. n \in 1..Len(lots) /\ n - 1 \in 0..Len(lots) /\ ~(n <= n - 1) BY <2>3, <2>4, <1>1
  <2>6. f[n - 1] = g[n - 1] BY <2>2, <2>5
  <2>7. QED BY <2>3, <2>5, <2>6 DEF AddsUp
<1>3. \A n \in 0..Len(lots) : f[n] = g[n] BY <1>2
<1>4. QED BY <1>3 DEF AddsUp

LEMMA SumsAre ==
    ASSUME NEW lots \in Seq(Lots)
    PROVE  AddsUp(lots, Sums(lots))
<1> DEFINE Step(f) == [n \in 0..Len(lots) |-> IF n = 0 THEN 0 ELSE f[n - 1] + lots[n].qty]
<1>1. Len(lots) \in Nat BY LenProperties
<1>2. PICK f : AddsUp(lots, f) BY SumsExist
<1>3. f = Step(f)
  <2>1. ASSUME NEW n \in 0..Len(lots) PROVE f[n] = Step(f)[n]
    <3>1. CASE n = 0 BY <3>1, <1>2 DEF AddsUp
    <3>2. CASE n # 0
      <4>1. n \in 1..Len(lots) BY <3>2, <1>1
      <4>2. QED BY <4>1, <3>2, <1>2 DEF AddsUp
    <3>3. QED BY <3>1, <3>2
  <2>2. f \in [0..Len(lots) -> Int] BY <1>2 DEF AddsUp
  <2>3. QED BY <2>1, <2>2
<1>4. Sums(lots) = CHOOSE g : g = Step(g) BY DEF Sums
<1>5. Sums(lots) = Step(Sums(lots)) BY <1>3, <1>4
<1> DEFINE h == Sums(lots)
<1>6. /\ DOMAIN h = 0..Len(lots) /\ h[0] = 0
      /\ \A n \in 1..Len(lots) : h[n] = h[n - 1] + lots[n].qty
      /\ h = [n \in 0..Len(lots) |-> h[n]]
  <2>1. 0 \in 0..Len(lots) /\ \A n \in 1..Len(lots) : n \in 0..Len(lots) /\ n # 0 BY <1>1
  <2> HIDE DEF h
  <2>2. h = Step(h) BY <1>5 DEF h
  <2>3. QED BY <2>1, <2>2
<1> DEFINE odd == {n \in 0..Len(lots) : h[n] \notin Int}
<1>7. ASSUME odd # {} PROVE FALSE
  <2>1. odd \in SUBSET Nat BY <1>1
  <2>2. PICK n \in odd : \A k \in odd : n <= k BY <1>7, <2>1, MinIsLeast
  <2>3. n \in 0..Len(lots) /\ h[n] \notin Int OBVIOUS
  <2>4. n # 0 BY <2>3, <1>6
  <2>5. n \in 1..Len(lots) /\ n - 1 \in 0..Len(lots) /\ ~(n <= n - 1) BY <2>3, <2>4, <1>1
  <2>6. h[n - 1] \in Int BY <2>2, <2>5
  <2>7. lots[n] \in Lots BY <2>5, ElementOfSeq
  <2>8. lots[n].qty \in Int BY <2>7 DEF Lots
  <2>9. h[n] = h[n - 1] + lots[n].qty BY <2>5, <1>6
  <2> HIDE DEF h
  <2>10. h[n] \in Int BY <2>6, <2>8, <2>9
  <2>11. QED BY <2>3, <2>10
<1>8. \A n \in 0..Len(lots) : h[n] \in Int BY <1>7
<1>9. QED BY <1>6, <1>8 DEF AddsUp

\* Every lot adds something.
LEMMA SumsGrow ==
    ASSUME NEW lots \in Seq(Lots)
    PROVE  \A n \in 0..Len(lots) : Sums(lots)[n] >= n
<1> DEFINE h == Sums(lots)
           odd == {n \in 0..Len(lots) : ~(h[n] >= n)}
<1>1. Len(lots) \in Nat BY LenProperties
<1>2. AddsUp(lots, h) BY SumsAre
<1> HIDE DEF h
<1>3. ASSUME odd # {} PROVE FALSE
  <2>1. odd \in SUBSET Nat BY <1>1
  <2>2. PICK n \in odd : \A k \in odd : n <= k BY <1>3, <2>1, MinIsLeast
  <2>3. n \in 0..Len(lots) /\ ~(h[n] >= n) OBVIOUS
  <2>4. n # 0 BY <2>3, <1>2 DEF AddsUp
  <2>5. n \in 1..Len(lots) /\ n - 1 \in 0..Len(lots) /\ ~(n <= n - 1) BY <2>3, <2>4, <1>1
  <2>6. h[n - 1] >= n - 1 BY <2>2, <2>5
  <2>7. lots[n] \in Lots BY <2>5, ElementOfSeq
  <2>8. lots[n].qty \in Nat /\ lots[n].qty >= 1 BY <2>7 DEF Lots
  <2>9. h[n] = h[n - 1] + lots[n].qty /\ h[n - 1] \in Int BY <2>5, <1>2 DEF AddsUp
  <2>10. QED BY <2>3, <2>5, <2>6, <2>8, <2>9
<1>4. QED BY <1>3 DEF h

LEMMA QtyIs ==
    ASSUME NEW lots \in Seq(Lots)
    PROVE  /\ QtyOf(lots) \in Nat
           /\ QtyOf(lots) = 0 <=> lots = <<>>
           /\ \A f : AddsUp(lots, f) => QtyOf(lots) = f[Len(lots)]
<1>1. Len(lots) \in Nat /\ Len(lots) \in 0..Len(lots) BY LenProperties
<1>2. AddsUp(lots, Sums(lots)) BY SumsAre
<1>3. Sums(lots)[Len(lots)] \in Int BY <1>1, <1>2 DEF AddsUp
<1>4. Sums(lots)[Len(lots)] >= Len(lots) BY <1>1, SumsGrow
<1>5. QtyOf(lots) \in Nat BY <1>1, <1>3, <1>4 DEF QtyOf
<1>6. lots # <<>> => Len(lots) > 0 BY <1>1, EmptySeq
<1>7. lots = <<>> => Len(lots) = 0 OBVIOUS
<1>8. lots = <<>> => QtyOf(lots) = 0 BY <1>7, <1>2 DEF AddsUp, QtyOf
<1>9. lots # <<>> => QtyOf(lots) # 0 BY <1>1, <1>3, <1>4, <1>6 DEF QtyOf
<1>10. \A f : AddsUp(lots, f) => f = Sums(lots) BY <1>2, SumsAgree
<1>11. QED BY <1>5, <1>8, <1>9, <1>10 DEF QtyOf

LEMMA QtyOfAppend ==
    ASSUME NEW lots \in Seq(Lots), NEW lot \in Lots
    PROVE  /\ Append(lots, lot) \in Seq(Lots) /\ Append(lots, lot) # <<>>
           /\ QtyOf(Append(lots, lot)) = QtyOf(lots) + lot.qty
<1> DEFINE new == Append(lots, lot)
           n == Len(lots)
           h == Sums(lots)
           f == [k \in 0..(n + 1) |-> IF k = n + 1 THEN h[n] + lot.qty ELSE h[k]]
<1>1. n \in Nat BY LenProperties
<1>2. /\ new \in Seq(Lots) /\ Len(new) = n + 1 /\ new[n + 1] = lot
      /\ \A k \in 1..n : new[k] = lots[k]
  BY AppendProperties
<1>3. lot.qty \in Int BY DEF Lots
<1>4. AddsUp(lots, h) BY SumsAre
<1> HIDE DEF new, h
<1>5. AddsUp(new, f)
  <2>1. \A k \in 0..n : h[k] \in Int BY <1>4 DEF AddsUp
  <2>2. f \in [0..(n + 1) -> Int]
    <3>1. n \in 0..n /\ \A k \in 0..(n + 1) : k = n + 1 \/ k \in 0..n BY <1>1
    <3>2. QED BY <3>1, <2>1, <1>3
  <2>3. f[0] = 0 BY <1>1, <1>4 DEF AddsUp
  <2>4. ASSUME NEW k \in 1..(n + 1) PROVE f[k] = f[k - 1] + new[k].qty
    <3>1. CASE k = n + 1
      <4>1. k - 1 = n /\ k - 1 \in 0..(n + 1) /\ k - 1 # n + 1 /\ k \in 0..(n + 1) BY <3>1, <1>1
      <4>2. QED BY <3>1, <4>1, <1>2
    <3>2. CASE k # n + 1
      <4>1. k \in 1..n /\ k \in 0..(n + 1) /\ k - 1 \in 0..(n + 1) /\ k - 1 # n + 1 BY <3>2, <1>1
      <4>2. QED BY <3>2, <4>1, <1>2, <1>4 DEF AddsUp
    <3>3. QED BY <3>1, <3>2
  <2>5. QED BY <2>2, <2>3, <2>4, <1>2 DEF AddsUp
<1>6. QtyOf(new) = f[n + 1] BY <1>2, <1>5, QtyIs
<1>7. n + 1 \in 0..(n + 1) BY <1>1
<1>8. QtyOf(new) = QtyOf(lots) + lot.qty BY <1>6, <1>7 DEF QtyOf, h
<1>9. new # <<>> BY <1>1, <1>2
<1>10. QED BY <1>2, <1>8, <1>9 DEF new

LEMMA QtyOfOne ==
    ASSUME NEW lot \in Lots
    PROVE  <<lot>> \in Seq(Lots) /\ <<lot>> # <<>> /\ QtyOf(<<lot>>) = lot.qty
<1>1. <<>> \in Seq(Lots) /\ Append(<<>>, lot) = <<lot>> OBVIOUS
<1>2. QtyOf(<<>>) = 0 BY <1>1, QtyIs
<1>3. lot.qty \in Int BY DEF Lots
<1>4. /\ Append(<<>>, lot) \in Seq(Lots) /\ Append(<<>>, lot) # <<>>
      /\ QtyOf(Append(<<>>, lot)) = QtyOf(<<>>) + lot.qty
  BY <1>1, QtyOfAppend
<1>5. QED BY <1>1, <1>2, <1>3, <1>4

\* A sequence without its i-th entry.
LEMMA RemoveAtIs ==
    ASSUME NEW S, NEW s \in Seq(S), NEW i \in 1..Len(s)
    PROVE  /\ RemoveAt(s, i) \in Seq(S)
           /\ Len(RemoveAt(s, i)) = Len(s) - 1
           /\ \A k \in 1..(Len(s) - 1) : RemoveAt(s, i)[k] = IF k < i THEN s[k] ELSE s[k + 1]
<1> DEFINE n == Len(s)
           front == SubSeq(s, 1, i - 1)
           rear == SubSeq(s, i + 1, n)
<1>1. n \in Nat /\ i \in 1..n /\ \A k \in 1..n : s[k] \in S BY LenProperties, ElementOfSeq
<1>2. i - 1 \in Int /\ i + 1 \in Int /\ i - 1 >= 0 /\ i + 1 <= n + 1 BY <1>1
<1>3. \A k \in 1..(i - 1) : s[k] \in S BY <1>1
<1>4. /\ front \in Seq(S) /\ Len(front) = i - 1
      /\ \A k \in 1..(i - 1) : front[k] = s[k]
  <2>1. /\ front \in Seq(S)
        /\ Len(front) = IF 1 <= i - 1 THEN (i - 1) - 1 + 1 ELSE 0
        /\ \A k \in 1..((i - 1) - 1 + 1) : front[k] = s[1 + k - 1]
    BY <1>2, <1>3, SubSeqProperties
  <2>2. QED BY <2>1, <1>1
<1>5. \A k \in (i + 1)..n : s[k] \in S BY <1>1
<1>6. /\ rear \in Seq(S) /\ Len(rear) = n - i
      /\ \A k \in 1..(n - i) : rear[k] = s[i + k]
  <2>1. /\ rear \in Seq(S)
        /\ Len(rear) = IF i + 1 <= n THEN n - (i + 1) + 1 ELSE 0
        /\ \A k \in 1..(n - (i + 1) + 1) : rear[k] = s[(i + 1) + k - 1]
    BY <1>1, <1>2, <1>5, SubSeqProperties
  <2>2. QED BY <2>1, <1>1
<1>7. RemoveAt(s, i) = front \o rear BY DEF RemoveAt
<1> HIDE DEF front, rear
<1>8. /\ front \o rear \in Seq(S)
      /\ Len(front \o rear) = Len(front) + Len(rear)
      /\ \A k \in 1..(Len(front) + Len(rear)) :
            (front \o rear)[k] = IF k <= Len(front) THEN front[k] ELSE rear[k - Len(front)]
  BY <1>4, <1>6, ConcatProperties
<1>9. Len(front) + Len(rear) = n - 1 BY <1>1, <1>4, <1>6
<1>10. ASSUME NEW k \in 1..(n - 1)
       PROVE  (front \o rear)[k] = IF k < i THEN s[k] ELSE s[k + 1]
  <2>1. CASE k < i BY <2>1, <1>1, <1>4, <1>8, <1>9
  <2>2. CASE ~(k < i)
    <3>1. ~(k <= Len(front)) /\ k - Len(front) \in 1..(n - i) /\ i + (k - Len(front)) = k + 1
      BY <2>2, <1>1, <1>4
    <3>2. QED BY <2>2, <3>1, <1>6, <1>8, <1>9
  <2>3. QED BY <2>1, <2>2
<1>11. QED BY <1>7, <1>8, <1>9, <1>10

LEMMA QtyWithout ==
    ASSUME NEW lots \in Seq(Lots), NEW i \in 1..Len(lots)
    PROVE  /\ RemoveAt(lots, i) \in Seq(Lots)
           /\ QtyOf(RemoveAt(lots, i)) = QtyOf(lots) - lots[i].qty
<1> DEFINE new == RemoveAt(lots, i)
           n == Len(lots)
           h == Sums(lots)
           q == lots[i].qty
           f == [k \in 0..(n - 1) |-> IF k < i THEN h[k] ELSE h[k + 1] - q]
<1>1. n \in Nat /\ i \in 1..n BY LenProperties
<1>2. /\ new \in Seq(Lots) /\ Len(new) = n - 1
      /\ \A k \in 1..(n - 1) : new[k] = IF k < i THEN lots[k] ELSE lots[k + 1]
  BY RemoveAtIs
<1>3. lots[i] \in Lots BY <1>1, ElementOfSeq
<1>4. q \in Int BY <1>3 DEF Lots
<1>5. AddsUp(lots, h) BY SumsAre
<1>6. \A k \in 0..n : h[k] \in Int BY <1>5 DEF AddsUp
<1>7. \A k \in 1..n : h[k] = h[k - 1] + lots[k].qty BY <1>5 DEF AddsUp
<1>8. \A k \in 1..n : lots[k].qty \in Int
  <2>1. \A k \in 1..n : lots[k] \in Lots BY ElementOfSeq
  <2>2. QED BY <2>1 DEF Lots
<1> HIDE DEF new, h
<1>9. AddsUp(new, f)
  <2>1. f \in [0..(n - 1) -> Int]
    <3>1. \A k \in 0..(n - 1) : k \in 0..n /\ k + 1 \in 0..n BY <1>1
    <3>2. QED BY <3>1, <1>4, <1>6
  <2>2. f[0] = 0 BY <1>1, <1>5 DEF AddsUp
  <2>3. ASSUME NEW k \in 1..(n - 1) PROVE f[k] = f[k - 1] + new[k].qty
    <3>1. /\ k \in 0..(n - 1) /\ k - 1 \in 0..(n - 1) /\ k \in 1..n /\ k + 1 \in 1..n
          /\ k \in 0..n /\ k - 1 \in 0..n /\ k + 1 \in 0..n /\ (k - 1) + 1 = k /\ (k + 1) - 1 = k
      BY <1>1
    <3>2. CASE k < i
      <4>1. k - 1 < i BY <3>2, <1>1
      <4>2. f[k] = h[k] /\ f[k - 1] = h[k - 1] BY <3>1, <3>2, <4>1
      <4>3. new[k] = lots[k] BY <3>2, <1>2
      <4>4. QED BY <3>1, <4>2, <4>3, <1>7
    <3>3. CASE k = i
      <4>1. k - 1 < i /\ ~(k < i) BY <3>3, <1>1
      <4>2. f[k] = h[k + 1] - q /\ f[k - 1] = h[k - 1] BY <3>1, <4>1
      <4>3. new[k] = lots[k + 1] BY <4>1, <1>2
      <4>4. h[k + 1] = h[k] + lots[k + 1].qty /\ h[k] = h[k - 1] + q BY <3>1, <3>3, <1>7
      <4>5. QED BY <4>2, <4>3, <4>4, <3>1, <1>4, <1>6, <1>8
    <3>4. CASE k > i
      <4>1. ~(k - 1 < i) /\ ~(k < i) BY <3>4, <1>1
      <4>2. f[k] = h[k + 1] - q /\ f[k - 1] = h[k] - q BY <3>1, <4>1
      <4>3. new[k] = lots[k + 1] BY <4>1, <1>2
      <4>4. h[k + 1] = h[k] + lots[k + 1].qty BY <3>1, <1>7
      <4>5. QED BY <4>2, <4>3, <4>4, <3>1, <1>4, <1>6, <1>8
    <3>5. QED BY <3>2, <3>3, <3>4, <1>1
  <2>4. QED BY <2>1, <2>2, <2>3, <1>2 DEF AddsUp
<1>10. QtyOf(new) = f[n - 1] BY <1>2, <1>9, QtyIs
<1>11. n - 1 \in 0..(n - 1) /\ (n - 1 < i <=> i = n) /\ (n - 1) + 1 = n BY <1>1
<1>12. h[n] = QtyOf(lots) BY DEF QtyOf, h
<1>13. CASE i = n
  <2>1. QtyOf(new) = h[n - 1] BY <1>10, <1>11, <1>13
  <2>2. h[n] = h[n - 1] + q /\ h[n - 1] \in Int BY <1>1, <1>6, <1>7, <1>13
  <2>3. QED BY <2>1, <2>2, <1>2, <1>4, <1>12 DEF new
<1>14. CASE i # n
  <2>1. QtyOf(new) = h[n] - q BY <1>10, <1>11, <1>14
  <2>2. QED BY <2>1, <1>2, <1>12 DEF new
<1>15. QED BY <1>13, <1>14

LEMMA QtyCut ==
    ASSUME NEW lots \in Seq(Lots), NEW i \in 1..Len(lots), NEW q \in Nat, q < lots[i].qty
    PROVE  /\ [lots EXCEPT ![i].qty = @ - q] \in Seq(Lots)
           /\ QtyOf([lots EXCEPT ![i].qty = @ - q]) = QtyOf(lots) - q
<1> DEFINE n == Len(lots)
           cut == [lots[i] EXCEPT !.qty = @ - q]
           new == [lots EXCEPT ![i] = cut]
           h == Sums(lots)
           f == [k \in 0..n |-> IF k < i THEN h[k] ELSE h[k] - q]
<1>1. n \in Nat /\ i \in 1..n /\ DOMAIN lots = 1..n BY LenProperties
<1>2. lots[i] \in Lots BY <1>1, ElementOfSeq
<1>3. cut \in Lots /\ cut.qty = lots[i].qty - q BY <1>2 DEF Lots
<1>4. [lots EXCEPT ![i].qty = @ - q] = new BY <1>1, <1>2
<1> HIDE DEF cut
<1>5. /\ new \in Seq(Lots) /\ Len(new) = n
      /\ \A k \in 1..n : new[k] = IF k = i THEN cut ELSE lots[k]
  BY <1>3, ExceptSeq
<1>6. AddsUp(lots, h) BY SumsAre
<1>7. \A k \in 0..n : h[k] \in Int BY <1>6 DEF AddsUp
<1>8. \A k \in 1..n : h[k] = h[k - 1] + lots[k].qty BY <1>6 DEF AddsUp
<1>9. \A k \in 1..n : lots[k].qty \in Int
  <2>1. \A k \in 1..n : lots[k] \in Lots BY ElementOfSeq
  <2>2. QED BY <2>1 DEF Lots
<1> HIDE DEF new, h
<1>10. AddsUp(new, f)
  <2>1. f \in [0..n -> Int] BY <1>7
  <2>2. f[0] = 0 BY <1>1, <1>6 DEF AddsUp
  <2>3. ASSUME NEW k \in 1..n PROVE f[k] = f[k - 1] + new[k].qty
    <3>1. k \in 0..n /\ k - 1 \in 0..n /\ h[k] \in Int /\ h[k - 1] \in Int /\ lots[k].qty \in Int
      BY <1>1, <1>7, <1>9
    <3>2. h[k] = h[k - 1] + lots[k].qty BY <1>8
    <3>3. CASE k < i
      <4>1. k - 1 < i /\ k # i BY <3>3, <1>1
      <4>2. f[k] = h[k] /\ f[k - 1] = h[k - 1] BY <3>1, <3>3, <4>1
      <4>3. new[k] = lots[k] BY <4>1, <1>5
      <4>4. QED BY <3>2, <4>2, <4>3
    <3>4. CASE k = i
      <4>1. k - 1 < i /\ ~(k < i) BY <3>4, <1>1
      <4>2. f[k] = h[k] - q /\ f[k - 1] = h[k - 1] BY <3>1, <4>1
      <4>3. new[k].qty = lots[k].qty - q BY <3>4, <1>3, <1>5
      <4>4. QED BY <3>1, <3>2, <4>2, <4>3
    <3>5. CASE k > i
      <4>1. ~(k - 1 < i) /\ ~(k < i) /\ k # i BY <3>5, <1>1
      <4>2. f[k] = h[k] - q /\ f[k - 1] = h[k - 1] - q BY <3>1, <4>1
      <4>3. new[k] = lots[k] BY <4>1, <1>5
      <4>4. QED BY <3>1, <3>2, <4>2, <4>3
    <3>6. QED BY <3>3, <3>4, <3>5, <1>1
  <2>4. QED BY <2>1, <2>2, <2>3, <1>5 DEF AddsUp
<1>11. QtyOf(new) = f[n] BY <1>5, <1>10, QtyIs
<1>12. n \in 0..n /\ ~(n < i) BY <1>1
<1>13. QtyOf(new) = QtyOf(lots) - q BY <1>11, <1>12 DEF QtyOf, h
<1>14. QED BY <1>4, <1>5, <1>13 DEF new

\* What first in, first out leaves adds up to what was not taken.
LEMMA FifoIs ==
    ASSUME NEW lots \in Seq(Lots), NEW q \in Nat, q < QtyOf(lots)
    PROVE  Fifo(lots, q) \in Seq(Lots) /\ QtyOf(Fifo(lots, q)) = QtyOf(lots) - q
<1> DEFINE n == Len(lots)
           h == Sums(lots)
           Reached(k) == h[k] <= q /\ \A j \in 0..n : h[j] <= q => j <= k
           gone == CHOOSE k \in 0..n : Reached(k)
           left == n - gone
           first == [lots[gone + 1] EXCEPT !.qty = h[gone + 1] - q]
           new == [i \in 1..left |-> IF i = 1 THEN first ELSE lots[gone + i]]
           f == [k \in 0..left |-> IF k = 0 THEN 0 ELSE h[gone + k] - q]
<1>1. n \in Nat BY LenProperties
<1>2. AddsUp(lots, h) BY SumsAre
<1>3. /\ \A k \in 0..n : h[k] \in Int
      /\ h[0] = 0
      /\ \A k \in 1..n : h[k] = h[k - 1] + lots[k].qty
  BY <1>2 DEF AddsUp
<1>4. \A k \in 1..n : lots[k] \in Lots BY ElementOfSeq
<1>5. h[n] > q BY <1>1, <1>3 DEF QtyOf
<1>6. Fifo(lots, q) = new BY DEF Fifo
<1> HIDE DEF h
<1>7. \E k \in 0..n : Reached(k)
  <2> DEFINE back == {d \in 0..n : h[n - d] <= q}
  <2>1. n \in back BY <1>1, <1>3
  <2>2. back \in SUBSET Nat BY <1>1
  <2>3. PICK d \in back : \A e \in back : d <= e BY <2>1, <2>2, MinIsLeast
  <2>4. d \in 0..n /\ n - d \in 0..n /\ h[n - d] <= q BY <1>1
  <2>5. ASSUME NEW j \in 0..n, h[j] <= q PROVE j <= n - d
    <3>1. n - j \in 0..n /\ n - (n - j) = j BY <1>1
    <3>2. n - j \in back BY <3>1, <2>5
    <3>3. d <= n - j BY <2>3, <3>2
    <3>4. QED BY <3>3, <1>1, <2>4
  <2>6. QED BY <2>4, <2>5
<1>8. gone \in 0..n /\ Reached(gone) BY <1>7
<1> HIDE DEF gone
<1>9. gone # n BY <1>1, <1>3, <1>5, <1>8
<1>10. gone + 1 \in 1..n /\ gone + 1 \in 0..n /\ (gone + 1) - 1 = gone /\ left \in Nat \ {0}
  BY <1>1, <1>8, <1>9
<1>11. h[gone + 1] > q
  <2>1. ~(gone + 1 <= gone) BY <1>8
  <2>2. ~(h[gone + 1] <= q) BY <2>1, <1>8, <1>10
  <2>3. QED BY <2>2, <1>3, <1>10
<1>12. lots[gone + 1] \in Lots BY <1>4, <1>10
<1>13. h[gone + 1] - q \in Nat \ {0} BY <1>3, <1>10, <1>11
<1>14. first \in Lots /\ first.qty = h[gone + 1] - q BY <1>12, <1>13 DEF Lots
<1> HIDE DEF first
<1>15. \A i \in 1..left : gone + i \in 1..n /\ gone + i \in 0..n BY <1>1, <1>8
<1>16. new \in [1..left -> Lots] BY <1>4, <1>14, <1>15
<1>17. new \in Seq(Lots) /\ Len(new) = left BY <1>10, <1>16, ListIs
<1>18. AddsUp(new, f)
  <2>1. f \in [0..left -> Int]
    <3>1. ASSUME NEW k \in 0..left, k # 0 PROVE h[gone + k] - q \in Int
      <4>1. k \in 1..left BY <3>1, <1>10
      <4>2. h[gone + k] \in Int BY <4>1, <1>3, <1>15
      <4>3. QED BY <4>2
    <3>2. QED BY <3>1
  <2>2. f[0] = 0 BY <1>10
  <2>3. ASSUME NEW k \in 1..left PROVE f[k] = f[k - 1] + new[k].qty
    <3>1. k \in 0..left /\ k - 1 \in 0..left /\ k # 0 /\ gone + k \in 1..n BY <1>10, <1>15
    <3>2. f[k] = h[gone + k] - q BY <3>1
    <3>3. CASE k = 1
      <4>1. f[k - 1] = 0 /\ new[k] = first BY <3>3, <3>1
      <4>2. QED BY <4>1, <3>2, <3>3, <1>13, <1>14
    <3>4. CASE k # 1
      <4>1. k - 1 # 0 /\ gone + (k - 1) = (gone + k) - 1 /\ gone + k \in 0..n /\ (gone + k) - 1 \in 0..n
        BY <3>4, <3>1, <1>8, <1>15
      <4>2. f[k - 1] = h[(gone + k) - 1] - q BY <3>1, <4>1
      <4>3. new[k] = lots[gone + k] BY <3>4
      <4>4. h[gone + k] = h[(gone + k) - 1] + lots[gone + k].qty BY <3>1, <1>3
      <4>5. lots[gone + k] \in Lots BY <3>1, <1>4
      <4>6. lots[gone + k].qty \in Int BY <4>5 DEF Lots
      <4>7. h[gone + k] \in Int /\ h[(gone + k) - 1] \in Int BY <4>1, <1>3
      <4>8. QED BY <3>2, <4>2, <4>3, <4>4, <4>6, <4>7
    <3>5. QED BY <3>3, <3>4
  <2>4. QED BY <2>1, <2>2, <2>3, <1>17 DEF AddsUp
<1>19. QtyOf(new) = f[left] BY <1>17, <1>18, QtyIs
<1>20. left \in 0..left /\ left # 0 /\ gone + left = n BY <1>1, <1>8, <1>10
<1>21. f[left] = h[n] - q BY <1>20
<1>22. QtyOf(new) = QtyOf(lots) - q BY <1>19, <1>21 DEF QtyOf, h
<1>23. QED BY <1>6, <1>17, <1>22

LEMMA TakenIs ==
    ASSUME NEW lots \in Seq(Lots), NEW q \in Nat, q < QtyOf(lots), NEW from
    PROVE  Taken(lots, q, from) \in Seq(Lots) /\ QtyOf(Taken(lots, q, from)) = QtyOf(lots) - q
<1> DEFINE own == {i \in DOMAIN lots : lots[i].name = from}
           i == CHOOSE j \in own : \A k \in own : j <= k
<1>1. Len(lots) \in Nat /\ DOMAIN lots = 1..Len(lots) BY LenProperties
<1>2. CASE own = {}
  <2>1. Taken(lots, q, from) = Fifo(lots, q) BY <1>2 DEF Taken
  <2>2. QED BY <2>1, FifoIs
<1>3. CASE own # {}
  <2>1. own \in SUBSET Nat BY <1>1
  <2>2. \E j \in own : \A k \in own : j <= k BY <2>1, <1>3, MinIsLeast
  <2>3. i \in own BY <2>2
  <2>4. i \in 1..Len(lots) BY <2>3, <1>1
  <2>5. Taken(lots, q, from) = IF lots[i].qty <= q THEN Fifo(RemoveAt(lots, i), q - lots[i].qty)
                               ELSE [lots EXCEPT ![i].qty = @ - q]
    BY <1>3 DEF Taken
  <2> HIDE DEF i
  <2>6. lots[i] \in Lots BY <2>4, ElementOfSeq
  <2>7. lots[i].qty \in Nat BY <2>6 DEF Lots
  <2>8. CASE lots[i].qty <= q
    <3> DEFINE rest == RemoveAt(lots, i)
    <3>1. rest \in Seq(Lots) /\ QtyOf(rest) = QtyOf(lots) - lots[i].qty BY <2>4, QtyWithout
    <3> HIDE DEF rest
    <3>2. QtyOf(lots) \in Nat BY QtyIs
    <3>3. q - lots[i].qty \in Nat /\ q - lots[i].qty < QtyOf(rest) BY <2>7, <2>8, <3>1, <3>2
    <3>4. /\ Fifo(rest, q - lots[i].qty) \in Seq(Lots)
          /\ QtyOf(Fifo(rest, q - lots[i].qty)) = QtyOf(rest) - (q - lots[i].qty)
      BY <3>1, <3>3, FifoIs
    <3>5. Taken(lots, q, from) = Fifo(rest, q - lots[i].qty) BY <2>5, <2>8 DEF rest
    <3>6. QtyOf(rest) - (q - lots[i].qty) = QtyOf(lots) - q BY <2>7, <3>1, <3>2
    <3>7. QED BY <3>4, <3>5, <3>6
  <2>9. CASE ~(lots[i].qty <= q)
    <3>1. q < lots[i].qty BY <2>7, <2>9
    <3>2. Taken(lots, q, from) = [lots EXCEPT ![i].qty = @ - q] BY <2>5, <2>9
    <3>3. QED BY <2>4, <3>1, <3>2, QtyCut
  <2>10. QED BY <2>8, <2>9
<1>4. QED BY <1>2, <1>3

-----------------------------------------------------------------------------
(* Orders, and what fills do to the book.                                  *)

\* The orders are of the position there is, if they are of one.
Fits(orders) ==
    \A i \in DOMAIN orders :
        orders[i].oca # None /\ ~orders[i].triggered =>
            IsOpen /\ orders[i].oca = position.name

LEMMA PriceIs == 0 \in Nat /\ \A p \in Prices \cup {0} : p \in Nat /\ p \in Int
BY StrategyAssumption

LEMMA OrderFields ==
    ASSUME NEW o \in Orders
    PROVE  /\ o.action \in {"buy", "sell"} /\ o.qty \in Nat \ {0} /\ o.qty \in Nat /\ o.stop \in Int
           /\ o.limit \in Nat /\ o.limit \in Int /\ o.name \in Names /\ o.oca \in Names \cup {None}
           /\ o.from \in Names \cup {None} /\ o.state \in TrailStates
BY DEF Orders

LEMMA NewOrderIs ==
    ASSUME NEW action \in {"buy", "sell"}, NEW stop \in Int, NEW limit \in Nat,
           NEW kind \in {"none", "offset", "price"}, NEW qty \in Nat \ {0}, NEW name \in Names
    PROVE  /\ NewOrder(action, stop, limit, kind, qty, name) \in Orders
           /\ NewOrder(action, stop, limit, kind, qty, name).oca = None
<1>1. TypeOf(stop, limit, kind) \in {"market", "limit", "stop", "stop-limit"} BY DEF TypeOf
<1>2. NoTrail \in TrailStates BY DEF NoTrail, TrailStates
<1>3. QED BY <1>1, <1>2 DEF NewOrder, Orders

\* A stop-limit order whose stop was hit goes on as a limit order.
LEMMA OnwardIs ==
    ASSUME NEW o \in Orders
    PROVE  /\ [o EXCEPT !.type = "limit", !.stop = 0, !.state = NoTrail, !.triggered = TRUE] \in Orders
           /\ [o EXCEPT !.type = "limit", !.stop = 0, !.state = NoTrail, !.triggered = TRUE].triggered
<1>1. NoTrail \in TrailStates BY DEF NoTrail, TrailStates
<1>2. ASSUME NEW a \in Orders PROVE [a EXCEPT !.type = "limit"] \in Orders BY DEF Orders
<1>3. ASSUME NEW a \in Orders PROVE [a EXCEPT !.stop = 0] \in Orders BY DEF Orders
<1>4. ASSUME NEW a \in Orders PROVE [a EXCEPT !.state = NoTrail] \in Orders BY <1>1 DEF Orders
<1>5. ASSUME NEW a \in Orders
      PROVE  [a EXCEPT !.triggered = TRUE] \in Orders /\ [a EXCEPT !.triggered = TRUE].triggered
  BY DEF Orders
<1>6. PICK a : a = [o EXCEPT !.type = "limit"] OBVIOUS
<1>7. PICK b : b = [a EXCEPT !.stop = 0] OBVIOUS
<1>8. PICK c : c = [b EXCEPT !.state = NoTrail] OBVIOUS
<1>9. PICK d : d = [c EXCEPT !.triggered = TRUE] OBVIOUS
<1>10. a \in Orders BY <1>2, <1>6
<1>11. b \in Orders BY <1>3, <1>7, <1>10
<1>12. c \in Orders BY <1>4, <1>8, <1>11
<1>13. d \in Orders /\ d.triggered BY <1>5, <1>9, <1>12
<1>14. d = [o EXCEPT !.type = "limit", !.stop = 0, !.state = NoTrail, !.triggered = TRUE]
  BY <1>6, <1>7, <1>8, <1>9 DEF Orders
<1>15. QED BY <1>13, <1>14

\* The exit of an entry that is still pending.
LEMMA EarlyExitIs ==
    ASSUME NEW f \in ExitForms, NEW action \in {"buy", "sell"}, NEW qty \in Nat \ {0},
           f.stop \in Int, f.limit \in Nat, f.name \in Names,
           f.trail \in {"none", "offset", "price"}
    PROVE  /\ NewOrder(action, f.stop, f.limit, f.trail, qty, f.name) \in Orders
           /\ NewOrder(action, f.stop, f.limit, f.trail, qty, f.name).oca = None
BY NewOrderIs

LEMMA AtFits ==
    ASSUME NEW orders \in Seq(Orders), Fits(orders), NEW I \in SUBSET DOMAIN orders
    PROVE  At(orders, I) \in Seq(Orders) /\ Fits(At(orders, I))
<1>1. /\ At(orders, I) \in Seq(Orders)
      /\ \A k \in DOMAIN At(orders, I) : \E i \in I : At(orders, I)[k] = orders[i]
  BY AtIs
<1>2. QED BY <1>1 DEF Fits

\* What stays when one order is taken out, or a group.
LEMMA WithoutFits ==
    ASSUME NEW orders \in Seq(Orders), Fits(orders), NEW group
    PROVE  /\ Without(orders, group) \in Seq(Orders) /\ Fits(Without(orders, group))
           /\ \A i \in DOMAIN Without(orders, group) : Without(orders, group)[i].oca # group
<1> DEFINE I == {i \in DOMAIN orders : orders[i].oca # group}
<1>1. I \in SUBSET DOMAIN orders OBVIOUS
<1>2. Without(orders, group) = At(orders, I) BY DEF Without
<1> HIDE DEF I
<1>3. At(orders, I) \in Seq(Orders) /\ Fits(At(orders, I)) BY <1>1, AtFits
<1>4. \A k \in DOMAIN At(orders, I) : \E i \in I : At(orders, I)[k] = orders[i] BY <1>1, AtIs
<1>5. \A i \in I : orders[i].oca # group BY DEF I
<1>6. QED BY <1>2, <1>3, <1>4, <1>5

LEMMA ForgetIs ==
    ASSUME NEW orders \in Seq(Orders)
    PROVE  /\ Forget(orders) \in Seq(Orders) /\ DOMAIN Forget(orders) = DOMAIN orders
           /\ \A i \in DOMAIN orders : /\ Forget(orders)[i].oca = orders[i].oca
                                       /\ Forget(orders)[i].triggered = orders[i].triggered
<1>1. Len(orders) \in Nat /\ DOMAIN orders = 1..Len(orders) BY LenProperties
<1>2. \A i \in 1..Len(orders) : orders[i] \in Orders BY ElementOfSeq
<1>3. NoTrail \in TrailStates BY DEF NoTrail, TrailStates
<1>4. ASSUME NEW o \in Orders
      PROVE  /\ [o EXCEPT !.state = NoTrail] \in Orders
             /\ [o EXCEPT !.state = NoTrail].oca = o.oca
             /\ [o EXCEPT !.state = NoTrail].triggered = o.triggered
  BY <1>3 DEF Orders
<1> DEFINE g == [i \in 1..Len(orders) |-> [orders[i] EXCEPT !.state = NoTrail]]
<1>5. Forget(orders) = g BY <1>1 DEF Forget
<1>6. g \in [1..Len(orders) -> Orders] BY <1>2, <1>4
<1>7. g \in Seq(Orders) /\ DOMAIN g = 1..Len(orders) BY <1>1, <1>6, ListIs
<1>8. QED BY <1>1, <1>2, <1>4, <1>5, <1>7

LEMMA PositionIs ==
    ASSUME BookIsSound
    PROVE  /\ position \in PositionStates /\ position.dir \in {"flat", "long", "short"}
           /\ position.qty \in Nat /\ position.lots \in Seq(Lots) /\ position.avg \in Int
           /\ position.qty = QtyOf(position.lots)
           /\ IsOpen => position.qty \in Nat \ {0} /\ position.name \in Names
           /\ ~IsOpen => position.qty = 0
           /\ pending \in Seq(Orders) /\ Fits(pending)
<1>1. /\ position \in PositionStates /\ pending \in Seq(Orders)
      /\ LotsMatchPosition /\ OcaEndsWithPosition
  BY DEF BookIsSound, StrategyTypeOK
<1>2. /\ position.dir \in {"flat", "long", "short"} /\ position.qty \in Nat
      /\ position.lots \in Seq(Lots) /\ position.avg \in Int /\ position.name \in Names \cup {None}
  BY <1>1 DEF PositionStates
<1>3. position.qty = 0 <=> position.lots = <<>> BY <1>1, <1>2, QtyIs DEF LotsMatchPosition
<1>4. QED BY <1>1, <1>2, <1>3 DEF LotsMatchPosition, OcaEndsWithPosition, Fits

LEMMA AddedIs ==
    ASSUME BookIsSound, NEW o \in Orders, NEW price \in Int
    PROVE  /\ Added(o, price) \in PositionStates
           /\ Added(o, price).qty = QtyOf(Added(o, price).lots)
           /\ Added(o, price).dir # "flat" /\ Added(o, price).lots # <<>>
           /\ Added(o, price).name # None
           /\ IsOpen => Added(o, price).name = position.name
<1> DEFINE lot == [name |-> o.name, qty |-> o.qty]
           new == Added(o, price)
<1>1. o.action \in {"buy", "sell"} /\ o.qty \in Nat \ {0} /\ o.name \in Names BY OrderFields
<1>2. lot \in Lots /\ lot.qty = o.qty BY <1>1 DEF Lots
<1>3. o.name # None BY <1>1, StrategyAssumption
<1> HIDE DEF lot
<1>4. CASE ~IsOpen
  <2> DEFINE opened == [dir |-> DirOf(o.action), qty |-> o.qty, name |-> o.name,
                        avg |-> price, lots |-> <<lot>>]
  <2>1. new = opened BY <1>4 DEF Added, IsOpen, lot
  <2>2. <<lot>> \in Seq(Lots) /\ <<lot>> # <<>> /\ QtyOf(<<lot>>) = o.qty BY <1>2, QtyOfOne
  <2>3. DirOf(o.action) \in {"long", "short"} BY DEF DirOf
  <2>4. opened \in PositionStates BY <1>1, <2>2, <2>3 DEF PositionStates
  <2>5. QED BY <1>3, <1>4, <2>1, <2>2, <2>3, <2>4
<1>5. CASE IsOpen
  <2> DEFINE q == position.qty + o.qty
             more == Append(position.lots, lot)
             avg == (position.avg * position.qty + price * o.qty) \div q
             bigger == [position EXCEPT !.qty = q, !.lots = more, !.avg = avg]
  <2>1. /\ position \in PositionStates /\ position.qty \in Nat /\ position.lots \in Seq(Lots)
        /\ position.avg \in Int /\ position.name \in Names /\ position.qty = QtyOf(position.lots)
    BY <1>5, PositionIs
  <2>2. new = bigger BY <1>5, <2>1 DEF Added, IsOpen, lot, PositionStates
  <2>3. more \in Seq(Lots) /\ more # <<>> /\ QtyOf(more) = q BY <1>2, <2>1, QtyOfAppend
  <2>4. q \in Nat \ {0} BY <1>1, <2>1
  <2>5. position.avg * position.qty + price * o.qty \in Int BY <1>1, <2>1
  <2>6. avg \in Int BY <2>4, <2>5
  <2> HIDE DEF q, more, avg
  <2>7. bigger \in PositionStates BY <2>1, <2>3, <2>4, <2>6 DEF PositionStates
  <2>8. /\ bigger.qty = q /\ bigger.lots = more /\ bigger.name = position.name
        /\ bigger.dir = position.dir
    BY <2>1 DEF PositionStates
  <2>9. position.name # None BY <2>1, StrategyAssumption
  <2>10. QED BY <1>5, <2>2, <2>3, <2>7, <2>8, <2>9 DEF IsOpen
<1>6. QED BY <1>4, <1>5

\* An exit of less than the position leaves the position, of all of it nothing.
LEMMA ReducedIs ==
    ASSUME BookIsSound, IsOpen, NEW o \in Orders
    PROVE  /\ Reduced(o) \in PositionStates
           /\ Reduced(o).qty = QtyOf(Reduced(o).lots)
           /\ o.qty >= position.qty => Reduced(o) = Flat
           /\ o.qty < position.qty => /\ Reduced(o).dir = position.dir
                                      /\ Reduced(o).name = position.name
                                      /\ Reduced(o).lots # <<>>
<1>1. /\ position \in PositionStates /\ position.qty \in Nat \ {0} /\ position.lots \in Seq(Lots)
      /\ position.qty = QtyOf(position.lots)
  BY PositionIs
<1>2. o.qty \in Nat \ {0} BY OrderFields
<1>3. CASE o.qty >= position.qty
  <2>1. Least(o.qty, position.qty) = position.qty BY <1>1, <1>2, <1>3 DEF Least
  <2>2. Reduced(o) = Flat BY <2>1 DEF Reduced
  <2>3. <<>> \in Seq(Lots) /\ QtyOf(<<>>) = 0
    <3>1. <<>> \in Seq(Lots) OBVIOUS
    <3>2. QED BY <3>1, QtyIs
  <2>4. Flat \in PositionStates /\ Flat.qty = 0 /\ Flat.lots = <<>> BY <2>3 DEF Flat, PositionStates
  <2>5. ~(o.qty < position.qty) BY <1>1, <1>2, <1>3
  <2>6. QED BY <2>2, <2>3, <2>4, <2>5
<1>4. CASE o.qty < position.qty
  <2> DEFINE rest == Taken(position.lots, o.qty, o.from)
             smaller == [position EXCEPT !.qty = position.qty - o.qty, !.lots = rest]
  <2>1. Least(o.qty, position.qty) = o.qty /\ o.qty # position.qty BY <1>1, <1>2, <1>4 DEF Least
  <2>2. Reduced(o) = smaller BY <1>1, <2>1 DEF Reduced, PositionStates
  <2>3. o.qty \in Nat /\ o.qty < QtyOf(position.lots) BY <1>1, <1>2, <1>4
  <2>4. rest \in Seq(Lots) /\ QtyOf(rest) = QtyOf(position.lots) - o.qty BY <1>1, <2>3, TakenIs
  <2> HIDE DEF rest
  <2>5. position.qty - o.qty \in Nat /\ position.qty - o.qty # 0 BY <1>1, <1>2, <1>4
  <2>6. smaller \in PositionStates BY <1>1, <2>4, <2>5 DEF PositionStates
  <2>7. /\ smaller.qty = position.qty - o.qty /\ smaller.lots = rest
        /\ smaller.dir = position.dir /\ smaller.name = position.name
    BY <1>1 DEF PositionStates
  <2>8. rest # <<>> BY <1>1, <2>4, <2>5, QtyIs
  <2>9. ~(o.qty >= position.qty) BY <1>1, <1>2, <1>4
  <2>10. QED BY <1>1, <2>2, <2>4, <2>6, <2>7, <2>8, <2>9
<1>5. QED BY <1>1, <1>2, <1>3, <1>4

\* A fill keeps the book, if the orders that stay are of the position there was.
LEMMA FillKeepsBook ==
    ASSUME BookIsSound, NEW o \in Orders, NEW price \in Int,
           NEW orders \in Seq(Orders), Fits(orders), Fill(o, price, orders)
    PROVE  /\ position' \in PositionStates /\ pending' \in Seq(Orders) /\ entries' \in Nat
           /\ LotsMatchPosition' /\ OcaEndsWithPosition'
<1>1. entries \in Nat BY DEF BookIsSound, StrategyTypeOK
<1>2. CASE position.dir \in {"flat", DirOf(o.action)}
  <2>1. /\ position' = Added(o, price)
        /\ pending' = IF position.dir = "flat" THEN Forget(orders) ELSE orders
        /\ entries' = entries
    BY <1>2 DEF Fill
  <2>2. /\ position' \in PositionStates /\ position'.qty = QtyOf(position'.lots)
        /\ position'.dir # "flat" /\ position'.lots # <<>> /\ position'.name # None
        /\ IsOpen => position'.name = position.name
    BY <2>1, AddedIs
  <2>3. LotsMatchPosition'
    <3>1. QtyOf(position'.lots) = QtyOf(position.lots)' BY DEF QtyOf, Sums
    <3>2. QED BY <2>2, <3>1 DEF LotsMatchPosition, IsOpen
  <2>4. pending' \in Seq(Orders) /\ OcaEndsWithPosition'
    <3>1. CASE ~IsOpen
      <4>1. pending' = Forget(orders) BY <3>1, <2>1 DEF IsOpen
      <4>2. \A i \in DOMAIN orders : orders[i].oca = None \/ orders[i].triggered BY <3>1 DEF Fits
      <4>3. QED BY <4>1, <4>2, ForgetIs DEF OcaEndsWithPosition
    <3>2. CASE IsOpen
      <4>1. pending' = orders BY <3>2, <2>1 DEF IsOpen
      <4>2. QED BY <3>2, <4>1, <2>2 DEF OcaEndsWithPosition, Fits, IsOpen
    <3>3. QED BY <3>1, <3>2
  <2>5. QED BY <1>1, <2>1, <2>2, <2>3, <2>4
<1>3. CASE position.dir \notin {"flat", DirOf(o.action)}
  <2>1. /\ position' = Reduced(o)
        /\ pending' = IF Closes(o) THEN Without(orders, position.name) ELSE orders
        /\ entries' = IF Closes(o) THEN 0 ELSE entries
    BY <1>3 DEF Fill
  <2>2. IsOpen /\ (Closes(o) <=> o.qty >= position.qty) BY <1>3 DEF IsOpen, Closes
  <2>3. o.qty \in Nat /\ position.qty \in Nat BY OrderFields, PositionIs
  <2>4. /\ position' \in PositionStates /\ position'.qty = QtyOf(position'.lots)
        /\ Closes(o) => position' = Flat
        /\ ~Closes(o) => /\ position'.dir = position.dir /\ position'.name = position.name
                         /\ position'.lots # <<>>
    BY <2>1, <2>2, <2>3, ReducedIs
  <2>5. position.name # None BY <2>2, PositionIs, StrategyAssumption
  <2>6. LotsMatchPosition'
    <3>1. CASE Closes(o) BY <3>1, <2>4 DEF LotsMatchPosition, IsOpen, Flat
    <3>2. CASE ~Closes(o) BY <3>2, <2>2, <2>4, <2>5 DEF LotsMatchPosition, IsOpen
    <3>3. QED BY <3>1, <3>2
  <2>7. pending' \in Seq(Orders) /\ OcaEndsWithPosition'
    <3>1. CASE Closes(o)
      <4> DEFINE rest == Without(orders, position.name)
      <4>1. pending' = rest BY <3>1, <2>1
      <4>2. /\ rest \in Seq(Orders) /\ Fits(rest)
            /\ \A i \in DOMAIN rest : rest[i].oca # position.name
        BY WithoutFits
      <4> HIDE DEF rest
      <4>3. \A i \in DOMAIN rest : rest[i].oca = None \/ rest[i].triggered BY <4>2 DEF Fits
      <4>4. QED BY <4>1, <4>2, <4>3 DEF OcaEndsWithPosition
    <3>2. CASE ~Closes(o)
      <4>1. pending' = orders BY <3>2, <2>1
      <4>2. QED BY <3>2, <4>1, <2>2, <2>4 DEF OcaEndsWithPosition, Fits, IsOpen
    <3>3. QED BY <3>1, <3>2
  <2>8. QED BY <1>1, <2>1, <2>4, <2>6, <2>7
<1>4. QED BY <1>2, <1>3

\* Orders that are placed keep the book, if they are of the position there is.
LEMMA PlacedKeepsBook ==
    ASSUME BookIsSound, NEW orders \in Seq(Orders), Fits(orders), Placed(orders),
           UNCHANGED position
    PROVE  pending' \in Seq(Orders) /\ LotsMatchPosition' /\ OcaEndsWithPosition'
<1>1. pending \in Seq(Orders) /\ Fits(pending) BY PositionIs
<1>2. /\ pending' \in Seq(Orders) /\ Len(pending') = Len(pending) + Len(orders)
      /\ \A i \in 1..(Len(pending) + Len(orders)) :
            pending'[i] = IF i <= Len(pending) THEN pending[i] ELSE orders[i - Len(pending)]
  BY <1>1, ConcatProperties DEF Placed
<1>3. /\ Len(pending) \in Nat /\ Len(orders) \in Nat
      /\ DOMAIN pending = 1..Len(pending) /\ DOMAIN orders = 1..Len(orders)
      /\ DOMAIN pending' = 1..Len(pending')
  BY <1>1, <1>2, LenProperties
<1>4. ASSUME NEW i \in DOMAIN pending', pending'[i].oca # None, ~pending'[i].triggered
      PROVE  IsOpen /\ pending'[i].oca = position.name
  <2>1. CASE i <= Len(pending)
    <3>1. i \in DOMAIN pending /\ pending'[i] = pending[i] BY <2>1, <1>2, <1>3
    <3>2. QED BY <3>1, <1>1, <1>4 DEF Fits
  <2>2. CASE ~(i <= Len(pending))
    <3>1. i - Len(pending) \in DOMAIN orders /\ pending'[i] = orders[i - Len(pending)]
      BY <2>2, <1>2, <1>3
    <3>2. QED BY <3>1, <1>4 DEF Fits
  <2>3. QED BY <2>1, <2>2
<1>5. position' = position OBVIOUS
<1>6. LotsMatchPosition' BY <1>5 DEF BookIsSound, LotsMatchPosition, IsOpen
<1>7. OcaEndsWithPosition' BY <1>4, <1>5 DEF OcaEndsWithPosition, IsOpen
<1>8. QED BY <1>2, <1>6, <1>7

\* So do those of the pending orders that are left in place.
LEMMA RestKeepsBook ==
    ASSUME BookIsSound, NEW I \in SUBSET DOMAIN pending, pending' = At(pending, I),
           UNCHANGED position
    PROVE  pending' \in Seq(Orders) /\ LotsMatchPosition' /\ OcaEndsWithPosition'
<1>1. pending \in Seq(Orders) /\ Fits(pending) BY PositionIs
<1>2. At(pending, I) \in Seq(Orders) /\ Fits(At(pending, I)) BY <1>1, AtFits
<1>3. position' = position OBVIOUS
<1>4. LotsMatchPosition' BY <1>3 DEF BookIsSound, LotsMatchPosition, IsOpen
<1> DEFINE rest == At(pending, I)
<1> HIDE DEF rest
<1>5. pending' = rest BY DEF rest
<1>6. rest \in Seq(Orders) /\ Fits(rest) BY <1>2 DEF rest
<1>7. QED BY <1>3, <1>4, <1>5, <1>6 DEF OcaEndsWithPosition, IsOpen, Fits

-----------------------------------------------------------------------------
(* What a script does.                                                     *)

LEMMA CloseOrderIs ==
    ASSUME BookIsSound, IsOpen
    PROVE  CloseOrder \in Orders /\ CloseOrder.oca = None
<1>1. /\ position.qty \in Nat \ {0} /\ position.name \in Names
      /\ position.dir \in {"flat", "long", "short"}
  BY PositionIs
<1>2. Opposite(position.dir) \in {"buy", "sell"} BY DEF Opposite
<1>3. QED BY <1>1, <1>2, NewOrderIs DEF CloseOrder

\* An order that belongs to no position fits, and so do two.
LEMMA FreeOrdersFit ==
    ASSUME NEW o \in Orders, NEW p \in Orders, o.oca = None, p.oca = None
    PROVE  /\ <<o>> \in Seq(Orders) /\ Fits(<<o>>)
           /\ <<o, p>> \in Seq(Orders) /\ Fits(<<o, p>>)
<1>1. /\ <<o>> \in Seq(Orders) /\ DOMAIN <<o>> = {1} /\ <<o>>[1] = o OBVIOUS
<1>2. /\ <<o, p>> \in Seq(Orders) /\ DOMAIN <<o, p>> = {1, 2}
      /\ <<o, p>>[1] = o /\ <<o, p>>[2] = p
  OBVIOUS
<1>3. QED BY <1>1, <1>2 DEF Fits

LEMMA EntryKeepsBook ==
    ASSUME BookIsSound, NEW name \in Names, NEW dir \in {"long", "short"},
           NEW q \in Quantities, NEW f \in EntryForms, Entry(name, dir, q, f.stop, f.limit)
    PROVE  BookIsSound'
<1> DEFINE order == NewOrder(ActionOf(dir), f.stop, f.limit, "none", q, name)
<1>1. f.stop \in Nat /\ f.stop \in Int /\ f.limit \in Nat /\ q \in Nat \ {0}
  <2>1. f \in [stop : Prices \cup {0}, limit : Prices \cup {0}] /\ q \in Nat \ {0}
    BY StrategyAssumption
  <2>2. f.stop \in Prices \cup {0} /\ f.limit \in Prices \cup {0} BY <2>1
  <2>3. QED BY <2>1, <2>2, PriceIs
<1>2. ActionOf(dir) \in {"buy", "sell"} BY DEF ActionOf
<1>3. order \in Orders /\ order.oca = None BY <1>1, <1>2, NewOrderIs
<1>4. /\ UNCHANGED <<longOnly, pc, bar, position, todo, triggers>>
      /\ entries' \in {entries, entries + 1}
      /\ \/ position.dir = "long" /\ Placed(<<CloseOrder>>)
         \/ Placed(<<order>>)
         \/ position.dir \notin {"flat", dir} /\ Placed(<<CloseOrder, order>>)
  BY DEF Entry
<1> HIDE DEF order
<1>5. IsOpen => CloseOrder \in Orders /\ CloseOrder.oca = None BY CloseOrderIs
<1>6. pending' \in Seq(Orders) /\ LotsMatchPosition' /\ OcaEndsWithPosition'
  <2>1. UNCHANGED position BY <1>4
  <2>2. CASE position.dir = "long" /\ Placed(<<CloseOrder>>)
    <3>1. IsOpen BY <2>2 DEF IsOpen
    <3>2. <<CloseOrder>> \in Seq(Orders) /\ Fits(<<CloseOrder>>) BY <3>1, <1>5, FreeOrdersFit
    <3>3. QED BY <2>1, <2>2, <3>2, PlacedKeepsBook
  <2>3. CASE Placed(<<order>>)
    <3>1. <<order>> \in Seq(Orders) /\ Fits(<<order>>) BY <1>3, FreeOrdersFit
    <3>2. QED BY <2>1, <2>3, <3>1, PlacedKeepsBook
  <2>4. CASE position.dir \notin {"flat", dir} /\ Placed(<<CloseOrder, order>>)
    <3>1. IsOpen BY <2>4 DEF IsOpen
    <3>2. <<CloseOrder, order>> \in Seq(Orders) /\ Fits(<<CloseOrder, order>>)
      BY <3>1, <1>3, <1>5, FreeOrdersFit
    <3>3. QED BY <2>1, <2>4, <3>2, PlacedKeepsBook
  <2>5. QED BY <1>4, <2>2, <2>3, <2>4
<1>7. QED BY <1>4, <1>6 DEF BookIsSound, StrategyTypeOK

LEMMA OrderKeepsBook ==
    ASSUME BookIsSound, NEW name \in Names, NEW dir \in {"long", "short"},
           NEW q \in Quantities, Order(name, dir, q)
    PROVE  BookIsSound'
<1> DEFINE order == NewOrder(ActionOf(dir), 0, 0, "none", q, name)
<1>1. ActionOf(dir) \in {"buy", "sell"} /\ q \in Nat \ {0} BY StrategyAssumption DEF ActionOf
<1>2. order \in Orders /\ order.oca = None BY <1>1, NewOrderIs
<1>3. Placed(<<order>>) /\ UNCHANGED <<longOnly, pc, bar, position, todo, triggers, entries>>
  BY DEF Order
<1> HIDE DEF order
<1>4. <<order>> \in Seq(Orders) /\ Fits(<<order>>) BY <1>2, FreeOrdersFit
<1>5. pending' \in Seq(Orders) /\ LotsMatchPosition' /\ OcaEndsWithPosition'
  BY <1>3, <1>4, PlacedKeepsBook
<1>6. QED BY <1>3, <1>5 DEF BookIsSound, StrategyTypeOK

LEMMA CloseKeepsBook == ASSUME BookIsSound, Close PROVE BookIsSound'
<1>1. /\ IsOpen /\ Placed(<<CloseOrder>>)
      /\ UNCHANGED <<longOnly, pc, bar, position, todo, triggers, entries>>
  BY DEF Close
<1>2. <<CloseOrder>> \in Seq(Orders) /\ Fits(<<CloseOrder>>) BY <1>1, CloseOrderIs, FreeOrdersFit
<1>3. pending' \in Seq(Orders) /\ LotsMatchPosition' /\ OcaEndsWithPosition'
  BY <1>1, <1>2, PlacedKeepsBook
<1>4. QED BY <1>1, <1>3 DEF BookIsSound, StrategyTypeOK

\* An exit takes something of the entry or of the position.
LEMMA ExitQtyIs ==
    ASSUME BookIsSound, IsOpen, NEW q \in Nat, NEW from,
           from # None => LotsOf(from) # <<>>
    PROVE  ExitQty(q, from) \in Nat \ {0}
<1>1. position.qty \in Nat \ {0} /\ position.lots \in Seq(Lots) BY PositionIs
<1>2. CASE from # None
  <2> DEFINE own == {i \in DOMAIN position.lots : position.lots[i].name = from}
  <2>1. own \in SUBSET DOMAIN position.lots OBVIOUS
  <2>2. LotsOf(from) = At(position.lots, own) BY DEF LotsOf
  <2> HIDE DEF own
  <2>3. LotsOf(from) \in Seq(Lots) BY <1>1, <2>1, <2>2, AtIs
  <2>4. QtyOf(LotsOf(from)) \in Nat \ {0} BY <1>2, <2>3, QtyIs
  <2>5. ExitQty(q, from) = Least(IF q \in {0, position.qty} THEN QtyOf(LotsOf(from)) ELSE q,
                                 QtyOf(LotsOf(from)))
    BY <1>2 DEF ExitQty
  <2>6. QED BY <2>4, <2>5 DEF Least
<1>3. CASE from = None
  <2>1. ExitQty(q, from) = IF q = 0 THEN position.qty ELSE Least(q, position.qty)
    BY <1>3 DEF ExitQty
  <2>2. QED BY <1>1, <2>1 DEF Least
<1>4. QED BY <1>2, <1>3

LEMMA ExitOrderIs ==
    ASSUME BookIsSound, NEW q \in Nat, NEW f \in ExitForms,
           IsOpen \/ Markets # {},
           IsOpen /\ f.from # None => LotsOf(f.from) # <<>>
    PROVE  /\ ExitOrder(f.name, q, f.stop, f.limit, f.from, f.trail) \in Orders
           /\ Fits(<<ExitOrder(f.name, q, f.stop, f.limit, f.from, f.trail)>>)
<1> DEFINE new == ExitOrder(f.name, q, f.stop, f.limit, f.from, f.trail)
<1>1. /\ f.stop \in Nat /\ f.stop \in Int /\ f.limit \in Nat /\ f.name \in Names
      /\ f.trail \in {"none", "offset", "price"} /\ f.from \in Names \cup {None}
  <2>1. /\ f \in [stop : Prices \cup {0}, limit : Prices \cup {0}, trail : Trails,
                  from : Names \cup {None}, name : Names]
        /\ Trails \subseteq {"none", "offset", "price"}
    BY StrategyAssumption
  <2>2. /\ f.stop \in Prices \cup {0} /\ f.limit \in Prices \cup {0} /\ f.trail \in Trails
        /\ f.from \in Names \cup {None} /\ f.name \in Names
    BY <2>1
  <2>3. QED BY <2>1, <2>2, PriceIs
<1>2. new \in Orders /\ (new.oca # None => IsOpen /\ new.oca = position.name)
  <2>1. CASE IsOpen
    <3> DEFINE exit == NewOrder(Opposite(position.dir), f.stop, f.limit, f.trail,
                                ExitQty(q, f.from), f.name)
               group == IF TypeOf(f.stop, f.limit, f.trail) = "market" THEN None ELSE position.name
    <3>1. ExitQty(q, f.from) \in Nat \ {0} BY <2>1, ExitQtyIs
    <3>2. Opposite(position.dir) \in {"buy", "sell"} BY DEF Opposite
    <3>3. exit \in Orders BY <1>1, <3>1, <3>2, NewOrderIs
    <3>4. position.name \in Names BY <2>1, PositionIs
    <3>5. group \in {None, position.name} OBVIOUS
    <3>6. new = [exit EXCEPT !.from = f.from, !.oca = group] BY <2>1 DEF ExitOrder
    <3> HIDE DEF exit, group
    <3>7. QED BY <1>1, <2>1, <3>3, <3>4, <3>5, <3>6 DEF Orders
  <2>2. CASE ~IsOpen
    <3> DEFINE p == At(pending, Markets)[1]
               qty == IF q = 0 THEN p.qty ELSE q
               action == Opposite(DirOf(p.action))
               exit == NewOrder(action, f.stop, f.limit, f.trail, qty, f.name)
    <3>1. pending \in Seq(Orders) /\ Markets \in SUBSET DOMAIN pending BY PositionIs DEF Markets
    <3>2. /\ At(pending, Markets) \in Seq(Orders)
          /\ Len(At(pending, Markets)) = Cardinality(Markets)
      BY <3>1, AtIs
    <3>3. Cardinality(Markets) # 0
      <4>1. Len(pending) \in Nat /\ DOMAIN pending = 1..Len(pending) BY <3>1, LenProperties
      <4>2. IsFiniteSet(1..Len(pending)) BY <4>1, FS_Interval
      <4>3. IsFiniteSet(Markets) BY <3>1, <4>1, <4>2, FS_Subset
      <4>4. QED BY <2>2, <4>3, FS_EmptySet
    <3>4. p \in Orders
      <4>1. Len(At(pending, Markets)) \in Nat BY <3>2, LenProperties
      <4>2. 1 \in 1..Len(At(pending, Markets)) BY <3>2, <3>3, <4>1
      <4>3. QED BY <3>2, <4>2, ElementOfSeq
    <3>5. qty \in Nat \ {0} BY <3>4, OrderFields
    <3>6. action \in {"buy", "sell"} BY DEF Opposite
    <3>7. new = [exit EXCEPT !.from = f.from] BY <2>2 DEF ExitOrder
    <3> HIDE DEF p, qty, action, new
    <3>8. exit \in Orders /\ exit.oca = None BY <1>1, <3>5, <3>6, EarlyExitIs
    <3> HIDE DEF exit
    <3>9. QED BY <1>1, <3>7, <3>8 DEF Orders
  <2>3. QED BY <2>1, <2>2
<1> HIDE DEF new
<1>3. DOMAIN <<new>> = {1} /\ <<new>>[1] = new OBVIOUS
<1>4. Fits(<<new>>) BY <1>2, <1>3 DEF Fits
<1>5. QED BY <1>2, <1>4 DEF new

LEMMA ExitKeepsBook ==
    ASSUME BookIsSound, NEW q \in Quantities \cup {0}, NEW f \in ExitForms, NEW p \in Prices,
           Exit(f.name, q, f.stop, f.limit, f.from, f.trail, p)
    PROVE  BookIsSound'
<1> DEFINE order == ExitOrder(f.name, q, f.stop, f.limit, f.from, f.trail)
<1>1. /\ IsOpen \/ Markets # {}
      /\ IsOpen /\ f.from # None => LotsOf(f.from) # <<>>
      /\ \/ Fill(order, p, pending)
         \/ Placed(<<order>>) /\ UNCHANGED <<position, entries>>
      /\ UNCHANGED <<longOnly, pc, bar, todo, triggers>>
  BY DEF Exit
<1>2. q \in Nat /\ p \in Int BY StrategyAssumption
<1>3. order \in Orders /\ Fits(<<order>>) BY <1>1, <1>2, ExitOrderIs
<1> HIDE DEF order
<1>4. <<order>> \in Seq(Orders) BY <1>3
<1>5. pending \in Seq(Orders) /\ Fits(pending) BY PositionIs
<1>6. /\ position \in PositionStates /\ entries \in Nat
  BY DEF BookIsSound, StrategyTypeOK
<1>7. /\ position' \in PositionStates /\ pending' \in Seq(Orders) /\ entries' \in Nat
      /\ LotsMatchPosition' /\ OcaEndsWithPosition'
  <2>1. CASE Fill(order, p, pending) BY <1>2, <1>3, <1>5, <2>1, FillKeepsBook
  <2>2. CASE Placed(<<order>>) /\ UNCHANGED <<position, entries>>
    <3>1. UNCHANGED position BY <2>2
    <3>2. pending' \in Seq(Orders) /\ LotsMatchPosition' /\ OcaEndsWithPosition'
      BY <1>3, <1>4, <2>2, <3>1, PlacedKeepsBook
    <3>3. QED BY <1>6, <2>2, <3>2
  <2>3. QED BY <1>1, <2>1, <2>2
<1>8. QED BY <1>1, <1>7 DEF BookIsSound, StrategyTypeOK

LEMMA CancelKeepsBook == ASSUME BookIsSound, NEW i \in DOMAIN pending, Cancel(i) PROVE BookIsSound'
<1>1. /\ pending' = RemoveAt(pending, i)
      /\ UNCHANGED <<longOnly, pc, bar, position, todo, triggers, entries>>
  BY DEF Cancel
<1>2. pending \in Seq(Orders) /\ Fits(pending) BY PositionIs
<1>3. Len(pending) \in Nat /\ DOMAIN pending = 1..Len(pending) BY <1>2, LenProperties
<1>4. /\ pending' \in Seq(Orders) /\ Len(pending') = Len(pending) - 1
      /\ \A k \in 1..(Len(pending) - 1) : pending'[k] = IF k < i THEN pending[k] ELSE pending[k + 1]
  BY <1>1, <1>2, <1>3, RemoveAtIs
<1>5. DOMAIN pending' = 1..(Len(pending) - 1) BY <1>4, LenProperties
<1>6. \A k \in DOMAIN pending' : \E j \in DOMAIN pending : pending'[k] = pending[j]
  <2>1. \A k \in 1..(Len(pending) - 1) : k \in 1..Len(pending) /\ k + 1 \in 1..Len(pending)
    BY <1>3
  <2>2. QED BY <1>3, <1>4, <1>5, <2>1
<1>7. OcaEndsWithPosition' BY <1>1, <1>2, <1>6 DEF OcaEndsWithPosition, Fits, IsOpen
<1>8. LotsMatchPosition' BY <1>1 DEF BookIsSound, LotsMatchPosition, IsOpen
<1>9. QED BY <1>1, <1>4, <1>7, <1>8 DEF BookIsSound, StrategyTypeOK

LEMMA CancelAllKeepsBook == ASSUME BookIsSound, CancelAll PROVE BookIsSound'
<1>1. /\ pending' = <<>>
      /\ UNCHANGED <<longOnly, pc, bar, position, todo, triggers, entries>>
  BY DEF CancelAll
<1>2. pending' \in Seq(Orders) /\ OcaEndsWithPosition' BY <1>1 DEF OcaEndsWithPosition
<1>3. LotsMatchPosition' BY <1>1 DEF BookIsSound, LotsMatchPosition, IsOpen
<1>4. QED BY <1>1, <1>2, <1>3 DEF BookIsSound, StrategyTypeOK

-----------------------------------------------------------------------------
(* What a bar does.                                                        *)

LEMMA BarIs ==
    ASSUME BookIsSound
    PROVE  bar.high \in Int /\ bar.low \in Int /\ bar.close \in Int
<1>1. bar \in Bars \cup {NoBar} BY DEF BookIsSound, StrategyTypeOK
<1>2. CASE bar = NoBar BY <1>2 DEF NoBar
<1>3. CASE bar \in Bars
  <2>1. bar.high \in Prices /\ bar.low \in Prices /\ bar.close \in Prices BY <1>3 DEF Bars
  <2>2. QED BY <2>1, PriceIs
<1>4. QED BY <1>1, <1>2, <1>3

LEMMA NewBarKeepsBook == ASSUME BookIsSound, NEW b \in Bars, NewBar(b) PROVE BookIsSound'
<1>1. /\ pc' = "market" /\ bar' = b /\ todo' = At(pending, Markets)
      /\ pending' = At(pending, DOMAIN pending \ Markets)
      /\ UNCHANGED <<longOnly, position, triggers, entries>>
  BY DEF NewBar
<1>2. pending \in Seq(Orders) /\ Markets \in SUBSET DOMAIN pending BY PositionIs DEF Markets
<1>3. todo' \in Seq(Orders) BY <1>1, <1>2, AtIs
<1> DEFINE rest == DOMAIN pending \ Markets
<1>4. rest \in SUBSET DOMAIN pending /\ pending' = At(pending, rest) BY <1>1
<1> HIDE DEF rest
<1>5. pending' \in Seq(Orders) /\ LotsMatchPosition' /\ OcaEndsWithPosition'
  BY <1>1, <1>4, RestKeepsBook
<1>6. QED BY <1>1, <1>3, <1>5 DEF BookIsSound, StrategyTypeOK

LEMMA CollectKeepsBook == ASSUME BookIsSound, Collect PROVE BookIsSound'
<1> DEFINE hit == {i \in DOMAIN pending : Fills(pending[i])}
           set == {i \in DOMAIN pending : Triggers(pending[i])}
           rest == DOMAIN pending \ (hit \cup set)
<1>1. /\ pc' = "fill" /\ todo' = At(pending, hit) /\ triggers' = At(pending, set)
      /\ pending' = At(pending, rest)
      /\ UNCHANGED <<longOnly, bar, position, entries>>
  BY DEF Collect
<1>2. /\ pending \in Seq(Orders) /\ hit \in SUBSET DOMAIN pending
      /\ set \in SUBSET DOMAIN pending /\ rest \in SUBSET DOMAIN pending
  BY PositionIs
<1> HIDE DEF hit, set, rest
<1>3. todo' \in Seq(Orders) /\ triggers' \in Seq(Orders) BY <1>1, <1>2, AtIs
<1>4. pending' \in Seq(Orders) /\ LotsMatchPosition' /\ OcaEndsWithPosition'
  BY <1>1, <1>2, RestKeepsBook
<1>5. QED BY <1>1, <1>3, <1>4 DEF BookIsSound, StrategyTypeOK

LEMMA FillMarketKeepsBook ==
    ASSUME BookIsSound, NEW price \in Prices, FillMarket(price)
    PROVE  BookIsSound'
<1>1. /\ todo # <<>> /\ Fill(Head(todo), price, pending) /\ todo' = Tail(todo)
      /\ UNCHANGED <<longOnly, pc, bar, triggers>>
  BY DEF FillMarket
<1>2. todo \in Seq(Orders) BY DEF BookIsSound, StrategyTypeOK
<1>3. Head(todo) \in Orders /\ todo' \in Seq(Orders) BY <1>1, <1>2
<1>4. price \in Int BY StrategyAssumption
<1>5. pending \in Seq(Orders) /\ Fits(pending) BY PositionIs
<1>6. /\ position' \in PositionStates /\ pending' \in Seq(Orders) /\ entries' \in Nat
      /\ LotsMatchPosition' /\ OcaEndsWithPosition'
  BY <1>1, <1>3, <1>4, <1>5, FillKeepsBook
<1>7. QED BY <1>1, <1>3, <1>6 DEF BookIsSound, StrategyTypeOK

LEMMA SiblingsFit ==
    ASSUME BookIsSound, NEW o \in Orders
    PROVE  Siblings(o) \in Seq(Orders) /\ Fits(Siblings(o))
<1>1. pending \in Seq(Orders) /\ Fits(pending) BY PositionIs
<1>2. QED BY <1>1, WithoutFits DEF Siblings

LEMMA FillNextKeepsBook == ASSUME BookIsSound, FillNext PROVE BookIsSound'
<1> DEFINE o == Head(todo)
           price == IF o.type = "limit" THEN o.limit ELSE o.stop
<1>1. /\ todo # <<>> /\ Fill(o, price, Siblings(o)) /\ todo' = Tail(todo)
      /\ UNCHANGED <<longOnly, pc, bar, triggers>>
  BY DEF FillNext
<1>2. todo \in Seq(Orders) BY DEF BookIsSound, StrategyTypeOK
<1>3. o \in Orders /\ todo' \in Seq(Orders) BY <1>1, <1>2
<1> HIDE DEF o
<1>4. price \in Int BY <1>3, OrderFields
<1>5. Siblings(o) \in Seq(Orders) /\ Fits(Siblings(o)) BY <1>3, SiblingsFit
<1>6. /\ position' \in PositionStates /\ pending' \in Seq(Orders) /\ entries' \in Nat
      /\ LotsMatchPosition' /\ OcaEndsWithPosition'
  BY <1>1, <1>3, <1>4, <1>5, FillKeepsBook
<1>7. QED BY <1>1, <1>3, <1>6 DEF BookIsSound, StrategyTypeOK

LEMMA TriggerKeepsBook == ASSUME BookIsSound, Trigger PROVE BookIsSound'
<1> DEFINE o == Head(triggers)
           onward == [o EXCEPT !.type = "limit", !.stop = 0, !.state = NoTrail, !.triggered = TRUE]
<1>1. /\ triggers # <<>>
      /\ \/ Fill(o, o.limit, Siblings(o))
         \/ Placed(<<onward>>) /\ UNCHANGED <<position, entries>>
      /\ triggers' = Tail(triggers)
      /\ UNCHANGED <<longOnly, pc, bar, todo>>
  BY DEF Trigger
<1>2. /\ triggers \in Seq(Orders) /\ position \in PositionStates /\ entries \in Nat
  BY DEF BookIsSound, StrategyTypeOK
<1>3. o \in Orders /\ triggers' \in Seq(Orders) BY <1>1, <1>2
<1> HIDE DEF o
<1>4. CASE Fill(o, o.limit, Siblings(o))
  <2>1. o.limit \in Int BY <1>3, OrderFields
  <2>2. Siblings(o) \in Seq(Orders) /\ Fits(Siblings(o)) BY <1>3, SiblingsFit
  <2>3. /\ position' \in PositionStates /\ pending' \in Seq(Orders) /\ entries' \in Nat
        /\ LotsMatchPosition' /\ OcaEndsWithPosition'
    BY <1>3, <1>4, <2>1, <2>2, FillKeepsBook
  <2>4. QED BY <1>1, <1>3, <2>3 DEF BookIsSound, StrategyTypeOK
<1>5. CASE Placed(<<onward>>) /\ UNCHANGED <<position, entries>>
  <2>1. onward \in Orders /\ onward.triggered BY <1>3, OnwardIs
  <2> HIDE DEF onward
  <2>2. <<onward>> \in Seq(Orders) /\ DOMAIN <<onward>> = {1} /\ <<onward>>[1] = onward BY <2>1
  <2>3. Fits(<<onward>>) BY <2>1, <2>2 DEF Fits
  <2>4. UNCHANGED position BY <1>5
  <2>5. pending' \in Seq(Orders) /\ LotsMatchPosition' /\ OcaEndsWithPosition'
    BY <1>5, <2>2, <2>3, <2>4, PlacedKeepsBook
  <2>6. QED BY <1>1, <1>2, <1>3, <1>5, <2>5 DEF BookIsSound, StrategyTypeOK
<1>6. QED BY <1>1, <1>4, <1>5

LEMMA EndBarKeepsBook == ASSUME BookIsSound, EndBar PROVE BookIsSound'
<1>1. /\ pc' = "script" /\ bar' = NoBar
      /\ UNCHANGED <<longOnly, position, todo, triggers, entries>>
      /\ pending' = pending \/ (IsOpen /\ Placed(<<CloseOrder>>))
  BY DEF EndBar
<1>2. pending' \in Seq(Orders) /\ LotsMatchPosition' /\ OcaEndsWithPosition'
  <2>1. CASE pending' = pending
    BY <1>1, <2>1, PositionIs
       DEF BookIsSound, LotsMatchPosition, OcaEndsWithPosition, IsOpen
  <2>2. CASE IsOpen /\ Placed(<<CloseOrder>>)
    <3>1. <<CloseOrder>> \in Seq(Orders) /\ Fits(<<CloseOrder>>)
      BY <2>2, CloseOrderIs, FreeOrdersFit
    <3>2. QED BY <1>1, <2>2, <3>1, PlacedKeepsBook
  <2>3. QED BY <1>1, <2>1, <2>2
<1>3. QED BY <1>1, <1>2 DEF BookIsSound, StrategyTypeOK

\* update() of the trailing stops keeps what an order is, and never moves a
\* stop that trails the wrong way.
LEMMA TrailedIs ==
    ASSUME BookIsSound, NEW o \in Orders
    PROVE  /\ Trailed(o) \in Orders
           /\ Trailed(o).oca = o.oca /\ Trailed(o).triggered = o.triggered
           /\ o.state.active /\ o.stop = o.state.stop =>
                 IF position.dir = "long" THEN Trailed(o).stop >= o.stop
                                          ELSE Trailed(o).stop <= o.stop
<1> DEFINE long    == position.dir = "long"
           seen    == IF o.state.known THEN o.state
                      ELSE [known |-> TRUE, active |-> FALSE, extreme |-> position.avg,
                            stop |-> position.avg]
           active  == seen.active \/ (IF long THEN bar.high >= position.avg + TrailDistance
                                              ELSE bar.low  <= position.avg - TrailDistance)
           extreme == CASE ~active      -> seen.extreme
                        [] ~seen.active -> IF long THEN bar.high ELSE bar.low
                        [] OTHER        -> IF long THEN Most(seen.extreme, bar.high)
                                                   ELSE Least(seen.extreme, bar.low)
           anchor  == IF o.trail = "offset" THEN extreme ELSE bar.close
           next    == IF long THEN anchor - TrailDistance ELSE anchor + TrailDistance
           moves   == active /\ (IF long THEN next > seen.stop ELSE next < seen.stop)
           stop    == IF moves THEN next ELSE o.stop
           state   == [known |-> TRUE, active |-> active, extreme |-> extreme,
                       stop |-> IF moves THEN next ELSE seen.stop]
           new     == [o EXCEPT !.stop = stop, !.state = state]
<1>1. o.state \in TrailStates /\ o.stop \in Int BY OrderFields
<1>2. position.avg \in Int /\ TrailDistance \in Int BY PositionIs, StrategyAssumption
<1>3. bar.high \in Int /\ bar.low \in Int /\ bar.close \in Int BY BarIs
<1>4. CASE o.trail = "none"
  <2>1. Trailed(o) = o BY <1>4 DEF Trailed
  <2>2. QED BY <1>1, <2>1
<1>5. CASE o.trail # "none"
  <2>1. Trailed(o) = new BY <1>5 DEF Trailed
  <2>2. seen.active \in BOOLEAN /\ seen.extreme \in Int /\ seen.stop \in Int
    BY <1>1, <1>2 DEF TrailStates
  <2>3. o.state.active => seen = o.state BY <1>1 DEF TrailStates
  <2> HIDE DEF seen
  <2>4. active \in BOOLEAN BY <2>2
  <2> HIDE DEF active
  <2>5. extreme \in Int BY <1>3, <2>2 DEF Most, Least
  <2> HIDE DEF extreme
  <2>6. anchor \in Int BY <1>3, <2>5
  <2> HIDE DEF anchor
  <2>7. next \in Int BY <1>2, <2>6
  <2> HIDE DEF next
  <2>8. stop \in Int /\ (IF moves THEN next ELSE seen.stop) \in Int BY <1>1, <2>2, <2>7
  <2>9. o.state.active /\ o.stop = o.state.stop =>
            IF position.dir = "long" THEN stop >= o.stop ELSE stop <= o.stop
    <3> SUFFICES ASSUME o.state.active, o.stop = o.state.stop
                 PROVE  IF position.dir = "long" THEN stop >= o.stop ELSE stop <= o.stop
      OBVIOUS
    <3>1. seen.stop = o.stop BY <2>3
    <3>2. QED BY <1>1, <2>7, <3>1
  <2> HIDE DEF moves, stop
  <2>10. state \in TrailStates BY <2>4, <2>5, <2>8 DEF TrailStates
  <2> HIDE DEF state
  <2>11. /\ new \in Orders /\ new.oca = o.oca /\ new.triggered = o.triggered /\ new.stop = stop
    BY <2>8, <2>10 DEF Orders
  <2>12. QED BY <2>1, <2>9, <2>11
<1>6. QED BY <1>4, <1>5

LEMMA TrailIs ==
    ASSUME BookIsSound, Trail
    PROVE  /\ BookIsSound'
           /\ DOMAIN pending' = DOMAIN pending
           /\ \A i \in DOMAIN pending : pending[i] \in Orders /\ pending'[i] = Trailed(pending[i])
<1>1. /\ pc' = "collect" /\ pending' = [i \in DOMAIN pending |-> Trailed(pending[i])]
      /\ UNCHANGED <<longOnly, bar, position, todo, triggers, entries>>
  BY DEF Trail
<1>2. pending \in Seq(Orders) /\ Fits(pending) BY PositionIs
<1>3. Len(pending) \in Nat /\ DOMAIN pending = 1..Len(pending) BY <1>2, LenProperties
<1>4. \A i \in 1..Len(pending) : pending[i] \in Orders BY <1>2, ElementOfSeq
<1> DEFINE new == [i \in 1..Len(pending) |-> Trailed(pending[i])]
<1>5. new \in [1..Len(pending) -> Orders] BY <1>4, TrailedIs
<1>6. new \in Seq(Orders) /\ DOMAIN new = 1..Len(pending) BY <1>3, <1>5, ListIs
<1>7. pending' = new BY <1>1, <1>3
<1>8. \A i \in DOMAIN pending : /\ pending'[i] = Trailed(pending[i])
                               /\ pending'[i].oca = pending[i].oca
                               /\ pending'[i].triggered = pending[i].triggered
  BY <1>3, <1>4, <1>7, TrailedIs
<1> HIDE DEF new
<1>9. OcaEndsWithPosition' BY <1>1, <1>2, <1>3, <1>6, <1>7, <1>8 DEF OcaEndsWithPosition, Fits, IsOpen
<1>10. LotsMatchPosition' BY <1>1 DEF BookIsSound, LotsMatchPosition, IsOpen
<1>11. pending' \in Seq(Orders) BY <1>6, <1>7
<1>12. BookIsSound' BY <1>1, <1>9, <1>10, <1>11 DEF BookIsSound, StrategyTypeOK
<1>13. QED BY <1>3, <1>4, <1>6, <1>7, <1>8, <1>12

-----------------------------------------------------------------------------
(* The book at all times.                                                  *)

LEMMA StrategyInitKeepsBook == StrategyInit => BookIsSound
<1> SUFFICES ASSUME StrategyInit PROVE BookIsSound OBVIOUS
<1>1. <<>> \in Seq(Lots) /\ <<>> \in Seq(Orders) OBVIOUS
<1>2. QtyOf(<<>>) = 0 BY <1>1, QtyIs
<1>3. Flat \in PositionStates BY <1>1 DEF Flat, PositionStates
<1>4. StrategyTypeOK BY <1>1, <1>3 DEF StrategyInit, StrategyTypeOK
<1>5. LotsMatchPosition BY <1>2 DEF StrategyInit, LotsMatchPosition, IsOpen, Flat
<1>6. OcaEndsWithPosition BY DEF StrategyInit, OcaEndsWithPosition
<1>7. QED BY <1>4, <1>5, <1>6 DEF BookIsSound

LEMMA StrategyNextKeepsBook == BookIsSound /\ [StrategyNext]_strategyVars => BookIsSound'
<1> SUFFICES ASSUME BookIsSound, [StrategyNext]_strategyVars PROVE BookIsSound' OBVIOUS
<1>1. CASE Script
  <2>1. ASSUME NEW n \in Names, NEW q \in Quantities, NEW d \in {"long", "short"},
               NEW f \in EntryForms, Entry(n, d, q, f.stop, f.limit)
        PROVE  BookIsSound'
    BY <2>1, EntryKeepsBook
  <2>2. ASSUME NEW n \in Names, NEW q \in Quantities, NEW d \in {"long", "short"}, Order(n, d, q)
        PROVE  BookIsSound'
    BY <2>2, OrderKeepsBook
  <2>3. ASSUME NEW q \in Quantities \cup {0}, NEW f \in ExitForms, NEW p \in Prices,
               Exit(f.name, q, f.stop, f.limit, f.from, f.trail, p)
        PROVE  BookIsSound'
    BY <2>3, ExitKeepsBook
  <2>4. ASSUME NEW i \in DOMAIN pending, Cancel(i) PROVE BookIsSound' BY <2>4, CancelKeepsBook
  <2>5. QED BY <1>1, <2>1, <2>2, <2>3, <2>4, CloseKeepsBook, CancelAllKeepsBook DEF Script
<1>2. CASE UpdateBar
  <2>1. ASSUME NEW b \in Bars, NewBar(b) PROVE BookIsSound' BY <2>1, NewBarKeepsBook
  <2>2. ASSUME NEW p \in Prices, FillMarket(p) PROVE BookIsSound' BY <2>2, FillMarketKeepsBook
  <2>3. QED
    BY <1>2, <2>1, <2>2, TrailIs, CollectKeepsBook, FillNextKeepsBook, TriggerKeepsBook,
       EndBarKeepsBook
       DEF UpdateBar
<1>3. CASE UNCHANGED strategyVars
  <2>1. /\ longOnly' = longOnly /\ pc' = pc /\ bar' = bar /\ position' = position
        /\ pending' = pending /\ todo' = todo /\ triggers' = triggers /\ entries' = entries
    BY <1>3 DEF strategyVars
  <2>2. LotsMatchPosition' /\ OcaEndsWithPosition'
    BY <2>1 DEF BookIsSound, LotsMatchPosition, OcaEndsWithPosition, IsOpen
  <2>3. QED BY <2>1, <2>2 DEF BookIsSound, StrategyTypeOK
<1>4. QED BY <1>1, <1>2, <1>3 DEF StrategyNext

\* A backtest or a live signal never works with a book that is not that of the
\* position: its lots add up to it whichever way fills, cuts and targeted exits
\* came, and no order of its group outlives it (fillOrder(),
\* closeOrReducePosition(), cancelOcaGroup()).
THEOREM BookAlwaysSound == StrategySpec => []BookIsSound
<1>1. QED BY StrategyInitKeepsBook, StrategyNextKeepsBook, PTL DEF StrategySpec

LEMMA StepTightens ==
    BookIsSound /\ [StrategyNext]_strategyVars =>
        (pc = "market" /\ pc' = "collect" /\ IsOpen =>
            \A i \in DOMAIN pending :
                LET o == pending[i] IN
                o.type = "stop" /\ o.state.active /\ o.stop = o.state.stop =>
                IF position.dir = "long" THEN pending'[i].stop >= o.stop
                                         ELSE pending'[i].stop <= o.stop)
<1> SUFFICES ASSUME BookIsSound, [StrategyNext]_strategyVars, pc = "market", pc' = "collect",
                    NEW i \in DOMAIN pending,
                    pending[i].state.active, pending[i].stop = pending[i].state.stop
             PROVE  IF position.dir = "long" THEN pending'[i].stop >= pending[i].stop
                                             ELSE pending'[i].stop <= pending[i].stop
  OBVIOUS
<1>1. Trail
  <2>1. ~ UNCHANGED strategyVars BY DEF strategyVars
  <2>2. ~Script BY DEF Script, Entry, Order, Exit, Close, CancelAll, Cancel
  <2>3. UpdateBar BY <2>1, <2>2 DEF StrategyNext
  <2>4. QED BY <2>3 DEF UpdateBar, NewBar, FillMarket, Collect, FillNext, Trigger, EndBar
<1>2. pending[i] \in Orders /\ pending'[i] = Trailed(pending[i]) BY <1>1, TrailIs
<1>3. QED BY <1>2, TrailedIs

\* Whatever the bars do, a stop that trails moves only with the profit
\* (TrailingStopManager.update()).
THEOREM StopsOnlyTighten == StrategySpec => TrailingOnlyTightens
<1>1. QED BY BookAlwaysSound, StepTightens, PTL DEF StrategySpec, TrailingOnlyTightens
=============================================================================
