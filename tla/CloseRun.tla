------------------------------ MODULE CloseRun ------------------------------
(***************************************************************************)
(* One close run of the close manager (src/src/trading/close-manager.ts):  *)
(* closeAllPositions() sells every position of its snapshot on the chain   *)
(* with a bounded number of workers, retries, a time budget per close and  *)
(* a global deadline.                                                      *)
(*                                                                         *)
(* The chain, the RPC and the engine behind the callbacks are external.  A *)
(* sale that was sent stays pending until it lands or is dropped, however  *)
(* the request that sent it ended.  Time is a clock in coarse units; it    *)
(* does not pass a timer that is due.                                      *)
(***************************************************************************)
EXTENDS Naturals, FiniteSets, Sequences

CONSTANTS
    Positions,           \* the snapshot of getPositions()
    MaxParallelCloses,   \* MAX_PARALLEL_CLOSES
    MaxRetries,          \* EMERGENCY_MAX_RETRIES or GRACEFUL_MAX_RETRIES
    PerCloseTimeout,     \* PER_CLOSE_TIMEOUT_MS, in clock units
    Deadline             \* the deadline of the mode, in clock units

ASSUME CloseRunAssumption ==
    /\ MaxParallelCloses \in Nat \ {0}
    /\ MaxRetries \in Nat
    /\ PerCloseTimeout \in Nat \ {0}
    /\ Deadline \in Nat \ {0}

Attempts == 0..MaxRetries

\* Every timer of a run is due by then: the last position is pulled before
\* the deadline and its timer runs for the per-close budget.
Horizon == Deadline + PerCloseTimeout

VARIABLES
    now,       \* the clock
    run,       \* acquiring the keypair, racing the deadline, or resolved
    phase,     \* where the close of each position is
    attempt,   \* the attempt each close is in
    pulledAt,  \* when a worker pulled the position
    timer,     \* the per-close timer of withTimeout()
    tx,        \* tx[p][a]: the sale sent by attempt a of p
    open,      \* the positions the engine reports as open
    results,   \* the verdicts the workers recorded
    trail,     \* the events announced for each position
    summary    \* the aggregate of the resolved run

vars == <<now, run, phase, attempt, pulledAt, timer, tx, open, results, trail, summary>>

TypeOK ==
    /\ now \in 0..Horizon
    /\ run \in {"acquiring", "racing", "resolved"}
    /\ phase \in [Positions -> {"queued", "preflight", "quoting", "sent", "verifying",
                                "backoff", "done"}]
    /\ attempt \in [Positions -> Attempts]
    /\ pulledAt \in [Positions -> 0..Horizon]
    /\ timer \in [Positions -> {"off", "armed", "cleared", "fired"}]
    /\ tx \in [Positions -> [Attempts -> {"none", "pending", "landed", "dropped"}]]
    /\ open \in SUBSET Positions
    /\ results \in [Positions -> {"none", "closed", "failed", "timed_out"}]
    /\ trail \in [Positions -> Seq({"position_closed", "close_failed"})]
    /\ summary \in [Positions -> {"open", "closed", "failed", "timed_out"}]

Init ==
    /\ now = 0
    /\ run = "acquiring"
    /\ phase = [p \in Positions |-> "queued"]
    /\ attempt = [p \in Positions |-> 0]
    /\ pulledAt = [p \in Positions |-> 0]
    /\ timer = [p \in Positions |-> "off"]
    /\ tx = [p \in Positions |-> [a \in Attempts |-> "none"]]
    /\ open = Positions
    /\ results = [p \in Positions |-> "none"]
    /\ trail = [p \in Positions |-> <<>>]
    /\ summary = [p \in Positions |-> "open"]

-----------------------------------------------------------------------------
(* Verdicts.                                                               *)

Event(status) == IF status = "closed" THEN "position_closed" ELSE "close_failed"

\* Mutant of FireVerdict: no dedupe of the side effects.
MutantFireVerdictAgain(p, status) ==
    trail' = [trail EXCEPT ![p] = Append(@, Event(status))]

\* fireVerdict(): the first verdict of a position is announced, and a closed
\* one upgrades a warning.
FireVerdict(p, status) ==
    trail' = IF trail[p] = <<>> \/ status = "closed"
             THEN [trail EXCEPT ![p] = Append(@, Event(status))]
             ELSE trail

\* closePosition() returns status.  The verdict is recorded only when the
\* per-close timer has not settled the worker's promise before.
Return(p, status) ==
    /\ phase' = [phase EXCEPT ![p] = "done"]
    /\ FireVerdict(p, status)
    /\ IF timer[p] = "fired"
       THEN UNCHANGED <<timer, results>>
       ELSE /\ timer' = [timer EXCEPT ![p] = "cleared"]
            /\ results' = [results EXCEPT ![p] = status]

\* Mutant of AttemptFailed: every error is retried.
MutantAttemptFailed(p, retryable) ==
    \/ /\ attempt[p] < MaxRetries
       /\ phase' = [phase EXCEPT ![p] = "backoff"]
       /\ UNCHANGED <<timer, results, trail>>
    \/ /\ attempt[p] = MaxRetries
       /\ Return(p, "failed")

\* A failed attempt: done for good unless the error proves that nothing was
\* sent and the mode has a retry left.
AttemptFailed(p, retryable) ==
    \/ /\ retryable /\ attempt[p] < MaxRetries
       /\ phase' = [phase EXCEPT ![p] = "backoff"]
       /\ UNCHANGED <<timer, results, trail>>
    \/ /\ ~(retryable /\ attempt[p] < MaxRetries)
       /\ Return(p, "failed")

\* The per-close budget of a close that began at time began.
BudgetLeft(began) == now < began + PerCloseTimeout

-----------------------------------------------------------------------------
(* The run: keypair, workers, timers.                                      *)

\* getKeypair() resolves, or fails the whole run before any swap.
AcquireKeypair ==
    /\ run = "acquiring"
    /\ \/ run' = "racing" /\ UNCHANGED <<results, summary>>
       \/ /\ run' = "resolved"
          /\ results' = [p \in Positions |-> "failed"]
          /\ summary' = results'
    /\ UNCHANGED <<now, phase, attempt, pulledAt, timer, tx, open, trail>>

Busy(p) == phase[p] # "queued" /\ timer[p] = "armed"

\* A free worker pulls a position, arms its timer and runs closePosition() up
\* to its first await.
PullPosition(p) ==
    /\ run = "racing"
    /\ phase[p] = "queued"
    /\ Cardinality({q \in Positions : Busy(q)}) < MaxParallelCloses
    /\ pulledAt' = [pulledAt EXCEPT ![p] = now]
    /\ \/ /\ p \in open
          /\ phase' = [phase EXCEPT ![p] = "preflight"]
          /\ timer' = [timer EXCEPT ![p] = "armed"]
          /\ UNCHANGED <<results, trail>>
       \/ p \notin open /\ Return(p, "failed")
    /\ UNCHANGED <<now, run, attempt, tx, open, summary>>

\* withTimeout() gives up on the close; the close itself goes on.
CloseTimesOut(p) ==
    /\ timer[p] = "armed"
    /\ ~BudgetLeft(pulledAt[p])
    /\ timer' = [timer EXCEPT ![p] = "fired"]
    /\ results' = [results EXCEPT ![p] = "timed_out"]
    /\ FireVerdict(p, "timed_out")
    /\ UNCHANGED <<now, run, phase, attempt, pulledAt, tx, open, summary>>

AllSettled == \A p \in Positions : phase[p] # "queued" /\ timer[p] # "armed"

\* Mutant of ResolveRun: the run waits for the closes themselves.
MutantResolveRun ==
    /\ run = "racing"
    /\ \A p \in Positions : phase[p] = "done"
    /\ run' = "resolved"
    /\ summary' = results
    /\ UNCHANGED <<now, phase, attempt, pulledAt, timer, tx, open, results, trail>>

\* The race of the workers against the deadline is over: a position without a
\* recorded verdict is reported as timed out.
ResolveRun ==
    /\ run = "racing"
    /\ AllSettled \/ now >= Deadline
    /\ run' = "resolved"
    /\ summary' = [p \in Positions |-> IF results[p] = "none" THEN "timed_out" ELSE results[p]]
    /\ UNCHANGED <<now, phase, attempt, pulledAt, timer, tx, open, results, trail>>

Tick ==
    /\ now < Horizon
    /\ \A p \in Positions : timer[p] = "armed" => BudgetLeft(pulledAt[p])
    /\ run = "racing" => now < Deadline
    /\ run # "acquiring"
    /\ now' = now + 1
    /\ UNCHANGED <<run, phase, attempt, pulledAt, timer, tx, open, results, trail, summary>>

-----------------------------------------------------------------------------
(* One attempt: attemptClose().                                            *)

\* preflightClose() refuses, the position cannot be sized, or the quote is
\* asked for.
Preflight(p) ==
    /\ phase[p] = "preflight"
    /\ \/ /\ phase' = [phase EXCEPT ![p] = "quoting"]
          /\ UNCHANGED <<timer, results, trail>>
       \/ AttemptFailed(p, FALSE)
    /\ UNCHANGED <<now, run, attempt, pulledAt, tx, open, summary>>

\* quote() or the part of swap() before the send fails, with an error that is
\* retryable (rate limit, expired blockhash) or not, or the sale is sent.
QuoteAndSend(p) ==
    /\ phase[p] = "quoting"
    /\ \/ \E retryable \in BOOLEAN : AttemptFailed(p, retryable) /\ UNCHANGED tx
       \/ /\ phase' = [phase EXCEPT ![p] = "sent"]
          /\ tx' = [tx EXCEPT ![p][attempt[p]] = "pending"]
          /\ UNCHANGED <<timer, results, trail>>
    /\ UNCHANGED <<now, run, attempt, pulledAt, open, summary>>

\* The chain executes or drops a sale that was sent, at any time.
SettleOnChain(p, a) ==
    /\ tx[p][a] = "pending"
    /\ \E outcome \in {"landed", "dropped"} : tx' = [tx EXCEPT ![p][a] = outcome]
    /\ UNCHANGED <<now, run, phase, attempt, pulledAt, timer, open, results, trail, summary>>

\* swap() returns after the send: confirmed with a signature, without one
\* (the response was lost, or a success carries none), or with a signature
\* whose confirmation raced or failed.
SwapReturns(p) ==
    /\ phase[p] = "sent"
    /\ \/ tx[p][attempt[p]] = "landed" /\ Return(p, "closed")
       \/ AttemptFailed(p, FALSE)
       \/ /\ phase' = [phase EXCEPT ![p] = "verifying"]
          /\ UNCHANGED <<timer, results, trail>>
    /\ UNCHANGED <<now, run, attempt, pulledAt, tx, open, summary>>

\* Mutant of Verify: a signature is taken for a confirmation.
MutantVerify(p) ==
    /\ phase[p] = "verifying"
    /\ Return(p, "closed")
    /\ UNCHANGED <<now, run, attempt, pulledAt, tx, open, summary>>

\* resolveAmbiguousOutcome(): one read of the signature's status.
Verify(p) ==
    /\ phase[p] = "verifying"
    /\ \/ tx[p][attempt[p]] = "landed" /\ Return(p, "closed")
       \/ AttemptFailed(p, FALSE)
    /\ UNCHANGED <<now, run, attempt, pulledAt, tx, open, summary>>

\* Mutant of Retry: the budget is not checked again.
MutantRetry(p) ==
    /\ phase[p] = "backoff"
    /\ attempt' = [attempt EXCEPT ![p] = @ + 1]
    /\ \/ p \notin open /\ Return(p, "failed")
       \/ /\ p \in open
          /\ phase' = [phase EXCEPT ![p] = "preflight"]
          /\ UNCHANGED <<timer, results, trail>>
    /\ UNCHANGED <<now, run, pulledAt, tx, open, summary>>

\* The backoff ends and the loop comes round.
Retry(p) ==
    /\ phase[p] = "backoff"
    /\ attempt' = [attempt EXCEPT ![p] = @ + 1]
    /\ \/ ~BudgetLeft(pulledAt[p]) /\ Return(p, "timed_out")
       \/ BudgetLeft(pulledAt[p]) /\ p \notin open /\ Return(p, "failed")
       \/ /\ BudgetLeft(pulledAt[p]) /\ p \in open
          /\ phase' = [phase EXCEPT ![p] = "preflight"]
          /\ UNCHANGED <<timer, results, trail>>
    /\ UNCHANGED <<now, run, pulledAt, tx, open, summary>>

\* The engine stops reporting a position: it was flattened by a close or by a
\* trade that was still in flight, or shutdown() dropped the executor.
EngineForgets(p) ==
    /\ p \in open
    /\ open' = open \ {p}
    /\ UNCHANGED <<now, run, phase, attempt, pulledAt, timer, tx, results, trail, summary>>

-----------------------------------------------------------------------------

\* Nothing is left to do: every close has ended and every timer is settled.
Finished ==
    /\ run = "resolved"
    /\ \A p \in Positions : phase[p] \in {"queued", "done"}
    /\ UNCHANGED vars

CloseStep(p) ==
    \/ PullPosition(p) \/ CloseTimesOut(p) \/ Preflight(p) \/ QuoteAndSend(p)
    \/ SwapReturns(p) \/ Verify(p) \/ Retry(p)

Next ==
    \/ AcquireKeypair \/ ResolveRun \/ Tick \/ Finished
    \/ \E p \in Positions :
          \/ CloseStep(p) \/ EngineForgets(p)
          \/ \E a \in Attempts : SettleOnChain(p, a)

\* Time passes, timers fire and workers pull; a swap, a quote or a status
\* check may hang for ever (their fetches carry no timeout).
Fairness ==
    /\ WF_vars(AcquireKeypair) /\ WF_vars(ResolveRun) /\ WF_vars(Tick)
    /\ \A p \in Positions : WF_vars(PullPosition(p)) /\ WF_vars(CloseTimesOut(p))

Spec == Init /\ [][Next]_vars /\ Fairness

-----------------------------------------------------------------------------
(* Correctness.                                                            *)

Landed(p) == {a \in Attempts : tx[p][a] = "landed"}

Announced(p, event) == \E i \in 1..Len(trail[p]) : trail[p][i] = event

\* A position is never sold twice in a run: while one attempt's sale is on the
\* chain or may still get there, no other attempt of that position has sent
\* one, whatever was lost, timed out or retried (design decision 6).
SoldAtMostOnce ==
    \A p \in Positions : \A a, b \in Attempts :
        {tx[p][a], tx[p][b]} \subseteq {"pending", "landed"} => a = b

\* A position is recorded or announced as closed only when one of its sales
\* is on the chain (requirement "closed only on confirmed chain truth").
ClosedIsOnChain ==
    \A p \in Positions :
        results[p] = "closed" \/ Announced(p, "position_closed") => Landed(p) # {}

\* No attempt starts for a close whose worker has given up on it: the retry
\* loop goes on in the background, but only to find its budget spent.
NoAttemptAfterTimeout ==
    [][\A p \in Positions :
         phase[p] # "preflight" /\ phase'[p] = "preflight" => timer'[p] = "armed"]_vars

\* The run resolves although any quote, swap or status check may hang for ever,
\* and every close a worker took up is announced to the operator in the end.
RunTerminates ==
    /\ <>(run = "resolved")
    /\ \A p \in Positions : phase[p] # "queued" ~> trail[p] # <<>>

\* The run keeps the contract: CloseContract with the landed sales, the
\* announced events and the summary of this run.
Contract ==
    INSTANCE CloseContract WITH landed <- [p \in Positions |-> Landed(p)]

KeepsContract == Contract!Spec
=============================================================================
