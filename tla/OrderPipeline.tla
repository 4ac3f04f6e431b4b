--------------------------- MODULE OrderPipeline ---------------------------
(***************************************************************************)
(* What the trading bot believes it holds and what it holds: candles run   *)
(* through the scheduler and the strategy executor, orders change the      *)
(* wallet, a stop drains, closes and saves, and a restart restores.        *)
(*                                                                         *)
(* Everything that shares one thread is a step between two awaits.  Runs   *)
(* of the engine are numbered: each has an executor and a scheduler of its *)
(* own, and a candle of an earlier run may still be in progress in a later *)
(* one.  A world is a (symbol, timeframe, strategy); its tokens are held   *)
(* or not, quantities are left out.  A swap that outlives the wait for its *)
(* confirmation lands before the wait ends or not at all, unless the       *)
(* process died.  (src/src/trading/bot-engine.ts, scheduler.ts,            *)
(* live-scheduler.ts, live-strategy-executor.ts)                           *)
(***************************************************************************)
EXTENDS Naturals, Sequences, FiniteSets

CONSTANTS
    Worlds,       \* the configured worlds
    MaxCandles,   \* bound: the closed candles the feed delivers
    LastRun       \* bound: the number of the last run of the engine

ASSUME OrderPipelineAssumption == MaxCandles \in Nat /\ LastRun \in Nat

Candles == 1..MaxCandles
Runs == 0..LastRun

\* Strategy states are keyed by world; the close seam and the tombstones use
\* the key of the pair.  The runs of the engine always carry worlds.
WorldKey(w) == <<w, "symbol:timeframe:strategy">>
PairKey(w) == <<w, "symbol:timeframe">>
StateKeys == {WorldKey(w) : w \in Worlds}

VARIABLES
    engine,     \* running, draining, closing, stopped, or the process crashed
    run,        \* the current run
    tick,       \* the candles: where each is, in which run, with which signals
    queue,      \* the scheduler mutex of each run: its holder, then the waiters
    position,   \* the staged position of each world, per executor
    confirmed,  \* the keys of confirmedPositions, per executor
    strategy,   \* what the strategy engine of each world holds, per executor
    saved,      \* strategy-state.json: the position of each world
    closes,     \* the close of each world, per close run
    tombs,      \* closeAttempts: the close run that marked each world
    tombsDisk,  \* close-attempts.json
    held,       \* the chain: the wallet holds tokens of the world
    history     \* recorded nowhere in the program: the worlds of which, since the
                \* start, an order threw or lost its confirmation; a lost mark

book == <<position, confirmed, strategy>>
vars == <<engine, run, tick, queue, position, confirmed, strategy, saved, closes,
          tombs, tombsDisk, held, history>>

NoRun == LastRun + 1

TypeOK ==
    /\ engine \in {"running", "draining", "closing", "stopped", "crashed"}
    /\ run \in Runs
    /\ tick \in [Candles -> [phase : {"expected", "evaluating", "queued", "ordering", "sent",
                                      "lost", "done"},
                             world : Worlds, run : Runs, executor : Runs,
                             signals : Seq({"buy", "sell"}), landed : BOOLEAN]]
    /\ queue \in [Runs -> Seq(Candles)]
    /\ position \in [Runs -> [Worlds -> {"flat", "long"}]]
    /\ confirmed \in [Runs -> SUBSET (StateKeys \cup {PairKey(w) : w \in Worlds})]
    /\ strategy \in [Runs -> [Worlds -> {"flat", "long"}]]
    /\ saved \in [Worlds -> {"flat", "long"}]
    /\ closes \in [Runs -> [Worlds -> {"none", "snapshot", "selling", "landed", "lost",
                                       "closed", "failed", "unconfirmed"}]]
    /\ tombs \in [Worlds -> Runs \cup {NoRun}]
    /\ tombsDisk \in [Worlds -> Runs \cup {NoRun}]
    /\ held \in [Worlds -> BOOLEAN]
    /\ history \in [threw : SUBSET Worlds, unacked : SUBSET Worlds, markLost : BOOLEAN]

NoBook(value) == [r \in Runs |-> [w \in Worlds |-> value]]

\* The first run starts with nothing on disk; the seeding of the strategy with
\* history may leave it long.
Init ==
    /\ engine = "running"
    /\ run = 0
    /\ tick \in [Candles -> {[phase |-> "expected", world |-> w, run |-> 0, executor |-> 0,
                              signals |-> <<>>, landed |-> FALSE] : w \in Worlds}]
    /\ queue = [r \in Runs |-> <<>>]
    /\ position = NoBook("flat")
    /\ confirmed = [r \in Runs |-> {}]
    /\ \E seeded \in [Worlds -> {"flat", "long"}] : strategy = [NoBook("flat") EXCEPT ![0] = seeded]
    /\ saved = [w \in Worlds |-> "flat"]
    /\ closes = NoBook("none")
    /\ tombs = [w \in Worlds |-> NoRun]
    /\ tombsDisk = tombs
    /\ held = [w \in Worlds |-> FALSE]
    /\ history = [threw |-> {}, unacked |-> {}, markLost |-> FALSE]

-----------------------------------------------------------------------------
(* The executor.                                                           *)

\* Mutant of Reported: no fill has to be confirmed.
MutantReported(w) == position[run][w] = "long"

\* getPositions(): a staged position counts once a fill of its world was
\* confirmed under either form of its key.
Reported(w) ==
    /\ position[run][w] = "long"
    /\ {WorldKey(w), PairKey(w)} \cap confirmed[run] # {}

\* saveState() of the executor of run r, with the positions p.
SaveState(p, r) == saved' = p[r]

\* updatePositionState(): the outcome of an order of world w, as executor r
\* was told it, replaces what was staged.
UpdatePositionState(r, w, action, success) ==
    LET key == WorldKey(w)
        holds == IF action = "buy" THEN success ELSE ~success /\ key \in confirmed[r]
    IN  /\ position' = [position EXCEPT ![r][w] = IF holds THEN "long" ELSE "flat"]
        /\ confirmed' = [confirmed EXCEPT ![r] = IF holds THEN @ \cup {key}
                                                ELSE @ \ {key}]

\* processCandle() staged what the markers of a bar say; the last one counts.
Stage(r, w, signals) ==
    LET stance == IF signals = <<>> THEN position[r][w]
                  ELSE IF signals[Len(signals)] = "buy" THEN "long" ELSE "flat"
    IN  position' = [position EXCEPT ![r][w] = stance]

\* The markers a bar can produce: the strategy exits only what it holds, and
\* may add to what it holds.
Markers(r, w) ==
    {<<>>, <<"buy">>}
      \cup (IF strategy[r][w] = "long" THEN {<<"sell">>, <<"sell", "buy">>} ELSE {})

-----------------------------------------------------------------------------
(* A candle: handleCandle(), liveTick() and tick().                        *)

\* The gate of the engine lets the candle in; processCandle() runs up to the
\* balance request.
CandleArrives(c) ==
    /\ tick[c].phase = "expected"
    /\ \A d \in 1..(c - 1) : tick[d].phase # "expected"
    /\ tick' = [tick EXCEPT ![c].phase = IF engine = "running" THEN "evaluating" ELSE "done",
                            ![c].run = run]
    /\ UNCHANGED <<engine, run, queue, book, saved, closes, tombs, tombsDisk, held, history>>

Aborted(r) == run # r \/ engine # "running"

\* The bar runs on the executor of the candle's run: it fails, or its signals
\* are staged.  The tick drops them when its run was aborted, and queues them
\* for the wallet otherwise.
Evaluate(c) ==
    LET r == tick[c].run
        w == tick[c].world
    IN  /\ tick[c].phase = "evaluating"
        /\ \E signals \in Markers(r, w) :
              /\ Stage(r, w, signals)
              /\ strategy' = IF signals = <<>> THEN strategy
                             ELSE [strategy EXCEPT ![r][w] = position'[r][w]]
              /\ IF signals = <<>> \/ Aborted(r)
                 THEN /\ tick' = [tick EXCEPT ![c].phase = "done"]
                      /\ SaveState(position', r)
                      /\ UNCHANGED queue
                 ELSE /\ tick' = [tick EXCEPT ![c].phase = "queued", ![c].signals = signals]
                      /\ queue' = [queue EXCEPT ![r] = Append(@, c)]
                      /\ UNCHANGED saved
        /\ UNCHANGED <<engine, run, confirmed, closes, tombs, tombsDisk, held, history>>

\* The order of c is over: the next signal of the bar follows, or the mutex
\* goes to the next waiter and the scheduler saves the state of its executor.
OrderOver(c) ==
    IF Len(tick[c].signals) > 1
    THEN /\ tick' = [tick EXCEPT ![c].phase = "queued", ![c].signals = Tail(@),
                                 ![c].landed = FALSE]
         /\ UNCHANGED <<queue, saved>>
    ELSE /\ tick' = [tick EXCEPT ![c].phase = "done", ![c].signals = <<>>, ![c].landed = FALSE]
         /\ queue' = [queue EXCEPT ![tick[c].run] = Tail(@)]
         /\ SaveState(position', tick[c].run)

Down == engine \in {"stopped", "crashed"}

Ordering(r, w) ==
    \E c \in Candles : /\ tick[c].phase \in {"ordering", "sent"}
                       /\ tick[c].executor = r /\ tick[c].world = w

\* submitOrders() hands the signal to the executor of the engine, whichever
\* run that belongs to; its mutex admits one order of a world at a time.
BeginOrder(c) ==
    /\ tick[c].phase = "queued"
    /\ Head(queue[tick[c].run]) = c
    /\ ~Down
    /\ ~Ordering(run, tick[c].world)
    /\ tick' = [tick EXCEPT ![c].phase = "ordering", ![c].executor = run]
    /\ UNCHANGED <<engine, run, queue, book, saved, closes, tombs, tombsDisk, held, history>>

\* Without an executor every signal of the bar fails.
DropOrders(c) ==
    /\ tick[c].phase = "queued"
    /\ Head(queue[tick[c].run]) = c
    /\ engine = "stopped"
    /\ tick' = [tick EXCEPT ![c].phase = "done", ![c].signals = <<>>]
    /\ queue' = [queue EXCEPT ![tick[c].run] = Tail(@)]
    /\ SaveState(position, tick[c].run)
    /\ UNCHANGED <<engine, run, book, closes, tombs, tombsDisk, held, history>>

\* getKeypair(), getBalance() or quote() throws: nothing is reconciled.
OrderThrows(c) ==
    /\ tick[c].phase = "ordering"
    /\ UNCHANGED book
    /\ OrderOver(c)
    /\ history' = [history EXCEPT !.threw = @ \cup {tick[c].world}]
    /\ UNCHANGED <<engine, run, closes, tombs, tombsDisk, held>>

\* Mutant of OrderFails: a blocked or failed order is not reconciled.
MutantOrderFails(c) ==
    /\ tick[c].phase = "ordering"
    /\ UNCHANGED book
    /\ OrderOver(c)
    /\ UNCHANGED <<engine, run, closes, tombs, tombsDisk, held, history>>

\* The risk gate, the dust guard or the balance blocks a buy, or swap() fails
\* before the send.
OrderFails(c) ==
    /\ tick[c].phase = "ordering"
    /\ UpdatePositionState(tick[c].executor, tick[c].world, Head(tick[c].signals), FALSE)
    /\ OrderOver(c)
    /\ UNCHANGED <<engine, run, strategy, closes, tombs, tombsDisk, held, history>>

SendOrder(c) ==
    /\ tick[c].phase = "ordering"
    /\ tick' = [tick EXCEPT ![c].phase = "sent"]
    /\ UNCHANGED <<engine, run, queue, book, saved, closes, tombs, tombsDisk, held, history>>

\* A sent order lands; a sale needs tokens to sell.
OrderLands(c) ==
    LET w == tick[c].world
        buy == Head(tick[c].signals) = "buy"
    IN  /\ tick[c].phase \in {"sent", "lost"} /\ ~tick[c].landed
        /\ buy \/ held[w]
        /\ held' = [held EXCEPT ![w] = buy]
        /\ tick' = [tick EXCEPT ![c].landed = TRUE]
        /\ UNCHANGED <<engine, run, queue, book, saved, closes, tombs, tombsDisk, history>>

\* swap() returns a success, or a failure although the order was sent.
OrderReturns(c) ==
    /\ tick[c].phase = "sent"
    /\ \E success \in BOOLEAN :
          /\ success => tick[c].landed
          /\ UpdatePositionState(tick[c].executor, tick[c].world, Head(tick[c].signals), success)
          /\ history' = IF success THEN history
                        ELSE [history EXCEPT !.unacked = @ \cup {tick[c].world}]
    /\ OrderOver(c)
    /\ UNCHANGED <<engine, run, strategy, closes, tombs, tombsDisk, held>>

-----------------------------------------------------------------------------
(* A stop: abort, drain, close run, shutdown.                              *)

\* stop(), emergencyStop() and the risk handlers abort the candles first.
BeginStop ==
    /\ engine = "running"
    /\ engine' = "draining"
    /\ UNCHANGED <<run, tick, queue, book, saved, closes, tombs, tombsDisk, held, history>>

\* drainInFlightProcessing() ends, with every candle settled or at its
\* deadline, and the close run takes its snapshot of getPositions().
EndDrain ==
    /\ engine = "draining"
    /\ engine' = "closing"
    /\ closes' = [closes EXCEPT ![run] =
                    [w \in Worlds |-> IF Reported(w) THEN "snapshot" ELSE "none"]]
    /\ UNCHANGED <<run, tick, queue, book, saved, tombs, tombsDisk, held, history>>

\* Mutant of PrepareClose: the mark of an earlier run is no reason to refuse.
MutantPrepareClose(w) ==
    /\ engine = "closing"
    /\ closes[run][w] = "snapshot"
    /\ IF Reported(w)
       THEN /\ closes' = [closes EXCEPT ![run][w] = "selling"]
            /\ tombs' = [tombs EXCEPT ![w] = run]
       ELSE /\ closes' = [closes EXCEPT ![run][w] = "failed"]
            /\ UNCHANGED tombs
    /\ UNCHANGED <<engine, run, tick, queue, book, saved, tombsDisk, held, history>>

\* The close of a world starts: prepareCloseAttempt() marks it, or refuses it
\* because an earlier close run marked it and never confirmed.
PrepareClose(w) ==
    /\ engine = "closing"
    /\ closes[run][w] = "snapshot"
    /\ IF Reported(w) /\ tombs[w] \in {run, NoRun}
       THEN /\ closes' = [closes EXCEPT ![run][w] = "selling"]
            /\ tombs' = [tombs EXCEPT ![w] = run]
       ELSE /\ closes' = [closes EXCEPT ![run][w] = "failed"]
            /\ UNCHANGED tombs
    /\ UNCHANGED <<engine, run, tick, queue, book, saved, tombsDisk, held, history>>

\* The sale of a close lands, whether or not anybody waits for it.
SaleLands(r, w) ==
    /\ closes[r][w] \in {"selling", "lost"}
    /\ held[w]
    /\ held' = [held EXCEPT ![w] = FALSE]
    /\ closes' = [closes EXCEPT ![r][w] = IF @ = "lost" THEN "unconfirmed" ELSE "landed"]
    /\ UNCHANGED <<engine, run, tick, queue, book, saved, tombs, tombsDisk, history>>

\* handlePositionClosed(): flatten the world under the key of its pair, clear
\* its mark, save the executor of the engine, if it still has one.
HandlePositionClosed(w) ==
    /\ IF ~Down /\ PairKey(w) \in StateKeys
       THEN position' = [position EXCEPT ![run][w] = "flat"]
       ELSE UNCHANGED position
    /\ tombs' = [tombs EXCEPT ![w] = NoRun]
    /\ IF Down THEN UNCHANGED saved ELSE SaveState(position', run)

\* A close ends: confirmed, without a confirmation, or nothing was sent.  It
\* may end long after its run resolved, in a later run of the engine even.
CloseReturns(r, w) ==
    /\ engine # "crashed"
    /\ \/ /\ closes[r][w] = "landed"
          /\ closes' = [closes EXCEPT ![r][w] = "closed"]
          /\ HandlePositionClosed(w)
       \/ /\ closes[r][w] \in {"selling", "landed"}
          /\ closes' = [closes EXCEPT ![r][w] = "unconfirmed"]
          /\ UNCHANGED <<position, tombs, saved>>
       \/ /\ closes[r][w] = "selling"
          /\ closes' = [closes EXCEPT ![r][w] = "failed"]
          /\ UNCHANGED <<position, tombs, saved>>
    /\ UNCHANGED <<engine, run, tick, queue, confirmed, strategy, tombsDisk, held, history>>

\* The close run resolved, at its deadline at the latest; shutdown() saves the
\* state and drops the executor.
Shutdown ==
    /\ engine = "closing"
    /\ engine' = "stopped"
    /\ SaveState(position, run)
    /\ UNCHANGED <<run, tick, queue, book, closes, tombs, tombsDisk, held, history>>

-----------------------------------------------------------------------------
(* Disk, restart and crash.                                                *)

\* A write of persistCloseAttempts() reaches the disk.
FlushMarks ==
    /\ engine # "crashed"
    /\ tombsDisk # tombs
    /\ tombsDisk' = tombs
    /\ UNCHANGED <<engine, run, tick, queue, book, saved, closes, tombs, held, history>>

\* start(): initialize() loads the marks, builds a fresh executor and restores
\* the saved positions as confirmed, under both forms of their key.
Start ==
    /\ Down
    /\ run < LastRun
    /\ engine' = "running"
    /\ run' = run + 1
    /\ tombs' = tombsDisk
    /\ position' = [position EXCEPT ![run + 1] = saved]
    /\ confirmed' = [confirmed EXCEPT ![run + 1] =
                       UNION {{WorldKey(w), PairKey(w)} : w \in {v \in Worlds : saved[v] = "long"}}]
    /\ \E seeded \in [Worlds -> {"flat", "long"}] :
          strategy' = [strategy EXCEPT ![run + 1] = seeded]
    /\ history' = [threw |-> {}, unacked |-> {}, markLost |-> history.markLost \/ tombs # tombsDisk]
    /\ UNCHANGED <<tick, queue, saved, closes, tombsDisk, held>>

\* The process dies: what was sent may still land, the files stay, and the
\* memory is gone.
Crash ==
    /\ engine # "crashed"
    /\ engine' = "crashed"
    /\ tick' = [c \in Candles |->
                  IF tick[c].phase = "expected" THEN tick[c]
                  ELSE IF tick[c].phase = "sent" /\ ~tick[c].landed
                       THEN [tick[c] EXCEPT !.phase = "lost"]
                       ELSE [tick[c] EXCEPT !.phase = "done", !.signals = <<>>, !.landed = FALSE]]
    /\ queue' = [r \in Runs |-> <<>>]
    /\ closes' = [r \in Runs |-> [w \in Worlds |->
                    CASE closes[r][w] = "selling" -> "lost"
                      [] closes[r][w] = "landed" -> "unconfirmed"
                      [] OTHER -> closes[r][w]]]
    /\ position' = NoBook("flat")
    /\ confirmed' = [r \in Runs |-> {}]
    /\ strategy' = NoBook("flat")
    /\ tombs' = tombsDisk
    /\ history' = [threw |-> {}, unacked |-> {}, markLost |-> history.markLost \/ tombs # tombsDisk]
    /\ UNCHANGED <<run, saved, tombsDisk, held>>

-----------------------------------------------------------------------------

CandleStep(c) ==
    \/ CandleArrives(c) \/ Evaluate(c)
    \/ BeginOrder(c) \/ DropOrders(c) \/ OrderThrows(c) \/ OrderFails(c)
    \/ SendOrder(c) \/ OrderLands(c) \/ OrderReturns(c)

CloseStep(w) == PrepareClose(w) \/ \E r \in Runs : SaleLands(r, w) \/ CloseReturns(r, w)

\* The last run is down and nothing is in progress.
Finished == Down /\ run = LastRun /\ UNCHANGED vars

Next ==
    \/ BeginStop \/ EndDrain \/ Shutdown \/ FlushMarks \/ Start \/ Crash \/ Finished
    \/ \E c \in Candles : CandleStep(c)
    \/ \E w \in Worlds : CloseStep(w)

Spec == Init /\ [][Next]_vars

-----------------------------------------------------------------------------
(* Correctness.                                                            *)

\* No candle of w is between its signals and the end of its orders.
Settled(w) ==
    \A c \in Candles : tick[c].world = w => tick[c].phase \notin {"queued", "ordering", "sent"}

\* While the bot trades, the staged position of a world whose orders are all
\* over is the last confirmed one, however the bars of the world, its orders
\* and their failures interleaved (unless an order threw: its outcome counts as
\* unknown and the stage stays).
BooksSettle ==
    engine = "running" /\ run = 0 =>
        \A w \in Worlds :
            Settled(w) /\ w \notin history.threw =>
                (position[run][w] = "long" <=> WorldKey(w) \in confirmed[run])

\* No phantom position: in the first run, a position that is reported while no
\* order of its world is in progress is held, unless a confirmation was lost.
NoPhantom ==
    engine \in {"running", "draining"} /\ run = 0 =>
        \A w \in Worlds :
            Settled(w) /\ w \notin history.unacked /\ Reported(w) => held[w]

\* A close whose sale was sent, and of which nobody knows that it is over.
Unresolved(r, w) == closes[r][w] \in {"selling", "landed", "lost", "unconfirmed"}

\* A later run never sells again what an earlier close run may have sold
\* without knowing, whatever stops, crashes and restarts there were, unless the
\* mark of that close never reached the disk (the promise of the tombstones).
ResaleOnlyAfterLostMark ==
    [][\A w \in Worlds :
         closes[run][w] # "selling" /\ closes'[run][w] = "selling"
           => history.markLost \/ \A r \in Runs : ~Unresolved(r, w)]_vars

\* Every stop path closes all open positions: what the books of a settled world
\* confirm as held is in the snapshot of the close run.
SnapshotIsComplete ==
    [][EndDrain => \A w \in Worlds :
         Settled(w) /\ w \notin history.threw /\ WorldKey(w) \in confirmed[run]
           => closes'[run][w] = "snapshot"]_vars
=============================================================================
