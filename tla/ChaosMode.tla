----------------------------- MODULE ChaosMode -----------------------------
(***************************************************************************)
(* The hot swap between a compiled script and the random signals of chaos  *)
(* mode (bot-engine.ts toggleChaosMode, live-strategy-executor.ts          *)
(* setChaosGenerator and clearChaosGenerator, routes/bot.ts), while        *)
(* candles await a balance, orders are on their way and further toggles    *)
(* arrive: an enable waits for the wallet's balance half way, a disable    *)
(* does all of its work at once.  Stops and restarts are the matter of     *)
(* OrderPipeline; here the bot starts once and runs.  Of quantities only   *)
(* whether the wallet holds tokens of a world is kept.                     *)
(***************************************************************************)
EXTENDS Naturals, Sequences

CONSTANTS
    Worlds,      \* the configured worlds, each of a pair of its own
    Toggles,     \* the requests POST /bot/chaos-mode
    MaxCandles,  \* bound: candles the feed delivers
    MaxPatches   \* bound: requests PATCH /bot/config/chaos-mode

ASSUME ModeAssumption == MaxCandles \in Nat /\ MaxPatches \in Nat

Candles == 1..MaxCandles
None == 0

VARIABLES
    trader,     \* the state of the engine: idle, starting or running
    source,     \* the strategy source: it compiles, it does not, there is none
    mode,       \* _config.chaosMode.enabled of the engine
    savedMode,  \* the same in the configuration store
    generator,  \* config.chaosGenerator of the executor is set
    states,     \* the strategy states: objects, made anew by a disable
    current,    \* the objects strategyStates holds now
    confirmed,  \* the worlds in confirmedPositions
    candles,    \* what became of each candle, and the object it works on
    queue,      \* the candles whose signal waits for its turn to be an order
    toggles,    \* what became of each request
    patches,    \* PATCH requests so far
    held,       \* the wallet holds tokens of the world
    excused,    \* ghost: worlds whose tokens a disable or a second buy hid
    overtaken,  \* ghost: an enable finished after a disable
    last        \* ghost: the modes that may count as asked for last

setup == <<trader, source, mode, savedMode, generator>>
book == <<states, current, confirmed, held, excused>>
work == <<candles, queue>>
requests == <<toggles, patches, overtaken, last>>
modeVars == <<setup, book, work, requests>>

\* One generation of objects for the start and one for each request.
Generations == Nat
State == [kind : {"script", "chaos", "none"}, engine : {"flat", "long"},
          position : {"flat", "long"}]

ModeTypeOK ==
    /\ trader \in {"idle", "starting", "running"}
    /\ source \in {"good", "broken", "none"}
    /\ mode \in BOOLEAN /\ savedMode \in BOOLEAN /\ generator \in BOOLEAN
    /\ states \in Seq([Worlds -> State]) /\ current = Len(states)
    /\ confirmed \subseteq Worlds
    /\ candles \in [Candles -> [phase : {"expected", "waiting", "queued", "done"},
                                world : Worlds, object : Generations,
                                signal : {"none", "buy", "sell"}]]
    /\ queue \in Seq(Candles)
    /\ toggles \in [Toggles -> {"expected", "seeding", "over"}]
    /\ patches \in 0..MaxPatches
    /\ held \in [Worlds -> BOOLEAN] /\ excused \subseteq Worlds
    /\ overtaken \in BOOLEAN /\ last \subseteq BOOLEAN

\* The engine was built from the saved configuration.
ModeInit ==
    /\ trader = "idle"
    /\ source \in {"good", "broken", "none"}
    /\ mode \in BOOLEAN /\ savedMode = mode /\ last = {mode}
    /\ generator = FALSE
    /\ states = <<>> /\ current = None
    /\ confirmed = {}
    /\ candles \in [Candles -> {[phase |-> "expected", world |-> w, object |-> None,
                                 signal |-> "none"] : w \in Worlds}]
    /\ queue = <<>>
    /\ toggles = [t \in Toggles |-> "expected"]
    /\ patches = 0
    /\ held = [w \in Worlds |-> FALSE] /\ excused = {}
    /\ overtaken = FALSE

-----------------------------------------------------------------------------
(* The start                                                               *)

\* Mutant of Fresh: the position is missing.
MutantFresh(kind) == [w \in Worlds |-> [kind |-> kind, engine |-> "flat"]]

\* createStrategyState(): a flat position and the engine of its kind.
Fresh(kind) == [w \in Worlds |-> [kind |-> kind, engine |-> "flat", position |-> "flat"]]

\* initialize() reads the mode and gives it to a new executor, before it
\* compiles or seeds the worlds one after the other.
BeginStart ==
    /\ trader = "idle" /\ trader' = "starting"
    /\ generator' = mode
    /\ UNCHANGED <<source, mode, savedMode, book, work, requests>>

\* The worlds are ready, or the source did not compile and the start fails.
EndStart ==
    /\ trader = "starting"
    /\ IF generator \/ source = "good"
       THEN /\ trader' = "running"
            /\ states' = <<Fresh(IF generator THEN "chaos" ELSE "script")>>
            /\ current' = 1
            /\ UNCHANGED generator
       ELSE trader' = "idle" /\ generator' = FALSE /\ UNCHANGED <<states, current>>
    /\ UNCHANGED <<source, mode, savedMode, confirmed, held, excused, work, requests>>

-----------------------------------------------------------------------------
(* The requests                                                            *)

Seeding(t) == toggles[t] = "seeding"
Ready == trader = "running"

\* toggleChaosMode() of a bot that does not run: the route saves the mode,
\* the engine adopts it, and saves it again.
ToggleConfig(t, enabled) ==
    /\ toggles[t] = "expected" /\ ~Ready
    /\ mode' = enabled /\ savedMode' = enabled /\ last' = {enabled}
    /\ toggles' = [toggles EXCEPT ![t] = "over"]
    /\ UNCHANGED <<trader, source, generator, book, work, patches, overtaken>>

\* setChaosGenerator() up to the request of the balance.
BeginEnable(t) ==
    /\ toggles[t] = "expected" /\ Ready
    /\ mode' = TRUE /\ savedMode' = TRUE /\ last' = {TRUE}
    /\ generator' = TRUE
    /\ overtaken' = FALSE
    /\ toggles' = [toggles EXCEPT ![t] = "seeding"]
    /\ UNCHANGED <<trader, source, book, work, patches>>

\* Mutant of EndEnable: the tail saves the mode the request asked for.
MutantEndEnable(t) ==
    /\ Seeding(t)
    /\ states' = [states EXCEPT ![current] = [w \in Worlds |->
                    [@[w] EXCEPT !.kind = "chaos", !.engine = "flat"]]]
    /\ overtaken' = ~generator
    /\ savedMode' \in {savedMode, TRUE}
    /\ toggles' = [toggles EXCEPT ![t] = "over"]
    /\ UNCHANGED <<trader, source, mode, generator, current, confirmed, held, excused, work,
                   patches, last>>

\* Mutant of EndEnable: the worlds are built anew and not converted.
MutantRebuild(t) ==
    /\ Seeding(t)
    /\ states' = [states EXCEPT ![current] = Fresh("chaos")]
    /\ overtaken' = ~generator
    /\ savedMode' \in {savedMode, mode}
    /\ toggles' = [toggles EXCEPT ![t] = "over"]
    /\ UNCHANGED <<trader, source, mode, generator, current, confirmed, held, excused, work,
                   patches, last>>

\* The balance is there, or the floor for it: every world gets a bare engine
\* and loses its script; then the configuration of the engine is saved, as it
\* is by now, unless the write fails.
EndEnable(t) ==
    /\ Seeding(t)
    /\ states' = [states EXCEPT ![current] = [w \in Worlds |->
                    [@[w] EXCEPT !.kind = "chaos", !.engine = "flat"]]]
    /\ overtaken' = ~generator
    /\ savedMode' \in {savedMode, mode}
    /\ toggles' = [toggles EXCEPT ![t] = "over"]
    /\ UNCHANGED <<trader, source, mode, generator, current, confirmed, held, excused, work,
                   patches, last>>

\* clearChaosGenerator(): without any await it drops the generator, rebuilds
\* every world and forgets every confirmed fill; if the source does not compile
\* the generator is put back and the request fails, its mode already saved.
Disable(t) ==
    /\ toggles[t] = "expected" /\ Ready
    /\ mode' = FALSE /\ savedMode' = FALSE /\ last' = {FALSE}
    /\ IF source = "broken" THEN UNCHANGED <<generator, overtaken, book>>
       ELSE /\ generator' = FALSE /\ overtaken' = FALSE
            /\ states' = Append(states, Fresh(IF source = "none" THEN "none" ELSE "script"))
            /\ current' = current + 1
            /\ confirmed' = {}
            /\ excused' = excused \union { w \in Worlds : held[w] }
            /\ UNCHANGED held
    /\ toggles' = [toggles EXCEPT ![t] = "over"]
    /\ UNCHANGED <<trader, source, work, patches>>

\* PATCH writes the store and never tells the engine; the tail of an enable that
\* is still seeding may write over it.
Patch(enabled) ==
    /\ patches < MaxPatches /\ patches' = patches + 1
    /\ savedMode' = enabled
    /\ last' = IF \E t \in Toggles : Seeding(t) THEN last \union {enabled} ELSE {enabled}
    /\ UNCHANGED <<trader, source, mode, generator, book, work, toggles, overtaken>>

-----------------------------------------------------------------------------
(* The candles                                                             *)

\* What one bar makes of the engine e: a script may add to what it holds,
\* chaos may not, and nobody sells what the engine does not hold.
Signals(s) ==
    {"none"} \union (IF s.engine = "flat" \/ s.kind = "script" THEN {"buy"} ELSE {})
             \union (IF s.engine = "long" THEN {"sell"} ELSE {})

\* The engine decides, the position is staged, and the signal waits.
RunBar(c, o) ==
    LET w == candles[c].world
    IN  \E signal \in Signals(states[o][w]) :
          LET stance == IF signal = "buy" THEN "long" ELSE "flat"
          IN  IF signal = "none"
              THEN /\ candles' = [candles EXCEPT ![c].phase = "done", ![c].object = o]
                   /\ UNCHANGED <<states, queue>>
              ELSE /\ states' = [states EXCEPT ![o][w].engine = stance,
                                               ![o][w].position = stance]
                   /\ candles' = [candles EXCEPT ![c].phase = "queued", ![c].object = o,
                                                 ![c].signal = signal]
                   /\ queue' = Append(queue, c)

\* processCandle(): chaos runs at once, on whatever engine the world has; a
\* script waits for the balance first; a world without a script, or chaos on
\* a world without an engine, produces nothing.
CandleArrives(c) ==
    LET s == states[current][candles[c].world]
    IN  /\ Ready /\ candles[c].phase = "expected"
        /\ \A d \in 1..(c - 1) : candles[d].phase # "expected"
        /\ CASE generator /\ s.kind # "none" -> RunBar(c, current)
             [] ~generator /\ s.kind = "script" ->
                  /\ candles' = [candles EXCEPT ![c].phase = "waiting", ![c].object = current]
                  /\ UNCHANGED <<states, queue>>
             [] OTHER -> /\ candles' = [candles EXCEPT ![c].phase = "done"]
                         /\ UNCHANGED <<states, queue>>
        /\ UNCHANGED <<setup, current, confirmed, held, excused, requests>>

\* The balance is there: the bar runs on the object the candle found when it
\* came, or throws because the object has lost its script meanwhile.
Evaluate(c) ==
    LET o == candles[c].object
    IN  /\ candles[c].phase = "waiting"
        /\ IF states[o][candles[c].world].kind = "script" THEN RunBar(c, o)
           ELSE /\ candles' = [candles EXCEPT ![c].phase = "done"]
                /\ UNCHANGED <<states, queue>>
        /\ UNCHANGED <<setup, current, confirmed, held, excused, requests>>

\* updatePositionState(): the outcome replaces what was staged, in the object
\* the world has now.
UpdatePositionState(w, signal, success) ==
    LET holds == IF signal = "buy" THEN success ELSE ~success /\ w \in confirmed
    IN  /\ states' = [states EXCEPT ![current][w].position = IF holds THEN "long" ELSE "flat"]
        /\ confirmed' = IF holds THEN confirmed \union {w} ELSE confirmed \ {w}

\* The order of the first candle in the queue succeeds or fails.
OrderReturns ==
    /\ queue # <<>>
    /\ LET c == Head(queue)
           w == candles[c].world
           signal == candles[c].signal
       IN  \E success \in BOOLEAN :
             /\ success => signal = "buy" \/ held[w]
             /\ UpdatePositionState(w, signal, success)
             /\ held' = IF success THEN [held EXCEPT ![w] = signal = "buy"] ELSE held
             /\ excused' = IF signal = "buy" /\ held[w] THEN excused \union {w} ELSE excused
             /\ candles' = [candles EXCEPT ![c].phase = "done"]
    /\ queue' = Tail(queue)
    /\ UNCHANGED <<setup, current, requests>>

ModeNext ==
    \/ BeginStart \/ EndStart \/ OrderReturns
    \/ \E t \in Toggles : BeginEnable(t) \/ EndEnable(t) \/ Disable(t)
    \/ \E enabled \in BOOLEAN : Patch(enabled) \/ \E t \in Toggles : ToggleConfig(t, enabled)
    \/ \E c \in Candles : CandleArrives(c) \/ Evaluate(c)

ModeSpec == ModeInit /\ [][ModeNext]_modeVars

-----------------------------------------------------------------------------
(* Properties                                                              *)

\* Between two swaps the executor is of one mode: with a generator every world
\* has a chaos engine, without one every world has its script, whatever
\* toggles, failures to compile and candles came before; a bot that is silent
\* because it has neither is one whose disable overtook an enable.
ModeIsWhole ==
    Ready /\ (\A t \in Toggles : ~Seeding(t)) =>
        \A w \in Worlds :
            states[current][w].kind =
              IF generator \/ overtaken THEN "chaos"
              ELSE IF source = "none" THEN "none" ELSE "script"

\* The books survive a swap: once the orders of a world are over, what is
\* reported is held, and tokens that are held are reported, and so closed by a
\* stop, even if the mode changed while the order was on its way; the only
\* tokens out of sight are those a disable found or a second buy was stacked on.
BooksSurviveSwap ==
    \A w \in Worlds :
        Ready /\ (\A c \in Candles : candles[c].world = w => candles[c].phase # "queued") =>
            LET reported == states[current][w].position = "long" /\ w \in confirmed
            IN  w \in excused \/ (reported <=> held[w])

\* A restart finds the mode that was asked for last, although the tails of
\* overlapping requests save in any order; only a PATCH that meets an enable
\* half way may be written over.
DiskHoldsLastToggle == savedMode \in last

\* The mode is settled: in the executor after a swap, on the disk at any time.
ModeIsSettled == ModeTypeOK /\ ModeIsWhole /\ DiskHoldsLastToggle
=============================================================================
