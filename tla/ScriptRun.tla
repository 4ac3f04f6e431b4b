------------------------------ MODULE ScriptRun ------------------------------
(***************************************************************************)
(* What a live script promises: it runs once on every confirmed bar, and   *)
(* on nothing else.  Execute is ExecutionEngine.executeBar()               *)
(* (src/src/language/runtime/interpreter.ts) on the state that the next    *)
(* bar builds upon: the history of prices, a var variable, the window of a *)
(* moving average and the strategy.                                        *)
(***************************************************************************)
EXTENDS Integers, Sequences

CONSTANTS
    Prices,     \* the prices of bars
    Window,     \* the length of the moving average
    Scripts     \* what the script may do on a bar: sets of effects

VARIABLE run

Bars == [price : Prices, does : Scripts]

\* ohlcHistory and barTimestamps; the series of a variable declared with var,
\* one value per bar; a buffer of the moving average; the pending orders, the
\* position they filled, and the markers of the strategy.
Runs == [hist : Seq(Nat), total : Seq(Nat), window : Seq(Nat),
         strategy : [pending : Nat, position : Nat, markers : Nat]]

Nothing == [hist |-> <<>>, total |-> <<>>, window |-> <<>>,
            strategy |-> [pending |-> 0, position |-> 0, markers |-> 0]]

\* pushBarValues() repeats the value of the last bar, and the script's
\* assignment (total := total + close) replaces it in place.
Accumulated(series, price) ==
    Append(series, IF series = <<>> THEN price ELSE series[Len(series)] + price)

\* RingBuffer.push(): the oldest value goes when the window is full.
Pushed(window, price) ==
    Append(IF Len(window) < Window THEN window ELSE Tail(window), price)

\* StrategyEngine.updateBar() fills what is pending before the script runs.
Traded(s, places) ==
    [pending  |-> IF places THEN 1 ELSE 0,
     position |-> s.position + s.pending,
     markers  |-> IF places THEN s.markers + 1 ELSE s.markers]

\* A script that throws is rolled back to the snapshot of the bar, which does
\* not hold the buffers of the indicators nor the strategy.
Execute(r, bar) ==
    [hist     |-> IF "fail" \in bar.does THEN r.hist ELSE Append(r.hist, bar.price),
     total    |-> IF "fail" \in bar.does THEN r.total ELSE Accumulated(r.total, bar.price),
     window   |-> Pushed(r.window, bar.price),
     strategy |-> Traded(r.strategy, "order" \in bar.does)]

\* A session starts with a batch of bars; one bar of it is enough here.
Init == \E bar \in Bars : run = Execute(Nothing, bar)

Confirm == \E bar \in Bars : run' = Execute(run, bar)

Next == Confirm

Spec == Init /\ [][Next]_run
=============================================================================
