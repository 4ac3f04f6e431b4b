------------------------------- MODULE MCChart -------------------------------
(* What a chart shows: the indicators (IndicatorDisplay), the bars under     *)
(* them (ChartBars), and the session on the server that runs a script as     *)
(* the ticks come (FormingCandle).  A behaviour moves one part, which Init   *)
(* chooses; the others stay at their beginning, and the bounds of each are   *)
(* its own.                                                                  *)
EXTENDS IndicatorDisplay, ChartBars, FormingCandle, TLC

CONSTANTS i1, i2, gold, btc

VARIABLE part
allVars == <<part, vars, barsVars, sessionVars>>

MCIds == {i1, i2}
MCTopics == {gold, btc}
MCSymmetry == Permutations(MCIds)

\* The script orders, fires an alert and draws a line, replaces its oldest
\* line, or throws on the way.
MCScripts == {{}, {"order"}, {"alert", "line"}, {"trim", "line"}, {"order", "alert", "line", "fail"}}

IdleBar == CHOOSE bar \in Script!Bars : bar.does = {}

MCInit ==
    /\ part \in {"indicators", "bars", "session"}
    /\ Init /\ (part # "indicators" => server = {})
    /\ BarsInit /\ (part # "bars" => topic = gold)
    /\ SessionInit
    /\ part # "session" =>
          run = Script!Execute(Script!Nothing, IdleBar) /\ lines = {} /\ alerts = <<>>

MCNext ==
    \/ part = "indicators" /\ Next /\ UNCHANGED <<part, barsVars, sessionVars>>
    \/ part = "bars" /\ BarsNext /\ UNCHANGED <<part, vars, sessionVars>>
    \/ part = "session" /\ SessionNext /\ UNCHANGED <<part, vars, barsVars>>

MCSpec == MCInit /\ [][MCNext]_allVars
=============================================================================
