---------------------------- MODULE FormingCandle ----------------------------
(***************************************************************************)
(* A live script session: FormingCandleManager                             *)
(* (src/backend/src/session/FormingCandleManager.ts) over the engine and   *)
(* its forming-candle processor (src/src/language/runtime/forming-candle.ts).*)
(* A tick runs the script on a bar that is still open and takes back what  *)
(* the run did; a confirmed bar runs it for good.  The feed may skip the   *)
(* ticks of a bar, lose its confirmation or send it twice.                 *)
(***************************************************************************)
EXTENDS Integers, Sequences, FiniteSets, SequencesExt

CONSTANTS
    Prices,
    Window,         \* the bars an average reads
    Scripts,        \* what a run may do: "order", "alert", "line", "trim" the
                    \* oldest line, "fail"
    MaxAlerts,      \* maxAlertEntries
    MaxBars,        \* bound: the bars of a session
    MaxLines        \* bound: the lines that the runs of a session create

ASSUME SessionAssumption ==
    /\ Prices \subseteq Nat /\ Window \in Nat \ {0}
    /\ Scripts \subseteq SUBSET {"order", "alert", "line", "trim", "fail"}
    /\ MaxAlerts \in Nat \ {0} /\ MaxBars \in Nat /\ MaxLines \in Nat

VARIABLES
    run,        \* what the next bar builds upon (ScriptRun)
    lines,      \* the ids of the lines there are
    nextLine,   \* lineIdCounter
    alerts,     \* alertTriggers: the time of each
    told,       \* _lastMarkerCount
    times,      \* the times of the bars of the manager
    confirmed,  \* lastConfirmedTimestamp
    counted,    \* lastAlertTriggerCount
    news,       \* _pendingNewTriggers
    gap         \* history: a bar failed, was confirmed unseen or never confirmed

drawings == <<lines, nextLine>>
sessionVars == <<run, drawings, alerts, told, times, confirmed, counted, news, gap>>

Script == INSTANCE ScriptRun

Truncated(s, n) == IF Len(s) > n THEN SubSeq(s, 1, n) ELSE s
Oldest(set)     == CHOOSE l \in set : \A k \in set : l <= k

SessionTypeOK ==
    /\ run \in Script!Runs
    /\ lines \in SUBSET Nat /\ nextLine \in Nat
    /\ \A l \in lines : l < nextLine
    /\ alerts \in Seq(Nat) /\ Len(alerts) <= MaxAlerts
    /\ told \in Nat
    /\ times \in Seq(Nat) /\ times # <<>>
    /\ confirmed \in Nat /\ confirmed <= Last(times)
    /\ counted \in 0 .. MaxAlerts
    /\ news \in Seq(Nat)
    /\ gap \in BOOLEAN

\* ScriptSession.initialize() runs one bar and hands it to the manager.
SessionInit ==
    /\ \E bar \in Script!Bars :
          /\ "fail" \notin bar.does
          /\ run = Script!Execute(Script!Nothing, bar)
          /\ lines = IF "line" \in bar.does THEN {0} ELSE {}
          /\ nextLine = Cardinality(lines)
          /\ alerts = IF "alert" \in bar.does THEN <<1>> ELSE <<>>
    /\ told = run.strategy.markers
    /\ times = <<1>>
    /\ confirmed = 1
    /\ counted = Len(alerts)
    /\ news = <<>>
    /\ gap = FALSE

-----------------------------------------------------------------------------
(* executeBar(), but for ScriptRun's part of it.                           *)

Fails(bar) == "fail" \in bar.does

\* Mutant of Capped: nothing is dropped.
MutantCapped(s) == s

\* trimAlertArrays() drops the oldest.
Capped(s) == IF Len(s) > MaxAlerts THEN Tail(s) ELSE s

Alerted(bar, t) ==
    IF "alert" \in bar.does /\ ~Fails(bar) THEN Capped(Append(alerts, t)) ELSE alerts

\* line.delete() of the oldest line, then line.new().
Trimmed(bar) ==
    IF "trim" \in bar.does /\ lines # {} /\ ~Fails(bar) THEN lines \ {Oldest(lines)} ELSE lines
Draws(bar) == "line" \in bar.does /\ ~Fails(bar)
Drawn(bar) == Trimmed(bar) \cup (IF Draws(bar) THEN {nextLine} ELSE {})

-----------------------------------------------------------------------------
(* computeFormingCandle().                                                 *)

\* Mutant of Restored: the variables are left as the run made them.
MutantRestored(before, after) ==
    [after EXCEPT !.hist = Truncated(@, Len(before.hist)),
                  !.window = before.window, !.strategy = before.strategy]

\* The history and the variables are cut back to their lengths; the buffers
\* and the strategy come out of a copy.
Restored(before, after) ==
    [hist     |-> Truncated(after.hist, Len(before.hist)),
     total    |-> Truncated(after.total, Len(before.total)),
     window   |-> before.window,
     strategy |-> before.strategy]

\* Mutant of CutBack: the triggers of the run stay.
MutantCutBack(after) == after

CutBack(after) == Truncated(after, Len(alerts))

\* New lines are told from old ones by comparing their id with the number of
\* lines there were; lineIdCounter goes on.
Erased(after) ==
    IF Cardinality(after) > Cardinality(lines)
      THEN {l \in after : l < Cardinality(lines)} ELSE after

ComputeFormingCandle(bar, t) ==
    /\ run' = Restored(run, Script!Execute(run, bar))
    /\ lines' = Erased(Drawn(bar))
    /\ nextLine' = IF Draws(bar) THEN nextLine + 1 ELSE nextLine
    /\ alerts' = CutBack(Alerted(bar, t))
    /\ told' = Script!Execute(run, bar).strategy.markers

Bounded == nextLine < MaxLines

-----------------------------------------------------------------------------
(* FormingCandleManager.                                                   *)

\* Mutant of WithTick: a tick of the bar that forms is taken for a new bar.
MutantWithTick(t) == Append(times, t)

\* The bar of a tick replaces the last one or goes behind it.
WithTick(t) == IF Last(times) = t THEN times ELSE Append(times, t)

\* tick(): of the bar that forms or of a later one; or of the last bar that was
\* run for good, when the history of the session ends with an open bar.
Tick(bar, t) ==
    /\ t \in {Last(times), Last(times) + 1} /\ t >= confirmed /\ t <= MaxBars
    /\ Bounded
    /\ ComputeFormingCandle(bar, t)
    /\ times' = WithTick(t)
    /\ gap' = (gap \/ (Last(times) > confirmed /\ t > Last(times)))
    /\ UNCHANGED <<confirmed, counted, news>>

\* confirm() of a bar that is newer than the last confirmed one: it takes the
\* place of the last bar, whichever that is.
Confirm(bar, t) ==
    /\ t > confirmed /\ t \in {Last(times), Last(times) + 1} /\ t <= MaxBars
    /\ Bounded
    /\ confirmed' = t
    /\ times' = [times EXCEPT ![Len(times)] = t]
    /\ run' = Script!Execute(run, bar)
    /\ lines' = Drawn(bar)
    /\ nextLine' = IF Draws(bar) THEN nextLine + 1 ELSE nextLine
    /\ alerts' = Alerted(bar, t)
    /\ told' = run'.strategy.markers
    /\ news' = SubSeq(alerts', counted + 1, Len(alerts'))
    /\ counted' = Len(alerts')
    /\ gap' = (gap \/ Fails(bar) \/ t # Last(times))

\* confirm() of the last confirmed bar again, before a later bar has begun: it
\* is run like a tick.
ConfirmAgain(bar) ==
    /\ Last(times) = confirmed
    /\ Bounded
    /\ ComputeFormingCandle(bar, confirmed)
    /\ UNCHANGED <<times, confirmed, counted, news, gap>>

\* The gateway reads the triggers when a confirmed bar is done.
GetPendingNewAlertTriggers ==
    /\ news # <<>>
    /\ news' = <<>>
    /\ UNCHANGED <<run, drawings, alerts, told, times, confirmed, counted, gap>>

SessionNext ==
    \/ \E bar \in Script!Bars, t \in 1 .. MaxBars : Tick(bar, t) \/ Confirm(bar, t)
    \/ \E bar \in Script!Bars : ConfirmAgain(bar)
    \/ GetPendingNewAlertTriggers

SessionSpec == SessionInit /\ [][SessionNext]_sessionVars

-----------------------------------------------------------------------------
(* Correctness.                                                            *)

\* However many ticks come between two confirmed bars, whatever they make the
\* script do and whether or not it throws, the run of a confirmed bar starts
\* from what the confirmed bars before it left: this implements ScriptRun.
\* (It is Script!Spec; steps that leave the run alone need not be looked at.)
TicksLeaveNoTrace == Script!Init /\ [][run' # run => Script!Next]_run

\* The news of a confirmed bar are its own alert, once, whatever alerts the
\* ticks before it fired (as long as no trigger was dropped for their number).
AlertsAreNews ==
    [][confirmed' > confirmed /\ Len(alerts) < MaxAlerts =>
          /\ news' \in {<<>>, <<confirmed'>>}
          /\ (\E i \in DOMAIN alerts' : alerts'[i] = confirmed') => news' # <<>>]_sessionVars

\* The index under which the manager hands a bar to the engine is the place of
\* the bar in the engine's history, unless a bar failed or was skipped.
IndexFits ==
    ~gap => Len(times) = Len(run.hist) + (IF Last(times) > confirmed THEN 1 ELSE 0)

\* The same with the types.
SessionIsSound == SessionTypeOK /\ IndexFits
=============================================================================
