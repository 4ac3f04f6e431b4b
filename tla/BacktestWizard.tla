--------------------------- MODULE BacktestWizard ---------------------------
(* The /backtest wizard of a Telegram chat (backtest/wizard.ts and           *)
(* backtest/keyboards.ts): a session collects the settings step by step, and *)
(* its run goes on after the handler that began it.  Every tap is a handler  *)
(* of its own, which acknowledges the tap and only then goes on; meanwhile   *)
(* other taps are handled, and each looks the session up again.              *)
EXTENDS Naturals, Sequences, SequencesExt

CONSTANTS
    Steps,          \* WIZARD_STEPS in their order, two or more, of which "run" is the last
    Offers,         \* what the keyboard of a step offers
    Unset,          \* a setting that is not chosen yet, which no step offers
    MaxSessions, MaxWaiting, MaxBacktests   \* bounds

Settings == ToSet(Front(Steps))

ASSUME WizardAssumption ==
    /\ Steps \in Seq(STRING) /\ Len(Steps) > 1
    /\ Last(Steps) = "run" /\ "run" \notin Settings

VARIABLES
    wizards,        \* every session object that was made
    active,         \* sessions.get(chatId), 0 for none
    waiting,        \* what the handlers that wait will do, in no order
    backtests,      \* executeRun() of a session: [of, phase]
    seen,           \* history: the steps whose keyboard the chat has seen
    leftover        \* history: a run goes on whose session was given up

wizardVars == <<wizards, active, waiting, backtests, seen, leftover>>

NextStep(step) == Steps[CHOOSE i \in DOMAIN Steps : i > 1 /\ Steps[i - 1] = step]

\* buildParams() finds every setting.
Complete(session) == \A s \in Settings : session.picked[s] # Unset

\* "summary" is history: what the message of the run step said.
Fresh ==
    LET nothing == [s \in Settings |-> Unset]
    IN  [step |-> Head(Steps), picked |-> nothing, running |-> FALSE, summary |-> nothing]

WizardInit ==
    /\ wizards = <<>> /\ active = 0
    /\ waiting = <<>> /\ backtests = <<>>
    /\ seen = {} /\ leftover = FALSE

Session == wizards[active]
InFlight == {r \in DOMAIN backtests : backtests[r].phase \in {"accepted", "running"}}

\* A handler goes on with "op" when what it awaits is there.
Await(op) == Len(waiting) < MaxWaiting /\ waiting' = Append(waiting, op)
Resume(i) == waiting' = RemoveAt(waiting, i)

-----------------------------------------------------------------------------

\* /backtest: a session that runs is never replaced.
Start ==
    /\ active # 0 => ~Session.running
    /\ Await([op |-> "start"])
    /\ UNCHANGED <<wizards, active, backtests, seen, leftover>>

\* Mutant of Restart: a session that runs is replaced.
MutantRestart ==
    /\ Await([op |-> "restart"])
    /\ UNCHANGED <<wizards, active, backtests, seen, leftover>>

\* The Restart button, and the Backtest button of the dashboard.
Restart ==
    /\ active # 0 => ~Session.running
    /\ Await([op |-> "restart"])
    /\ UNCHANGED <<wizards, active, backtests, seen, leftover>>

\* The strategies are loaded.  Whether the session runs is not asked again.
Loaded(i) ==
    /\ waiting[i].op \in {"start", "restart"} /\ Len(wizards) < MaxSessions
    /\ Resume(i)
    /\ wizards' = Append(wizards, Fresh)
    /\ active' = Len(wizards')
    /\ seen' = seen \union {Head(Steps)}
    /\ leftover' = (leftover \/ \E r \in InFlight : backtests[r].of = active)
    /\ UNCHANGED backtests

\* There are none: /backtest says so, a restart ends the session after that.
LoadedNone(i) ==
    /\ waiting[i].op \in {"start", "restart"}
    /\ IF waiting[i].op = "restart"
       THEN waiting' = [waiting EXCEPT ![i] = [op |-> "end"]]
       ELSE Resume(i)
    /\ UNCHANGED <<wizards, active, backtests, seen, leftover>>

\* Mutant of Select: a tap on an old keyboard counts.
MutantSelect(step, value) ==
    /\ step \in seen
    /\ active # 0
    /\ wizards' = [wizards EXCEPT ![active].picked[step] = value]
    /\ Await([op |-> "show", step |-> NextStep(step)])
    /\ UNCHANGED <<active, backtests, seen, leftover>>

\* A button of a keyboard.  It counts only in the step it belongs to.
Select(step, value) ==
    /\ step \in seen
    /\ active # 0 /\ Session.step = step
    /\ wizards' = [wizards EXCEPT ![active].picked[step] = value]
    /\ Await([op |-> "show", step |-> NextStep(step)])
    /\ UNCHANGED <<active, backtests, seen, leftover>>

\* The Back button of the step after "step", which always counts.
Back(step) ==
    /\ NextStep(step) \in seen
    /\ Await([op |-> "show", step |-> step])
    /\ UNCHANGED <<wizards, active, backtests, seen, leftover>>

\* showStep(), on the session there is by now.
ShowStep(i) ==
    /\ waiting[i].op = "show"
    /\ Resume(i)
    /\ IF active = 0 THEN UNCHANGED <<wizards, seen>>
       ELSE LET step == waiting[i].step
            IN  /\ wizards' = [wizards EXCEPT
                     ![active].step = step,
                     ![active].summary = IF step = "run" THEN Session.picked ELSE @]
                /\ seen' = seen \union {step}
    /\ UNCHANGED <<active, backtests, leftover>>

Cancel ==
    /\ seen # {}
    /\ Await([op |-> "end"])
    /\ UNCHANGED <<wizards, active, backtests, seen, leftover>>

EndSession(i) ==
    /\ waiting[i].op = "end"
    /\ Resume(i)
    /\ active' = 0
    /\ leftover' = (leftover \/ \E r \in InFlight : backtests[r].of = active)
    /\ UNCHANGED <<wizards, backtests, seen>>

\* A request to Telegram fails, and the handler with it.
HandlerFails(i) ==
    /\ Resume(i)
    /\ UNCHANGED <<wizards, active, backtests, seen, leftover>>

-----------------------------------------------------------------------------

\* The Run button of a session that has every setting.
Run ==
    /\ "run" \in seen
    /\ active # 0 /\ Session.step = "run" /\ ~Session.running
    /\ Complete(Session)
    /\ Len(backtests) < MaxBacktests
    /\ wizards' = [wizards EXCEPT ![active].running = TRUE]
    /\ backtests' = Append(backtests, [of |-> active, phase |-> "accepted"])
    /\ UNCHANGED <<active, waiting, seen, leftover>>

\* A setting is missing: a late showStep() had skipped its step.
RunIncomplete ==
    /\ "run" \in seen
    /\ active # 0 /\ Session.step = "run" /\ ~Session.running
    /\ ~Complete(Session)
    /\ Await([op |-> "show", step |-> "run"])
    /\ UNCHANGED <<wizards, active, backtests, seen, leftover>>

\* The message says that it runs: executeRun().
RunBegins(r) ==
    /\ backtests[r].phase = "accepted"
    /\ backtests' = [backtests EXCEPT ![r].phase = "running"]
    /\ UNCHANGED <<wizards, active, waiting, seen, leftover>>

\* It could not be edited: executeRun() is never called.
RunIsLost(r) ==
    /\ backtests[r].phase = "accepted"
    /\ backtests' = [backtests EXCEPT ![r].phase = "lost"]
    /\ UNCHANGED <<wizards, active, waiting, seen, leftover>>

\* Mutant of RunEnds: the session is kept.
MutantRunEnds(r) ==
    /\ backtests[r].phase = "running"
    /\ backtests' = [backtests EXCEPT ![r].phase = "done"]
    /\ UNCHANGED <<wizards, active, waiting, seen, leftover>>

\* A card, a text or an error was sent, or nothing could be: the session of the
\* chat ends, whichever it is.
RunEnds(r) ==
    /\ backtests[r].phase = "running"
    /\ backtests' = [backtests EXCEPT ![r].phase = "done"]
    /\ active' = 0
    /\ UNCHANGED <<wizards, waiting, seen, leftover>>

WizardNext ==
    \/ Start \/ Restart \/ Cancel \/ Run \/ RunIncomplete
    \/ \E step \in Settings : Back(step) \/ \E value \in Offers[step] : Select(step, value)
    \/ \E i \in DOMAIN waiting :
          Loaded(i) \/ LoadedNone(i) \/ ShowStep(i) \/ EndSession(i) \/ HandlerFails(i)
    \/ \E r \in DOMAIN backtests : RunBegins(r) \/ RunIsLost(r) \/ RunEnds(r)

WizardSpec == WizardInit /\ [][WizardNext]_wizardVars

-----------------------------------------------------------------------------

WizardTypeOK ==
    /\ \A s \in Range(wizards) :
          /\ s.step \in ToSet(Steps) /\ s.running \in BOOLEAN
          /\ \A f \in Settings : {s.picked[f], s.summary[f]} \subseteq Offers[f] \union {Unset}
    /\ active \in 0..Len(wizards)
    /\ \A w \in Range(waiting) : w.op \in {"start", "restart", "show", "end"}
    /\ \A r \in Range(backtests) : r.of \in DOMAIN wizards
                              /\ r.phase \in {"accepted", "running", "lost", "done"}
    /\ seen \subseteq ToSet(Steps) /\ leftover \in BOOLEAN

\* As long as nobody gives up a session that runs, the chat has one run at a
\* time, and the session it belongs to is there until the run has ended (the
\* guards of start(), restart() and run(), and the deletes of executeRun()).
OneRunAtATime ==
    ~leftover => \A r, q \in InFlight : r = q /\ active = backtests[r].of /\ Session.running

\* A session that says it runs has a run that will end it, unless the message
\* that announces the run was lost (the guard of start() would otherwise lock
\* the chat out).
NobodyIsLockedOut ==
    active # 0 /\ Session.running =>
        \E r \in DOMAIN backtests : backtests[r].of = active /\ backtests[r].phase # "done"

\* The step that asks for the confirmation says what would run, whatever taps
\* were handled meanwhile (the guards of the selections against stale taps).
SummaryIsTrue ==
    active # 0 /\ Session.step = "run" => Session.summary = Session.picked

WizardIsSound == WizardTypeOK /\ OneRunAtATime /\ NobodyIsLockedOut /\ SummaryIsTrue
=============================================================================
