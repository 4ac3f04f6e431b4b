---------------------------- MODULE BotLifecycle ----------------------------
(***************************************************************************)
(* The lifecycle of the trading engine (src/src/trading/bot-engine.ts) and *)
(* the bot state machine it drives (types.ts, state-machine.ts).           *)
(*                                                                         *)
(* A caller is one asynchronous invocation site of the engine: an HTTP     *)
(* request of the bot routes, a Telegram command, a risk-breach handler or *)
(* the signal handler of the server.  JavaScript runs one callback at a    *)
(* time, so everything a method does between two awaits is one action, and *)
(* pc[c] names the await the call of c is suspended at.                    *)
(***************************************************************************)
EXTENDS FiniteSets

CONSTANTS
    Callers,   \* concurrent invocation sites of the engine
    Configs,   \* the configurations configure() may be given
    NoConfig   \* _config before the first configure()

Config ==
    [autoSelect : BOOLEAN,   \* pick the pairs when none are configured
     pairs      : BOOLEAN,   \* pairs is a non-empty list
     worlds     : BOOLEAN,   \* worlds is a non-empty list
     chaos      : BOOLEAN,   \* chaosMode.enabled
     source     : BOOLEAN]   \* strategySource is present

ASSUME ConfigsAssumption == Configs \subseteq Config /\ NoConfig \notin Config

BotState == {"Idle", "Starting", "Running", "Stopping", "Stopped", "Error"}

BOT_STATE_TRANSITIONS ==
    [Idle     |-> {"Starting", "Error"},
     Starting |-> {"Running", "Error"},
     Running  |-> {"Stopping", "Error"},
     Stopping |-> {"Stopped", "Error"},
     Stopped  |-> {"Idle", "Starting", "Error"},
     Error    |-> {"Stopped"}]

VARIABLES
    state,                \* the state of the bot's state machine
    config,               \* _config
    startedAt,            \* _startedAt holds a start time
    closeRunInProgress,   \* the single-flight guard of the stop pipeline
    abort,                \* _abortController: none, armed or aborted
    executor,             \* strategyExecutor, scheduler, dex and closeManager exist
    feed,                 \* barFeed exists
    pc,                   \* where each caller's invocation is suspended
    kind,                 \* which stop a caller is running
    sawChaos,             \* isChaosMode as start() read it before its first await
    outcome               \* how each caller's last invocation settled

vars == <<state, config, startedAt, closeRunInProgress, abort, executor, feed,
          pc, kind, sawChaos, outcome>>

engineVars == <<config, startedAt, closeRunInProgress, abort, executor, feed>>

StartPhases == {"building", "connecting"}
TeardownPhases == {"draining", "closing", "persisting"}
RunPhases == TeardownPhases \union {"notifying", "releasing"}

TypeOK ==
    /\ state \in BotState
    /\ config \in Config \union {NoConfig}
    /\ startedAt \in BOOLEAN
    /\ closeRunInProgress \in BOOLEAN
    /\ abort \in {"none", "armed", "aborted"}
    /\ executor \in BOOLEAN
    /\ feed \in BOOLEAN
    /\ pc \in [Callers -> {"idle", "selecting"} \union StartPhases \union RunPhases]
    /\ kind \in [Callers -> {"stop", "emergency"}]
    /\ sawChaos \in [Callers -> BOOLEAN]
    /\ outcome \in [Callers -> {"none", "resolved", "rejected", "ignored"}]

Init ==
    /\ state = "Idle"
    /\ config = NoConfig
    /\ startedAt = FALSE
    /\ closeRunInProgress = FALSE
    /\ abort = "none"
    /\ executor = FALSE
    /\ feed = FALSE
    /\ pc = [c \in Callers |-> "idle"]
    /\ kind = [c \in Callers |-> "stop"]
    /\ sawChaos = [c \in Callers |-> FALSE]
    /\ outcome = [c \in Callers |-> "none"]

-----------------------------------------------------------------------------
(* Building blocks.                                                        *)

\* Mutant of CanTransition: the transition map is not consulted.
MutantCanTransition(to) == to \in BotState

CanTransition(to) == to \in BOT_STATE_TRANSITIONS[state]

Goto(c, phase) == pc' = [pc EXCEPT ![c] = phase]

\* The promise of c's invocation settles and c may call again.
Settle(c, result) ==
    /\ pc' = [pc EXCEPT ![c] = "idle"]
    /\ outcome' = [outcome EXCEPT ![c] = result]

Reject(c) == Settle(c, "rejected") /\ UNCHANGED state

-----------------------------------------------------------------------------
(* configure, the chaos toggle's change of the configuration, reset, and   *)
(* the public error recorder.                                              *)

Configure(c, cfg) ==
    /\ pc[c] = "idle"
    /\ \/ /\ state \in {"Idle", "Stopped"}
          /\ config' = cfg
          /\ Settle(c, "resolved")
       \/ /\ state \notin {"Idle", "Stopped"}
          /\ Settle(c, "rejected")
          /\ UNCHANGED config
    /\ UNCHANGED <<state, startedAt, closeRunInProgress, abort, executor, feed,
                   kind, sawChaos>>

\* toggleChaosMode writes the flag whatever the state of the bot is.
ToggleChaosMode(c, enabled) ==
    /\ pc[c] = "idle"
    /\ \/ /\ config # NoConfig
          /\ config' = [config EXCEPT !.chaos = enabled]
          /\ Settle(c, "resolved")
       \/ /\ config = NoConfig
          /\ Settle(c, "rejected")
          /\ UNCHANGED config
    /\ UNCHANGED <<state, startedAt, closeRunInProgress, abort, executor, feed,
                   kind, sawChaos>>

\* The fields are cleared before the transition is validated.
Reset(c) ==
    /\ pc[c] = "idle"
    /\ \/ /\ state \in {"Stopped", "Error"}
          /\ startedAt' = FALSE
          /\ \/ CanTransition("Idle") /\ state' = "Idle" /\ Settle(c, "resolved")
             \/ ~CanTransition("Idle") /\ Reject(c)
       \/ /\ state \notin {"Stopped", "Error"}
          /\ Reject(c)
          /\ UNCHANGED startedAt
    /\ UNCHANGED <<config, closeRunInProgress, abort, executor, feed, kind, sawChaos>>

\* recordError(..., Fatal) while Running moves the bot to Error and leaves
\* every component of the run alive.
RecordFatalError ==
    /\ state = "Running"
    /\ state' = "Error"
    /\ UNCHANGED <<config, startedAt, closeRunInProgress, abort, executor, feed,
                   pc, kind, sawChaos, outcome>>

-----------------------------------------------------------------------------
(* start().                                                                *)

\* The checks of start() between auto-selection and the first transition;
\* chaos is the value read before the auto-selection was awaited.
Startable(cfg, chaos) ==
    /\ cfg.worlds \/ cfg.pairs \/ cfg.autoSelect
    /\ chaos \/ cfg.source

BeginStarting(c, cfg, chaos) ==
    /\ config' = cfg
    /\ \/ /\ Startable(cfg, chaos) /\ CanTransition("Starting")
          /\ state' = "Starting"
          /\ Goto(c, "building")
          /\ UNCHANGED outcome
       \/ /\ ~(Startable(cfg, chaos) /\ CanTransition("Starting"))
          /\ Reject(c)
    /\ UNCHANGED <<startedAt, closeRunInProgress, abort, executor, feed, kind>>

NeedsSelection(cfg) == cfg.autoSelect /\ ~cfg.pairs

StartCall(c) ==
    /\ pc[c] = "idle"
    /\ \/ /\ state \in {"Idle", "Stopped"} /\ config # NoConfig
          /\ NeedsSelection(config)
          /\ sawChaos' = [sawChaos EXCEPT ![c] = config.chaos]
          /\ Goto(c, "selecting")
          /\ UNCHANGED <<state, engineVars, kind, outcome>>
       \/ /\ state \in {"Idle", "Stopped"} /\ config # NoConfig
          /\ ~NeedsSelection(config)
          /\ BeginStarting(c, config, config.chaos)
          /\ UNCHANGED sawChaos
       \/ /\ ~(state \in {"Idle", "Stopped"} /\ config # NoConfig)
          /\ Reject(c)
          /\ UNCHANGED <<engineVars, kind, sawChaos>>

\* The auto-selection resolves: its pairs go into whatever configuration is
\* current by now, and nothing re-reads the state before the transition does.
PairsSelected(c) ==
    /\ pc[c] = "selecting"
    /\ \/ /\ BeginStarting(c, [config EXCEPT !.pairs = TRUE], sawChaos[c])
          /\ UNCHANGED sawChaos
       \/ /\ Reject(c)
          /\ UNCHANGED <<engineVars, kind, sawChaos>>

\* The catch block of start(): a fatal error is recorded in a state other
\* than Running, the bot goes to Error and nothing is torn down.
StartFailed(c) ==
    /\ CanTransition("Error") /\ state' = "Error"
    /\ Settle(c, "rejected")
    /\ UNCHANGED startedAt

\* initialize() up to the strategies: the executor exists before they are
\* compiled, and compiling needs a source unless chaos drives the engine.
BuildExecutor(c) ==
    /\ pc[c] = "building"
    /\ abort' = "armed"
    /\ executor' = TRUE
    /\ config' = [config EXCEPT !.pairs = config.pairs \/ config.worlds]
    /\ \/ /\ config.chaos \/ config.source
          /\ Goto(c, "connecting")
          /\ UNCHANGED <<state, startedAt, outcome>>
       \/ StartFailed(c)
    /\ UNCHANGED <<closeRunInProgress, feed, kind, sawChaos>>

\* The rest of initialize() (the feed exists before it connects) and, when
\* it succeeds, the start of the run.
ConnectFeed(c) ==
    /\ pc[c] = "connecting"
    /\ feed' = TRUE
    /\ \/ /\ CanTransition("Running") /\ state' = "Running"
          /\ startedAt' = TRUE
          /\ Settle(c, "resolved")
       \/ StartFailed(c)
    /\ UNCHANGED <<config, closeRunInProgress, abort, executor, kind, sawChaos>>

-----------------------------------------------------------------------------
(* stop(), emergencyStop() and the risk-breach handlers.                   *)

\* Mutant of TryBeginCloseRun: the guard is taken but not tested.
MutantTryBeginCloseRun == closeRunInProgress' = TRUE

TryBeginCloseRun == ~closeRunInProgress /\ closeRunInProgress' = TRUE

\* The synchronous prefix of both stops: take the close run, abort the
\* in-flight candle processing, leave Running.
BeginCloseRun(c, k) ==
    /\ TryBeginCloseRun
    /\ abort' = IF abort = "armed" THEN "aborted" ELSE abort
    /\ state' = IF state = "Running" THEN "Stopping" ELSE state
    /\ kind' = [kind EXCEPT ![c] = k]
    /\ Goto(c, "draining")
    /\ UNCHANGED outcome

\* Mutant of IgnoreStop: the abort comes before the single-flight test.
MutantIgnoreStop(c) ==
    /\ closeRunInProgress
    /\ abort' = IF abort = "armed" THEN "aborted" ELSE abort
    /\ Settle(c, "ignored")
    /\ UNCHANGED <<state, closeRunInProgress, kind>>

\* tryBeginCloseRun() fails: the call returns as if it had succeeded.
IgnoreStop(c) ==
    /\ closeRunInProgress
    /\ Settle(c, "ignored")
    /\ UNCHANGED <<state, closeRunInProgress, abort, kind>>

StopFrom(c, k, states) ==
    /\ pc[c] = "idle"
    /\ \/ state \in states /\ (BeginCloseRun(c, k) \/ IgnoreStop(c))
       \/ /\ state \notin states
          /\ Reject(c)
          /\ UNCHANGED <<closeRunInProgress, abort, kind>>
    /\ UNCHANGED <<config, startedAt, executor, feed, sawChaos>>

StopCall(c) == StopFrom(c, "stop", {"Running"})

EmergencyStopCall(c) == StopFrom(c, "emergency", {"Running", "Error"})

\* A rolling-loss, daily-loss or wallet-balance breach.
RiskBreach(c) == state = "Running" /\ EmergencyStopCall(c)

\* The drain never fails: it is a race against its own deadline.
DrainInFlightProcessing(c) ==
    /\ pc[c] = "draining"
    /\ Goto(c, "closing")
    /\ UNCHANGED <<state, engineVars, kind, sawChaos, outcome>>

\* Mutant of StopFailed: the catch block records the error only.
MutantStopFailedNoError(c) ==
    /\ Goto(c, "releasing")
    /\ UNCHANGED <<state, closeRunInProgress, outcome>>

\* The catch block of a stop whose shutdown threw.  From Error the transition
\* to Error is illegal: it throws, and finally releases the run at once.
StopFailed(c) ==
    \/ /\ CanTransition("Error") /\ state' = "Error"
       /\ Goto(c, "releasing")
       /\ UNCHANGED <<closeRunInProgress, outcome>>
    \/ /\ ~CanTransition("Error") /\ Reject(c)
       /\ closeRunInProgress' = FALSE

\* closeOpenPositions() resolves whatever the closes did; shutdown() then
\* disconnects the feed and awaits the save of the strategy state.
CloseOpenPositions(c) ==
    /\ pc[c] = "closing"
    /\ \/ /\ feed' = FALSE
          /\ Goto(c, "persisting")
          /\ UNCHANGED <<state, closeRunInProgress, outcome>>
       \/ StopFailed(c) /\ UNCHANGED feed
    /\ UNCHANGED <<config, startedAt, abort, executor, kind, sawChaos>>

\* The rest of shutdown() and the transition to Stopped; the close run stays
\* taken while the subscribers are notified.
Shutdown(c) ==
    /\ pc[c] = "persisting"
    /\ executor' = FALSE
    /\ abort' = "none"
    /\ CanTransition("Stopped") /\ state' = "Stopped"
    /\ Goto(c, "notifying")
    /\ UNCHANGED <<config, startedAt, closeRunInProgress, feed, kind, sawChaos, outcome>>

\* notifyStoppedSafely() settled, or the failed stop's await did: finally.
ReleaseCloseRun(c) ==
    /\ pc[c] \in {"notifying", "releasing"}
    /\ closeRunInProgress' = FALSE
    /\ Settle(c, "resolved")
    /\ UNCHANGED <<state, config, startedAt, abort, executor, feed, kind, sawChaos>>

-----------------------------------------------------------------------------

\* A call of c that is suspended at an await continues.
Continue(c) ==
    \/ PairsSelected(c) \/ BuildExecutor(c) \/ ConnectFeed(c)
    \/ DrainInFlightProcessing(c) \/ CloseOpenPositions(c) \/ Shutdown(c)
    \/ ReleaseCloseRun(c)

Call(c) ==
    \/ \E cfg \in Configs : Configure(c, cfg)
    \/ \E enabled \in BOOLEAN : ToggleChaosMode(c, enabled)
    \/ Reset(c) \/ StartCall(c) \/ StopCall(c) \/ EmergencyStopCall(c) \/ RiskBreach(c)

Next == RecordFatalError \/ \E c \in Callers : Call(c) \/ Continue(c)

\* Every await of these methods ends: a promise of the feed, of the disk, of
\* the deadline-bounded drain and closes, or of the bounded notification.
Spec == Init /\ [][Next]_vars /\ \A c \in Callers : WF_vars(Continue(c))

-----------------------------------------------------------------------------
(* Correctness.                                                            *)

\* The close run is single-flight (tryBeginCloseRun): the guard is up exactly
\* while one caller is between taking it and its finally block, so two stops
\* can never sell the same position twice.
SingleCloseRun ==
    /\ closeRunInProgress <=> \E c \in Callers : pc[c] \in RunPhases
    /\ \A c, d \in Callers : pc[c] \in RunPhases /\ pc[d] \in RunPhases => c = d

\* Two start() calls that raced through the auto-selection never initialize
\* the engine together, and no start() initializes it while a stop is still
\* tearing the previous run down (shutdown() would null the new components).
StartsAlone ==
    \A c, d \in Callers :
        pc[c] \in StartPhases /\ pc[d] \in StartPhases \union TeardownPhases => c = d

\* A Running bot has its executor, its feed and an abort signal that is not
\* yet aborted: no stop of an earlier run, ignored stop or late continuation
\* of another call leaves a bot that reports Running and cannot trade.
RunningIsArmed ==
    state = "Running" => executor /\ feed /\ abort = "armed"

\* A bot that reports Idle or Stopped has no live feed and no executor, also
\* when it got there from a start that failed half way or a fatal error.
HaltedIsDown ==
    state \in {"Idle", "Stopped"} => ~executor /\ ~feed /\ abort = "none"

\* A suspended call owns the state it is suspended in: nothing another caller
\* does moves the bot out of Starting under an initializing start(), or out of
\* Stopping (Error, for an emergency stop from Error) under a stop that is
\* still tearing down, and what the call has built or torn down stays so.
PhaseOwnsState ==
    \A c \in Callers :
        /\ pc[c] \in StartPhases \union {"selecting"} => config # NoConfig
        /\ pc[c] \in StartPhases => state = "Starting"
        /\ pc[c] = "connecting" => executor /\ abort = "armed"
        /\ pc[c] \in TeardownPhases => state \in {"Stopping", "Error"}
        /\ pc[c] = "persisting" => ~feed

\* The state tells which components live, and so does every suspended call.
StateIsHonest == RunningIsArmed /\ HaltedIsDown /\ PhaseOwnsState

\* Every stop that took the close run leaves the bot halted or in Error
\* (shutdown threw); it never stays in Stopping.  And the close-run guard is
\* always released, also when a shutdown throws and also when the stop came
\* from Error, where even the transition to Error of the catch block throws.
StopTerminates ==
    /\ \A c \in Callers : pc[c] = "draining" ~> state \in {"Stopped", "Error"}
    /\ closeRunInProgress ~> ~closeRunInProgress
=============================================================================
