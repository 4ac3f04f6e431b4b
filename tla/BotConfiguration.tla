-------------------------- MODULE BotConfiguration --------------------------
(***************************************************************************)
(* The configuration of the bot: the engine's copy, the file bot-config.   *)
(* json, and what a start makes of it (src/backend/src/routes/bot.ts,      *)
(* src/src/trading/config-store.ts, bot-engine.ts).  A selection of worlds *)
(* by backtests takes minutes; it runs for /bot/backtest, or inside a      *)
(* start() that has no pairs, while everything else goes on.               *)
(*                                                                         *)
(* The mode (chaosMode) is the subject of ChaosMode, and off here; the     *)
(* states of the bot are that of BotLifecycle, and only whether it may be  *)
(* configured matters here.                                                *)
(***************************************************************************)
EXTENDS Naturals, Sequences, SequencesExt

CONSTANTS
    Pairs,          \* a symbol and a timeframe each
    Strategies,     \* the sources of strategies
    NoStrategy,     \* the empty source, which is none of them
    MaxEvents       \* bound: configurations, backtests, starts and restarts

ASSUME ConfigAssumption == MaxEvents \in Nat /\ NoStrategy \notin Strategies

VARIABLES
    config,     \* _config of the engine; id tells the objects apart
    disk,       \* the file
    bot,        \* "down" (Idle, Stopped), "starting", or "up"
    tests,      \* the /bot/backtest requests in flight: the config of each
    starts,     \* the start() calls that await onAutoSelect: the config of each
    wired,      \* of the last initialize(): the pairs of the feed, the worlds
    chosen,     \* history: the last strategy a request asked for
    flaws,      \* history: what happened that loses or splits a configuration
    events      \* how many bounded events happened

configVars == <<config, disk, bot, tests, starts, wired, chosen, flaws, events>>

\* Pairs and worlds are lists; the first pair is the one a migration keeps.
Lists == {l \in UNION {[1..n -> Pairs] : n \in 0..2} : IsInjective(l)}
Rankings == Lists \ {<<>>}

Content == [strategy : Strategies \cup {NoStrategy}, auto : BOOLEAN, pairs : Lists, worlds : Lists]
Configs == [id : 0..MaxEvents, is : Content]
NoConfig == [id |-> 0,
             is |-> [strategy |-> NoStrategy, auto |-> FALSE, pairs |-> <<>>, worlds |-> <<>>]]
NoFile == NoConfig.is

ConfigTypeOK ==
    /\ config \in Configs /\ disk \in Content
    /\ bot \in {"down", "starting", "up"}
    /\ tests \subseteq Configs /\ starts \subseteq 0..MaxEvents
    /\ wired \in [feed : Lists, worlds : Lists]
    /\ chosen \in Strategies \cup {NoStrategy}
    /\ flaws \subseteq {"overtaken", "split", "deleted", "selected"}
    /\ events \in 0..MaxEvents

ConfigInit ==
    /\ config = NoConfig /\ disk = NoFile
    /\ bot = "down" /\ tests = {} /\ starts = {}
    /\ wired = [feed |-> <<>>, worlds |-> <<>>]
    /\ chosen = NoStrategy /\ flaws = {} /\ events = 0

Occurs == events < MaxEvents /\ events' = events + 1

\* A configuration is a new object, whoever makes it.
Configured(content) == config' = [id |-> events + 1, is |-> content]

-----------------------------------------------------------------------------
(* Requests.                                                               *)

\* Mutant of Merged: the configuration is built from the request alone.
MutantMerged(request) ==
    [strategy |-> request.strategy, auto |-> request.auto,
     pairs |-> request.pairs, worlds |-> config.is.worlds]

\* What a request leaves out keeps its value; it cannot change the worlds.
Merged(request) ==
    [config.is EXCEPT
        !.strategy = IF request.strategy = NoStrategy THEN @ ELSE request.strategy,
        !.auto = request.auto,
        !.pairs = IF request.pairs = <<>> THEN @ ELSE request.pairs]

\* Mutant of Accepts: the file is written without a look at the bot.
MutantAccepts(request) == request.auto \/ request.pairs # <<>>

\* A bot that is not down would refuse the configuration, and then it must not
\* reach the file.  The strategy may be left out: for a selection, in chaos
\* mode, or beside a list of worlds, which is not read.
Accepts(request) ==
    /\ request.auto \/ request.pairs # <<>>
    /\ bot = "down"

\* POST /bot/configure: the file first, then the engine.  When the file cannot
\* be written nothing changes.
Configure ==
    /\ Occurs
    /\ \E request \in [strategy : Strategies \cup {NoStrategy}, auto : BOOLEAN, pairs : Lists] :
          /\ Accepts(request)
          /\ disk' = Merged(request)
          /\ IF bot = "down" THEN Configured(disk') ELSE UNCHANGED config
          /\ chosen' = IF request.strategy = NoStrategy THEN chosen ELSE request.strategy
          /\ flaws' = {f \in flaws : f = "overtaken" /\ request.strategy = NoStrategy}
    /\ UNCHANGED <<bot, tests, starts, wired>>

\* POST /bot/backtest answers at once and goes on with the config it has seen.
BeginBacktest ==
    /\ Occurs
    /\ config # NoConfig /\ config.is.auto
    /\ tests' = tests \cup {config}
    /\ UNCHANGED <<config, disk, bot, starts, wired, chosen, flaws>>

\* The ranking becomes worlds and pairs of the config the request began with:
\* the engine first, which refuses it unless it is down, then the file.
BacktestEnds(test) ==
    /\ test \in tests /\ bot = "down" /\ Occurs
    /\ tests' = tests \ {test}
    /\ \E ranking \in Rankings, saved \in BOOLEAN :
          LET content == [test.is EXCEPT !.auto = FALSE, !.pairs = ranking, !.worlds = ranking]
          IN  /\ Configured(content)
              /\ disk' = IF saved THEN content ELSE disk
              /\ flaws' = (IF saved THEN flaws \cap {"overtaken"} ELSE flaws \cup {"split"})
                            \cup (IF config.id # test.id THEN {"overtaken"} ELSE {})
    /\ UNCHANGED <<bot, starts, wired, chosen>>

\* No pair makes money, no pair can be tested, or the engine is not down.
BacktestFails(test) ==
    /\ test \in tests
    /\ tests' = tests \ {test}
    /\ UNCHANGED <<config, disk, bot, starts, wired, chosen, flaws, events>>

\* load(): a file without worlds gets one, of the first pair.
Migrated(content) ==
    IF content.worlds = <<>> /\ content.pairs # <<>>
    THEN [content EXCEPT !.worlds = <<Head(content.pairs)>>] ELSE content

\* PATCH /bot/config/chaos-mode writes back what it loaded; without a file it
\* writes one that has nothing but the mode.
StageMode ==
    /\ disk # NoFile
    /\ disk' = Migrated(disk)
    /\ UNCHANGED <<config, bot, tests, starts, wired, chosen, flaws, events>>

\* POST /bot/chaos-mode writes the config of the engine, twice.
ToggleMode ==
    /\ config # NoConfig
    /\ disk' = config.is
    /\ flaws' = flaws \cap {"overtaken"}
    /\ UNCHANGED <<config, bot, tests, starts, wired, chosen, events>>

\* DELETE /bot/config, in every state but Running, which is only one of those
\* that "up" stands for: the engine keeps its config.
Delete ==
    /\ disk' = NoFile
    /\ flaws' = flaws \cup {"deleted"}
    /\ UNCHANGED <<config, bot, tests, starts, wired, chosen, events>>

-----------------------------------------------------------------------------
(* Starting.                                                               *)

\* start() begins once it has a strategy and something to trade.
CanBegin(content) ==
    /\ bot = "down"
    /\ content.pairs # <<>> \/ content.worlds # <<>> \/ content.auto
    /\ content.strategy # NoStrategy

\* start() with pairs begins; without, it awaits a selection.
StartBot ==
    /\ Occurs
    /\ config # NoConfig /\ bot = "down"
    /\ IF config.is.auto /\ config.is.pairs = <<>>
       THEN starts' = starts \cup {config.id} /\ UNCHANGED bot
       ELSE CanBegin(config.is) /\ bot' = "starting" /\ UNCHANGED starts
    /\ UNCHANGED <<config, disk, tests, wired, chosen, flaws>>

\* The selection puts its worlds into the config it was given and start() its
\* pairs into the one the engine has by now; neither is written to the file.
\* When the bot is not down any more, start() fails after that.
Selected(id) ==
    /\ id \in starts
    /\ starts' = starts \ {id}
    /\ \E ranking \in Rankings :
          config' = [config EXCEPT !.is.pairs = ranking,
                                   !.is.worlds = IF id = config.id THEN ranking ELSE @]
    /\ flaws' = flaws \cup {"selected"}
    /\ bot' = IF CanBegin(config'.is) THEN "starting" ELSE bot
    /\ UNCHANGED <<disk, tests, wired, chosen, events>>

SelectionFails(id) ==
    /\ id \in starts
    /\ starts' = starts \ {id}
    /\ UNCHANGED <<config, disk, bot, tests, wired, chosen, flaws, events>>

\* The worlds that initialize() compiles strategies for, and the pairs that the
\* feed subscribes to.
WorldsOf(content) == IF content.worlds # <<>> THEN content.worlds ELSE content.pairs
FeedOf(content) == IF content.pairs # <<>> THEN content.pairs ELSE WorldsOf(content)

Initialize ==
    /\ bot = "starting"
    /\ bot' = "up"
    /\ wired' = [feed |-> FeedOf(config.is), worlds |-> WorldsOf(config.is)]
    /\ config' = [config EXCEPT !.is.pairs = FeedOf(config.is)]
    /\ flaws' = IF config' = config THEN flaws ELSE flaws \cup {"selected"}
    /\ UNCHANGED <<disk, tests, starts, chosen, events>>

\* A stop, a failed start, a reset.
Stops ==
    /\ bot # "down"
    /\ bot' = "down"
    /\ UNCHANGED <<config, disk, tests, starts, wired, chosen, flaws, events>>

\* The server ends and starts again.  A write of the file it interrupts leaves
\* a file that does not parse, which counts as none.
Restart ==
    /\ Occurs
    /\ disk' \in {disk, NoFile}
    /\ IF disk' = NoFile THEN config' = NoConfig ELSE Configured(Migrated(disk'))
    /\ chosen' = IF disk' = NoFile THEN NoStrategy ELSE chosen
    /\ flaws' = flaws \cap {"overtaken"}
    /\ bot' = "down" /\ tests' = {} /\ starts' = {}
    /\ wired' = [feed |-> <<>>, worlds |-> <<>>]

ConfigNext ==
    \/ Configure \/ BeginBacktest \/ StageMode \/ ToggleMode \/ Delete
    \/ \E test \in tests : BacktestEnds(test) \/ BacktestFails(test)
    \/ StartBot \/ Initialize \/ Stops \/ Restart
    \/ \E id \in starts : Selected(id) \/ SelectionFails(id)

ConfigSpec == ConfigInit /\ [][ConfigNext]_configVars

-----------------------------------------------------------------------------
(* Correctness.                                                            *)

\* A restart brings back what the engine has: the file agrees with it, but for
\* the worlds that a load adds and the pairs that a start filled in, unless the
\* write after a backtest failed or the file was deleted.
FileFollowsEngine ==
    flaws \cap {"split", "deleted"} = {} =>
        /\ disk.strategy = config.is.strategy /\ disk.auto = config.is.auto
        /\ "selected" \in flaws \/ Migrated(disk) = Migrated(config.is)

\* The strategy that was asked for last is the one the engine has, through
\* every later request, selection and restart, unless a backtest ended that had
\* begun with an earlier configuration.
ChoiceSurvives == "overtaken" \notin flaws => config.is.strategy = chosen

\* Nothing that was configured is lost, on the disk or in the engine.
ConfigurationIsKept == ConfigTypeOK /\ FileFollowsEngine /\ ChoiceSurvives

\* Every pair the feed brings bars of has a strategy that runs on them.
EveryPairIsTraded ==
    ToSet(wired.feed) \subseteq ToSet(wired.worlds)
=============================================================================
