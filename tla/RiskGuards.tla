----------------------------- MODULE RiskGuards -----------------------------
(***************************************************************************)
(* The loss guards of the bot (src/src/trading/risk/): the rolling window  *)
(* of 24 hours, the stop loss of the calendar day and the guard on the     *)
(* wallet balance, with the entry gate of the strategy executor, the       *)
(* concurrent balance snapshots and the stop a breach triggers.            *)
(*                                                                         *)
(* Time is counted in ticks, Day of them to a day.  Days are those of UTC, *)
(* which is what the server configures.  The wallet guard is enabled.      *)
(***************************************************************************)
EXTENDS Integers, Functions

CONSTANTS
    Day,            \* ticks of a day, and of the rolling window
    MaxDailyLoss,   \* the limit of the two loss guards, 0 = unlimited
    MaxWalletLoss,  \* maxDailyWalletLossUsdc
    Losses,         \* the losses a trade can realize, 0 = a profit
    MaxBalance,     \* bound: the wallet's balance
    Fetches,        \* concurrent balance requests
    NoBalance,
    LastTick,       \* bound: the clock
    MaxTotalLoss    \* bound: the losses of all trades

ASSUME RiskGuardsAssumption ==
    /\ Day \in Nat \ {0}
    /\ MaxDailyLoss \in Nat
    /\ MaxWalletLoss \in Nat \ {0}
    /\ Losses \subseteq Nat
    /\ MaxBalance \in Nat /\ MaxTotalLoss \in Nat
    /\ LastTick \in Nat /\ LastTick >= Day
    /\ NoBalance \notin Nat

Ticks == Day..LastTick

VARIABLES
    now,        \* Date.now()
    trades,     \* RollingLossGuard.trades: the loss kept for each tick
    daily,      \* DailyStopLoss: start of the day, realized loss, breached
    wallet,     \* WalletBalanceGuard: start, reference, current, breached
    armed,      \* wasWalletBalanceBreached
    running,    \* the engine is Running
    buying,     \* a buy passed the risk gate and is in progress
    balance,    \* the USDC in the wallet
    fetched,    \* the balance each request in progress will answer
    ledger,     \* history: the losses realized at each tick
    peak        \* history: the highest balance recorded each day

vars == <<now, trades, daily, wallet, armed, running, buying, balance, fetched, ledger, peak>>

guards == <<trades, daily, wallet, armed>>

\* getTradingDayStart().
DayStart(t) == (t \div Day) * Day

TypeOK ==
    /\ now \in Ticks
    /\ trades \in [Ticks -> Nat]
    /\ daily \in [start : Nat, loss : Nat, breached : BOOLEAN]
    /\ wallet \in [start : Nat, reference : 0..MaxBalance, current : 0..MaxBalance,
                   breached : BOOLEAN]
    /\ armed \in BOOLEAN /\ running \in BOOLEAN /\ buying \in BOOLEAN
    /\ balance \in 0..MaxBalance
    /\ fetched \in [Fetches -> 0..MaxBalance \cup {NoBalance}]
    /\ ledger \in [Ticks -> Nat]
    /\ peak \in [Ticks -> 0..MaxBalance]

\* A process begins with empty guards; nothing of them is on disk.
Init ==
    /\ now = Day
    /\ trades = [t \in Ticks |-> 0]
    /\ daily = [start |-> DayStart(now), loss |-> 0, breached |-> FALSE]
    /\ wallet = [start |-> 0, reference |-> 0, current |-> 0, breached |-> FALSE]
    /\ armed = FALSE
    /\ running = FALSE
    /\ buying = FALSE
    /\ balance = MaxBalance
    /\ fetched = [f \in Fetches |-> NoBalance]
    /\ ledger = [t \in Ticks |-> 0]
    /\ peak = [t \in Ticks |-> 0]

-----------------------------------------------------------------------------
(* The guards.                                                             *)

\* Mutants of Prune: the window is the calendar day; the ticks that left it
\* are gone.
MutantPrune(ts) == [t \in Ticks |-> IF t >= DayStart(now) THEN ts[t] ELSE 0]
\* prune(): forget the trades of 24 hours ago and earlier.
Prune(ts) == [t \in Ticks |-> IF t > now - Day THEN ts[t] ELSE 0]

RollingBreached(ts) == MaxDailyLoss > 0 /\ SumFunction(Prune(ts)) >= MaxDailyLoss

\* Mutant of CheckDayReset: the loss of the day before is kept.
MutantCheckDayReset(d) ==
    IF DayStart(now) > d.start THEN [d EXCEPT !.start = DayStart(now), !.breached = FALSE] ELSE d

\* checkDayReset() of the daily stop loss.
CheckDayReset(d) ==
    IF DayStart(now) > d.start
    THEN [start |-> DayStart(now), loss |-> 0, breached |-> FALSE]
    ELSE d

\* DailyStopLoss.recordTrade().
DailyAfter(d, loss) ==
    LET today == CheckDayReset(d)
        total == today.loss + loss
    IN  [today EXCEPT !.loss = total,
                      !.breached = @ \/ (loss > 0 /\ MaxDailyLoss > 0 /\ total >= MaxDailyLoss)]

\* Mutant of WalletAfter: every snapshot of the day captures the reference.
MutantWalletAfter(w, b) ==
    [start |-> DayStart(now), reference |-> b, current |-> b, breached |-> FALSE]

\* WalletBalanceGuard.updateBalance(): a new day captures the reference, a
\* higher balance raises it.
WalletAfter(w, b) ==
    LET newDay    == w.start = 0 \/ DayStart(now) > w.start
        reference == IF newDay \/ b > w.reference THEN b ELSE w.reference
    IN  [start     |-> IF newDay THEN DayStart(now) ELSE w.start,
         reference |-> reference,
         current   |-> b,
         breached  |-> reference - b >= MaxWalletLoss]

-----------------------------------------------------------------------------
(* Trades and entries.                                                     *)

\* recordTrade(), after a confirmed sale.  Each guard that is breached stops
\* a Running engine.
RecordTrade(loss) ==
    /\ SumFunction(ledger) + loss <= MaxTotalLoss
    /\ ledger' = [ledger EXCEPT ![now] = @ + loss]
    /\ trades' = Prune([trades EXCEPT ![now] = @ + loss])
    /\ daily' = DailyAfter(daily, loss)
    /\ running' = (running /\ ~RollingBreached(trades') /\ ~daily'.breached)
    /\ UNCHANGED <<now, wallet, armed, buying, balance, fetched, peak>>

\* canEnterPosition() asked by a buy.  Asking prunes the window and starts the
\* new day, whatever the answer is.
AskGate ==
    /\ ~buying
    /\ trades' = IF MaxDailyLoss > 0 THEN Prune(trades) ELSE trades
    /\ daily' = CheckDayReset(daily)

GateOpen ==
    /\ ~RollingBreached(trades)
    /\ MaxDailyLoss > 0 => ~CheckDayReset(daily).breached
    /\ ~wallet.breached

AllowEntry ==
    /\ running
    /\ AskGate
    /\ GateOpen
    /\ buying' = TRUE
    /\ UNCHANGED <<now, wallet, armed, running, balance, fetched, ledger, peak>>

BlockEntry ==
    /\ running
    /\ AskGate
    /\ ~GateOpen
    /\ UNCHANGED <<now, wallet, armed, running, buying, balance, fetched, ledger, peak>>

\* The buy is over, with or without a swap: SwapMoves changes the balance.
BuyEnds ==
    /\ buying
    /\ buying' = FALSE
    /\ UNCHANGED <<now, guards, running, balance, fetched, ledger, peak>>

-----------------------------------------------------------------------------
(* Balance snapshots.                                                      *)

\* The node answers with the balance it has now; the answer takes its time.
FetchBalance(f) ==
    /\ fetched[f] = NoBalance
    /\ fetched' = [fetched EXCEPT ![f] = balance]
    /\ UNCHANGED <<now, guards, running, buying, balance, ledger, peak>>

\* Mutant of RecordBalance: the edge memory is never cleared.
MutantRecordBalance(f) ==
    /\ fetched[f] \notin {NoBalance, 0}
    /\ wallet' = WalletAfter(wallet, fetched[f])
    /\ armed' = (armed \/ wallet'.breached)
    /\ running' = (running /\ ~(wallet'.breached /\ ~armed))
    /\ peak' = [peak EXCEPT ![DayStart(now)] = IF fetched[f] > @ THEN fetched[f] ELSE @]
    /\ fetched' = [fetched EXCEPT ![f] = NoBalance]
    /\ UNCHANGED <<now, trades, daily, buying, balance, ledger>>

\* recordBalance(): the alarm is raised, and a Running engine stopped, when
\* the snapshot before this one was not a breach.
RecordBalance(f) ==
    /\ fetched[f] \notin {NoBalance, 0}
    /\ wallet' = WalletAfter(wallet, fetched[f])
    /\ armed' = wallet'.breached
    /\ running' = (running /\ ~(wallet'.breached /\ ~armed))
    /\ peak' = [peak EXCEPT ![DayStart(now)] = IF fetched[f] > @ THEN fetched[f] ELSE @]
    /\ fetched' = [fetched EXCEPT ![f] = NoBalance]
    /\ UNCHANGED <<now, trades, daily, buying, balance, ledger>>

\* A failed fetch and a balance of zero are skipped.
SkipBalance(f) ==
    /\ fetched[f] # NoBalance
    /\ fetched' = [fetched EXCEPT ![f] = NoBalance]
    /\ UNCHANGED <<now, guards, running, buying, balance, ledger, peak>>

-----------------------------------------------------------------------------
(* The engine and the world around it.                                     *)

Start == ~running /\ running' = TRUE
         /\ UNCHANGED <<now, guards, buying, balance, fetched, ledger, peak>>

Stop == running /\ running' = FALSE
        /\ UNCHANGED <<now, guards, buying, balance, fetched, ledger, peak>>

\* Swaps and their fees.
SwapMoves(b) ==
    /\ b # balance
    /\ balance' = b
    /\ UNCHANGED <<now, guards, running, buying, fetched, ledger, peak>>

Tick ==
    /\ now < LastTick
    /\ now' = now + 1
    /\ UNCHANGED <<guards, running, buying, balance, fetched, ledger, peak>>

Next ==
    \/ \E loss \in Losses : RecordTrade(loss)
    \/ AllowEntry \/ BlockEntry \/ BuyEnds
    \/ \E f \in Fetches : FetchBalance(f) \/ RecordBalance(f) \/ SkipBalance(f)
    \/ Start \/ Stop \/ Tick
    \/ \E b \in 0..MaxBalance : SwapMoves(b)

Spec == Init /\ [][Next]_vars

-----------------------------------------------------------------------------
(* Correctness.                                                            *)

\* What was really lost from tick t on.
LostSince(t) == SumFunctionOnSet(ledger, {u \in Ticks : u >= t})

\* "The risk gate actually prevents new entries": however the window was
\* pruned and the days were reset on the way, a buy that passes it meets a
\* ledger below the limit over the last 24 hours and over the calendar day.
EntryWithinLossLimit ==
    [][AllowEntry /\ MaxDailyLoss > 0 =>
         /\ LostSince(now - Day + 1) < MaxDailyLoss
         /\ LostSince(DayStart(now)) < MaxDailyLoss]_vars

\* A buy that passes the gate after a balance was recorded today meets a
\* wallet that, when last recorded, was less than the limit below the highest
\* balance recorded today, whatever order the snapshots came back in.
EntryWithinWalletLimit ==
    [][AllowEntry /\ peak[DayStart(now)] > 0 =>
         peak[DayStart(now)] - wallet.current < MaxWalletLoss]_vars

\* No breach goes unnoticed: the step that breaches a guard leaves the engine
\* stopped, also after an earlier breach came and went; only an operator can
\* start it again.
BreachStopsTheBot ==
    [][/\ wallet'.breached /\ ~wallet.breached => ~running'
       /\ daily'.breached /\ ~daily.breached => ~running'
       /\ RollingBreached(trades)' /\ ~RollingBreached(trades) => ~running']_vars

\* The rolling window is never the weaker guard: it counts at least what the
\* daily stop loss counts for the current day.
RollingCoversTheDay ==
    daily.start = DayStart(now) => daily.loss <= SumFunction(Prune(trades))
=============================================================================
