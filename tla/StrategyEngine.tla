--------------------------- MODULE StrategyEngine ---------------------------
(***************************************************************************)
(* The broker emulator behind backtests and live signals                   *)
(* (src/src/strategy/strategy-engine.ts, trailing-stop-manager.ts): the    *)
(* script places orders between two bars, and updateBar() fills them       *)
(* against the next bar, one order after the other.  Each iteration of its *)
(* loops is a step here.  Money is abstracted: whether the margin allows   *)
(* an entry, and whether a position is liquidated, is left open.           *)
(***************************************************************************)
EXTENDS Integers, Sequences, SequencesExt

CONSTANTS
    Names,          \* the names a script gives to entries and exits
    None,
    Prices,         \* the prices of bars and orders
    Quantities,     \* the quantities of orders
    EntryForms,     \* the stops and limits that a script gives to entries,
    ExitForms,      \* and to exits, with trailing parameters and from_entry
    Trails,         \* the trailing parameters of an exit
    TrailDistance,
    Pyramiding,
    MaxPending,     \* bound: the orders pending at a time
    MaxEntries,     \* bound: the value of entries at which a script stops entering
    MaxQuantity     \* bound: the quantity beyond which nothing is placed any more

ASSUME StrategyAssumption ==
    /\ None \notin Names
    /\ Prices \subseteq Nat \ {0}
    /\ Quantities \subseteq Nat \ {0}
    /\ EntryForms \subseteq [stop : Prices \cup {0}, limit : Prices \cup {0}]
    /\ ExitForms \subseteq [stop : Prices \cup {0}, limit : Prices \cup {0},
                             trail : Trails, from : Names \cup {None}, name : Names]
    /\ Trails \subseteq {"none", "offset", "price"}
    /\ TrailDistance \in Nat \ {0}
    /\ Pyramiding \in Nat
    /\ MaxPending \in Nat
    /\ MaxEntries \in Nat
    /\ MaxQuantity \in Nat

VARIABLES
    longOnly,   \* the configured commission method is long-only
    pc,         \* where updateBar() is; "script" between two bars
    bar,        \* the bar being processed
    position,
    pending,    \* pendingOrders
    todo,       \* marketOrders, later ordersToFill
    triggers,   \* stopLimitTriggers
    entries     \* the entries since the position was last closed

strategyVars == <<longOnly, pc, bar, position, pending, todo, triggers, entries>>

Bars      == {b \in [high : Prices, low : Prices, close : Prices] : b.low <= b.close /\ b.close <= b.high}
NoBar     == [high |-> 0, low |-> 0, close |-> 0]
Lots      == [name : Names, qty : Nat \ {0}]
PositionStates == [dir : {"flat", "long", "short"}, qty : Nat, name : Names \cup {None},
                   avg : Int, lots : Seq(Lots)]
Flat      == [dir |-> "flat", qty |-> 0, name |-> None, avg |-> 0, lots |-> <<>>]

\* trailingStops holds a state for each trailing order that update() has seen;
\* only such an order trails.
TrailStates == {s \in [known : BOOLEAN, active : BOOLEAN, extreme : Int, stop : Int] :
                   s.active => s.known}
NoTrail     == [known |-> FALSE, active |-> FALSE, extreme |-> 0, stop |-> 0]

\* A price of 0 is one that is not given; triggered is history: the order was
\* a stop-limit whose stop was hit and which went on as a limit order.
Orders == [action : {"buy", "sell"}, type : {"market", "limit", "stop", "stop-limit"},
           qty : Nat \ {0}, stop : Int, limit : Nat, name : Names,
           oca : Names \cup {None}, from : Names \cup {None},
           trail : {"none", "offset", "price"}, state : TrailStates, triggered : BOOLEAN]

StrategyTypeOK ==
    /\ longOnly \in BOOLEAN
    /\ pc \in {"script", "market", "collect", "fill"}
    /\ bar \in Bars \cup {NoBar}
    /\ position \in PositionStates
    /\ pending \in Seq(Orders) /\ todo \in Seq(Orders) /\ triggers \in Seq(Orders)
    /\ entries \in Nat

StrategyInit ==
    /\ longOnly \in BOOLEAN
    /\ pc = "script"
    /\ bar = NoBar
    /\ position = Flat
    /\ pending = <<>> /\ todo = <<>> /\ triggers = <<>>
    /\ entries = 0

-----------------------------------------------------------------------------
(* Orders and lots.                                                        *)

DirOf(action)   == IF action = "buy" THEN "long" ELSE "short"
ActionOf(dir)   == IF dir = "long" THEN "buy" ELSE "sell"
Opposite(dir)   == IF dir = "long" THEN "sell" ELSE "buy"
TypeOf(stop, limit, trail) ==
    CASE stop > 0 /\ limit > 0 -> "stop-limit"
      [] stop > 0              -> "stop"
      [] limit > 0             -> "limit"
      [] trail # "none"        -> "stop"
      [] OTHER                 -> "market"

NewOrder(action, stop, limit, trail, qty, name) ==
    [action |-> action, type |-> TypeOf(stop, limit, trail), qty |-> qty,
     stop |-> stop, limit |-> limit, name |-> name, oca |-> None, from |-> None,
     trail |-> trail, state |-> NoTrail, triggered |-> FALSE]

\* The entries of s at the places of I, in the order of s.
At(s, I) == [k \in 1..Cardinality(I) |->
                s[CHOOSE i \in I : Cardinality({j \in I : j <= i}) = k]]

IsMarket(o) == o.type = "market"
Markets     == {i \in DOMAIN pending : IsMarket(pending[i])}
Without(orders, group) == At(orders, {i \in DOMAIN orders : orders[i].oca # group})

Least(a, b) == IF a < b THEN a ELSE b
Most(a, b)  == IF a > b THEN a ELSE b

\* What the first n lots add up to, for each n.
Sums(lots) ==
    LET sum[n \in 0..Len(lots)] == IF n = 0 THEN 0 ELSE sum[n - 1] + lots[n].qty IN sum

QtyOf(lots)  == Sums(lots)[Len(lots)]
LotsOf(name) == At(position.lots, {i \in DOMAIN position.lots : position.lots[i].name = name})

\* The lots that remain when q goes first in, first out: of the first lot that
\* q does not reach the end of, a part, and those after it.
Fifo(lots, q) ==
    LET sums == Sums(lots)
        gone == CHOOSE k \in 0..Len(lots) :
                    /\ sums[k] <= q
                    /\ \A j \in 0..Len(lots) : sums[j] <= q => j <= k
    IN [i \in 1..(Len(lots) - gone) |->
           IF i = 1 THEN [lots[gone + 1] EXCEPT !.qty = sums[gone + 1] - q]
                    ELSE lots[gone + i]]

\* The same, but the first lot of the entry from goes first.
Taken(lots, q, from) ==
    LET own == {i \in DOMAIN lots : lots[i].name = from} IN
    IF own = {} THEN Fifo(lots, q)
    ELSE LET i == CHOOSE j \in own : \A k \in own : j <= k IN
         IF lots[i].qty <= q
           THEN Fifo(RemoveAt(lots, i), q - lots[i].qty)
           ELSE [lots EXCEPT ![i].qty = @ - q]

-----------------------------------------------------------------------------
(* fillOrder().                                                            *)

\* openOrAddPosition().
Added(o, price) ==
    LET lot == [name |-> o.name, qty |-> o.qty] IN
    IF position.dir = "flat"
      THEN [dir |-> DirOf(o.action), qty |-> o.qty, name |-> o.name,
            avg |-> price, lots |-> <<lot>>]
      ELSE [position EXCEPT !.qty = @ + o.qty, !.lots = Append(@, lot),
                !.avg = (@ * position.qty + price * o.qty) \div (position.qty + o.qty)]

\* Mutant of Reduced: an exit larger than the position is not cut.
MutantReduced(o) ==
    IF o.qty = position.qty THEN Flat
    ELSE [position EXCEPT !.qty = @ - o.qty, !.lots = Taken(@, o.qty, o.from)]

\* closeOrReducePosition().
Reduced(o) ==
    LET q == Least(o.qty, position.qty) IN
    IF q = position.qty THEN Flat
    ELSE [position EXCEPT !.qty = @ - q, !.lots = Taken(@, q, o.from)]

Closes(o)  == position.dir \notin {"flat", DirOf(o.action)} /\ o.qty >= position.qty
Forget(orders) == [i \in DOMAIN orders |-> [orders[i] EXCEPT !.state = NoTrail]]

\* Mutant of Fill: the group of the position outlives it.
MutantFill(o, price, orders) ==
    IF position.dir \in {"flat", DirOf(o.action)}
      THEN /\ position' = Added(o, price)
           /\ pending' = IF position.dir = "flat" THEN Forget(orders) ELSE orders
           /\ UNCHANGED entries
      ELSE /\ position' = Reduced(o)
           /\ pending' = orders
           /\ entries' = IF Closes(o) THEN 0 ELSE entries

\* The position after the order, and the orders that stay pending: a position
\* that opens forgets every trailing state, one that closes cancels its group.
Fill(o, price, orders) ==
    IF position.dir \in {"flat", DirOf(o.action)}
      THEN /\ position' = Added(o, price)
           /\ pending' = IF position.dir = "flat" THEN Forget(orders) ELSE orders
           /\ UNCHANGED entries
      ELSE /\ position' = Reduced(o)
           /\ pending' = IF Closes(o) THEN Without(orders, position.name) ELSE orders
           /\ entries' = IF Closes(o) THEN 0 ELSE entries

-----------------------------------------------------------------------------
(* What a script does between two bars.                                    *)

Placed(orders) == pending' = pending \o orders
CloseOrder     == NewOrder(Opposite(position.dir), 0, 0, "none", position.qty, position.name)
IsOpen         == position.dir # "flat"
Room           == Len(pending) < MaxPending /\ position.qty <= MaxQuantity

\* canOpenPosition(), but for the margin.
CanOpen(dir) == ~IsOpen \/ (position.dir = dir /\ entries < Pyramiding + 1)

\* entry(): a short entry under a long-only method only closes the long; an
\* entry against the position closes it first; any other may be refused.
Entry(name, dir, q, stop, limit) ==
    /\ pc = "script" /\ Room
    /\ entries < MaxEntries
    /\ LET order == NewOrder(ActionOf(dir), stop, limit, "none", q, name) IN
       \/ /\ longOnly /\ dir = "short"
          /\ position.dir = "long"
          /\ Placed(<<CloseOrder>>)
          /\ UNCHANGED entries
       \/ /\ ~(longOnly /\ dir = "short")
          /\ CanOpen(dir)
          /\ Placed(<<order>>)
          /\ entries' = entries + 1
       \/ /\ ~(longOnly /\ dir = "short")
          /\ position.dir \notin {"flat", dir}
          /\ Placed(<<CloseOrder, order>>)
          /\ entries' = entries + 1
    /\ UNCHANGED <<longOnly, pc, bar, position, todo, triggers>>

\* order(): no pyramiding, no margin; a script can give it no stop or limit.
Order(name, dir, q) ==
    /\ pc = "script" /\ Room
    /\ longOnly /\ dir = "short" => position.dir = "long"
    /\ Placed(<<NewOrder(ActionOf(dir), 0, 0, "none", q, name)>>)
    /\ UNCHANGED <<longOnly, pc, bar, position, todo, triggers, entries>>

\* The quantity of an exit; a request of 0 is one that is not given.
ExitQty(q, from) ==
    IF from # None
      THEN Least(IF q \in {0, position.qty} THEN QtyOf(LotsOf(from)) ELSE q,
                 QtyOf(LotsOf(from)))
      ELSE IF q = 0 THEN position.qty ELSE Least(q, position.qty)

\* The exit of a position joins its group; that of an entry which is still
\* pending (the first market order there is) has none.
ExitOrder(name, q, stop, limit, from, trail) ==
    IF IsOpen
      THEN [NewOrder(Opposite(position.dir), stop, limit, trail, ExitQty(q, from), name)
              EXCEPT !.from = from, !.oca = IF TypeOf(stop, limit, trail) = "market"
                                              THEN None ELSE position.name]
      ELSE LET p == At(pending, Markets)[1] IN
           [NewOrder(Opposite(DirOf(p.action)), stop, limit, trail,
                     IF q = 0 THEN p.qty ELSE q, name) EXCEPT !.from = from]

\* exit(): filled at once when it is a market order.
Exit(name, q, stop, limit, from, trail, price) ==
    /\ pc = "script" /\ Room
    /\ IsOpen \/ Markets # {}
    /\ IsOpen /\ from # None => LotsOf(from) # <<>>
    /\ LET order == ExitOrder(name, q, stop, limit, from, trail) IN
       \/ IsMarket(order) /\ Fill(order, price, pending)
       \/ ~IsMarket(order) /\ Placed(<<order>>) /\ UNCHANGED <<position, entries>>
    /\ UNCHANGED <<longOnly, pc, bar, todo, triggers>>

\* close(), close_all().
Close ==
    /\ pc = "script" /\ Room
    /\ IsOpen
    /\ Placed(<<CloseOrder>>)
    /\ UNCHANGED <<longOnly, pc, bar, position, todo, triggers, entries>>

\* cancel(), of an order by its id.
Cancel(i) ==
    /\ pc = "script"
    /\ pending' = RemoveAt(pending, i)
    /\ UNCHANGED <<longOnly, pc, bar, position, todo, triggers, entries>>

CancelAll ==
    /\ pc = "script"
    /\ pending' = <<>>
    /\ UNCHANGED <<longOnly, pc, bar, position, todo, triggers, entries>>

-----------------------------------------------------------------------------
(* updateBar().                                                            *)

\* fillPendingMarketOrders() takes the market orders out.
NewBar(b) ==
    /\ pc = "script"
    /\ pc' = "market"
    /\ bar' = b
    /\ todo' = At(pending, Markets)
    /\ pending' = At(pending, DOMAIN pending \ Markets)
    /\ UNCHANGED <<longOnly, position, triggers, entries>>

\* One of them fills, at the price of the bar that is configured.
FillMarket(price) ==
    /\ pc = "market" /\ todo # <<>>
    /\ bar.low <= price /\ price <= bar.high
    /\ Fill(Head(todo), price, pending)
    /\ todo' = Tail(todo)
    /\ UNCHANGED <<longOnly, pc, bar, triggers>>

\* Mutant of Trailed: the stop follows the price in both directions.
MutantTrailed(o) ==
    LET long  == position.dir = "long"
        seen  == IF o.state.known THEN o.state
                 ELSE [known |-> TRUE, active |-> FALSE, extreme |-> position.avg, stop |-> position.avg]
        next  == IF long THEN bar.close - TrailDistance ELSE bar.close + TrailDistance
    IN IF o.trail = "none" THEN o
       ELSE [o EXCEPT !.stop = next, !.state = [seen EXCEPT !.active = TRUE]]

\* trailingStopManager.update() for one order: the stop starts to trail when
\* the price has moved far enough from the entry, and then only tightens.
Trailed(o) ==
    LET long    == position.dir = "long"
        seen    == IF o.state.known THEN o.state
                   ELSE [known |-> TRUE, active |-> FALSE, extreme |-> position.avg, stop |-> position.avg]
        active  == seen.active \/ (IF long THEN bar.high >= position.avg + TrailDistance
                                           ELSE bar.low  <= position.avg - TrailDistance)
        extreme == CASE ~active      -> seen.extreme
                     [] ~seen.active -> IF long THEN bar.high ELSE bar.low
                     [] OTHER        -> IF long THEN Most(seen.extreme, bar.high)
                                                ELSE Least(seen.extreme, bar.low)
        anchor  == IF o.trail = "offset" THEN extreme ELSE bar.close
        next    == IF long THEN anchor - TrailDistance ELSE anchor + TrailDistance
        moves   == active /\ (IF long THEN next > seen.stop ELSE next < seen.stop)
    IN IF o.trail = "none" THEN o
       ELSE [o EXCEPT !.stop = IF moves THEN next ELSE @,
                      !.state = [known |-> TRUE, active |-> active, extreme |-> extreme,
                                 stop |-> IF moves THEN next ELSE seen.stop]]

Trail ==
    /\ pc = "market" /\ todo = <<>>
    /\ pc' = "collect"
    /\ pending' = [i \in DOMAIN pending |-> Trailed(pending[i])]
    /\ UNCHANGED <<longOnly, bar, position, todo, triggers, entries>>

StopHit(o)  == IF o.action = "buy" THEN bar.high >= o.stop ELSE bar.low <= o.stop
LimitHit(o) == IF o.action = "buy" THEN bar.low <= o.limit ELSE bar.high >= o.limit
Fills(o)    == (o.type = "limit" /\ LimitHit(o)) \/ (o.type = "stop" /\ StopHit(o))
Triggers(o) == o.type = "stop-limit" /\ StopHit(o)

\* processPendingOrders() takes out every order that is hit before one fills.
Collect ==
    /\ pc = "collect"
    /\ pc' = "fill"
    /\ LET hit == {i \in DOMAIN pending : Fills(pending[i])}
           set == {i \in DOMAIN pending : Triggers(pending[i])}
       IN /\ todo' = At(pending, hit)
          /\ triggers' = At(pending, set)
          /\ pending' = At(pending, DOMAIN pending \ (hit \cup set))
    /\ UNCHANGED <<longOnly, bar, position, entries>>

\* cancelOcaSiblings(), among the orders that are still pending.
Siblings(o) == IF o.oca = None THEN pending ELSE Without(pending, o.oca)

FillNext ==
    /\ pc = "fill" /\ todo # <<>>
    /\ LET o == Head(todo) IN
       Fill(o, IF o.type = "limit" THEN o.limit ELSE o.stop, Siblings(o))
    /\ todo' = Tail(todo)
    /\ UNCHANGED <<longOnly, pc, bar, triggers>>

\* A stop-limit that was triggered fills, or goes on as a limit order.
Trigger ==
    /\ pc = "fill" /\ todo = <<>> /\ triggers # <<>>
    /\ LET o == Head(triggers) IN
       \/ LimitHit(o) /\ Fill(o, o.limit, Siblings(o))
       \/ /\ ~LimitHit(o)
          /\ Placed(<<[o EXCEPT !.type = "limit", !.stop = 0, !.state = NoTrail, !.triggered = TRUE]>>)
          /\ UNCHANGED <<position, entries>>
    /\ triggers' = Tail(triggers)
    /\ UNCHANGED <<longOnly, pc, bar, todo>>

\* The bar ends; checkLiquidation() may ask for the position to be closed.
EndBar ==
    /\ pc = "fill" /\ todo = <<>> /\ triggers = <<>>
    /\ pc' = "script"
    /\ bar' = NoBar
    /\ \/ UNCHANGED pending
       \/ IsOpen /\ Room /\ Placed(<<CloseOrder>>)
    /\ UNCHANGED <<longOnly, position, todo, triggers, entries>>

-----------------------------------------------------------------------------

Script ==
    \/ \E n \in Names, q \in Quantities, d \in {"long", "short"} :
          \/ \E f \in EntryForms : Entry(n, d, q, f.stop, f.limit)
          \/ Order(n, d, q)
    \/ \E q \in Quantities \cup {0}, f \in ExitForms, p \in Prices :
          Exit(f.name, q, f.stop, f.limit, f.from, f.trail, p)
    \/ Close \/ CancelAll
    \/ \E i \in DOMAIN pending : Cancel(i)

UpdateBar ==
    \/ \E b \in Bars : NewBar(b)
    \/ \E p \in Prices : FillMarket(p)
    \/ Trail \/ Collect \/ FillNext \/ Trigger \/ EndBar

StrategyNext == Script \/ UpdateBar

StrategySpec == StrategyInit /\ [][StrategyNext]_strategyVars

-----------------------------------------------------------------------------
(* Correctness.                                                            *)

\* The lots a partial or targeted exit is taken from add up to the position:
\* otherwise an exit by from_entry closes more or less than the entry has.  An
\* open position has lots, and the name of the entry that opened it.
LotsMatchPosition ==
    /\ position.qty = QtyOf(position.lots)
    /\ IsOpen <=> position.lots # <<>>
    /\ IsOpen <=> position.name # None

\* The protective orders of a position end with it: whatever closes it, no
\* order of its group stays behind to open a position of its own later.  (Only
\* a stop-limit whose stop was hit in the bar that closed it survives.)
OcaEndsWithPosition ==
    \A i \in DOMAIN pending :
        pending[i].oca # None /\ ~pending[i].triggered =>
            IsOpen /\ pending[i].oca = position.name

\* The book of orders and the lots both belong to the position there is,
\* whichever way the fills came.
BookIsSound == StrategyTypeOK /\ LotsMatchPosition /\ OcaEndsWithPosition

\* Once a stop trails, it never gives way while its position is open.
TrailingOnlyTightens ==
    [][pc = "market" /\ pc' = "collect" /\ IsOpen =>
          \A i \in DOMAIN pending :
              LET o == pending[i] IN
              o.type = "stop" /\ o.state.active /\ o.stop = o.state.stop =>
              IF position.dir = "long" THEN pending'[i].stop >= o.stop
                                       ELSE pending'[i].stop <= o.stop]_strategyVars
=============================================================================
