----------------------------- MODULE ChartBars -----------------------------
(***************************************************************************)
(* The bars of the chart: useChartData() (src/frontend/src/hooks/          *)
(* useChartData.ts) as App and ChartComponent drive it.  A load answers    *)
(* over HTTP, ticks come over a WebSocket, scrolling back fetches older    *)
(* bars; each ends at its own time, and the user may change the topic      *)
(* meanwhile.  The bars exist twice: as a ref, which requests and scripts  *)
(* read, and as the React state that is drawn.                             *)
(***************************************************************************)
EXTENDS Naturals, Sequences, FiniteSets, SequencesExt

CONSTANTS
    Topics,     \* pairs of a symbol and an interval
    Batch,      \* the bars of a load (1000 in the code)
    Chunk,      \* the bars of a scroll-back (200 in the code)
    FirstNow,   \* the open bar of the market at the start
    LastNow,    \* bound: its last open bar
    MaxSwitch   \* bound: how often the topic changes

ASSUME ChartAssumption ==
    /\ Topics # {}
    /\ Batch \in Nat \ {0} /\ Chunk \in Nat \ {0}
    /\ LastNow \in Nat /\ FirstNow \in 1..LastNow
    /\ MaxSwitch \in Nat

VARIABLES
    now,        \* the bar of the market that is open
    topic,      \* subscribedTopicRef
    wire,       \* the last kline that the socket brought for the topic
    loads,      \* the loads in flight
    scroll,     \* the scroll-back in flight: isLoadingHistoryRef and its state
    rows,       \* ohlcvDataRef
    candles,    \* candles
    loaded,     \* historicalDataLoadedRef
    pending,    \* pendingKlineRef
    watermark,  \* lastKlineTimestampRef
    guard,      \* oldestFetchedTsRef
    borders,    \* chunkBorders
    epoch,      \* history: how often the topic changed
    odd         \* history: what happened since the topic changed that may
                \* leave the chart with a flaw

refs == <<loaded, pending, watermark, guard>>
choice == <<topic, epoch>>
barsVars == <<now, choice, wire, loads, scroll, rows, candles, refs, borders, odd>>

Bar(t, time, final) == [topic |-> t, time |-> time, final |-> final]
NoBar == [topic |-> CHOOSE t \in Topics : TRUE, time |-> 0, final |-> FALSE]

Times == 0..LastNow
Bars == [topic : Topics, time : Times, final : BOOLEAN]

NoScroll == [phase |-> "idle", topic |-> NoBar.topic, end |-> 0]

BarsTypeOK ==
    /\ now \in Times /\ topic \in Topics /\ wire \in Bars
    /\ loads \subseteq [topic : Topics, at : Times, nr : 0..MaxSwitch]
    /\ scroll \in [phase : {"idle", "fetch", "execute"}, topic : Topics, end : Times]
    /\ rows \in Seq(Bars) /\ candles \in Seq(Bars)
    /\ loaded \in BOOLEAN /\ pending \in Bars /\ watermark \in Times /\ guard \in Times
    /\ borders \in Seq([index : Nat, time : Times])
    /\ odd \subseteq {"overlap", "early", "behind", "lost"}

\* What the server answers about topic t when bar `last` is open there: the
\* bars up to it, of which it alone is not final.
Answer(t, first, last) ==
    [i \in 1..(last - first + 1) |-> Bar(t, first + i - 1, i < last - first + 1)]

\* A scroll-back only asks for bars that are closed.
Older(t, end) ==
    LET first == IF end > Chunk THEN end - Chunk + 1 ELSE 1
    IN  [i \in 1..(end - first + 1) |-> Bar(t, first + i - 1, TRUE)]

\* The updater of a kline, and the same for the ref.
Placed(bars, bar) ==
    IF bars # <<>> /\ Last(bars).time = bar.time
    THEN [bars EXCEPT ![Len(bars)] = bar]
    ELSE Append(bars, bar)

-----------------------------------------------------------------------------
(* Loading.                                                                *)

\* subscribe() and then fetchOHLCV() up to its request.
StartLoad(t, nr) ==
    /\ topic' = t /\ epoch' = nr
    /\ wire' = Bar(t, now, FALSE)
    /\ loads' = loads \cup {[topic |-> t, at |-> now, nr |-> nr]}
    /\ rows' = <<>> /\ candles' = <<>> /\ borders' = <<>>
    /\ loaded' = FALSE /\ pending' = NoBar /\ watermark' = 0 /\ guard' = 0

BarsInit ==
    /\ now = FirstNow
    /\ topic \in Topics /\ epoch = 0
    /\ wire = Bar(topic, now, FALSE)
    /\ loads = {[topic |-> topic, at |-> now, nr |-> 0]}
    /\ scroll = NoScroll
    /\ rows = <<>> /\ candles = <<>> /\ borders = <<>>
    /\ loaded = FALSE /\ pending = NoBar /\ watermark = 0 /\ guard = 0
    /\ odd = {}

\* The user chooses another symbol or interval; what is in flight goes on.
SwitchTopic ==
    /\ epoch < MaxSwitch
    /\ \E t \in Topics \ {topic} : StartLoad(t, epoch + 1)
    /\ odd' = IF loads # {} \/ scroll # NoScroll THEN {"overlap"} ELSE {}
    /\ UNCHANGED <<now, scroll>>

\* The answer of a load replaces the bars, whichever topic it is about, and the
\* kline that came meanwhile is drawn on top of it.
LoadEnds(load) ==
    /\ load \in loads
    /\ loads' = loads \ {load}
    /\ \E last \in load.at..now :
          rows' = Answer(load.topic, IF last > Batch THEN last - Batch + 1 ELSE 1, last)
    /\ loaded' = TRUE
    /\ pending' = NoBar
    /\ candles' = IF pending = NoBar \/ pending.time < Last(rows').time THEN rows'
                  ELSE Placed(rows', pending)
    /\ UNCHANGED <<now, choice, wire, scroll, watermark, guard, borders, odd>>

\* The request fails: the chart stays empty.
LoadFails(load) ==
    /\ load \in loads
    /\ loads' = loads \ {load}
    /\ UNCHANGED <<now, choice, wire, scroll, rows, candles, refs, borders, odd>>

-----------------------------------------------------------------------------
(* Ticks.                                                                  *)

\* The bar of the market closes and the next one opens.
MarketMoves ==
    /\ now < LastNow
    /\ now' = now + 1
    /\ UNCHANGED <<choice, wire, loads, scroll, rows, candles, refs, borders, odd>>

\* What the socket brings next: the last bar again, its confirmation once it is
\* closed, or the next bar.  The socket may lag behind the market.
NextKlines ==
    {Bar(topic, wire.time, FALSE)}
      \cup {Bar(topic, wire.time, TRUE) : n \in {n \in {now} : ~wire.final /\ wire.time < n}}
      \cup {Bar(topic, wire.time + 1, FALSE) : n \in {n \in {now} : wire.final /\ wire.time < n}}

\* Mutant of StaleKline: a repeated bar is only skipped when it is older.
MutantStaleKline(bar) == bar.time < watermark

\* The klines that ws.onmessage skips: those before the last confirmed one, and
\* its repetitions.
StaleKline(bar) == bar.time < watermark \/ (bar.time = watermark /\ ~bar.final)

\* Mutant of RowsWith: a new bar is only drawn.
MutantRowsWith(bar) ==
    IF rows # <<>> /\ Last(rows).time = bar.time THEN Placed(rows, bar) ELSE rows

RowsWith(bar) == Placed(rows, bar)

\* A kline of the subscribed topic.  Before the bars are there it is kept for
\* them; the ref takes it in any case.
Kline ==
    \E bar \in NextKlines :
        /\ wire' = [bar EXCEPT !.final = @ \/ (bar.time = wire.time /\ wire.final)]
        /\ IF StaleKline(bar)
           THEN UNCHANGED <<rows, candles, pending, watermark, odd>>
           ELSE /\ watermark' = IF bar.final /\ loaded THEN bar.time ELSE watermark
                /\ rows' = RowsWith(bar)
                /\ IF loaded
                   THEN candles' = Placed(candles, bar) /\ UNCHANGED pending
                   ELSE pending' = bar /\ UNCHANGED candles
                /\ odd' = odd \cup (IF ~loaded THEN {"early"}
                                    ELSE IF candles # <<>> /\ bar.time < Last(candles).time
                                         THEN {"behind"} ELSE {})
        /\ UNCHANGED <<now, choice, loads, scroll, loaded, guard, borders>>

\* The socket closed and was opened again: the klines between are lost.
Reconnect ==
    /\ wire.time < now
    /\ wire' = Bar(topic, now, FALSE)
    /\ odd' = odd \cup {"lost"}
    /\ UNCHANGED <<now, choice, loads, scroll, rows, candles, refs, borders>>

-----------------------------------------------------------------------------
(* Scrolling back: fetchOlderOHLCV(), one at a time.                        *)

\* It starts when the view comes near the oldest bar, but not twice from the
\* same bar.
ScrollBack ==
    /\ scroll = NoScroll
    /\ rows # <<>> /\ Head(rows).time # guard
    /\ guard' = Head(rows).time
    /\ scroll' = [phase |-> "fetch", topic |-> topic, end |-> Head(rows).time - 1]
    /\ odd' = IF loads = {} THEN odd ELSE odd \cup {"overlap"}
    /\ UNCHANGED <<now, choice, wire, loads, rows, candles, loaded, pending, watermark, borders>>

\* Mutant of Shifted: the borders of the earlier chunks stay where they were.
MutantShifted(count) == borders

Shifted(count) == [i \in DOMAIN borders |-> [borders[i] EXCEPT !.index = @ + count]]

\* The older bars go in front of the bars there are now; the scripts run on
\* them before anything is drawn.
OlderArrives ==
    LET new == Older(scroll.topic, scroll.end)
    IN  /\ scroll.phase = "fetch"
        /\ new # <<>>
        /\ borders' = Append(Shifted(Len(new)),
                             [index |-> Len(new), time |-> IF rows = <<>> THEN 0 ELSE Head(rows).time])
        /\ rows' = new \o rows
        /\ scroll' = [scroll EXCEPT !.phase = "execute"]
        /\ UNCHANGED <<now, choice, wire, loads, candles, refs, odd>>

\* The request fails, or there is nothing older.
OlderFails ==
    /\ scroll.phase = "fetch"
    /\ scroll' = NoScroll
    /\ UNCHANGED <<now, choice, wire, loads, rows, candles, refs, borders, odd>>

\* The place of the i-th bar in the order of their times, which keeps bars of
\* one time in the order they are in.
Place(bars, i) ==
    Cardinality({j \in DOMAIN bars : \/ bars[j].time < bars[i].time
                                     \/ bars[j].time = bars[i].time /\ j <= i})

\* toCandleData(), whose sort is stable.
InOrder(bars) == [k \in DOMAIN bars |-> bars[CHOOSE i \in DOMAIN bars : Place(bars, i) = k]]

\* The bars of the ref are drawn.
OlderDrawn ==
    /\ scroll.phase = "execute"
    /\ scroll' = NoScroll
    /\ candles' = InOrder(rows)
    /\ UNCHANGED <<now, choice, wire, loads, rows, refs, borders, odd>>

BarsNext ==
    \/ MarketMoves \/ Kline \/ Reconnect \/ SwitchTopic
    \/ \E load \in loads : LoadEnds(load) \/ LoadFails(load)
    \/ ScrollBack \/ OlderArrives \/ OlderFails \/ OlderDrawn

BarsSpec == BarsInit /\ [][BarsNext]_barsVars

-----------------------------------------------------------------------------
(* Correctness.                                                            *)

\* The bars of the chart are exact when the socket neither led nor lagged nor
\* lost anything and no request crossed another: those of the topic without a
\* gap, each once, closed but for the last, as new as the socket's, and the
\* same for the scripts as for the eye.
ChartIsExact ==
    loaded /\ odd = {} =>
        /\ scroll.phase # "execute" => candles = rows
        /\ \A i \in DOMAIN rows :
              /\ rows[i].topic = topic
              /\ rows[i].time = rows[1].time + i - 1
              /\ i < Len(rows) => rows[i].final
        /\ Last(rows).time >= wire.time
        /\ wire.final /\ Last(rows).time = wire.time => Last(rows).final

\* Each border of a chunk stands between the bars it separated when the chunk
\* came, however many chunks came since and whatever the socket brought,
\* unless a request crossed another.
BordersLineUp ==
    "overlap" \notin odd =>
        \A i \in DOMAIN borders : rows[borders[i].index + 1].time = borders[i].time

\* Both, with the types.
ChartIsTrue == BarsTypeOK /\ ChartIsExact /\ BordersLineUp
=============================================================================
