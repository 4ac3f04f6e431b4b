------------------------ MODULE OrderPipeline_proofs ------------------------
(* Proofs about OrderPipeline, for any worlds, candles and runs.             *)
EXTENDS OrderPipeline, SequenceTheorems, TLAPS

Phases == {"expected", "evaluating", "queued", "ordering", "sent", "lost", "done"}
Ticks == [phase : Phases, world : Worlds, run : Runs, executor : Runs,
          signals : Seq({"buy", "sell"}), landed : BOOLEAN]

\* A candle that waits for the mutex of its run is in that queue, one that
\* submits is at its head, and both have a signal left.
Waits(c) == tick[c].phase \in {"queued", "ordering", "sent"}
Submits(c) == tick[c].phase \in {"ordering", "sent"}
MutexInv ==
    \A c \in Candles :
        /\ Waits(c) => /\ tick[c].signals # <<>>
                       /\ \E i \in 1..Len(queue[tick[c].run]) : queue[tick[c].run][i] = c
        /\ Submits(c) => queue[tick[c].run][1] = c

\* The runs are natural numbers, and NoRun is none of them.
LEMMA RunsAreNumbers == LastRun \in Nat /\ 0 \in Runs /\ Runs \subseteq Nat /\ NoRun \notin Runs
BY OrderPipelineAssumption DEF Runs, NoRun

LEMMA FirstRun == ASSUME NEW r \in Runs, r <= 0 PROVE r = 0
BY OrderPipelineAssumption DEF Runs

LEMMA TypeInit == Init => TypeOK /\ MutexInv
<1> SUFFICES ASSUME Init PROVE TypeOK /\ MutexInv OBVIOUS
<1>1. LastRun \in Nat /\ 0 \in Runs BY OrderPipelineAssumption DEF Runs
<1>2. <<>> \in Seq({"buy", "sell"}) /\ <<>> \in Seq(Candles) OBVIOUS
<1>3. tick \in [Candles -> Ticks] /\ \A c \in Candles : tick[c].phase = "expected"
  <2> DEFINE Expected == {[phase |-> "expected", world |-> w, run |-> 0, executor |-> 0,
                           signals |-> <<>>, landed |-> FALSE] : w \in Worlds}
  <2>1. tick \in [Candles -> Expected] BY DEF Init
  <2>2. ASSUME NEW e \in Expected PROVE e \in Ticks /\ e.phase = "expected"
    <3>1. PICK w \in Worlds : e = [phase |-> "expected", world |-> w, run |-> 0, executor |-> 0,
                                  signals |-> <<>>, landed |-> FALSE] OBVIOUS
    <3>2. "expected" \in Phases BY DEF Phases
    <3>3. QED BY <1>1, <1>2, <3>1, <3>2 DEF Ticks
  <2> HIDE DEF Expected
  <2>3. QED BY <2>1, <2>2
<1>4. queue \in [Runs -> Seq(Candles)] BY <1>2 DEF Init
<1>5. position \in [Runs -> [Worlds -> {"flat", "long"}]] BY DEF Init, NoBook
<1>6. strategy \in [Runs -> [Worlds -> {"flat", "long"}]] BY DEF Init, NoBook
<1>7. closes \in [Runs -> [Worlds -> {"none", "snapshot", "selling", "landed", "lost",
                                      "closed", "failed", "unconfirmed"}]]
  BY DEF Init, NoBook
<1>8. /\ engine \in {"running", "draining", "closing", "stopped", "crashed"}
      /\ run \in Runs
      /\ confirmed \in [Runs -> SUBSET (StateKeys \cup {PairKey(w) : w \in Worlds})]
      /\ saved \in [Worlds -> {"flat", "long"}]
      /\ tombs \in [Worlds -> Runs \cup {NoRun}]
      /\ tombsDisk \in [Worlds -> Runs \cup {NoRun}]
      /\ held \in [Worlds -> BOOLEAN]
      /\ history \in [threw : SUBSET Worlds, unacked : SUBSET Worlds, markLost : BOOLEAN]
  BY <1>1 DEF Init
<1>9. TypeOK BY <1>3, <1>4, <1>5, <1>6, <1>7, <1>8 DEF TypeOK, Ticks, Phases
<1>10. MutexInv BY <1>3 DEF MutexInv, Waits, Submits
<1>11. QED BY <1>9, <1>10

\* updatePositionState() writes a stance and keys that exist.
LEMMA UpdateIsTyped ==
    ASSUME TypeOK, NEW r \in Runs, NEW w \in Worlds, NEW action, NEW success \in BOOLEAN,
           UpdatePositionState(r, w, action, success)
    PROVE  /\ position' \in [Runs -> [Worlds -> {"flat", "long"}]]
           /\ confirmed' \in [Runs -> SUBSET (StateKeys \cup {PairKey(v) : v \in Worlds})]
<1>1. WorldKey(w) \in StateKeys BY DEF StateKeys
<1>2. QED BY <1>1 DEF UpdatePositionState, TypeOK

\* n is t but for the candle c, which stays in its world.
Moves(n, t, c) ==
    /\ n \in [Candles -> Ticks]
    /\ \A d \in Candles \ {c} : n[d] = t[d]
    /\ n[c].world = t[c].world

\* The order of a candle that holds the mutex is over: the next signal follows,
\* or the candle leaves the queue of its run and the executor is saved.
LEMMA OrderOverMoves ==
    ASSUME TypeOK, MutexInv, NEW c \in Candles, Submits(c), OrderOver(c)
    PROVE  /\ Moves(tick', tick, c)
           /\ tick'[c].run = tick[c].run /\ tick'[c].executor = tick[c].executor
           /\ tick'[c].landed = FALSE
           /\ \/ /\ tick'[c].phase = "queued" /\ tick'[c].signals # <<>>
                 /\ queue' = queue /\ saved' = saved
              \/ /\ tick'[c].phase = "done"
                 /\ queue' = [queue EXCEPT ![tick[c].run] = Tail(@)]
                 /\ saved' = position'[tick[c].run]
<1>1. tick \in [Candles -> Ticks] /\ tick[c].signals # <<>>
  BY DEF TypeOK, Ticks, Phases, MutexInv, Submits, Waits
<1>2. CASE Len(tick[c].signals) > 1
  <2>1. /\ tick' = [tick EXCEPT ![c].phase = "queued", ![c].signals = Tail(@), ![c].landed = FALSE]
        /\ queue' = queue /\ saved' = saved
    BY <1>2, Zenon DEF OrderOver
  <2>2. QED BY <1>1, <1>2, <2>1 DEF Moves, Ticks, Phases
<1>3. CASE ~(Len(tick[c].signals) > 1)
  <2>1. /\ tick' = [tick EXCEPT ![c].phase = "done", ![c].signals = <<>>, ![c].landed = FALSE]
        /\ queue' = [queue EXCEPT ![tick[c].run] = Tail(@)]
        /\ SaveState(position', tick[c].run)
    BY <1>3, Zenon DEF OrderOver
  <2>2. saved' = position'[tick[c].run] BY <2>1 DEF SaveState
  <2>3. QED BY <1>1, <2>1, <2>2 DEF Moves, Ticks, Phases
<1>4. QED BY <1>2, <1>3

\* What each step does to its candle; every other candle stays as it is.
LEMMA ArrivesMoves ==
    ASSUME TypeOK, NEW c \in Candles, CandleArrives(c)
    PROVE  /\ Moves(tick', tick, c) /\ tick[c].phase = "expected"
           /\ tick'[c].phase \in {"evaluating", "done"} /\ tick'[c].run = run
           /\ tick'[c].executor = tick[c].executor /\ tick'[c].landed = tick[c].landed
<1> DEFINE p == IF engine = "running" THEN "evaluating" ELSE "done"
<1>1. tick \in [Candles -> Ticks] /\ run \in Runs BY DEF TypeOK, Ticks, Phases
<1>2. p \in {"evaluating", "done"} OBVIOUS
<1>3. tick' = [tick EXCEPT ![c].phase = p, ![c].run = run] /\ tick[c].phase = "expected"
  BY DEF CandleArrives
<1> HIDE DEF p
<1>4. QED BY <1>1, <1>2, <1>3 DEF Moves, Ticks, Phases

LEMMA EvaluateMoves ==
    ASSUME TypeOK, NEW c \in Candles, Evaluate(c)
    PROVE  /\ Moves(tick', tick, c) /\ tick[c].phase = "evaluating"
           /\ tick'[c].run = tick[c].run /\ tick'[c].executor = tick[c].executor
           /\ tick'[c].landed = tick[c].landed
           /\ \/ /\ tick'[c].phase = "done" /\ queue' = queue
                 /\ saved' = position'[tick[c].run]
              \/ /\ tick'[c].phase = "queued" /\ tick'[c].signals # <<>>
                 /\ ~Aborted(tick[c].run)
                 /\ queue' = [queue EXCEPT ![tick[c].run] = Append(@, c)]
                 /\ saved' = saved
<1>1. tick \in [Candles -> Ticks] BY DEF TypeOK, Ticks, Phases
<1>2. PICK signals \in Markers(tick[c].run, tick[c].world) :
         IF signals = <<>> \/ Aborted(tick[c].run)
         THEN /\ tick' = [tick EXCEPT ![c].phase = "done"]
              /\ SaveState(position', tick[c].run)
              /\ queue' = queue
         ELSE /\ tick' = [tick EXCEPT ![c].phase = "queued", ![c].signals = signals]
              /\ queue' = [queue EXCEPT ![tick[c].run] = Append(@, c)]
              /\ saved' = saved
  BY DEF Evaluate
<1>3. tick[c].phase = "evaluating" BY DEF Evaluate
<1>4. signals \in Seq({"buy", "sell"})
  <2>1. signals \in {<<>>, <<"buy">>, <<"sell">>, <<"sell", "buy">>} BY Zenon DEF Markers
  <2>2. <<>> \in Seq({"buy", "sell"}) /\ <<"buy">> \in Seq({"buy", "sell"}) OBVIOUS
  <2>3. <<"sell">> \in Seq({"buy", "sell"}) /\ <<"sell", "buy">> \in Seq({"buy", "sell"}) OBVIOUS
  <2>4. QED BY <2>1, <2>2, <2>3
<1>5. CASE signals = <<>> \/ Aborted(tick[c].run)
  <2>1. /\ tick' = [tick EXCEPT ![c].phase = "done"] /\ queue' = queue
        /\ SaveState(position', tick[c].run)
    BY <1>2, <1>5
  <2>2. saved' = position'[tick[c].run] BY <2>1 DEF SaveState
  <2>3. QED BY <1>1, <1>3, <2>1, <2>2 DEF Moves, Ticks, Phases
<1>6. CASE ~(signals = <<>> \/ Aborted(tick[c].run))
  <2>1. /\ tick' = [tick EXCEPT ![c].phase = "queued", ![c].signals = signals]
        /\ queue' = [queue EXCEPT ![tick[c].run] = Append(@, c)]
        /\ saved' = saved
    BY <1>2, <1>6
  <2>2. QED BY <1>1, <1>3, <1>4, <1>6, <2>1 DEF Moves, Ticks, Phases
<1>7. QED BY <1>5, <1>6

LEMMA BeginMoves ==
    ASSUME TypeOK, NEW c \in Candles, BeginOrder(c)
    PROVE  /\ Moves(tick', tick, c) /\ tick[c].phase = "queued"
           /\ tick'[c].phase = "ordering" /\ tick'[c].run = tick[c].run
           /\ tick'[c].executor = run /\ tick'[c].signals = tick[c].signals
           /\ tick'[c].landed = tick[c].landed
<1>1. tick \in [Candles -> Ticks] /\ run \in Runs BY DEF TypeOK, Ticks, Phases
<1>2. /\ tick' = [tick EXCEPT ![c].phase = "ordering", ![c].executor = run]
      /\ tick[c].phase = "queued"
  BY DEF BeginOrder
<1>3. QED BY <1>1, <1>2 DEF Moves, Ticks, Phases

LEMMA DropMoves ==
    ASSUME TypeOK, NEW c \in Candles, DropOrders(c)
    PROVE  /\ Moves(tick', tick, c) /\ tick[c].phase = "queued"
           /\ tick'[c].phase = "done" /\ tick'[c].run = tick[c].run
           /\ tick'[c].executor = tick[c].executor /\ tick'[c].landed = tick[c].landed
           /\ saved' = position[tick[c].run]
<1>1. tick \in [Candles -> Ticks] BY DEF TypeOK, Ticks, Phases
<1>2. /\ tick' = [tick EXCEPT ![c].phase = "done", ![c].signals = <<>>]
      /\ tick[c].phase = "queued"
  BY DEF DropOrders
<1>3. saved' = position[tick[c].run] BY DEF DropOrders, SaveState
<1>4. /\ Moves(tick', tick, c) /\ tick'[c].phase = "done" /\ tick'[c].run = tick[c].run
      /\ tick'[c].executor = tick[c].executor /\ tick'[c].landed = tick[c].landed
  <2>1. <<>> \in Seq({"buy", "sell"}) OBVIOUS
  <2>2. tick' = [tick EXCEPT ![c].phase = "done", ![c].signals = <<>>] BY <1>2
  <2>3. QED BY <1>1, <2>1, <2>2 DEF Moves, Ticks, Phases
<1>5. QED BY <1>2, <1>3, <1>4

LEMMA SendMoves ==
    ASSUME TypeOK, NEW c \in Candles, SendOrder(c)
    PROVE  /\ Moves(tick', tick, c) /\ tick[c].phase = "ordering"
           /\ tick'[c].phase = "sent" /\ tick'[c].run = tick[c].run
           /\ tick'[c].executor = tick[c].executor /\ tick'[c].signals = tick[c].signals
           /\ tick'[c].landed = tick[c].landed
<1>1. tick \in [Candles -> Ticks] BY DEF TypeOK, Ticks, Phases
<1>2. tick' = [tick EXCEPT ![c].phase = "sent"] /\ tick[c].phase = "ordering" BY DEF SendOrder
<1>3. QED BY <1>1, <1>2 DEF Moves, Ticks, Phases

LEMMA LandsMoves ==
    ASSUME TypeOK, NEW c \in Candles, OrderLands(c)
    PROVE  /\ Moves(tick', tick, c) /\ tick[c].phase \in {"sent", "lost"}
           /\ tick'[c].phase = tick[c].phase /\ tick'[c].run = tick[c].run
           /\ tick'[c].executor = tick[c].executor /\ tick'[c].signals = tick[c].signals
           /\ tick'[c].landed = TRUE
<1>1. tick \in [Candles -> Ticks] BY DEF TypeOK, Ticks, Phases
<1>2. /\ tick' = [tick EXCEPT ![c].landed = TRUE]
      /\ tick[c].phase \in {"sent", "lost"}
  BY DEF OrderLands
<1>3. QED BY <1>1, <1>2 DEF Moves, Ticks, Phases

\* A step that leaves the queues alone keeps the mutexes.
LEMMA MutexKept ==
    ASSUME TypeOK, MutexInv, NEW c \in Candles, Moves(tick', tick, c), queue' = queue,
           Waits(c)' => /\ Waits(c) /\ tick'[c].run = tick[c].run
                        /\ tick'[c].signals # <<>>,
           Submits(c)' => queue[tick[c].run][1] = c
    PROVE  MutexInv'
<1> SUFFICES ASSUME NEW d \in Candles, Waits(d)'
             PROVE  /\ tick'[d].signals # <<>>
                    /\ \E i \in 1..Len(queue[tick'[d].run]) : queue[tick'[d].run][i] = d
                    /\ Submits(d)' => queue[tick'[d].run][1] = d
  BY DEF MutexInv, Waits, Submits
<1>1. CASE d = c BY <1>1 DEF MutexInv
<1>2. CASE d # c
  <2>1. tick'[d] = tick[d] BY <1>2 DEF Moves
  <2>2. Waits(d) /\ (Submits(d)' => Submits(d)) BY <2>1 DEF Waits, Submits
  <2>3. QED BY <2>1, <2>2 DEF MutexInv
<1>3. QED BY <1>1, <1>2

\* The holder of a mutex leaves it: who waits moves up by one.
LEMMA MutexReleased ==
    ASSUME TypeOK, MutexInv, NEW c \in Candles, Moves(tick', tick, c),
           Waits(c), queue[tick[c].run][1] = c, tick'[c].phase = "done",
           queue' = [queue EXCEPT ![tick[c].run] = Tail(@)]
    PROVE  MutexInv'
<1> DEFINE r == tick[c].run
           q == queue[r]
<1>1. r \in Runs /\ q \in Seq(Candles) /\ queue \in [Runs -> Seq(Candles)]
  BY DEF TypeOK
<1>2. Len(q) \in Nat /\ Len(q) > 0 BY <1>1 DEF MutexInv
<1>3. /\ queue'[r] = Tail(q) /\ Len(Tail(q)) = Len(q) - 1
      /\ \A i \in 1..(Len(q) - 1) : Tail(q)[i] = q[i + 1]
  BY <1>1, <1>2
<1> SUFFICES ASSUME NEW d \in Candles, Waits(d)'
             PROVE  /\ tick'[d].signals # <<>>
                    /\ \E i \in 1..Len(queue'[tick'[d].run]) : queue'[tick'[d].run][i] = d
                    /\ Submits(d)' => queue'[tick'[d].run][1] = d
  BY DEF MutexInv, Waits, Submits
<1>4. d # c BY DEF Waits
<1>5. tick'[d] = tick[d] BY <1>4 DEF Moves
<1>6. Waits(d) /\ (Submits(d)' => Submits(d)) BY <1>5 DEF Waits, Submits
<1>7. PICK i \in 1..Len(queue[tick[d].run]) : queue[tick[d].run][i] = d BY <1>6 DEF MutexInv
<1>8. tick[d].signals # <<>> /\ (Submits(d) => queue[tick[d].run][1] = d)
  BY <1>6 DEF MutexInv
<1>9. CASE tick[d].run = r
  <2>1. ~Submits(d) BY <1>4, <1>8, <1>9
  <2>2. i # 1 BY <1>4, <1>7, <1>9
  <2> HIDE DEF r, q
  <2>3. i \in Int /\ 1 <= i /\ i <= Len(q) /\ q[i] = d
    <3>1. q = queue[tick[d].run] BY <1>9 DEF q, r
    <3>2. QED BY <1>2, <1>7, <3>1
  <2>4. i - 1 \in 1..Len(Tail(q)) /\ Tail(q)[i - 1] = d BY <1>2, <1>3, <2>2, <2>3
  <2>5. QED BY <1>3, <1>5, <1>6, <1>8, <1>9, <2>1, <2>4
<1>10. CASE tick[d].run # r
  <2>1. tick[d].run \in Runs BY DEF TypeOK
  <2>2. queue'[tick[d].run] = queue[tick[d].run] BY <1>1, <1>10, <2>1
  <2>3. QED BY <1>5, <1>6, <1>7, <1>8, <2>2
<1>11. QED BY <1>9, <1>10

\* A candle joins the queue of its run.
LEMMA MutexRequested ==
    ASSUME TypeOK, MutexInv, NEW c \in Candles, Moves(tick', tick, c),
           tick'[c].run = tick[c].run, tick'[c].phase = "queued", tick'[c].signals # <<>>,
           queue' = [queue EXCEPT ![tick[c].run] = Append(@, c)]
    PROVE  MutexInv'
<1> DEFINE r == tick[c].run
           q == queue[r]
<1>1. r \in Runs /\ q \in Seq(Candles) /\ queue \in [Runs -> Seq(Candles)]
  BY DEF TypeOK
<1>2. Len(q) \in Nat BY <1>1
<1>3. /\ queue'[r] = Append(q, c) /\ Len(Append(q, c)) = Len(q) + 1
      /\ Append(q, c)[Len(q) + 1] = c
      /\ \A i \in 1..Len(q) : Append(q, c)[i] = q[i]
  BY <1>1, <1>2
<1> SUFFICES ASSUME NEW d \in Candles, Waits(d)'
             PROVE  /\ tick'[d].signals # <<>>
                    /\ \E i \in 1..Len(queue'[tick'[d].run]) : queue'[tick'[d].run][i] = d
                    /\ Submits(d)' => queue'[tick'[d].run][1] = d
  BY DEF MutexInv, Waits, Submits
<1> HIDE DEF q
<1>4. CASE d = c
  <2>1. ~Submits(d)' BY <1>4 DEF Submits
  <2>2. Len(q) + 1 \in 1..Len(queue'[r]) /\ queue'[r][Len(q) + 1] = c BY <1>2, <1>3
  <2>3. QED BY <1>4, <2>1, <2>2
<1>5. CASE d # c
  <2>1. tick'[d] = tick[d] BY <1>5 DEF Moves
  <2>2. Waits(d) /\ (Submits(d)' => Submits(d)) BY <2>1 DEF Waits, Submits
  <2>3. PICK i \in 1..Len(queue[tick[d].run]) : queue[tick[d].run][i] = d
    BY <2>2 DEF MutexInv
  <2>4. tick[d].signals # <<>> /\ (Submits(d) => queue[tick[d].run][1] = d)
    BY <2>2 DEF MutexInv
  <2>5. CASE tick[d].run = r
    <3>1. queue[tick[d].run] = q BY <2>5 DEF q
    <3> HIDE DEF r
    <3>2. i \in 1..Len(q) /\ 1 \in 1..Len(q) /\ q[i] = d BY <1>2, <2>3, <3>1
    <3>3. i \in 1..Len(queue'[r]) /\ queue'[r][i] = d BY <1>2, <1>3, <3>2
    <3>4. Submits(d) => queue'[r][1] = d BY <1>3, <2>4, <3>1, <3>2
    <3>5. QED BY <2>1, <2>2, <2>4, <2>5, <3>3, <3>4
  <2>6. CASE tick[d].run # r
    <3>1. tick[d].run \in Runs BY DEF TypeOK
    <3>2. queue'[tick[d].run] = queue[tick[d].run] BY <1>1, <2>6, <3>1
    <3>3. QED BY <2>1, <2>2, <2>3, <2>4, <3>2
  <2>7. QED BY <2>5, <2>6
<1>6. QED BY <1>4, <1>5

\* The steps of a candle keep the types and the mutexes.
LEMMA CandleKeepsTypes ==
    ASSUME TypeOK, MutexInv, NEW c \in Candles, CandleStep(c)
    PROVE  TypeOK' /\ MutexInv'
<1> USE DEF Waits, Submits
<1>1. /\ tick \in [Candles -> Ticks] /\ tick[c].run \in Runs /\ tick[c].executor \in Runs
      /\ tick[c].world \in Worlds /\ queue \in [Runs -> Seq(Candles)]
      /\ position \in [Runs -> [Worlds -> {"flat", "long"}]]
  BY DEF TypeOK, Ticks, Phases
\* The queue of a run after its holder left, the position of an executor as it is saved.
<1>2. ASSUME Waits(c), queue' = [queue EXCEPT ![tick[c].run] = Tail(@)]
      PROVE  queue' \in [Runs -> Seq(Candles)]
  <2>1. queue[tick[c].run] # <<>> BY <1>1, <1>2 DEF MutexInv
  <2>2. Tail(queue[tick[c].run]) \in Seq(Candles) BY <1>1, <2>1
  <2>3. QED BY <1>1, <1>2, <2>2
<1>3. ASSUME tick' \in [Candles -> Ticks]
      PROVE  tick' \in [Candles -> [phase : {"expected", "evaluating", "queued", "ordering", "sent",
                                             "lost", "done"},
                                    world : Worlds, run : Runs, executor : Runs,
                                    signals : Seq({"buy", "sell"}), landed : BOOLEAN]]
  BY <1>3 DEF Ticks, Phases
<1>4. CASE CandleArrives(c)
  <2>1. /\ Moves(tick', tick, c) /\ tick'[c].phase \in {"evaluating", "done"} BY <1>4, ArrivesMoves
  <2>2. /\ engine' = engine /\ run' = run /\ queue' = queue /\ position' = position
        /\ confirmed' = confirmed /\ strategy' = strategy /\ saved' = saved
        /\ closes' = closes /\ tombs' = tombs /\ tombsDisk' = tombsDisk
        /\ held' = held /\ history' = history
    BY <1>4 DEF CandleArrives, book
  <2>3. MutexInv' BY <2>1, <2>2, MutexKept
  <2>4. tick' \in [Candles -> Ticks] BY <2>1 DEF Moves
  <2>5. TypeOK' BY <1>3, <2>2, <2>4 DEF TypeOK
  <2>6. QED BY <2>3, <2>5
<1>5. CASE Evaluate(c)
  <2>1. /\ Moves(tick', tick, c) /\ tick'[c].run = tick[c].run
        /\ \/ tick'[c].phase = "done" /\ queue' = queue /\ saved' = position'[tick[c].run]
           \/ /\ tick'[c].phase = "queued" /\ tick'[c].signals # <<>>
              /\ queue' = [queue EXCEPT ![tick[c].run] = Append(@, c)]
              /\ saved' = saved
    BY <1>5, EvaluateMoves
  <2>2. /\ engine' = engine /\ run' = run /\ confirmed' = confirmed
        /\ closes' = closes /\ tombs' = tombs /\ tombsDisk' = tombsDisk
        /\ held' = held /\ history' = history
    BY <1>5 DEF Evaluate
  <2>3. MutexInv' BY <2>1, MutexKept, MutexRequested
  <2>4. tick' \in [Candles -> Ticks] BY <2>1 DEF Moves
  <2>5. PICK signals \in Markers(tick[c].run, tick[c].world) :
           /\ Stage(tick[c].run, tick[c].world, signals)
           /\ strategy' = IF signals = <<>> THEN strategy
                          ELSE [strategy EXCEPT ![tick[c].run][tick[c].world] =
                                                  position'[tick[c].run][tick[c].world]]
    BY <1>5 DEF Evaluate
  <2>6. PICK stance \in {"flat", "long"} :
           position' = [position EXCEPT ![tick[c].run][tick[c].world] = stance]
    <3> DEFINE stance == IF signals = <<>> THEN position[tick[c].run][tick[c].world]
                         ELSE IF signals[Len(signals)] = "buy" THEN "long" ELSE "flat"
    <3>1. position' = [position EXCEPT ![tick[c].run][tick[c].world] = stance]
      BY <2>5 DEF Stage
    <3>2. position[tick[c].run][tick[c].world] \in {"flat", "long"} BY <1>1
    <3>3. stance \in {"flat", "long"} BY <3>2
    <3> HIDE DEF stance
    <3>4. QED BY <3>1, <3>3
  <2>7. position' \in [Runs -> [Worlds -> {"flat", "long"}]] BY <1>1, <2>6
  <2>8. strategy' \in [Runs -> [Worlds -> {"flat", "long"}]] BY <1>1, <2>5, <2>7 DEF TypeOK
  <2>9. saved' \in [Worlds -> {"flat", "long"}] BY <1>1, <2>1, <2>7 DEF TypeOK
  <2>10. queue' \in [Runs -> Seq(Candles)]
    <3>1. Append(queue[tick[c].run], c) \in Seq(Candles) BY <1>1
    <3>2. QED BY <1>1, <2>1, <3>1
  <2>11. TypeOK' BY <1>3, <2>2, <2>4, <2>7, <2>8, <2>9, <2>10 DEF TypeOK
  <2>12. QED BY <2>3, <2>11
<1>6. CASE BeginOrder(c)
  <2>1. /\ Moves(tick', tick, c) /\ tick[c].phase = "queued" /\ tick'[c].run = tick[c].run
        /\ tick'[c].signals = tick[c].signals
    BY <1>6, BeginMoves
  <2>2. /\ engine' = engine /\ run' = run /\ queue' = queue /\ position' = position
        /\ confirmed' = confirmed /\ strategy' = strategy /\ saved' = saved
        /\ closes' = closes /\ tombs' = tombs /\ tombsDisk' = tombsDisk
        /\ held' = held /\ history' = history /\ Head(queue[tick[c].run]) = c
    BY <1>6 DEF BeginOrder, book
  <2>3. tick'[c].signals # <<>> /\ queue[tick[c].run][1] = c BY <2>1, <2>2 DEF MutexInv
  <2>4. MutexInv' BY <2>1, <2>2, <2>3, MutexKept
  <2>5. tick' \in [Candles -> Ticks] BY <2>1 DEF Moves
  <2>6. TypeOK' BY <1>3, <2>2, <2>5 DEF TypeOK
  <2>7. QED BY <2>4, <2>6
<1>7. CASE DropOrders(c)
  <2>1. /\ Moves(tick', tick, c) /\ tick[c].phase = "queued" /\ tick'[c].phase = "done"
        /\ saved' = position[tick[c].run]
    BY <1>7, DropMoves
  <2>2. /\ engine' = engine /\ run' = run /\ position' = position
        /\ confirmed' = confirmed /\ strategy' = strategy
        /\ closes' = closes /\ tombs' = tombs /\ tombsDisk' = tombsDisk
        /\ held' = held /\ history' = history
    BY <1>7 DEF DropOrders, book
  <2>3. /\ queue' = [queue EXCEPT ![tick[c].run] = Tail(@)] /\ queue[tick[c].run][1] = c
    BY <1>7 DEF DropOrders
  <2>4. MutexInv' BY <2>1, <2>3, MutexReleased
  <2>5. tick' \in [Candles -> Ticks] BY <2>1 DEF Moves
  <2>6. saved' \in [Worlds -> {"flat", "long"}] BY <1>1, <2>1
  <2>7. queue' \in [Runs -> Seq(Candles)] BY <1>2, <2>1, <2>3
  <2>8. TypeOK' BY <1>3, <2>2, <2>5, <2>6, <2>7 DEF TypeOK
  <2>9. QED BY <2>4, <2>8
\* An order is over, whatever it reported.
<1>8. ASSUME Submits(c), OrderOver(c),
             position' \in [Runs -> [Worlds -> {"flat", "long"}]]
      PROVE  /\ MutexInv' /\ tick' \in [Candles -> Ticks]
             /\ saved' \in [Worlds -> {"flat", "long"}] /\ queue' \in [Runs -> Seq(Candles)]
  <2>1. /\ Moves(tick', tick, c) /\ tick'[c].run = tick[c].run
        /\ \/ /\ tick'[c].phase = "queued" /\ tick'[c].signals # <<>>
              /\ queue' = queue /\ saved' = saved
           \/ /\ tick'[c].phase = "done"
              /\ queue' = [queue EXCEPT ![tick[c].run] = Tail(@)]
              /\ saved' = position'[tick[c].run]
    BY <1>8, OrderOverMoves
  <2>2. queue[tick[c].run][1] = c /\ Waits(c) BY <1>8 DEF MutexInv
  <2>3. MutexInv' BY <2>1, <2>2, MutexKept, MutexReleased
  <2>4. tick' \in [Candles -> Ticks] BY <2>1 DEF Moves
  <2>5. saved' \in [Worlds -> {"flat", "long"}] BY <1>1, <1>8, <2>1 DEF TypeOK
  <2>6. queue' \in [Runs -> Seq(Candles)] BY <1>1, <1>2, <2>1, <2>2
  <2>7. QED BY <2>3, <2>4, <2>5, <2>6
<1>9. CASE OrderThrows(c)
  <2>1. /\ engine' = engine /\ run' = run /\ position' = position
        /\ confirmed' = confirmed /\ strategy' = strategy
        /\ closes' = closes /\ tombs' = tombs /\ tombsDisk' = tombsDisk /\ held' = held
        /\ history' = [history EXCEPT !.threw = @ \cup {tick[c].world}]
        /\ Submits(c) /\ OrderOver(c)
    BY <1>9 DEF OrderThrows, book
  <2>2. /\ MutexInv' /\ tick' \in [Candles -> Ticks]
        /\ saved' \in [Worlds -> {"flat", "long"}] /\ queue' \in [Runs -> Seq(Candles)]
    BY <1>1, <1>8, <2>1
  <2>3. history' \in [threw : SUBSET Worlds, unacked : SUBSET Worlds, markLost : BOOLEAN]
    BY <1>1, <2>1 DEF TypeOK
  <2>4. TypeOK' BY <1>3, <2>1, <2>2, <2>3 DEF TypeOK
  <2>5. QED BY <2>2, <2>4
<1>10. CASE OrderFails(c)
  <2>1. /\ engine' = engine /\ run' = run /\ strategy' = strategy
        /\ closes' = closes /\ tombs' = tombs /\ tombsDisk' = tombsDisk /\ held' = held
        /\ history' = history /\ Submits(c) /\ OrderOver(c)
        /\ UpdatePositionState(tick[c].executor, tick[c].world, Head(tick[c].signals), FALSE)
    BY <1>10 DEF OrderFails
  <2>2. /\ position' \in [Runs -> [Worlds -> {"flat", "long"}]]
        /\ confirmed' \in [Runs -> SUBSET (StateKeys \cup {PairKey(v) : v \in Worlds})]
    BY <1>1, <2>1, UpdateIsTyped
  <2>3. /\ MutexInv' /\ tick' \in [Candles -> Ticks]
        /\ saved' \in [Worlds -> {"flat", "long"}] /\ queue' \in [Runs -> Seq(Candles)]
    BY <1>8, <2>1, <2>2
  <2>4. TypeOK' BY <1>3, <2>1, <2>2, <2>3 DEF TypeOK
  <2>5. QED BY <2>3, <2>4
<1>11. CASE SendOrder(c)
  <2>1. /\ Moves(tick', tick, c) /\ tick[c].phase = "ordering" /\ tick'[c].run = tick[c].run
        /\ tick'[c].signals = tick[c].signals
    BY <1>11, SendMoves
  <2>2. /\ engine' = engine /\ run' = run /\ queue' = queue /\ position' = position
        /\ confirmed' = confirmed /\ strategy' = strategy /\ saved' = saved
        /\ closes' = closes /\ tombs' = tombs /\ tombsDisk' = tombsDisk
        /\ held' = held /\ history' = history
    BY <1>11 DEF SendOrder, book
  <2>3. tick'[c].signals # <<>> /\ queue[tick[c].run][1] = c BY <2>1 DEF MutexInv
  <2>4. MutexInv' BY <2>1, <2>2, <2>3, MutexKept
  <2>5. tick' \in [Candles -> Ticks] BY <2>1 DEF Moves
  <2>6. TypeOK' BY <1>3, <2>2, <2>5 DEF TypeOK
  <2>7. QED BY <2>4, <2>6
<1>12. CASE OrderLands(c)
  <2>1. /\ Moves(tick', tick, c) /\ tick'[c].phase = tick[c].phase
        /\ tick'[c].run = tick[c].run /\ tick'[c].signals = tick[c].signals
    BY <1>12, LandsMoves
  <2>2. /\ engine' = engine /\ run' = run /\ queue' = queue /\ position' = position
        /\ confirmed' = confirmed /\ strategy' = strategy /\ saved' = saved
        /\ closes' = closes /\ tombs' = tombs /\ tombsDisk' = tombsDisk
        /\ history' = history
        /\ held' = [held EXCEPT ![tick[c].world] = (Head(tick[c].signals) = "buy")]
    BY <1>12 DEF OrderLands, book
  <2>3. Waits(c) => tick'[c].signals # <<>> BY <2>1 DEF MutexInv
  <2>4. Submits(c)' => queue[tick[c].run][1] = c BY <2>1 DEF MutexInv
  <2>5. MutexInv' BY <2>1, <2>2, <2>3, <2>4, MutexKept
  <2>6. tick' \in [Candles -> Ticks] BY <2>1 DEF Moves
  <2>7. held' \in [Worlds -> BOOLEAN] BY <2>2 DEF TypeOK
  <2>8. TypeOK' BY <1>3, <2>2, <2>6, <2>7 DEF TypeOK
  <2>9. QED BY <2>5, <2>8
<1>13. CASE OrderReturns(c)
  <2>1. /\ engine' = engine /\ run' = run /\ strategy' = strategy
        /\ closes' = closes /\ tombs' = tombs /\ tombsDisk' = tombsDisk /\ held' = held
        /\ Submits(c) /\ OrderOver(c)
    BY <1>13 DEF OrderReturns
  <2>2. PICK success \in BOOLEAN :
           /\ UpdatePositionState(tick[c].executor, tick[c].world, Head(tick[c].signals), success)
           /\ history' = IF success THEN history
                         ELSE [history EXCEPT !.unacked = @ \cup {tick[c].world}]
    BY <1>13 DEF OrderReturns
  <2>3. /\ position' \in [Runs -> [Worlds -> {"flat", "long"}]]
        /\ confirmed' \in [Runs -> SUBSET (StateKeys \cup {PairKey(v) : v \in Worlds})]
    BY <1>1, <2>2, UpdateIsTyped
  <2>4. /\ MutexInv' /\ tick' \in [Candles -> Ticks]
        /\ saved' \in [Worlds -> {"flat", "long"}] /\ queue' \in [Runs -> Seq(Candles)]
    BY <1>8, <2>1, <2>3
  <2>5. history' \in [threw : SUBSET Worlds, unacked : SUBSET Worlds, markLost : BOOLEAN]
    BY <1>1, <2>2 DEF TypeOK
  <2>6. TypeOK' BY <1>3, <2>1, <2>3, <2>4, <2>5 DEF TypeOK
  <2>7. QED BY <2>4, <2>6
<1>14. QED
  BY <1>4, <1>5, <1>6, <1>7, <1>9, <1>10, <1>11, <1>12, <1>13 DEF CandleStep

\* The steps that are nobody's candle keep the types and the mutexes.
LEMMA OtherStepsKeepTypes ==
    ASSUME TypeOK, MutexInv,
           \/ BeginStop \/ EndDrain \/ Shutdown \/ FlushMarks \/ Start \/ Crash
           \/ UNCHANGED vars \/ \E w \in Worlds : CloseStep(w)
    PROVE  TypeOK' /\ MutexInv'
<1> DEFINE Stances == {"flat", "long"}
           CloseStates == {"none", "snapshot", "selling", "landed", "lost",
                           "closed", "failed", "unconfirmed"}
<1>1. /\ run \in Runs /\ position \in [Runs -> [Worlds -> Stances]]
      /\ closes \in [Runs -> [Worlds -> CloseStates]]
      /\ tombs \in [Worlds -> Runs \cup {NoRun}] /\ tombsDisk \in [Worlds -> Runs \cup {NoRun}]
      /\ saved \in [Worlds -> Stances] /\ strategy \in [Runs -> [Worlds -> Stances]]
  BY DEF TypeOK
<1>2. ASSUME tick' = tick, queue' = queue PROVE MutexInv'
  BY <1>2 DEF MutexInv, Waits, Submits
<1>3. CASE BeginStop \/ FlushMarks \/ UNCHANGED vars
  <2>1. TypeOK' BY <1>3 DEF BeginStop, FlushMarks, vars, book, TypeOK
  <2>2. tick' = tick /\ queue' = queue BY <1>3 DEF BeginStop, FlushMarks, vars
  <2>3. QED BY <1>2, <2>1, <2>2
<1>4. CASE EndDrain
  <2>1. /\ engine' = "closing" /\ run' = run /\ tick' = tick /\ queue' = queue
        /\ position' = position /\ confirmed' = confirmed /\ strategy' = strategy
        /\ saved' = saved /\ tombs' = tombs /\ tombsDisk' = tombsDisk /\ held' = held
        /\ history' = history
        /\ closes' = [closes EXCEPT ![run] =
                        [w \in Worlds |-> IF Reported(w) THEN "snapshot" ELSE "none"]]
    BY <1>4 DEF EndDrain, book
  <2>2. closes' \in [Runs -> [Worlds -> CloseStates]] BY <1>1, <2>1
  <2>3. TypeOK' BY <2>1, <2>2 DEF TypeOK
  <2>4. QED BY <1>2, <2>1, <2>3
<1>5. CASE Shutdown
  <2>1. /\ engine' = "stopped" /\ run' = run /\ tick' = tick /\ queue' = queue
        /\ position' = position /\ confirmed' = confirmed /\ strategy' = strategy
        /\ closes' = closes /\ tombs' = tombs /\ tombsDisk' = tombsDisk /\ held' = held
        /\ history' = history /\ SaveState(position, run)
    BY <1>5 DEF Shutdown, book
  <2>2. saved' \in [Worlds -> Stances] BY <1>1, <2>1 DEF SaveState
  <2>3. TypeOK' BY <2>1, <2>2 DEF TypeOK
  <2>4. QED BY <1>2, <2>1, <2>3
<1>6. CASE Start
  <2>1. /\ engine' = "running" /\ run' = run + 1 /\ run < LastRun
        /\ tick' = tick /\ queue' = queue /\ saved' = saved /\ closes' = closes
        /\ tombs' = tombsDisk /\ tombsDisk' = tombsDisk /\ held' = held
    BY <1>6 DEF Start
  <2>2. run + 1 \in Runs BY <1>1, <2>1, OrderPipelineAssumption DEF Runs
  <2>3. position' \in [Runs -> [Worlds -> Stances]] BY <1>1, <1>6 DEF Start
  <2>4. strategy' \in [Runs -> [Worlds -> Stances]] BY <1>1, <1>6 DEF Start
  <2>5. confirmed' \in [Runs -> SUBSET (StateKeys \cup {PairKey(w) : w \in Worlds})]
    <3> DEFINE restored == UNION {{WorldKey(w), PairKey(w)} : w \in {v \in Worlds : saved[v] = "long"}}
    <3>1. restored \subseteq StateKeys \cup {PairKey(w) : w \in Worlds} BY DEF StateKeys
    <3>2. confirmed' = [confirmed EXCEPT ![run + 1] = restored] BY <1>6 DEF Start
    <3> HIDE DEF restored
    <3>3. QED BY <3>1, <3>2 DEF TypeOK
  <2>6. history' \in [threw : SUBSET Worlds, unacked : SUBSET Worlds, markLost : BOOLEAN]
    <3> DEFINE lost == history.markLost \/ tombs # tombsDisk
    <3>1. history' = [threw |-> {}, unacked |-> {}, markLost |-> lost] BY <1>6 DEF Start
    <3>2. lost \in BOOLEAN BY DEF TypeOK
    <3> HIDE DEF lost
    <3>3. QED BY <3>1, <3>2
  <2>7. TypeOK' BY <2>1, <2>2, <2>3, <2>4, <2>5, <2>6 DEF TypeOK
  <2>8. QED BY <1>2, <2>1, <2>7
<1>7. CASE Crash
  <2>1. /\ engine' = "crashed" /\ run' = run /\ saved' = saved /\ tombs' = tombsDisk
        /\ tombsDisk' = tombsDisk /\ held' = held /\ position' = NoBook("flat")
        /\ confirmed' = [r \in Runs |-> {}] /\ strategy' = NoBook("flat")
        /\ queue' = [r \in Runs |-> <<>>]
    BY <1>7 DEF Crash
  <2>2. ASSUME NEW d \in Candles
        PROVE  tick'[d] \in Ticks /\ tick'[d].phase \notin {"queued", "ordering", "sent"}
    <3>1. tick[d] \in Ticks BY DEF TypeOK, Ticks, Phases
    <3>2. tick'[d] = IF tick[d].phase = "expected" THEN tick[d]
                     ELSE IF tick[d].phase = "sent" /\ ~tick[d].landed
                          THEN [tick[d] EXCEPT !.phase = "lost"]
                          ELSE [tick[d] EXCEPT !.phase = "done", !.signals = <<>>, !.landed = FALSE]
      BY <1>7 DEF Crash
    <3>3. <<>> \in Seq({"buy", "sell"}) OBVIOUS
    <3>4. CASE tick[d].phase = "expected" BY <3>1, <3>2, <3>4
    <3>5. CASE tick'[d] = [tick[d] EXCEPT !.phase = "lost"]
      BY <3>1, <3>5 DEF Ticks, Phases
    <3>6. CASE tick'[d] = [tick[d] EXCEPT !.phase = "done", !.signals = <<>>, !.landed = FALSE]
      BY <3>1, <3>3, <3>6 DEF Ticks, Phases
    <3>7. QED BY <3>2, <3>4, <3>5, <3>6
  <2>3. tick' \in [Candles -> Ticks]
    <3>1. \E f : tick' = [d \in Candles |-> f[d]]
      <4> DEFINE f == [d \in Candles |->
                  IF tick[d].phase = "expected" THEN tick[d]
                  ELSE IF tick[d].phase = "sent" /\ ~tick[d].landed
                       THEN [tick[d] EXCEPT !.phase = "lost"]
                       ELSE [tick[d] EXCEPT !.phase = "done", !.signals = <<>>, !.landed = FALSE]]
      <4>1. tick' = f BY <1>7 DEF Crash
      <4>2. f = [d \in Candles |-> f[d]] OBVIOUS
      <4> HIDE DEF f
      <4>3. QED BY <4>1, <4>2
    <3>2. QED BY <2>2, <3>1
  <2>4. closes' \in [Runs -> [Worlds -> CloseStates]]
    <3> SUFFICES ASSUME NEW r \in Runs, NEW w \in Worlds
                 PROVE  (CASE closes[r][w] = "selling" -> "lost"
                           [] closes[r][w] = "landed" -> "unconfirmed"
                           [] OTHER -> closes[r][w]) \in CloseStates
      BY <1>7 DEF Crash
    <3>1. QED BY <1>1
  <2>5. history' \in [threw : SUBSET Worlds, unacked : SUBSET Worlds, markLost : BOOLEAN]
    <3> DEFINE lost == history.markLost \/ tombs # tombsDisk
    <3>1. history' = [threw |-> {}, unacked |-> {}, markLost |-> lost] BY <1>7 DEF Crash
    <3>2. lost \in BOOLEAN BY DEF TypeOK
    <3> HIDE DEF lost
    <3>3. QED BY <3>1, <3>2
  <2>6. /\ position' \in [Runs -> [Worlds -> Stances]]
        /\ strategy' \in [Runs -> [Worlds -> Stances]]
        /\ confirmed' \in [Runs -> SUBSET (StateKeys \cup {PairKey(w) : w \in Worlds})]
        /\ queue' \in [Runs -> Seq(Candles)]
    BY <2>1 DEF NoBook
  <2>7. TypeOK' BY <2>1, <2>3, <2>4, <2>5, <2>6 DEF TypeOK, Ticks, Phases
  <2>8. MutexInv' BY <2>2 DEF MutexInv, Waits, Submits
  <2>9. QED BY <2>7, <2>8
<1>8. ASSUME NEW w \in Worlds, CloseStep(w) PROVE TypeOK' /\ MutexInv'
  <2>1. CASE PrepareClose(w)
    <3>1. /\ engine' = engine /\ run' = run /\ tick' = tick /\ queue' = queue
          /\ position' = position /\ confirmed' = confirmed /\ strategy' = strategy
          /\ saved' = saved /\ tombsDisk' = tombsDisk /\ held' = held /\ history' = history
      BY <2>1 DEF PrepareClose, book
    <3>2. /\ closes' \in [Runs -> [Worlds -> CloseStates]]
          /\ tombs' \in [Worlds -> Runs \cup {NoRun}]
      <4>1. CASE /\ closes' = [closes EXCEPT ![run][w] = "selling"]
                 /\ tombs' = [tombs EXCEPT ![w] = run]
        BY <1>1, <4>1
      <4>2. CASE closes' = [closes EXCEPT ![run][w] = "failed"] /\ tombs' = tombs
        BY <1>1, <4>2
      <4>3. QED BY <2>1, <4>1, <4>2 DEF PrepareClose
    <3>3. TypeOK' BY <3>1, <3>2 DEF TypeOK
    <3>4. QED BY <1>2, <3>1, <3>3
  <2>2. ASSUME NEW r \in Runs, SaleLands(r, w) PROVE TypeOK' /\ MutexInv'
    <3>1. /\ engine' = engine /\ run' = run /\ tick' = tick /\ queue' = queue
          /\ position' = position /\ confirmed' = confirmed /\ strategy' = strategy
          /\ saved' = saved /\ tombs' = tombs /\ tombsDisk' = tombsDisk /\ history' = history
      BY <2>2 DEF SaleLands, book
    <3>2. closes' \in [Runs -> [Worlds -> CloseStates]] /\ held' \in [Worlds -> BOOLEAN]
      BY <1>1, <2>2 DEF SaleLands, TypeOK
    <3>3. TypeOK' BY <3>1, <3>2 DEF TypeOK
    <3>4. QED BY <1>2, <3>1, <3>3
  <2>3. ASSUME NEW r \in Runs, CloseReturns(r, w) PROVE TypeOK' /\ MutexInv'
    <3>1. /\ engine' = engine /\ run' = run /\ tick' = tick /\ queue' = queue
          /\ confirmed' = confirmed /\ strategy' = strategy
          /\ tombsDisk' = tombsDisk /\ held' = held /\ history' = history
      BY <2>3 DEF CloseReturns
    <3>2. closes' \in [Runs -> [Worlds -> CloseStates]]
      <4>1. \/ closes' = [closes EXCEPT ![r][w] = "closed"]
            \/ closes' = [closes EXCEPT ![r][w] = "unconfirmed"]
            \/ closes' = [closes EXCEPT ![r][w] = "failed"]
        BY <2>3 DEF CloseReturns
      <4>2. CASE closes' = [closes EXCEPT ![r][w] = "closed"] BY <1>1, <4>2
      <4>3. CASE closes' = [closes EXCEPT ![r][w] = "unconfirmed"] BY <1>1, <4>3
      <4>4. CASE closes' = [closes EXCEPT ![r][w] = "failed"] BY <1>1, <4>4
      <4>5. QED BY <4>1, <4>2, <4>3, <4>4
    <3>3. \/ HandlePositionClosed(w)
          \/ position' = position /\ tombs' = tombs /\ saved' = saved
      BY <2>3 DEF CloseReturns
    <3>4. /\ position' \in [Runs -> [Worlds -> Stances]]
          /\ tombs' \in [Worlds -> Runs \cup {NoRun}] /\ saved' \in [Worlds -> Stances]
      <4>1. CASE HandlePositionClosed(w)
        <5>1. \/ position' = [position EXCEPT ![run][w] = "flat"] \/ position' = position
          BY <4>1 DEF HandlePositionClosed
        <5>2. position' \in [Runs -> [Worlds -> Stances]]
          <6>1. CASE position' = [position EXCEPT ![run][w] = "flat"] BY <1>1, <6>1
          <6>2. QED BY <1>1, <5>1, <6>1
        <5>3. \/ saved' = saved \/ SaveState(position', run) BY <4>1 DEF HandlePositionClosed
        <5>4. saved' \in [Worlds -> Stances] BY <1>1, <5>2, <5>3 DEF SaveState
        <5>5. tombs' = [tombs EXCEPT ![w] = NoRun] BY <4>1 DEF HandlePositionClosed
        <5>6. tombs' \in [Worlds -> Runs \cup {NoRun}] BY <1>1, <5>5
        <5>7. QED BY <5>2, <5>4, <5>6
      <4>2. QED BY <1>1, <3>3, <4>1
    <3>5. TypeOK' BY <3>1, <3>2, <3>4 DEF TypeOK
    <3>6. QED BY <1>2, <3>1, <3>5
  <2>4. QED BY <1>8, <2>1, <2>2, <2>3 DEF CloseStep
<1>9. QED BY <1>3, <1>4, <1>5, <1>6, <1>7, <1>8

\* Every step keeps the types and the mutexes.
LEMMA StepKeepsTypes == TypeOK /\ MutexInv /\ [Next]_vars => TypeOK' /\ MutexInv'
<1> SUFFICES ASSUME TypeOK, MutexInv, [Next]_vars PROVE TypeOK' /\ MutexInv' OBVIOUS
<1>1. ASSUME NEW c \in Candles, CandleStep(c) PROVE TypeOK' /\ MutexInv'
  BY <1>1, CandleKeepsTypes
<1>2. CASE \/ BeginStop \/ EndDrain \/ Shutdown \/ FlushMarks \/ Start \/ Crash
           \/ UNCHANGED vars \/ \E w \in Worlds : CloseStep(w)
  BY <1>2, OtherStepsKeepTypes
<1>3. QED BY <1>1, <1>2 DEF Next, Finished

\* A candle with an order in progress holds the mutex of its run.
LEMMA TypesHold == Spec => [](TypeOK /\ MutexInv)
BY TypeInit, StepKeepsTypes, PTL DEF Spec

\* Type correctness: candles, queues, books, closes and marks stay what they are
\* declared to be: an order never asks an empty queue or an empty list of signals
\* for its head (live-scheduler.ts, live-strategy-executor.ts).
THEOREM TypeCorrect == Spec => []TypeOK
<1>1. TypeOK /\ MutexInv => TypeOK OBVIOUS
<1>2. QED BY <1>1, TypesHold, PTL

-----------------------------------------------------------------------------
(* One order of a world at a time.                                         *)

\* Candles and executors belong to this run or an earlier one; a candle is
\* marked as landed only while its order is out; an executor submits at most one
\* order of a world.
RunsInv == \A c \in Candles : tick[c].run <= run /\ tick[c].executor <= run
LandedInv ==
    \A c \in Candles :
        /\ tick[c].landed => tick[c].phase \in {"sent", "lost"}
        /\ tick[c].phase = "lost" => run > 0 \/ engine = "crashed"
OneOrder ==
    \A c, d \in Candles :
        Submits(c) /\ Submits(d) /\ tick[c].executor = tick[d].executor
          /\ tick[c].world = tick[d].world => c = d
OrderInv == RunsInv /\ LandedInv /\ OneOrder

\* What any step of a candle does to it.
LEMMA CandleEffect ==
    ASSUME TypeOK, MutexInv, OrderInv, NEW c \in Candles, CandleStep(c)
    PROVE  /\ Moves(tick', tick, c) /\ run' = run /\ engine' = engine
           /\ tick'[c].run \in {tick[c].run, run}
           /\ tick'[c].executor \in {tick[c].executor, run}
           /\ tick'[c].landed => tick'[c].phase \in {"sent", "lost"}
           /\ tick'[c].phase = "lost" => tick[c].phase = "lost"
           /\ Submits(c)' => \/ Submits(c) /\ tick'[c].executor = tick[c].executor
                             \/ tick'[c].executor = run /\ ~Ordering(run, tick[c].world)
<1>1. tick[c].landed => tick[c].phase \in {"sent", "lost"} BY DEF OrderInv, LandedInv
<1>2. CASE CandleArrives(c)
  <2>1. run' = run /\ engine' = engine BY <1>2 DEF CandleArrives
  <2>2. QED BY <1>1, <1>2, <2>1, ArrivesMoves DEF Submits
<1>3. CASE Evaluate(c)
  <2>1. run' = run /\ engine' = engine BY <1>3 DEF Evaluate
  <2>2. QED BY <1>1, <1>3, <2>1, EvaluateMoves DEF Submits
<1>4. CASE BeginOrder(c)
  <2>1. run' = run /\ engine' = engine /\ ~Ordering(run, tick[c].world) BY <1>4 DEF BeginOrder
  <2>2. QED BY <1>1, <1>4, <2>1, BeginMoves DEF Submits
<1>5. CASE DropOrders(c)
  <2>1. run' = run /\ engine' = engine BY <1>5 DEF DropOrders
  <2>2. QED BY <1>1, <1>5, <2>1, DropMoves DEF Submits
<1>6. CASE OrderThrows(c) \/ OrderFails(c) \/ OrderReturns(c)
  <2>1. run' = run /\ engine' = engine /\ Submits(c) /\ OrderOver(c)
    BY <1>6 DEF OrderThrows, OrderFails, OrderReturns, Submits
  <2>2. QED BY <2>1, OrderOverMoves DEF Submits
<1>7. CASE SendOrder(c)
  <2>1. run' = run /\ engine' = engine BY <1>7 DEF SendOrder
  <2>2. QED BY <1>1, <1>7, <2>1, SendMoves DEF Submits
<1>8. CASE OrderLands(c)
  <2>1. run' = run /\ engine' = engine BY <1>8 DEF OrderLands
  <2>2. QED BY <1>1, <1>8, <2>1, LandsMoves DEF Submits
<1>9. QED BY <1>2, <1>3, <1>4, <1>5, <1>6, <1>7, <1>8 DEF CandleStep

LEMMA OrderInit == Init => OrderInv
<1> SUFFICES ASSUME Init PROVE OrderInv OBVIOUS
<1>1. ASSUME NEW c \in Candles
      PROVE  /\ tick[c].phase = "expected" /\ tick[c].run = 0 /\ tick[c].executor = 0
             /\ tick[c].landed = FALSE
  <2> DEFINE Expected == {[phase |-> "expected", world |-> w, run |-> 0, executor |-> 0,
                           signals |-> <<>>, landed |-> FALSE] : w \in Worlds}
  <2>1. tick \in [Candles -> Expected] BY DEF Init
  <2>2. \A e \in Expected : /\ e.phase = "expected" /\ e.run = 0 /\ e.executor = 0
                            /\ e.landed = FALSE
    OBVIOUS
  <2> HIDE DEF Expected
  <2>3. QED BY <2>1, <2>2
<1>2. run = 0 BY DEF Init
<1>3. RunsInv
  <2>1. 0 <= 0 OBVIOUS
  <2>2. QED BY Zenon, <1>1, <1>2, <2>1 DEF RunsInv
<1>4. LandedInv BY <1>1 DEF LandedInv
<1>5. OneOrder BY <1>1 DEF OneOrder, Submits
<1>6. QED BY <1>3, <1>4, <1>5 DEF OrderInv

LEMMA StepKeepsOrders ==
    TypeOK /\ MutexInv /\ OrderInv /\ [Next]_vars => OrderInv'
<1> SUFFICES ASSUME TypeOK, MutexInv, OrderInv, [Next]_vars PROVE OrderInv' OBVIOUS
<1>0. /\ run \in Nat
      /\ \A d \in Candles : tick[d].run \in Nat /\ tick[d].executor \in Nat
  BY RunsAreNumbers DEF TypeOK
<1>1. ASSUME NEW c \in Candles, CandleStep(c) PROVE OrderInv'
  <2>1. /\ Moves(tick', tick, c) /\ run' = run /\ engine' = engine
        /\ tick'[c].run \in {tick[c].run, run}
        /\ tick'[c].executor \in {tick[c].executor, run}
        /\ tick'[c].landed => tick'[c].phase \in {"sent", "lost"}
        /\ tick'[c].phase = "lost" => tick[c].phase = "lost"
        /\ Submits(c)' => \/ Submits(c) /\ tick'[c].executor = tick[c].executor
                          \/ tick'[c].executor = run /\ ~Ordering(run, tick[c].world)
    BY <1>1, CandleEffect
  <2>2. \A d \in Candles \ {c} : tick'[d] = tick[d] BY <2>1 DEF Moves
  <2>3. RunsInv' BY <1>0, <2>1, <2>2 DEF OrderInv, RunsInv
  <2>4. LandedInv' BY <2>1, <2>2 DEF OrderInv, LandedInv
  <2>5. ASSUME NEW d \in Candles, d # c, Submits(c)', Submits(d)',
               tick'[c].executor = tick'[d].executor, tick'[c].world = tick'[d].world
        PROVE  FALSE
    <3>1. tick'[d] = tick[d] /\ tick'[c].world = tick[c].world BY <2>1, <2>2, <2>5 DEF Moves
    <3>2. Submits(d) BY <2>5, <3>1 DEF Submits
    <3>3. ~(Submits(c) /\ tick'[c].executor = tick[c].executor)
      BY <2>5, <3>1, <3>2 DEF OrderInv, OneOrder
    <3>4. tick[d].executor = run /\ ~Ordering(run, tick[c].world) BY <2>1, <2>5, <3>1, <3>3
    <3>5. QED BY <2>5, <3>1, <3>2, <3>4 DEF Ordering, Submits
  <2>6. OneOrder'
    <3> SUFFICES ASSUME NEW a \in Candles, NEW b \in Candles, Submits(a)', Submits(b)',
                        tick'[a].executor = tick'[b].executor, tick'[a].world = tick'[b].world
                 PROVE  a = b
      BY DEF OneOrder, Submits
    <3>1. CASE a = c \/ b = c BY <2>5, <3>1
    <3>2. CASE a # c /\ b # c
      <4>1. tick'[a] = tick[a] /\ tick'[b] = tick[b] BY <2>2, <3>2
      <4>2. Submits(a) /\ Submits(b) BY <4>1 DEF Submits
      <4>3. QED BY <4>1, <4>2 DEF OrderInv, OneOrder
    <3>3. QED BY <3>1, <3>2
  <2>7. QED BY <2>3, <2>4, <2>6 DEF OrderInv
<1>2. CASE Crash
  <2>1. engine' = "crashed" /\ run' = run BY <1>2 DEF Crash
  <2>2. ASSUME NEW d \in Candles
        PROVE  /\ tick'[d].run = tick[d].run /\ tick'[d].executor = tick[d].executor
               /\ tick'[d].landed => tick'[d].phase \in {"sent", "lost"}
               /\ tick'[d].phase \notin {"ordering", "sent"}
    <3>1. tick[d] \in Ticks BY DEF TypeOK, Ticks, Phases
    <3>2. tick'[d] = IF tick[d].phase = "expected" THEN tick[d]
                     ELSE IF tick[d].phase = "sent" /\ ~tick[d].landed
                          THEN [tick[d] EXCEPT !.phase = "lost"]
                          ELSE [tick[d] EXCEPT !.phase = "done", !.signals = <<>>, !.landed = FALSE]
      BY <1>2 DEF Crash
    <3>3. CASE tick[d].phase = "expected"
      <4>1. tick'[d] = tick[d] BY <3>2, <3>3
      <4>2. ~tick[d].landed BY <3>3 DEF OrderInv, LandedInv
      <4>3. QED BY <3>3, <4>1, <4>2
    <3>4. CASE tick'[d] = [tick[d] EXCEPT !.phase = "lost"]
      BY <3>1, <3>4 DEF Ticks
    <3>5. CASE tick'[d] = [tick[d] EXCEPT !.phase = "done", !.signals = <<>>, !.landed = FALSE]
      BY <3>1, <3>5 DEF Ticks
    <3>6. QED BY <3>2, <3>3, <3>4, <3>5
  <2>3. QED BY <2>1, <2>2 DEF OrderInv, RunsInv, LandedInv, OneOrder, Submits
<1>3. CASE Start
  <2>1. tick' = tick /\ run' = run + 1 BY <1>3 DEF Start
  <2>2. RunsInv' BY <1>0, <2>1 DEF OrderInv, RunsInv
  <2>3. LandedInv' BY <1>0, <2>1 DEF OrderInv, LandedInv
  <2>4. OneOrder' BY <2>1 DEF OrderInv, OneOrder, Submits
  <2>5. QED BY <2>2, <2>3, <2>4 DEF OrderInv
<1>4. CASE BeginStop \/ EndDrain \/ Shutdown
  <2>1. tick' = tick /\ run' = run /\ engine # "crashed"
    BY <1>4 DEF BeginStop, EndDrain, Shutdown
  <2>2. QED BY <2>1 DEF OrderInv, RunsInv, LandedInv, OneOrder, Submits
<1>5. CASE FlushMarks \/ UNCHANGED vars \/ \E w \in Worlds : CloseStep(w)
  <2>1. tick' = tick /\ run' = run /\ engine' = engine
    BY <1>5 DEF FlushMarks, vars, CloseStep, PrepareClose, SaleLands, CloseReturns
  <2>2. QED BY <2>1 DEF OrderInv, RunsInv, LandedInv, OneOrder, Submits
<1>6. QED BY <1>1, <1>2, <1>3, <1>4, <1>5 DEF Next, Finished

LEMMA OrdersHold == Spec => [](TypeOK /\ MutexInv /\ OrderInv)
<1>1. Init => TypeOK /\ MutexInv /\ OrderInv BY TypeInit, OrderInit
<1>2. TypeOK /\ MutexInv /\ OrderInv /\ [Next]_vars => (TypeOK /\ MutexInv /\ OrderInv)'
  BY StepKeepsTypes, StepKeepsOrders
<1>3. QED BY <1>1, <1>2, PTL DEF Spec

-----------------------------------------------------------------------------
(* The books of the first run.                                             *)

\* The two forms of the key of a world are no key of another world.
LEMMA KeysDiffer ==
    ASSUME NEW v, NEW w
    PROVE  /\ WorldKey(v) # PairKey(w)
           /\ v # w => WorldKey(v) # WorldKey(w)
           /\ PairKey(w) \notin StateKeys
<1>1. "symbol:timeframe:strategy" # "symbol:timeframe" OBVIOUS
<1>2. \A u : WorldKey(u) # PairKey(w) BY <1>1 DEF WorldKey, PairKey
<1>3. PairKey(w) \notin StateKeys BY <1>2 DEF StateKeys
<1>4. v # w => WorldKey(v) # WorldKey(w) BY DEF WorldKey
<1>5. QED BY <1>2, <1>3, <1>4

\* updatePositionState() touches the book of one world of one executor, and its
\* position and its confirmation agree afterwards.
LEMMA UpdateReconciles ==
    ASSUME TypeOK, NEW r \in Runs, NEW w \in Worlds, NEW action, NEW success \in BOOLEAN,
           UpdatePositionState(r, w, action, success)
    PROVE  /\ position'[r][w] = "long" <=> WorldKey(w) \in confirmed'[r]
           /\ \A v \in Worlds \ {w} :
                 /\ position'[r][v] = position[r][v]
                 /\ WorldKey(v) \in confirmed'[r] <=> WorldKey(v) \in confirmed[r]
           /\ \A v \in Worlds : PairKey(v) \in confirmed'[r] <=> PairKey(v) \in confirmed[r]
           /\ action # "buy" /\ success => WorldKey(w) \notin confirmed'[r]
           /\ ~success /\ WorldKey(w) \in confirmed'[r] => WorldKey(w) \in confirmed[r]
           /\ \A q \in Runs \ {r} :
                 position'[q] = position[q] /\ confirmed'[q] = confirmed[q]
<1> DEFINE key == WorldKey(w)
           holds == IF action = "buy" THEN success ELSE ~success /\ key \in confirmed[r]
<1>1. /\ position' = [position EXCEPT ![r][w] = IF holds THEN "long" ELSE "flat"]
      /\ confirmed' = [confirmed EXCEPT ![r] = IF holds THEN @ \cup {key} ELSE @ \ {key}]
  BY DEF UpdatePositionState
<1>2. /\ position \in [Runs -> [Worlds -> {"flat", "long"}]]
      /\ confirmed \in [Runs -> SUBSET (StateKeys \cup {PairKey(v) : v \in Worlds})]
  BY DEF TypeOK
<1>3. /\ \A v \in Worlds \ {w} : WorldKey(v) # key
      /\ \A v \in Worlds : PairKey(v) # key
  BY KeysDiffer
<1>4. holds \in BOOLEAN OBVIOUS
<1>5. action # "buy" /\ success => ~holds OBVIOUS
<1>6. ~success /\ holds => key \in confirmed[r] OBVIOUS
<1> HIDE DEF holds, key
<1>7. /\ \A v \in Worlds \ {w} : position'[r][v] = position[r][v]
      /\ \A q \in Runs \ {r} : position'[q] = position[q] /\ confirmed'[q] = confirmed[q]
  BY <1>1, <1>2
<1>8. CASE holds
  <2>1. position'[r][w] = "long" /\ confirmed'[r] = confirmed[r] \cup {key} BY <1>1, <1>2, <1>8
  <2>2. QED BY <1>3, <1>5, <1>6, <1>7, <1>8, <2>1 DEF key
<1>9. CASE ~holds
  <2>1. position'[r][w] = "flat" /\ confirmed'[r] = confirmed[r] \ {key} BY <1>1, <1>2, <1>9
  <2>2. QED BY <1>3, <1>7, <2>1 DEF key
<1>10. QED BY <1>4, <1>8, <1>9

\* Only the candle that moves can unsettle or settle a world.
LEMMA SettledElsewhere ==
    ASSUME NEW c \in Candles, Moves(tick', tick, c), NEW w \in Worlds, Settled(w)',
           tick[c].world = w => tick[c].phase \notin {"queued", "ordering", "sent"}
    PROVE  Settled(w)
<1> SUFFICES ASSUME NEW d \in Candles, tick[d].world = w
             PROVE  tick[d].phase \notin {"queued", "ordering", "sent"}
  BY DEF Settled
<1>1. CASE d = c BY <1>1
<1>2. CASE d # c BY <1>2 DEF Settled, Moves
<1>3. QED BY <1>1, <1>2

\* In the first run, a bar that ends without an order changes no stance, and a
\* bar of one world changes no stance of another.
LEMMA EvaluateStages ==
    ASSUME TypeOK, OrderInv, NEW c \in Candles, Evaluate(c), engine = "running", run = 0,
           NEW w \in Worlds, tick[c].world # w \/ tick'[c].phase = "done"
    PROVE  position'[0][w] = position[0][w]
<1>1. PICK signals \in Markers(tick[c].run, tick[c].world) :
         /\ Stage(tick[c].run, tick[c].world, signals)
         /\ IF signals = <<>> \/ Aborted(tick[c].run)
            THEN tick' = [tick EXCEPT ![c].phase = "done"]
            ELSE tick' = [tick EXCEPT ![c].phase = "queued", ![c].signals = signals]
  BY DEF Evaluate
<1>2. /\ tick \in [Candles -> Ticks] /\ tick[c].run \in Runs /\ tick[c].run = 0
      /\ tick[c].world \in Worlds /\ position \in [Runs -> [Worlds -> {"flat", "long"}]]
  <2>1. tick[c].run \in Runs /\ tick[c].run <= 0 BY DEF TypeOK, OrderInv, RunsInv
  <2>2. tick[c].run = 0 BY <2>1, FirstRun
  <2>3. QED BY <2>1, <2>2 DEF TypeOK, Ticks, Phases
<1>3. ~Aborted(tick[c].run) BY <1>2 DEF Aborted
<1> DEFINE stance == IF signals = <<>> THEN position[tick[c].run][tick[c].world]
                     ELSE IF signals[Len(signals)] = "buy" THEN "long" ELSE "flat"
<1>4. position' = [position EXCEPT ![tick[c].run][tick[c].world] = stance]
  BY <1>1 DEF Stage
<1>5. CASE tick[c].world # w
  <2> HIDE DEF stance
  <2>1. QED BY <1>2, <1>4, <1>5
<1>6. CASE tick'[c].phase = "done" /\ tick[c].world = w
  <2>1. signals = <<>>
    <3>1. SUFFICES ASSUME signals # <<>> PROVE FALSE OBVIOUS
    <3>2. tick' = [tick EXCEPT ![c].phase = "queued", ![c].signals = signals]
      BY <1>1, <1>3, <3>1
    <3>3. tick'[c].phase = "queued" BY <1>2, <3>2 DEF Ticks
    <3>4. QED BY <1>6, <3>3
  <2>2. stance = position[0][w] BY <1>2, <1>6, <2>1
  <2> HIDE DEF stance
  <2>3. QED BY <1>2, <1>4, <1>6, <2>2
<1>7. QED BY <1>5, <1>6

LEMMA StepSettlesBooks ==
    TypeOK /\ MutexInv /\ OrderInv /\ BooksSettle /\ [Next]_vars => BooksSettle'
<1> SUFFICES ASSUME TypeOK, MutexInv, OrderInv, BooksSettle, [Next]_vars,
                    engine' = "running", run' = 0,
                    NEW w \in Worlds, Settled(w)', w \notin history'.threw
             PROVE  position'[0][w] = "long" <=> WorldKey(w) \in confirmed'[0]
  BY DEF BooksSettle, Settled
\* What it takes for the step to leave the book of w as it was.
<1>1. ASSUME engine = "running", run = 0, Settled(w), w \notin history.threw,
             position'[0][w] = position[0][w],
             WorldKey(w) \in confirmed'[0] <=> WorldKey(w) \in confirmed[0]
      PROVE  position'[0][w] = "long" <=> WorldKey(w) \in confirmed'[0]
  BY <1>1 DEF BooksSettle
<1>2. ASSUME NEW c \in Candles, CandleStep(c)
      PROVE  position'[0][w] = "long" <=> WorldKey(w) \in confirmed'[0]
  <2>1. /\ Moves(tick', tick, c) /\ engine = "running" /\ run = 0
    BY <1>2, CandleEffect
  <2>2. /\ tick \in [Candles -> Ticks] /\ tick[c].world \in Worlds
        /\ tick[c].executor \in Runs /\ tick[c].executor <= 0
    BY <2>1 DEF TypeOK, Ticks, Phases, OrderInv, RunsInv
  <2>3. tick[c].executor = 0 BY <2>1, <2>2, FirstRun
  <2>4. tick[c].world = w => tick'[c].phase \notin {"queued", "ordering", "sent"}
    BY <2>1 DEF Moves, Settled
  <2>5. (tick[c].world = w => ~Waits(c)) => Settled(w)
    BY <2>1, SettledElsewhere DEF Waits
  <2>6. CASE CandleArrives(c)
    <3>1. tick[c].phase = "expected" /\ UNCHANGED <<position, confirmed, history>>
      BY <2>6 DEF CandleArrives, book
    <3>2. QED BY <1>1, <2>1, <2>5, <3>1 DEF Waits
  <2>7. CASE Evaluate(c)
    <3>1. tick[c].phase = "evaluating" /\ tick'[c].phase \in {"done", "queued"}
      BY <2>7, EvaluateMoves
    <3>2. UNCHANGED <<confirmed, history>> BY <2>7 DEF Evaluate
    <3>3. position'[0][w] = position[0][w] BY <2>1, <2>4, <2>7, <3>1, EvaluateStages
    <3>4. QED BY <1>1, <2>1, <2>5, <3>1, <3>2, <3>3 DEF Waits
  <2>8. CASE BeginOrder(c)
    <3>1. tick'[c].phase = "ordering" BY <2>8, BeginMoves
    <3>2. UNCHANGED <<position, confirmed, history>> BY <2>8 DEF BeginOrder, book
    <3>3. QED BY <1>1, <2>1, <2>4, <2>5, <3>1, <3>2
  <2>9. CASE DropOrders(c) BY <2>1, <2>9 DEF DropOrders
  <2>10. CASE OrderThrows(c)
    <3>1. /\ UNCHANGED <<position, confirmed>>
          /\ history' = [history EXCEPT !.threw = @ \cup {tick[c].world}]
      BY <2>10 DEF OrderThrows, book
    <3>2. history'.threw = history.threw \cup {tick[c].world} BY <3>1 DEF TypeOK
    <3>3. QED BY <1>1, <2>1, <2>5, <3>1, <3>2
  <2>11. ASSUME NEW action, NEW success \in BOOLEAN,
                UpdatePositionState(tick[c].executor, tick[c].world, action, success),
                history'.threw = history.threw
         PROVE  position'[0][w] = "long" <=> WorldKey(w) \in confirmed'[0]
    <3>1. /\ position'[0][tick[c].world] = "long" <=> WorldKey(tick[c].world) \in confirmed'[0]
          /\ \A v \in Worlds \ {tick[c].world} :
                /\ position'[0][v] = position[0][v]
                /\ WorldKey(v) \in confirmed'[0] <=> WorldKey(v) \in confirmed[0]
      BY <2>2, <2>3, <2>11, UpdateReconciles
    <3>2. CASE tick[c].world = w BY <3>1, <3>2
    <3>3. CASE tick[c].world # w BY <1>1, <2>1, <2>5, <2>11, <3>1, <3>3
    <3>4. QED BY <3>2, <3>3
  <2>12. CASE OrderFails(c)
    <3>1. UpdatePositionState(tick[c].executor, tick[c].world, Head(tick[c].signals), FALSE)
      BY <2>12 DEF OrderFails
    <3>2. history' = history BY <2>12 DEF OrderFails
    <3>3. QED BY <2>11, <3>1, <3>2
  <2>13. CASE SendOrder(c)
    <3>1. tick'[c].phase = "sent" BY <2>13, SendMoves
    <3>2. UNCHANGED <<position, confirmed, history>> BY <2>13 DEF SendOrder, book
    <3>3. QED BY <1>1, <2>1, <2>4, <2>5, <3>1, <3>2
  <2>14. CASE OrderLands(c)
    <3>1. tick[c].phase \in {"sent", "lost"} /\ tick'[c].phase = tick[c].phase
      BY <2>14, LandsMoves
    <3>2. UNCHANGED <<position, confirmed, history>> BY <2>14 DEF OrderLands, book
    <3>3. QED BY <1>1, <2>1, <2>4, <2>5, <3>1, <3>2 DEF Waits
  <2>15. CASE OrderReturns(c)
    <3>1. PICK success \in BOOLEAN :
             /\ UpdatePositionState(tick[c].executor, tick[c].world, Head(tick[c].signals), success)
             /\ history' = IF success THEN history
                           ELSE [history EXCEPT !.unacked = @ \cup {tick[c].world}]
      BY <2>15 DEF OrderReturns
    <3>2. history'.threw = history.threw BY <3>1 DEF TypeOK
    <3>3. QED BY <2>11, <3>1, <3>2
  <2>16. QED BY <1>2, <2>6, <2>7, <2>8, <2>9, <2>10, <2>12, <2>13, <2>14, <2>15 DEF CandleStep
<1>3. CASE BeginStop \/ EndDrain \/ Shutdown \/ Crash
  BY <1>3 DEF BeginStop, EndDrain, Shutdown, Crash
<1>4. CASE Start
  <2>1. run \in Nat /\ run' = run + 1 BY <1>4, RunsAreNumbers DEF TypeOK, Start
  <2>2. QED BY <2>1
<1>5. CASE FlushMarks \/ UNCHANGED vars \/ \E v \in Worlds : CloseStep(v)
  <2>1. /\ tick' = tick /\ run' = run /\ engine' = engine /\ confirmed' = confirmed
        /\ history' = history
    BY <1>5 DEF FlushMarks, vars, book, CloseStep, PrepareClose, SaleLands, CloseReturns
  <2>2. position' = position
    <3>1. CASE FlushMarks \/ UNCHANGED vars BY <3>1 DEF FlushMarks, vars, book
    <3>2. ASSUME NEW v \in Worlds, CloseStep(v) PROVE position' = position
      <4>1. CASE PrepareClose(v) BY <4>1 DEF PrepareClose, book
      <4>2. ASSUME NEW r \in Runs, SaleLands(r, v) PROVE position' = position
        BY <4>2 DEF SaleLands, book
      <4>3. ASSUME NEW r \in Runs, CloseReturns(r, v) PROVE position' = position
        <5>1. HandlePositionClosed(v) \/ position' = position BY <4>3 DEF CloseReturns
        <5>2. PairKey(v) \notin StateKeys BY KeysDiffer
        <5>3. QED BY <5>1, <5>2 DEF HandlePositionClosed
      <4>4. QED BY <3>2, <4>1, <4>2, <4>3 DEF CloseStep
    <3>3. QED BY <1>5, <3>1, <3>2
  <2>3. Settled(w) BY <2>1 DEF Settled
  <2>4. QED BY <1>1, <2>1, <2>2, <2>3
<1>6. QED BY <1>2, <1>3, <1>4, <1>5 DEF Next, Finished

\* While the bot trades in its first run, the position of a world whose orders are
\* over is the last confirmed one, however bars and orders of the world and their
\* failures interleaved (updatePositionState(), rollbackPositionState()).
THEOREM BooksAlwaysSettle == Spec => []BooksSettle
<1>1. Init => BooksSettle
  <2> SUFFICES ASSUME Init PROVE BooksSettle OBVIOUS
  <2>1. 0 \in Runs BY RunsAreNumbers
  <2>2. run = 0 /\ \A w \in Worlds : position[0][w] = "flat" /\ WorldKey(w) \notin confirmed[0]
    BY <2>1 DEF Init, NoBook
  <2>3. QED BY <2>2 DEF BooksSettle
<1>2. QED BY <1>1, StepSettlesBooks, OrdersHold, PTL DEF Spec

-----------------------------------------------------------------------------
(* The books and the wallet.                                               *)

\* Until the first stop closes anything: a landed order whose outcome is still on
\* its way decides what the wallet holds of its world, and a confirmed position
\* without such an order is held, unless a confirmation was lost.
Trading == run = 0 /\ engine \in {"running", "draining"}
Out(c, w) == tick[c].world = w /\ tick[c].phase = "sent" /\ tick[c].landed
Filled(w) ==
    /\ \A c \in Candles : Out(c, w) => (held[w] <=> Head(tick[c].signals) = "buy")
    /\ WorldKey(w) \in confirmed[0] => held[w] \/ \E c \in Candles : Out(c, w)
FillInv ==
    Trading =>
        /\ \A r \in Runs, w \in Worlds : closes[r][w] = "none"
        /\ \A w \in Worlds : PairKey(w) \notin confirmed[0]
        /\ \A w \in Worlds : w \notin history.unacked => Filled(w)

\* A step that neither lands nor settles an order of w and confirms nothing.
LEMMA QuietFill ==
    ASSUME NEW c \in Candles, Moves(tick', tick, c), NEW w \in Worlds, Filled(w),
           ~Out(c, w), ~Out(c, w)', held'[w] <=> held[w],
           WorldKey(w) \in confirmed'[0] => WorldKey(w) \in confirmed[0]
    PROVE  Filled(w)'
<1>1. ASSUME NEW d \in Candles, d # c
      PROVE  /\ Out(d, w)' <=> Out(d, w)
             /\ Head(tick'[d].signals) = Head(tick[d].signals)
  <2>1. tick'[d] = tick[d] BY <1>1 DEF Moves
  <2>2. QED BY <2>1 DEF Out
<1>2. ASSUME NEW d \in Candles, Out(d, w)' PROVE held'[w] <=> Head(tick'[d].signals) = "buy"
  <2>1. d # c BY <1>2
  <2>2. QED BY <1>1, <1>2, <2>1 DEF Filled
<1>3. ASSUME WorldKey(w) \in confirmed'[0], ~held'[w] PROVE \E d \in Candles : Out(d, w)'
  <2>1. PICK d \in Candles : Out(d, w) BY <1>3 DEF Filled
  <2>2. d # c BY <2>1
  <2>3. QED BY <1>1, <2>1, <2>2
<1>4. QED BY <1>2, <1>3 DEF Filled, Out

\* In the first run two landed orders of a world are the same one.
LEMMA OneOut ==
    ASSUME TypeOK, OrderInv, run = 0, NEW c \in Candles, NEW d \in Candles, NEW w,
           tick[c].world = w, Submits(c), Out(d, w)
    PROVE  c = d
<1>1. Submits(d) /\ tick[d].world = w BY DEF Out, Submits
<1>2. /\ tick[c].executor \in Runs /\ tick[c].executor <= 0
      /\ tick[d].executor \in Runs /\ tick[d].executor <= 0
  BY DEF TypeOK, OrderInv, RunsInv
<1>3. tick[c].executor = 0 /\ tick[d].executor = 0 BY <1>2, FirstRun
<1>4. QED BY <1>1, <1>3 DEF OrderInv, OneOrder

LEMMA CandleFills ==
    ASSUME TypeOK, MutexInv, OrderInv, FillInv, Trading,
           NEW c \in Candles, CandleStep(c), NEW w \in Worlds
    PROVE  /\ w \notin history'.unacked => Filled(w)'
           /\ PairKey(w) \notin confirmed'[0]
<1>1. /\ Moves(tick', tick, c) /\ run = 0 /\ engine \in {"running", "draining"}
  BY CandleEffect DEF Trading
<1>2. /\ tick \in [Candles -> Ticks] /\ tick[c].world \in Worlds
      /\ tick[c].executor \in Runs /\ tick[c].executor <= 0
  BY <1>1 DEF TypeOK, Ticks, Phases, OrderInv, RunsInv
<1>3. tick[c].executor = 0 BY <1>2, FirstRun
<1>4. PairKey(w) \notin confirmed[0] /\ (w \notin history.unacked => Filled(w)) BY DEF FillInv
<1>5. tick'[c].world = tick[c].world BY <1>1 DEF Moves
<1>6. CASE CandleArrives(c)
  <2>1. tick[c].phase # "sent" /\ tick'[c].phase # "sent" BY <1>6, ArrivesMoves
  <2>2. UNCHANGED <<confirmed, held, history>> BY <1>6 DEF CandleArrives, book
  <2>3. QED BY <1>1, <1>4, <2>1, <2>2, QuietFill DEF Out
<1>7. CASE Evaluate(c)
  <2>1. tick[c].phase # "sent" /\ tick'[c].phase # "sent" BY <1>7, EvaluateMoves
  <2>2. UNCHANGED <<confirmed, held, history>> BY <1>7 DEF Evaluate
  <2>3. QED BY <1>1, <1>4, <2>1, <2>2, QuietFill DEF Out
<1>8. CASE BeginOrder(c)
  <2>1. tick[c].phase # "sent" /\ tick'[c].phase # "sent" BY <1>8, BeginMoves
  <2>2. UNCHANGED <<confirmed, held, history>> BY <1>8 DEF BeginOrder, book
  <2>3. QED BY <1>1, <1>4, <2>1, <2>2, QuietFill DEF Out
<1>9. CASE DropOrders(c) BY <1>1, <1>9 DEF DropOrders
<1>10. CASE OrderThrows(c)
  <2>1. /\ tick[c].phase = "ordering" /\ OrderOver(c) /\ UNCHANGED <<confirmed, held>>
        /\ history' = [history EXCEPT !.threw = @ \cup {tick[c].world}]
    BY <1>10 DEF OrderThrows, book
  <2>2. tick'[c].phase # "sent" BY <2>1, OrderOverMoves DEF Submits
  <2>3. history'.unacked = history.unacked BY <2>1 DEF TypeOK
  <2>4. QED BY <1>1, <1>4, <2>1, <2>2, <2>3, QuietFill DEF Out
<1>11. CASE OrderFails(c)
  <2>1. /\ tick[c].phase = "ordering" /\ OrderOver(c) /\ UNCHANGED <<held, history>>
    BY <1>11 DEF OrderFails
  <2>6. PICK success \in BOOLEAN :
           /\ ~success
           /\ UpdatePositionState(tick[c].executor, tick[c].world, Head(tick[c].signals), success)
    <3>1. UpdatePositionState(tick[c].executor, tick[c].world, Head(tick[c].signals), FALSE)
      BY <1>11 DEF OrderFails
    <3>2. QED BY <3>1
  <2>2. tick'[c].phase # "sent" BY <2>1, OrderOverMoves DEF Submits
  <2>3. /\ WorldKey(tick[c].world) \in confirmed'[0] => WorldKey(tick[c].world) \in confirmed[0]
        /\ \A v \in Worlds \ {tick[c].world} :
              WorldKey(v) \in confirmed'[0] <=> WorldKey(v) \in confirmed[0]
        /\ \A v \in Worlds : PairKey(v) \in confirmed'[0] <=> PairKey(v) \in confirmed[0]
    BY <1>2, <1>3, <2>6, UpdateReconciles
  <2>4. WorldKey(w) \in confirmed'[0] => WorldKey(w) \in confirmed[0] BY <2>3
  <2>5. QED BY <1>1, <1>4, <2>1, <2>2, <2>3, <2>4, QuietFill DEF Out
<1>12. CASE SendOrder(c)
  <2>1. tick[c].phase = "ordering" /\ tick'[c].landed = tick[c].landed BY <1>12, SendMoves
  <2>2. ~tick[c].landed BY <2>1 DEF OrderInv, LandedInv
  <2>3. ~Out(c, w) /\ ~Out(c, w)' BY <2>1, <2>2 DEF Out
  <2>4. UNCHANGED <<confirmed, held, history>> BY <1>12 DEF SendOrder, book
  <2>5. QED BY <1>1, <1>4, <2>3, <2>4, QuietFill
<1>13. CASE OrderLands(c)
  <2>1. /\ UNCHANGED <<confirmed, history>> /\ ~tick[c].landed
        /\ held' = [held EXCEPT ![tick[c].world] = (Head(tick[c].signals) = "buy")]
    BY <1>13 DEF OrderLands, book
  <2>2. /\ tick[c].phase \in {"sent", "lost"} /\ tick'[c].phase = tick[c].phase
        /\ tick'[c].signals = tick[c].signals /\ tick'[c].landed = TRUE
    BY <1>13, LandsMoves
  <2>3. tick[c].phase = "sent"
    <3>1. ~(run > 0 \/ engine = "crashed") BY <1>1
    <3>2. QED BY <2>2, <3>1 DEF OrderInv, LandedInv
  <2>4. CASE tick[c].world = w
    <3>1. held'[w] <=> Head(tick[c].signals) = "buy" BY <2>1, <2>4 DEF TypeOK
    <3>2. Out(c, w)' BY <1>5, <2>2, <2>3, <2>4 DEF Out
    <3>3. ASSUME NEW d \in Candles, Out(d, w)', d # c PROVE FALSE
      <4>1. tick'[d] = tick[d] BY <1>1, <3>3 DEF Moves
      <4>2. Out(d, w) /\ Submits(c) BY <2>3, <3>3, <4>1 DEF Out, Submits
      <4>3. QED BY <1>1, <2>4, <3>3, <4>2, OneOut
    <3>4. \A d \in Candles : Out(d, w)' => (held'[w] <=> Head(tick'[d].signals) = "buy")
      BY <2>2, <3>1, <3>3
    <3>5. QED BY <1>4, <2>1, <3>2, <3>4 DEF Filled, Out
  <2>5. CASE tick[c].world # w
    <3>1. held'[w] = held[w] BY <2>1, <2>5 DEF TypeOK
    <3>2. ~Out(c, w) /\ ~Out(c, w)' BY <1>5, <2>5 DEF Out
    <3>3. QED BY <1>1, <1>4, <2>1, <3>1, <3>2, QuietFill
  <2>6. QED BY <2>4, <2>5
<1>14. CASE OrderReturns(c)
  <2>1. tick[c].phase = "sent" /\ OrderOver(c) /\ held' = held BY <1>14 DEF OrderReturns
  <2>2. PICK success \in BOOLEAN :
           /\ success => tick[c].landed
           /\ UpdatePositionState(tick[c].executor, tick[c].world, Head(tick[c].signals), success)
           /\ history' = IF success THEN history
                         ELSE [history EXCEPT !.unacked = @ \cup {tick[c].world}]
    BY <1>14 DEF OrderReturns
  <2>3. /\ Head(tick[c].signals) # "buy" /\ success => WorldKey(tick[c].world) \notin confirmed'[0]
        /\ \A v \in Worlds \ {tick[c].world} :
              WorldKey(v) \in confirmed'[0] <=> WorldKey(v) \in confirmed[0]
        /\ \A v \in Worlds : PairKey(v) \in confirmed'[0] <=> PairKey(v) \in confirmed[0]
    BY <1>2, <1>3, <2>2, UpdateReconciles
  <2>4. tick'[c].phase # "sent" BY <2>1, OrderOverMoves DEF Submits
  <2>5. ~Out(c, w)' BY <2>4 DEF Out
  <2>6. /\ success => history'.unacked = history.unacked
        /\ ~success => history'.unacked = history.unacked \cup {tick[c].world}
    BY <2>2 DEF TypeOK
  <2>7. CASE tick[c].world # w
    <3>1. ~Out(c, w) BY <2>7 DEF Out
    <3>2. QED BY <1>1, <1>4, <2>1, <2>3, <2>5, <2>6, <2>7, <3>1, QuietFill
  <2>8. CASE tick[c].world = w /\ success
    <3>1. Out(c, w) /\ Submits(c) BY <2>1, <2>2, <2>8 DEF Out, Submits
    <3>2. ASSUME NEW d \in Candles PROVE ~Out(d, w)'
      <4>1. CASE d = c BY <2>5, <4>1
      <4>2. CASE d # c
        <5>1. tick'[d] = tick[d] BY <1>1, <4>2 DEF Moves
        <5>2. Out(d, w)' => Out(d, w) BY <5>1 DEF Out
        <5>3. QED BY <1>1, <2>8, <3>1, <4>2, <5>2, OneOut
      <4>3. QED BY <4>1, <4>2
    <3>3. SUFFICES ASSUME w \notin history'.unacked PROVE Filled(w)' BY <1>4, <2>3
    <3>4. held[w] <=> Head(tick[c].signals) = "buy" BY <1>4, <2>6, <2>8, <3>1, <3>3 DEF Filled
    <3>5. WorldKey(w) \in confirmed'[0] => held'[w] BY <2>1, <2>3, <2>8, <3>4
    <3>6. QED BY <3>2, <3>5 DEF Filled, Out
  <2>9. CASE tick[c].world = w /\ ~success BY <1>4, <2>3, <2>6, <2>9
  <2>10. QED BY <2>7, <2>8, <2>9
<1>15. QED
  BY <1>6, <1>7, <1>8, <1>9, <1>10, <1>11, <1>12, <1>13, <1>14 DEF CandleStep

LEMMA StepFills ==
    TypeOK /\ MutexInv /\ OrderInv /\ FillInv /\ [Next]_vars => FillInv'
<1> SUFFICES ASSUME TypeOK, MutexInv, OrderInv, FillInv, [Next]_vars, Trading'
             PROVE  /\ \A r \in Runs, w \in Worlds : closes'[r][w] = "none"
                    /\ \A w \in Worlds : PairKey(w) \notin confirmed'[0]
                    /\ \A w \in Worlds : w \notin history'.unacked => Filled(w)'
  BY DEF FillInv, Trading, Filled, Out
<1>1. ASSUME Trading, UNCHANGED <<tick, confirmed, closes, held, history>>
      PROVE  /\ \A r \in Runs, w \in Worlds : closes'[r][w] = "none"
             /\ \A w \in Worlds : PairKey(w) \notin confirmed'[0]
             /\ \A w \in Worlds : w \notin history'.unacked => Filled(w)'
  <2>1. \A w : Filled(w)' <=> Filled(w) BY <1>1 DEF Filled, Out
  <2>2. QED BY <1>1, <2>1 DEF FillInv
<1>2. ASSUME NEW c \in Candles, CandleStep(c)
      PROVE  /\ \A r \in Runs, w \in Worlds : closes'[r][w] = "none"
             /\ \A w \in Worlds : PairKey(w) \notin confirmed'[0]
             /\ \A w \in Worlds : w \notin history'.unacked => Filled(w)'
  <2>1. Trading BY <1>2, CandleEffect DEF Trading
  <2>2. closes' = closes
    BY <1>2 DEF CandleStep, CandleArrives, Evaluate, BeginOrder, DropOrders, OrderThrows,
                OrderFails, SendOrder, OrderLands, OrderReturns
  <2>3. QED BY <1>2, <2>1, <2>2, CandleFills DEF FillInv
<1>3. CASE EndDrain \/ Shutdown \/ Crash
  BY <1>3 DEF EndDrain, Shutdown, Crash, Trading
<1>4. CASE Start
  <2>1. run \in Nat /\ run' = run + 1 /\ run' = 0
    BY <1>4, RunsAreNumbers DEF TypeOK, Start, Trading
  <2>2. QED BY <2>1
<1>5. CASE BeginStop \/ FlushMarks \/ UNCHANGED vars
  <2>1. Trading /\ UNCHANGED <<tick, confirmed, closes, held, history>>
    BY <1>5 DEF BeginStop, FlushMarks, vars, book, Trading
  <2>2. QED BY <1>1, <2>1
<1>6. ASSUME NEW v \in Worlds, CloseStep(v) PROVE FALSE
  <2>1. Trading BY <1>6 DEF CloseStep, PrepareClose, SaleLands, CloseReturns, Trading
  <2>2. \A r \in Runs : closes[r][v] = "none" BY <2>1 DEF FillInv
  <2>3. closes[run][v] = "none" BY <2>2 DEF TypeOK
  <2>4. QED BY <1>6, <2>2, <2>3 DEF CloseStep, PrepareClose, SaleLands, CloseReturns
<1>7. QED BY <1>2, <1>3, <1>4, <1>5, <1>6 DEF Next, Finished

\* No phantom position: in the first run, what getPositions() reports of a world
\* whose orders are over is in the wallet, unless a confirmation was lost, for any
\* number of worlds and candles and whatever failed before
\* (live-strategy-executor.ts, updatePositionState()).
THEOREM NoPhantomPosition == Spec => []NoPhantom
<1>1. Init => FillInv
  <2> SUFFICES ASSUME Init PROVE FillInv OBVIOUS
  <2>1. /\ \A r \in Runs, w \in Worlds : closes[r][w] = "none"
        /\ confirmed[0] = {}
    BY RunsAreNumbers DEF Init, NoBook
  <2>2. \A c \in Candles, w \in Worlds : ~Out(c, w)
    BY OrderInit, TypeInit DEF OrderInv, LandedInv, Out, Init
  <2>3. QED BY <2>1, <2>2 DEF FillInv, Filled
<1>2. TypeOK /\ FillInv => NoPhantom
  <2> SUFFICES ASSUME TypeOK, FillInv, engine \in {"running", "draining"}, run = 0,
                      NEW w \in Worlds, Settled(w), w \notin history.unacked, Reported(w)
               PROVE  held[w]
    BY DEF NoPhantom
  <2>1. Filled(w) /\ PairKey(w) \notin confirmed[0] BY DEF FillInv, Trading
  <2>2. WorldKey(w) \in confirmed[0] BY <2>1 DEF Reported
  <2>3. \A c \in Candles : ~Out(c, w) BY DEF Settled, Out
  <2>4. QED BY <2>1, <2>2, <2>3 DEF Filled
<1>3. QED BY <1>1, <1>2, StepFills, OrdersHold, PTL DEF Spec

-----------------------------------------------------------------------------
(* The marks of the closes.                                                *)

\* Unless a mark was lost on its way to the disk, a close that may have sold
\* without anybody knowing is marked with its own run: there is one such close.
MarkInv ==
    ~history.markLost =>
        \A r \in Runs, w \in Worlds : Unresolved(r, w) => tombs[w] = r

LEMMA StepKeepsMarks ==
    TypeOK /\ MutexInv /\ OrderInv /\ MarkInv /\ [Next]_vars => MarkInv'
<1> SUFFICES ASSUME TypeOK, MutexInv, OrderInv, MarkInv, [Next]_vars, ~history'.markLost,
                    NEW r \in Runs, NEW w \in Worlds, Unresolved(r, w)'
             PROVE  tombs'[w] = r
  BY DEF MarkInv, Unresolved
<1>1. /\ closes \in [Runs -> [Worlds -> {"none", "snapshot", "selling", "landed", "lost",
                                         "closed", "failed", "unconfirmed"}]]
      /\ tombs \in [Worlds -> Runs \cup {NoRun}] /\ run \in Runs /\ NoRun \notin Runs
  BY RunsAreNumbers DEF TypeOK
<1>2. ASSUME ~history.markLost, Unresolved(r, w), tombs'[w] = tombs[w] PROVE tombs'[w] = r
  BY <1>2 DEF MarkInv
<1>3. ASSUME NEW c \in Candles, CandleStep(c) PROVE tombs'[w] = r
  <2>1. closes' = closes /\ tombs' = tombs
    BY <1>3 DEF CandleStep, CandleArrives, Evaluate, BeginOrder, DropOrders, OrderThrows,
                OrderFails, SendOrder, OrderLands, OrderReturns
  <2>2. history'.markLost = history.markLost
    <3>1. CASE OrderThrows(c)
      <4>1. history' = [history EXCEPT !.threw = @ \cup {tick[c].world}]
        BY <3>1 DEF OrderThrows
      <4>2. QED BY <4>1 DEF TypeOK
    <3>2. CASE OrderReturns(c)
      <4>1. \/ history' = history
            \/ history' = [history EXCEPT !.unacked = @ \cup {tick[c].world}]
        BY <3>2 DEF OrderReturns
      <4>2. QED BY <4>1 DEF TypeOK
    <3>3. CASE ~OrderThrows(c) /\ ~OrderReturns(c)
      <4>1. history' = history
        BY <1>3, <3>3 DEF CandleStep, CandleArrives, Evaluate, BeginOrder, DropOrders,
                          OrderFails, SendOrder, OrderLands
      <4>2. QED BY <4>1
    <3>4. QED BY <3>1, <3>2, <3>3
  <2>3. QED BY <1>2, <2>1, <2>2 DEF Unresolved
<1>4. CASE BeginStop \/ Shutdown \/ FlushMarks \/ UNCHANGED vars
  <2>1. closes' = closes /\ tombs' = tombs /\ history' = history
    BY <1>4 DEF BeginStop, Shutdown, FlushMarks, vars
  <2>2. QED BY <1>2, <2>1 DEF Unresolved
<1>5. CASE EndDrain
  <2> DEFINE snapshot == [v \in Worlds |-> IF Reported(v) THEN "snapshot" ELSE "none"]
  <2>1. closes' = [closes EXCEPT ![run] = snapshot] /\ tombs' = tombs /\ history' = history
    BY <1>5 DEF EndDrain
  <2>2. snapshot[w] \in {"snapshot", "none"} OBVIOUS
  <2> HIDE DEF snapshot
  <2>3. closes'[r][w] = closes[r][w] \/ closes'[r][w] \in {"snapshot", "none"}
    BY <1>1, <2>1, <2>2
  <2>4. QED BY <1>2, <2>1, <2>3 DEF Unresolved
<1>6. CASE Start \/ Crash
  <2>1. /\ tombs' = tombsDisk
        /\ history' = [threw |-> {}, unacked |-> {},
                       markLost |-> history.markLost \/ tombs # tombsDisk]
    BY <1>6 DEF Start, Crash
  <2>2. ~history.markLost /\ tombs = tombsDisk BY <2>1
  <2>3. Unresolved(r, w)
    <3>1. CASE Start BY <3>1 DEF Start, Unresolved
    <3>2. CASE Crash
      <4>1. closes'[r][w] = CASE closes[r][w] = "selling" -> "lost"
                              [] closes[r][w] = "landed" -> "unconfirmed"
                              [] OTHER -> closes[r][w]
        BY <3>2 DEF Crash
      <4>2. QED BY <4>1 DEF Unresolved
    <3>3. QED BY <1>6, <3>1, <3>2
  <2>4. QED BY <1>2, <2>1, <2>2, <2>3
<1>7. ASSUME NEW v \in Worlds, CloseStep(v) PROVE tombs'[w] = r
  <2>1. history' = history /\ ~history.markLost
    BY <1>7 DEF CloseStep, PrepareClose, SaleLands, CloseReturns
  <2>2. \A q \in Runs, u \in Worlds : Unresolved(q, u) => tombs[u] = q BY <2>1 DEF MarkInv
  <2>3. CASE PrepareClose(v)
    <3>1. CASE /\ tombs[v] \in {run, NoRun}
               /\ closes' = [closes EXCEPT ![run][v] = "selling"]
               /\ tombs' = [tombs EXCEPT ![v] = run]
      <4>1. CASE v = w
        <5>1. tombs'[w] = run BY <1>1, <3>1, <4>1
        <5>2. CASE r = run BY <5>1, <5>2
        <5>3. CASE r # run
          <6>1. closes'[r][w] = closes[r][w] BY <1>1, <3>1, <5>3
          <6>2. Unresolved(r, w) BY <6>1 DEF Unresolved
          <6>3. tombs[w] = r BY <2>2, <6>2
          <6>4. QED BY <1>1, <3>1, <4>1, <5>3, <6>3
        <5>4. QED BY <5>2, <5>3
      <4>2. CASE v # w
        <5>1. closes'[r][w] = closes[r][w] /\ tombs'[w] = tombs[w] BY <1>1, <3>1, <4>2
        <5>2. QED BY <1>2, <2>1, <5>1 DEF Unresolved
      <4>3. QED BY <4>1, <4>2
    <3>2. CASE closes' = [closes EXCEPT ![run][v] = "failed"] /\ tombs' = tombs
      <4>1. closes'[r][w] = closes[r][w] \/ closes'[r][w] = "failed" BY <1>1, <3>2
      <4>2. QED BY <1>2, <2>1, <3>2, <4>1 DEF Unresolved
    <3>3. QED BY <2>3, <3>1, <3>2 DEF PrepareClose
  <2>4. ASSUME NEW q \in Runs, SaleLands(q, v) PROVE tombs'[w] = r
    <3> DEFINE to == IF closes[q][v] = "lost" THEN "unconfirmed" ELSE "landed"
    <3>1. /\ closes' = [closes EXCEPT ![q][v] = to] /\ tombs' = tombs
          /\ Unresolved(q, v)
      BY <2>4 DEF SaleLands, Unresolved
    <3> HIDE DEF to
    <3>2. closes'[r][w] = closes[r][w] \/ (r = q /\ w = v) BY <1>1, <3>1
    <3>3. Unresolved(r, w) BY <3>1, <3>2 DEF Unresolved
    <3>4. QED BY <1>2, <2>1, <3>1, <3>3
  <2>5. ASSUME NEW q \in Runs, CloseReturns(q, v) PROVE tombs'[w] = r
    <3>1. CASE /\ closes[q][v] = "landed"
               /\ closes' = [closes EXCEPT ![q][v] = "closed"]
               /\ HandlePositionClosed(v)
      <4>1. tombs[v] = q BY <2>2, <3>1 DEF Unresolved
      <4>2. tombs' = [tombs EXCEPT ![v] = NoRun] BY <3>1 DEF HandlePositionClosed
      <4>3. \/ closes'[r][w] = closes[r][w] /\ ~(r = q /\ w = v)
            \/ closes'[r][w] = "closed"
        BY <1>1, <3>1
      <4>4. Unresolved(r, w) /\ ~(r = q /\ w = v) BY <4>3 DEF Unresolved
      <4>5. tombs[w] = r BY <2>2, <4>4
      <4>6. w # v BY <4>1, <4>4, <4>5
      <4>7. QED BY <1>1, <4>2, <4>5, <4>6
    <3>2. CASE /\ closes[q][v] \in {"selling", "landed"}
               /\ closes' = [closes EXCEPT ![q][v] = "unconfirmed"]
               /\ tombs' = tombs
      <4>1. closes'[r][w] = closes[r][w] \/ (r = q /\ w = v) BY <1>1, <3>2
      <4>2. Unresolved(r, w) BY <3>2, <4>1 DEF Unresolved
      <4>3. QED BY <1>2, <2>1, <3>2, <4>2
    <3>3. CASE closes' = [closes EXCEPT ![q][v] = "failed"] /\ tombs' = tombs
      <4>1. closes'[r][w] = closes[r][w] \/ closes'[r][w] = "failed" BY <1>1, <3>3
      <4>2. QED BY <1>2, <2>1, <3>3, <4>1 DEF Unresolved
    <3>4. QED BY <2>5, <3>1, <3>2, <3>3 DEF CloseReturns
  <2>6. QED BY <1>7, <2>3, <2>4, <2>5 DEF CloseStep
<1>8. QED BY <1>3, <1>4, <1>5, <1>6, <1>7 DEF Next, Finished

\* Only the start of a close begins a sale.
LEMMA SaleBegins ==
    ASSUME TypeOK, [Next]_vars, NEW w \in Worlds,
           closes[run][w] # "selling", closes'[run][w] = "selling"
    PROVE  closes[run][w] = "snapshot" /\ tombs[w] \in {run, NoRun}
<1>1. /\ closes \in [Runs -> [Worlds -> {"none", "snapshot", "selling", "landed", "lost",
                                         "closed", "failed", "unconfirmed"}]]
      /\ run \in Runs
  BY DEF TypeOK
<1>2. closes' # closes OBVIOUS
<1>3. ASSUME NEW c \in Candles, CandleStep(c) PROVE FALSE
  BY <1>2, <1>3 DEF CandleStep, CandleArrives, Evaluate, BeginOrder, DropOrders, OrderThrows,
                    OrderFails, SendOrder, OrderLands, OrderReturns
<1>4. CASE BeginStop \/ Shutdown \/ FlushMarks \/ Start \/ UNCHANGED vars
  BY <1>2, <1>4 DEF BeginStop, Shutdown, FlushMarks, Start, vars
<1>5. CASE EndDrain
  <2>1. closes'[run][w] \in {"snapshot", "none"} BY <1>1, <1>5 DEF EndDrain
  <2>2. QED BY <2>1
<1>6. CASE Crash
  <2>1. closes'[run][w] = CASE closes[run][w] = "selling" -> "lost"
                            [] closes[run][w] = "landed" -> "unconfirmed"
                            [] OTHER -> closes[run][w]
    BY <1>1, <1>6 DEF Crash
  <2>2. QED BY <2>1
<1>7. ASSUME NEW v \in Worlds, CloseStep(v)
      PROVE  closes[run][w] = "snapshot" /\ tombs[w] \in {run, NoRun}
  <2>1. CASE PrepareClose(v)
    <3>1. CASE /\ tombs[v] \in {run, NoRun} /\ closes[run][v] = "snapshot"
               /\ closes' = [closes EXCEPT ![run][v] = "selling"]
      <4>1. v = w BY <1>1, <3>1
      <4>2. QED BY <3>1, <4>1
    <3>2. CASE closes' = [closes EXCEPT ![run][v] = "failed"]
      <4>1. closes'[run][w] = closes[run][w] \/ closes'[run][w] = "failed" BY <1>1, <3>2
      <4>2. QED BY <4>1
    <3>3. QED BY <2>1, <3>1, <3>2 DEF PrepareClose
  <2>2. ASSUME NEW q \in Runs, SaleLands(q, v) PROVE FALSE
    <3> DEFINE to == IF closes[q][v] = "lost" THEN "unconfirmed" ELSE "landed"
    <3>1. closes' = [closes EXCEPT ![q][v] = to] /\ to # "selling" BY <2>2 DEF SaleLands
    <3> HIDE DEF to
    <3>2. closes'[run][w] = closes[run][w] \/ closes'[run][w] = to BY <1>1, <3>1
    <3>3. QED BY <3>1, <3>2
  <2>3. ASSUME NEW q \in Runs, CloseReturns(q, v) PROVE FALSE
    <3>1. PICK to \in {"closed", "unconfirmed", "failed"} : closes' = [closes EXCEPT ![q][v] = to]
      BY <2>3 DEF CloseReturns
    <3>2. closes'[run][w] = closes[run][w] \/ closes'[run][w] = to BY <1>1, <3>1
    <3>3. QED BY <3>2
  <2>4. QED BY <1>7, <2>1, <2>2, <2>3 DEF CloseStep
<1>8. QED BY <1>3, <1>4, <1>5, <1>6, <1>7 DEF Next, Finished

\* The promise of the tombstones: over any number of stops, crashes and restarts,
\* no run sells again what an earlier close run may have sold without knowing,
\* unless the mark of that close never reached the disk (bot-engine.ts,
\* prepareCloseAttempt(), persistCloseAttempts()).
THEOREM NoBlindResale == Spec => ResaleOnlyAfterLostMark
<1>1. Init => MarkInv
  <2> SUFFICES ASSUME Init PROVE MarkInv OBVIOUS
  <2>1. \A r \in Runs, w \in Worlds : closes[r][w] = "none" BY DEF Init, NoBook
  <2>2. QED BY <2>1 DEF MarkInv, Unresolved
<1>2. ASSUME TypeOK, MarkInv, [Next]_vars
      PROVE  [\A w \in Worlds :
                 closes[run][w] # "selling" /\ closes'[run][w] = "selling"
                   => history.markLost \/ \A r \in Runs : ~Unresolved(r, w)]_vars
  <2> SUFFICES ASSUME NEW w \in Worlds, closes[run][w] # "selling",
                      closes'[run][w] = "selling", ~history.markLost,
                      NEW r \in Runs, Unresolved(r, w)
               PROVE  FALSE
    OBVIOUS
  <2>1. closes[run][w] = "snapshot" /\ tombs[w] \in {run, NoRun} BY <1>2, SaleBegins
  <2>2. tombs[w] = r BY <1>2 DEF MarkInv
  <2>3. r = run BY <2>1, <2>2, RunsAreNumbers
  <2>4. QED BY <2>1, <2>3 DEF Unresolved
<1>3. QED BY <1>1, <1>2, StepKeepsMarks, OrdersHold, PTL DEF Spec, ResaleOnlyAfterLostMark
=============================================================================
