------------------------------ MODULE BarCache ------------------------------
(***************************************************************************)
(* The bars the server hands out: GET /ohlcv, GET /bars and the windows of *)
(* a backtest (src/backend/src/routes, bybit/fetch-bars.ts), from the      *)
(* cache in memory, the cache on disk, or the exchange.  The disk collects *)
(* what the three kinds of requests brought; its age is kept once for all  *)
(* bars, and the memory has an age of its own.                             *)
(*                                                                         *)
(* One symbol and interval.  Time is counted in bars: bar n is open during *)
(* n.  Of a bar only the time it was fetched at is kept; it is final when  *)
(* that is later than the bar.                                             *)
(***************************************************************************)
EXTENDS Integers, FiniteSets, FiniteSetsExt

CONSTANTS
    Limit,      \* the bars of a request (1000 in the code)
    MemoryTtl,  \* ttlMs of OHLCVCache (a minute)
    RecentTtl,  \* recentTtlMs of DiskOHLCVCache (a minute)
    HistoricalThreshold, \* historicalThresholdMs (an hour)
    FirstNow,   \* the open bar at the start
    LastNow,    \* bound: the last one
    MaxWindows, \* bound: the requests for older bars and windows
    MaxAsks     \* bound: the requests that wait for the exchange at once

ASSUME CacheAssumption ==
    /\ Limit \in Nat \ {0} /\ HistoricalThreshold \in Nat \ {0}
    /\ MemoryTtl \in Nat /\ RecentTtl \in Nat
    /\ LastNow \in Nat /\ FirstNow \in 1..LastNow
    /\ MaxWindows \in Nat /\ MaxAsks \in Nat

VARIABLES
    now,        \* the bar that is open
    memory,     \* OHLCVCache: bars and createdAt
    stored,     \* the .ndjson file: when each bar was fetched, 0 without it
    meta,       \* the .meta.json file
    asks,       \* the requests that wait for the exchange
    answer,     \* the last answer to a request for recent bars
    windows,    \* how many other requests there were
    odd         \* history: what the disk suffered since it was last empty

cacheVars == <<now, memory, stored, meta, asks, answer, windows, odd>>

Times == 1..LastNow
Books == [Times -> 0..LastNow]
Empty == [n \in Times |-> 0]
In(bars) == {n \in Times : bars[n] # 0}
NewestBar(bars) == IF In(bars) = {} THEN 0 ELSE Max(In(bars))

NoMemory == [bars |-> Empty, at |-> 0, odd |-> {}]
NoAnswer == [bars |-> Empty, odd |-> {}]
NoMeta == [oldest |-> 0, newest |-> 0, fetched |-> 0]

Asks == [kind : {"recent", "window"}, first : Times, last : Times, at : Times]
Flaws == {"gap", "late", "scrolled"}

CacheTypeOK ==
    /\ now \in Times /\ stored \in Books
    /\ memory \in [bars : Books, at : 0..LastNow, odd : SUBSET Flaws]
    /\ meta \in [oldest : 0..LastNow, newest : 0..LastNow, fetched : 0..LastNow]
    /\ asks \subseteq Asks
    /\ answer \in [bars : Books, odd : SUBSET Flaws]
    /\ windows \in 0..MaxWindows /\ odd \subseteq Flaws

CacheInit ==
    /\ now = FirstNow
    /\ memory = NoMemory /\ stored = Empty /\ meta = NoMeta
    /\ asks = {} /\ answer = NoAnswer
    /\ windows = 0 /\ odd = {}

TimePasses ==
    /\ now < LastNow
    /\ now' = now + 1
    /\ answer' = NoAnswer
    /\ UNCHANGED <<memory, stored, meta, asks, windows, odd>>

-----------------------------------------------------------------------------
(* Serving.                                                                *)

Between(bars, first, last) == [n \in Times |-> IF n \in first..last THEN bars[n] ELSE 0]

\* slice(-limit): the newest bars.
Slice(bars) ==
    IF Cardinality(In(bars)) <= Limit THEN bars
    ELSE CHOOSE newest \in {Between(bars, first, LastNow) : first \in Times} :
           Cardinality(In(newest)) = Limit

\* Mutant of InMemory: the age counts from the last access.
MutantInMemory == Cardinality(In(memory.bars)) >= Limit

\* OHLCVCache.get(), and enough bars for the request.
InMemory ==
    /\ now - memory.at <= MemoryTtl
    /\ Cardinality(In(memory.bars)) >= Limit

\* Mutant of Stale: a file whose newest bar is old is never fetched again.
MutantStale ==
    \/ meta = NoMeta
    \/ now - meta.newest < HistoricalThreshold /\ now - meta.fetched >= RecentTtl

\* isStale(): the file was not written for a while, a longer one when its newest
\* bar is old.
Stale ==
    \/ meta = NoMeta
    \/ now - meta.fetched >= (IF now - meta.newest >= HistoricalThreshold
                              THEN HistoricalThreshold ELSE RecentTtl)

\* DiskOHLCVCache.get(): what there is of the range, be it a part.
OnDisk(first, last) ==
    IF Stale \/ meta.oldest > last \/ meta.newest < first THEN Empty
    ELSE Between(stored, first, last)

\* GET /ohlcv or /bars without an end, from the memory or the disk; otherwise
\* the exchange is asked.
AskRecent ==
    /\ \/ /\ InMemory
          /\ answer' = [bars |-> Slice(memory.bars), odd |-> memory.odd]
          /\ UNCHANGED <<memory, asks>>
       \/ /\ ~InMemory /\ OnDisk(1, LastNow) # Empty
          /\ memory' = [bars |-> OnDisk(1, LastNow), at |-> now, odd |-> odd]
          /\ answer' = [bars |-> Slice(memory'.bars), odd |-> odd]
          /\ UNCHANGED asks
       \/ /\ ~InMemory /\ OnDisk(1, LastNow) = Empty
          /\ Cardinality(asks) < MaxAsks
          /\ asks' = asks \cup {[kind |-> "recent", first |-> 1, last |-> LastNow, at |-> now]}
          /\ answer' = NoAnswer
          /\ UNCHANGED memory
    /\ UNCHANGED <<now, stored, meta, windows, odd>>

\* A scroll-back, the Limit bars up to an end, or fetchBars() for a backtest, a
\* range of bars.  What the disk has of them is taken for all of them.
AskWindow ==
    /\ windows < MaxWindows /\ Cardinality(asks) < MaxAsks
    /\ windows' = windows + 1
    /\ \E last \in 1..now, first \in Times :
          /\ first <= last
          /\ asks' = IF OnDisk(first, last) # Empty THEN asks
                     ELSE asks \cup {[kind |-> "window", first |-> first, last |-> last, at |-> now]}
    /\ answer' = NoAnswer
    /\ UNCHANGED <<now, memory, stored, meta, odd>>

-----------------------------------------------------------------------------
(* The exchange.                                                           *)

\* Mutant of Merge: the bars that are on disk already stay as they are.
MutantMerge(bars) == [n \in Times |-> IF stored[n] # 0 THEN stored[n] ELSE bars[n]]

\* mergeBars(): the new bars replace the old ones.
Merge(bars) == [n \in Times |-> IF bars[n] # 0 THEN bars[n] ELSE stored[n]]

\* The bars of an answer that the exchange gave when `seen` was open.
Fetched(ask, seen) ==
    LET first == IF ask.kind = "window" THEN ask.first
                 ELSE IF seen > Limit THEN seen - Limit + 1 ELSE 1
    IN  [n \in Times |-> IF n \in first..Min({ask.last, seen}) THEN seen ELSE 0]

\* What such an answer may do to the disk: it does not reach the bars there, of
\* which the newest may be unfinished; it comes after a newer bar opened; or it
\* makes the file look fresh without bringing its newest bar.
FlawsOf(bars, seen) ==
    {f \in Flaws :
        \/ f = "gap" /\ stored # Empty
             /\ (Min(In(bars)) > NewestBar(stored) \/ NewestBar(bars) + 1 < Min(In(stored)))
        \/ f = "late" /\ seen < now
        \/ f = "scrolled" /\ bars[seen] = 0}

\* The answer of the exchange is cached and served.  doSet() writes the bars and
\* then their dates; it may fail before or between.
Answered(ask) ==
    /\ ask \in asks
    /\ asks' = asks \ {ask}
    /\ \E seen \in ask.at..now, written \in {"nothing", "bars", "both"} :
          LET bars == Fetched(ask, seen)
              flaws == FlawsOf(bars, seen)
          IN  /\ stored' = IF written = "nothing" THEN stored ELSE Merge(bars)
              /\ meta' = IF written = "both"
                         THEN [oldest |-> Min(In(stored')), newest |-> NewestBar(stored'), fetched |-> now]
                         ELSE meta
              /\ odd' = IF written = "nothing" THEN odd ELSE odd \cup flaws
              /\ IF ask.kind = "recent"
                 THEN /\ memory' = [bars |-> bars, at |-> now, odd |-> flaws \ {"gap"}]
                      /\ answer' = [bars |-> bars, odd |-> flaws \ {"gap"}]
                 ELSE answer' = NoAnswer /\ UNCHANGED memory
    /\ UNCHANGED <<now, windows>>

Fails(ask) ==
    /\ ask \in asks
    /\ asks' = asks \ {ask}
    /\ answer' = NoAnswer
    /\ UNCHANGED <<now, memory, stored, meta, windows, odd>>

-----------------------------------------------------------------------------
(* Losses.                                                                 *)

\* Another symbol pushes this one out of the memory, or out of the disk.
Evicted ==
    \/ memory' = NoMemory /\ UNCHANGED <<stored, meta, odd>>
    \/ stored' = Empty /\ meta' = NoMeta /\ odd' = {} /\ UNCHANGED memory

Evict ==
    /\ Evicted
    /\ answer' = NoAnswer
    /\ UNCHANGED <<now, asks, windows>>

Restart ==
    /\ memory' = NoMemory /\ asks' = {}
    /\ answer' = NoAnswer
    /\ UNCHANGED <<now, stored, meta, windows, odd>>

CacheNext ==
    \/ TimePasses \/ AskRecent \/ AskWindow \/ Evict \/ Restart
    \/ \E ask \in asks : Answered(ask) \/ Fails(ask)

CacheSpec == CacheInit /\ [][CacheNext]_cacheVars

-----------------------------------------------------------------------------
(* Correctness.                                                            *)

\* An answer for recent bars has no hole, all its bars but the last are closed,
\* and it shows the market as it was within the two ages together, unless a
\* response was late, or a request for other bars wrote to the disk, or left a
\* hole there.
RecentAnswerIsSound ==
    /\ CacheTypeOK
    /\ answer.bars # Empty /\ answer.odd = {} =>
           LET newest == NewestBar(answer.bars)
           IN  /\ \A n \in Min(In(answer.bars))..newest : answer.bars[n] # 0
               /\ \A n \in In(answer.bars) \ {newest} : answer.bars[n] > n
               /\ newest + MemoryTtl + Max({RecentTtl, HistoricalThreshold}) > now
=============================================================================
