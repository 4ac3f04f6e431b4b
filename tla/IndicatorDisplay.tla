-------------------------- MODULE IndicatorDisplay --------------------------
(***************************************************************************)
(* The indicators on the chart: useChartData(), useIndicatorManager() and  *)
(* App (src/frontend/src).  A script runs on the server over the bars that *)
(* the chart had when the run began: once over HTTP, again for every chunk *)
(* of older bars, and on every tick in the session that the gateway keeps  *)
(* for it.  The user adds, replaces and removes indicators and changes the *)
(* symbol while all of that is under way.                                  *)
(*                                                                         *)
(* Of a dataset only its symbol, as the number of the change that chose    *)
(* it, and the number of chunks in front of it are kept; all symbols have  *)
(* the same timestamps.                                                    *)
(***************************************************************************)
EXTENDS Naturals, FiniteSets, FiniteSetsExt

CONSTANTS
    Ids,        \* the ids of indicators, as the server hands them out
    MaxEvents   \* bound: the changes of the dataset and the removals

ASSUME DisplayAssumption == MaxEvents \in Nat

VARIABLES
    data,       \* the dataset: ohlcvDataRef
    requests,   \* in flight: loads of bars and lists of indicators
    server,     \* the indicators the server knows
    labels,     \* the indicators of useIndicatorManager
    active,     \* lastIndicatorsRef
    computing,  \* computingIndicators
    deleting,   \* removingRef: the ids whose DELETE is in flight, and for what
    sources,    \* the keys of indicatorSourcesRef
    gen,        \* indicatorGenerationRef
    runs,       \* the runs of executeScript() in flight
    older,      \* the scripts a scroll-back still has to run, and its results
    results,    \* indicatorResultsRef: the dataset of each result
    shown,      \* indicatorResults of App
    session,    \* the session the gateway keeps for each indicator: its bars
    mail,       \* the results on their way from a session
    history     \* what happened that is recorded nowhere in the program

user == <<server, labels, deleting>>
marks == <<active, computing>>
books == <<sources, gen, results, shown>>
vars == <<data, requests, user, marks, books, runs, older, session, mail, history>>

Datasets == [epoch : 0..MaxEvents, chunks : 0..MaxEvents, whole : BOOLEAN]
Nothing == [epoch |-> 0, chunks |-> 0, whole |-> FALSE]
Idle == [busy |-> FALSE, todo |-> {}, done |-> [i \in Ids |-> Nothing]]

TypeOK ==
    /\ data \in Datasets
    /\ requests \subseteq [kind : {"load"}, epoch : 0..MaxEvents] \cup [kind : {"list"}, ids : SUBSET Ids]
    /\ server \subseteq Ids /\ labels \subseteq Ids /\ active \subseteq Ids
    /\ computing \subseteq Ids /\ sources \subseteq Ids
    /\ deleting \in [Ids -> {"no", "remove", "replace"}]
    /\ gen \in [Ids -> Nat]
    /\ runs \subseteq [id : Ids, gen : Nat, data : Datasets]
    /\ older \in [busy : BOOLEAN, todo : SUBSET Ids, done : [Ids -> Datasets]]
    /\ results \in [Ids -> Datasets] /\ shown \in [Ids -> Datasets]
    /\ session \in [Ids -> Datasets] /\ mail \in [Ids -> Datasets]
    /\ history \in [known : SUBSET Ids, relisted : SUBSET Ids, late : SUBSET Ids,
                   slipped : BOOLEAN, events : 0..MaxEvents]

-----------------------------------------------------------------------------

\* executeScript() up to its first request.  The loop of a scroll-back visits
\* what it adds as well.
Started(ids) ==
    /\ sources' = sources \cup ids
    /\ older' = IF older.busy THEN [older EXCEPT !.todo = @ \cup (ids \ sources)] ELSE older
    /\ runs' = runs \cup {[id |-> i, gen |-> gen[i], data |-> data] : i \in ids}

Init ==
    /\ data = [epoch |-> 0, chunks |-> 0, whole |-> TRUE]
    /\ server \in SUBSET Ids
    /\ requests = {[kind |-> "list", ids |-> server]}
    /\ labels = server /\ active = {} /\ computing = {} /\ sources = {}
    /\ deleting = [i \in Ids |-> "no"]
    /\ gen = [i \in Ids |-> 0]
    /\ runs = {}
    /\ older = Idle
    /\ results = [i \in Ids |-> Nothing] /\ shown = results
    /\ session = results /\ mail = results
    /\ history = [known |-> server, relisted |-> {}, late |-> {}, slipped |-> FALSE, events |-> 0]

InFlight == runs # {} \/ older.busy \/ requests # {}

\* The user changes the symbol: what is drawn goes, what is in flight stays.
Switch ==
    /\ history.events < MaxEvents
    /\ data' = [epoch |-> data.epoch + 1, chunks |-> 0, whole |-> TRUE]
    /\ requests' = requests \cup {[kind |-> "load", epoch |-> data.epoch + 1]}
    /\ computing' = active
    /\ results' = [i \in Ids |-> Nothing] /\ shown' = results'
    /\ history' = [history EXCEPT !.slipped = @ \/ InFlight, !.events = @ + 1]
    /\ UNCHANGED <<user, active, sources, gen, runs, older, session, mail>>

\* The bars are there, and the list of indicators is asked for and read.
BarsLoaded ==
    \E load \in requests :
        /\ load.kind = "load"
        /\ requests' = (requests \ {load}) \cup {[kind |-> "list", ids |-> server]}
        /\ UNCHANGED <<data, user, marks, books, runs, older, session, mail, history>>

\* The list arrives: its indicators are the active ones, and each runs.
ListArrives ==
    \E list \in requests :
        /\ list.kind = "list"
        /\ requests' = requests \ {list}
        /\ labels' = list.ids /\ active' = list.ids /\ computing' = list.ids
        /\ Started(list.ids)
        /\ history' = [history EXCEPT !.late = {},
             !.relisted = @ \cup {i \in list.ids : i \notin server \/ deleting[i] # "no"}]
        /\ UNCHANGED <<data, server, deleting, gen, results, shown, session, mail>>

-----------------------------------------------------------------------------
(* One script.                                                             *)

\* App's onIndicatorResult(): the results of inactive ids are dropped.
Deliver(result) ==
    /\ shown' = [i \in Ids |-> IF result[i] # Nothing /\ i \in active THEN result[i] ELSE shown[i]]
    /\ computing' = computing \ {i \in active : result[i] # Nothing}

Only(i, d) == [Idle.done EXCEPT ![i] = d]

Stale(r) == gen[r.id] # r.gen

\* Mutant of RunEnds: the generation is not looked at, nor the active ids.
MutantRunEnds(r) ==
    /\ runs' = runs \ {r}
    /\ results' = [results EXCEPT ![r.id] = r.data]
    /\ shown' = [shown EXCEPT ![r.id] = r.data]
    /\ session' = [session EXCEPT ![r.id] = r.data]
    /\ computing' = computing \ {r.id}
    /\ UNCHANGED <<data, requests, user, active, sources, gen, older, mail, history>>

\* The run over HTTP succeeds: its result is shown and its bars become those of
\* the session.  When the indicator was removed by the user it is dropped.
RunEnds(r) ==
    /\ runs' = runs \ {r}
    /\ IF Stale(r) THEN UNCHANGED <<results, shown, computing, session>>
       ELSE /\ results' = [results EXCEPT ![r.id] = r.data]
            /\ Deliver(Only(r.id, r.data))
            /\ session' = [session EXCEPT ![r.id] = r.data]
    /\ UNCHANGED <<data, requests, user, active, sources, gen, older, mail, history>>

\* It fails or was cancelled: the indicator stays in the computing state.
RunFails(r) ==
    /\ runs' = runs \ {r}
    /\ history' = [history EXCEPT !.slipped = TRUE]
    /\ UNCHANGED <<data, requests, user, marks, books, older, session, mail>>

\* A tick makes the session run again over its bars.
SessionRuns(i) ==
    /\ session[i] # Nothing /\ mail[i] = Nothing
    /\ mail' = [mail EXCEPT ![i] = session[i]]
    /\ UNCHANGED <<data, requests, user, marks, books, runs, older, session, history>>

\* Mutant of Covers: the bars of the result are not compared with the chart's.
MutantCovers(d) == d # Nothing

\* The dataset-identity guard of handleExecutionResult(), by timestamps.
Covers(d) == d.chunks >= data.chunks

\* A full result of the session, or the values of one tick that are merged into
\* the result there is.
MailArrives(i) ==
    /\ mail[i] # Nothing
    /\ mail' = [mail EXCEPT ![i] = Nothing]
    /\ \/ i \in sources /\ Covers(mail[i])
          /\ results' = [results EXCEPT ![i] = [mail[i] EXCEPT !.chunks = Min({@, data.chunks})]]
          /\ Deliver(Only(i, results'[i]))
       \/ i \in sources /\ results[i] # Nothing
          /\ Deliver(Only(i, results[i]))
          /\ UNCHANGED results
       \/ /\ i \notin sources \/ ~Covers(mail[i]) \/ results[i] = Nothing
          /\ UNCHANGED <<results, shown, computing>>
    /\ history' = [history EXCEPT !.slipped = @ \/ mail[i].epoch # session[i].epoch]
    /\ UNCHANGED <<data, requests, user, active, sources, gen, runs, older, session>>

-----------------------------------------------------------------------------
(* Scrolling back.                                                         *)

\* A chunk goes in front of the bars; each script has to run on it.
ChunkArrives ==
    /\ ~older.busy /\ history.events < MaxEvents
    /\ data' = [data EXCEPT !.chunks = @ + 1]
    /\ older' = [Idle EXCEPT !.busy = TRUE, !.todo = sources]
    /\ history' = [history EXCEPT !.slipped = @ \/ runs # {} \/ requests # {}, !.events = @ + 1]
    /\ UNCHANGED <<requests, user, marks, books, runs, session, mail>>

\* The run on the chunk succeeds: it is merged with the result there is, and
\* the session is given all bars.
ChunkRuns(i) ==
    /\ i \in older.todo /\ i \in sources
    /\ older' = [older EXCEPT !.todo = @ \ {i},
                   !.done[i] = [data EXCEPT !.whole = results[i] # Nothing /\ results[i].whole]]
    /\ session' = [session EXCEPT ![i] = data]
    /\ history' = [history EXCEPT !.slipped = @ \/ \E r \in runs : r.id = i]
    /\ UNCHANGED <<data, requests, user, marks, books, runs, mail>>

\* It fails, or its indicator went before its turn.
ChunkSkips(i) ==
    /\ i \in older.todo
    /\ older' = [older EXCEPT !.todo = @ \ {i}]
    /\ history' = [history EXCEPT !.slipped = @ \/ i \in sources]
    /\ UNCHANGED <<data, requests, user, marks, books, runs, session, mail>>

\* All results of the chunk are drawn at once.
ChunkDrawn ==
    /\ older.busy /\ older.todo = {}
    /\ results' = [i \in Ids |-> IF older.done[i] # Nothing THEN older.done[i] ELSE results[i]]
    /\ Deliver(older.done)
    /\ older' = Idle
    /\ UNCHANGED <<data, requests, user, active, sources, gen, runs, session, mail, history>>

-----------------------------------------------------------------------------
(* The user's list.                                                        *)

\* handleAddIndicator(): POST, then the first run.
Add(i) ==
    /\ i \notin history.known
    /\ server' = server \cup {i} /\ labels' = labels \cup {i}
    /\ active' = active \cup {i} /\ computing' = computing \cup {i}
    /\ Started({i})
    /\ history' = [history EXCEPT !.known = @ \cup {i}]
    /\ UNCHANGED <<data, requests, deleting, gen, results, shown, session, mail>>

\* handleRemoveIndicator() up to its DELETE, also as the first half of
\* handleStrategyReplace().  The active ids become the computing ones, also
\* those whose result was dropped because they were not active when it came.
RemoveIndicator(i) ==
    /\ i \in labels /\ deleting[i] = "no" /\ history.events < MaxEvents
    /\ \E why \in {"remove", "replace"} : deleting' = [deleting EXCEPT ![i] = why]
    /\ session' = [session EXCEPT ![i] = Nothing]
    /\ gen' = [gen EXCEPT ![i] = @ + 1]
    /\ results' = [results EXCEPT ![i] = Nothing]
    /\ shown' = [shown EXCEPT ![i] = Nothing]
    /\ sources' = sources \ {i}
    /\ computing' = computing \ {i} /\ active' = computing'
    /\ history' = [history EXCEPT !.events = @ + 1,
         !.relisted = @ \cup {j \in active' : j \notin server \/ deleting[j] # "no"},
         !.late = @ \cup {j \in active' \ active : \A r \in runs : r.id = j => Stale(r)}]
    /\ UNCHANGED <<data, requests, server, labels, runs, older, mail>>

\* The DELETE ends; a failure makes the indicator active again.  A replacement
\* then adds the new strategy, but not to the active ids.
DeleteEnds(i) ==
    /\ deleting[i] # "no"
    /\ deleting' = [deleting EXCEPT ![i] = "no"]
    /\ \E success \in BOOLEAN, new \in SUBSET (Ids \ history.known) :
          /\ Cardinality(new) = IF deleting[i] = "replace" THEN 1 ELSE 0
          /\ server' = (IF success THEN server \ {i} ELSE server) \cup new
          /\ labels' = (IF success THEN labels \ {i} ELSE labels) \cup new
          /\ active' = IF success THEN active ELSE active \cup {i}
          /\ computing' = computing \cup new
          /\ Started(new)
          /\ history' = [history EXCEPT
               !.known = @ \cup new, !.slipped = @ \/ ~success,
               !.relisted = @ \cup {j \in {i} : ~success /\ j \notin server}]
    /\ UNCHANGED <<data, requests, gen, results, shown, session, mail>>

\* Mutant of RemovedElsewhere: the notice does not reach the active ids.
MutantRemovedElsewhere(i) ==
    /\ i \in server /\ history.events < MaxEvents
    /\ server' = server \ {i} /\ labels' = labels \ {i}
    /\ sources' = sources \ {i}
    /\ results' = [results EXCEPT ![i] = Nothing] /\ shown' = [shown EXCEPT ![i] = Nothing]
    /\ session' = [session EXCEPT ![i] = Nothing]
    /\ history' = [history EXCEPT !.events = @ + 1]
    /\ UNCHANGED <<data, requests, deleting, active, computing, gen, runs, older, mail>>

\* Another client removed it: the notice of the server (indicator_removed).
RemovedElsewhere(i) ==
    /\ i \in server /\ history.events < MaxEvents
    /\ server' = server \ {i} /\ labels' = labels \ {i}
    /\ active' = active \ {i}
    /\ sources' = sources \ {i}
    /\ results' = [results EXCEPT ![i] = Nothing] /\ shown' = [shown EXCEPT ![i] = Nothing]
    /\ session' = [session EXCEPT ![i] = Nothing]
    /\ history' = [history EXCEPT !.events = @ + 1]
    /\ UNCHANGED <<data, requests, deleting, computing, gen, runs, older, mail>>

Next ==
    \/ Switch \/ BarsLoaded \/ ListArrives \/ ChunkArrives \/ ChunkDrawn
    \/ \E r \in runs : RunEnds(r) \/ RunFails(r)
    \/ \E i \in Ids : \/ SessionRuns(i) \/ MailArrives(i) \/ ChunkRuns(i) \/ ChunkSkips(i)
                      \/ Add(i) \/ RemoveIndicator(i) \/ DeleteEnds(i) \/ RemovedElsewhere(i)

Spec == Init /\ [][Next]_vars

-----------------------------------------------------------------------------
(* Correctness.                                                            *)

\* What was removed stays off the chart, whatever runs, sessions and scroll-
\* backs were under way for it, unless something older than the removal, a
\* list or the computing ids, made it active again (the two stale-result
\* guards of App and useChartData).
RemovedStaysGone ==
    \A i \in Ids \ history.relisted :
        i \notin server \/ deleting[i] # "no" => shown[i] = Nothing

\* Once everything has arrived, an active indicator is drawn over all bars of
\* the chart, unless a request failed or was overtaken by a change of the
\* symbol or by a chunk, or a removal made it active when its result was lost.
DrawnOverAllBars ==
    ~InFlight /\ ~history.slipped =>
        \A i \in active \ history.late : i \in server => shown[i] = data

\* Both, with the types.
IndicatorsAreTrue == TypeOK /\ RemovedStaysGone /\ DrawnOverAllBars
=============================================================================
