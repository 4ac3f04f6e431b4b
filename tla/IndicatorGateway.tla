-------------------------- MODULE IndicatorGateway --------------------------
(***************************************************************************)
(* The chart gateway of the backend (src/backend/src/ws/gateway.ts,        *)
(* cancellation-registry.ts, routes/execute.ts, routes/indicators.ts).     *)
(* Clients run indicators: a run computes the history of its bars and      *)
(* yields while it does, and becomes a session that follows the chart      *)
(* unless it was cancelled; runs over the web socket and over REST share   *)
(* one token for each indicator id, whoever asked for them.  And clients   *)
(* follow topics, which the gateway subscribes upstream on one socket for  *)
(* each category of instruments, the spot socket only while it is needed.  *)
(***************************************************************************)
EXTENDS Naturals, Sequences, FiniteSets

CONSTANTS
    Clients,       \* connections to the gateway
    Ids,           \* indicator ids
    Topics,        \* chart topics
    CategoryOf,    \* CategoryOf[t]: linear or spot
    MaxRuns,       \* bound: runs asked for
    MaxSockets     \* bound: sockets ever opened upstream

Categories == {"linear", "spot"}

ASSUME GatewayAssumption ==
    /\ CategoryOf \in [Topics -> Categories]
    /\ MaxRuns \in Nat /\ MaxSockets \in Nat \ {0}

Runs == 1..MaxRuns
None == 0

VARIABLES
    clients,    \* what became of each connection
    follows,    \* sub.topics of each connection
    sessions,   \* sub.sessions: the run each session came from
    runs,       \* the runs, in the order they were asked for
    registry,   \* the run whose token each id has
    stale,      \* ghost: runs that were superseded, stopped or deleted
    robbed,     \* ghost: runs whose token another run removed
    delivered,  \* ghost: runs whose result was used
    routes,     \* bybitTopicToOriginal: the topics with a way back
    sockets,    \* every socket opened upstream, and what it streams
    current,    \* bybitSockets: the socket of each category
    timers      \* pending reconnects of each category

runVars == <<sessions, runs, registry, stale, robbed, delivered>>
upVars == <<routes, sockets, current, timers>>
vars == <<clients, follows, runVars, upVars>>

TypeOK ==
    /\ clients \in [Clients -> {"expected", "open", "closed"}]
    /\ follows \in [Clients -> SUBSET Topics]
    /\ sessions \in [Clients -> [Ids -> Runs \union {None}]]
    /\ runs \in Seq([by : Clients \union {"rest"}, id : Ids,
                     phase : {"computing", "over"}, cancelled : BOOLEAN])
    /\ Len(runs) <= MaxRuns
    /\ registry \in [Ids -> Runs \union {None}]
    /\ stale \subseteq Runs /\ robbed \subseteq Runs /\ delivered \subseteq Runs
    /\ routes \subseteq Topics
    /\ sockets \in Seq([category : Categories,
                        phase : {"connecting", "open", "closing", "gone"},
                        streams : SUBSET Topics])
    /\ Len(sockets) <= MaxSockets
    /\ current \in [Categories -> 0..MaxSockets]
    /\ \A k \in Categories : current[k] # None =>
          /\ current[k] \in DOMAIN sockets
          /\ sockets[current[k]].category = k /\ sockets[current[k]].phase # "gone"
    /\ timers \in [Categories -> Nat]

\* connectToBybit(): the linear socket is opened with the server.
Init ==
    /\ clients = [c \in Clients |-> "expected"]
    /\ follows = [c \in Clients |-> {}]
    /\ sessions = [c \in Clients |-> [i \in Ids |-> None]]
    /\ runs = <<>>
    /\ registry = [i \in Ids |-> None]
    /\ stale = {} /\ robbed = {} /\ delivered = {}
    /\ routes = {}
    /\ sockets = <<[category |-> "linear", phase |-> "connecting", streams |-> {}]>>
    /\ current = [k \in Categories |-> IF k = "linear" THEN 1 ELSE None]
    /\ timers = [k \in Categories |-> 0]

-----------------------------------------------------------------------------
(* Runs and their tokens                                                   *)

Computing(id) == { r \in DOMAIN runs : runs[r].phase = "computing" /\ runs[r].id = id }

\* cancel(): flags the token the id has now, if any.
Cancelled(id) ==
    [r \in DOMAIN runs |->
       IF r = registry[id] THEN [runs[r] EXCEPT !.cancelled = TRUE] ELSE runs[r]]

\* A run begins: its token supersedes that of any run with the same id, and a
\* client's old session goes before the new one is computed.
Execute(by, id) ==
    /\ Len(runs) < MaxRuns
    /\ by \in Clients => clients[by] = "open"
    /\ runs' = Append(Cancelled(id),
                      [by |-> by, id |-> id, phase |-> "computing", cancelled |-> FALSE])
    /\ registry' = [registry EXCEPT ![id] = Len(runs) + 1]
    /\ stale' = stale \union Computing(id)
    /\ sessions' = IF by = "rest" THEN sessions ELSE [sessions EXCEPT ![by][id] = None]
    /\ UNCHANGED <<clients, follows, robbed, delivered, upVars>>

\* Mutant of Finish: the token is not looked at once the run is over.
MutantFinish(r, success) ==
    LET run == runs[r]
    IN  /\ run.phase = "computing"
        /\ runs' = [runs EXCEPT ![r].phase = "over"]
        /\ registry' = [registry EXCEPT ![run.id] = None]
        /\ robbed' = robbed \union ({registry[run.id]} \ {r, None})
        /\ IF success
           THEN /\ delivered' = delivered \union {r}
                /\ sessions' = IF run.by = "rest" THEN sessions
                               ELSE [sessions EXCEPT ![run.by][run.id] = r]
           ELSE UNCHANGED <<delivered, sessions>>
        /\ UNCHANGED <<clients, follows, stale, upVars>>

\* Mutant of Finish: a cancelled run returns before it comes to the clean-up.
MutantReturn(r, success) ==
    LET run == runs[r]
    IN  /\ run.phase = "computing"
        /\ runs' = [runs EXCEPT ![r].phase = "over"]
        /\ registry' = IF run.cancelled THEN registry ELSE [registry EXCEPT ![run.id] = None]
        /\ robbed' = robbed \union ({registry[run.id]} \ {r, None})
        /\ IF success /\ ~run.cancelled
           THEN /\ delivered' = delivered \union {r}
                /\ sessions' = IF run.by = "rest" THEN sessions
                               ELSE [sessions EXCEPT ![run.by][run.id] = r]
           ELSE UNCHANGED <<delivered, sessions>>
        /\ UNCHANGED <<clients, follows, stale, upVars>>

\* A run ends, in whatever order: a result that was not cancelled is answered,
\* and makes a session if a client asked for it; in any case the run removes
\* the token its id has by now, which may be another run's.
Finish(r, success) ==
    LET run == runs[r]
    IN  /\ run.phase = "computing"
        /\ runs' = [runs EXCEPT ![r].phase = "over"]
        /\ registry' = [registry EXCEPT ![run.id] = None]
        /\ robbed' = robbed \union ({registry[run.id]} \ {r, None})
        /\ IF success /\ ~run.cancelled
           THEN /\ delivered' = delivered \union {r}
                /\ sessions' = IF run.by = "rest" THEN sessions
                               ELSE [sessions EXCEPT ![run.by][run.id] = r]
           ELSE UNCHANGED <<delivered, sessions>>
        /\ UNCHANGED <<clients, follows, stale, upVars>>

\* stop_indicator of a client.
Stop(c, id) ==
    /\ clients[c] = "open"
    /\ runs' = Cancelled(id)
    /\ stale' = stale \union Computing(id)
    /\ sessions' = [sessions EXCEPT ![c][id] = None]
    /\ UNCHANGED <<clients, follows, registry, robbed, delivered, upVars>>

\* DELETE /indicators/:id cancels and leaves sessions to the clients.
Delete(id) ==
    /\ runs' = Cancelled(id)
    /\ stale' = stale \union Computing(id)
    /\ UNCHANGED <<clients, follows, sessions, registry, robbed, delivered, upVars>>

-----------------------------------------------------------------------------
(* Topics and upstream sockets                                             *)

IsOpen(k) == current[k] # None /\ sockets[current[k]].phase = "open"
Followed(k) == { t \in Topics : CategoryOf[t] = k /\ \E c \in Clients : t \in follows[c] }

\* ensureBybitSocket(): unless the socket is open it makes a new one, and the
\* one before, which may be connecting still, is nobody's any more.
Ensure(k, then) ==
    IF IsOpen(k) THEN sockets' = then /\ UNCHANGED current
    ELSE /\ Len(sockets) < MaxSockets
         /\ sockets' = Append(then, [category |-> k, phase |-> "connecting", streams |-> {}])
         /\ current' = [current EXCEPT ![k] = Len(sockets) + 1]

\* The sockets, with topic t streamed or not on the open socket of its category.
Streaming(t, wanted) ==
    LET k == CategoryOf[t]
    IN  IF IsOpen(k)
        THEN [sockets EXCEPT ![current[k]].streams = IF wanted THEN @ \union {t} ELSE @ \ {t}]
        ELSE sockets

Connect(c) ==
    /\ clients[c] = "expected"
    /\ clients' = [clients EXCEPT ![c] = "open"]
    /\ UNCHANGED <<follows, runVars, upVars>>

\* A subscription is sent at once if the socket is open, otherwise when it opens.
Subscribe(c, t) ==
    /\ clients[c] = "open"
    /\ follows' = [follows EXCEPT ![c] = @ \union {t}]
    /\ routes' = routes \union {t}
    /\ Ensure(CategoryOf[t], Streaming(t, TRUE))
    /\ UNCHANGED <<clients, runVars, timers>>

\* handleLastUnsubscribe(), for the topics that nobody follows any more: they
\* are unsubscribed, and without any spot topic the spot socket is closed.
HandleLastUnsubscribe(dropped) ==
    LET gone == { t \in dropped : \A c \in Clients : t \notin follows'[c] }
        kept == [s \in DOMAIN sockets |->
                   IF \E k \in Categories : s = current[k] /\ IsOpen(k)
                   THEN [sockets[s] EXCEPT !.streams = @ \ gone] ELSE sockets[s]]
    IN  /\ routes' = routes \ gone
        /\ IF gone # {} /\ (\A t \in routes' : CategoryOf[t] # "spot") /\ current["spot"] # None
           THEN /\ sockets' = [kept EXCEPT ![current["spot"]].phase = "closing"]
                /\ current' = [current EXCEPT !["spot"] = None]
           ELSE sockets' = kept /\ UNCHANGED current

Unsubscribe(c, t) ==
    /\ clients[c] = "open"
    /\ follows' = [follows EXCEPT ![c] = @ \ {t}]
    /\ HandleLastUnsubscribe({t})
    /\ UNCHANGED <<clients, runVars, timers>>

\* A connection closes; its runs go on.
Disconnect(c) ==
    /\ clients[c] = "open"
    /\ clients' = [clients EXCEPT ![c] = "closed"]
    /\ follows' = [follows EXCEPT ![c] = {}]
    /\ HandleLastUnsubscribe(follows[c])
    /\ UNCHANGED <<runVars, timers>>

\* Mutant of HandleOpen: a socket that opens is not told what is followed.
MutantHandleOpen(s) ==
    /\ sockets[s].phase = "connecting"
    /\ sockets' = [sockets EXCEPT ![s].phase = "open"]
    /\ UNCHANGED <<clients, follows, runVars, routes, current, timers>>

\* A handshake succeeds; only the socket of its category subscribes.
HandleOpen(s) ==
    LET k == sockets[s].category
    IN  /\ sockets[s].phase = "connecting"
        /\ sockets' = [sockets EXCEPT ![s].phase = "open",
                                      ![s].streams = IF s = current[k] THEN Followed(k) ELSE {}]
        /\ UNCHANGED <<clients, follows, runVars, routes, current, timers>>

\* A handshake fails or a connection is lost: the close event is on its way.
Lose(s) ==
    /\ sockets[s].phase \in {"connecting", "open"}
    /\ sockets' = [sockets EXCEPT ![s].phase = "closing"]
    /\ UNCHANGED <<clients, follows, runVars, routes, current, timers>>

\* Mutant of HandleClose: the entry of the socket that closed is kept.
MutantHandleClose(s) ==
    LET k == sockets[s].category
    IN  /\ sockets[s].phase = "closing"
        /\ sockets' = [sockets EXCEPT ![s].phase = "gone"]
        /\ timers' = [timers EXCEPT ![k] = @ + (IF s = current[k] THEN 1 ELSE 0)]
        /\ UNCHANGED <<clients, follows, runVars, routes, current>>

\* The close event: only the socket of its category starts a timer.
HandleClose(s) ==
    LET k == sockets[s].category
    IN  /\ sockets[s].phase = "closing"
        /\ sockets' = [sockets EXCEPT ![s].phase = "gone"]
        /\ IF s = current[k]
           THEN /\ current' = [current EXCEPT ![k] = None]
                /\ timers' = [timers EXCEPT ![k] = @ + 1]
           ELSE UNCHANGED <<current, timers>>
        /\ UNCHANGED <<clients, follows, runVars, routes>>

\* The timer of a close fires after three seconds, whatever happened since.
Reconnect(k) ==
    /\ timers[k] > 0
    /\ timers' = [timers EXCEPT ![k] = @ - 1]
    /\ Ensure(k, sockets)
    /\ UNCHANGED <<clients, follows, runVars, routes>>

Next ==
    \/ \E id \in Ids : Delete(id) \/ \E by \in Clients \union {"rest"} : Execute(by, id)
    \/ \E r \in DOMAIN runs, success \in BOOLEAN : Finish(r, success)
    \/ \E c \in Clients, id \in Ids : Stop(c, id)
    \/ \E c \in Clients : Connect(c) \/ Disconnect(c)
    \/ \E c \in Clients, t \in Topics : Subscribe(c, t) \/ Unsubscribe(c, t)
    \/ \E s \in DOMAIN sockets : HandleOpen(s) \/ Lose(s) \/ HandleClose(s)
    \/ \E k \in Categories : Reconnect(k)

Spec == Init /\ [][Next]_vars

-----------------------------------------------------------------------------
(* Properties                                                              *)

\* What was superseded, stopped or deleted while it computed is never used,
\* neither as an answer nor as a session that follows the chart, unless the
\* end of an older run had taken its token away.
StaleOnlyIfRobbed == delivered \intersect stale \subseteq robbed

\* No token outlives its run, however runs of one id overlap, fail, or are
\* cancelled.
NoTokenLeaks ==
    \A id \in Ids : registry[id] # None =>
        runs[registry[id]].phase = "computing" /\ runs[registry[id]].id = id

\* Tokens are sound: none leaks, and a token that was not taken away keeps the
\* result of a cancelled run out of the chart.
TokensAreSound == TypeOK /\ NoTokenLeaks /\ StaleOnlyIfRobbed

\* A topic somebody follows has its way back to the clients, and is streamed by
\* the open socket of its category, which streams nothing else; while there is
\* none, a handshake, a close event or a timer is still to come.
UpstreamServes ==
    /\ routes = Followed("linear") \union Followed("spot")
    /\ \A k \in Categories :
          /\ IsOpen(k) => sockets[current[k]].streams = Followed(k)
          /\ Followed(k) # {} => current[k] # None \/ timers[k] > 0
    /\ \A s \in DOMAIN sockets :
          sockets[s].phase = "open" /\ sockets[s].streams # {} =>
              s = current[sockets[s].category]
=============================================================================
