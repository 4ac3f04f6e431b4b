------------------------------ MODULE BarFeed ------------------------------
(***************************************************************************)
(* The bar feed (src/src/trading/bybit-websocket.ts): one socket for each  *)
(* category of instruments, its reconnect timer and its connect timeout,   *)
(* the subscriptions, and the telemetry the bot engine keeps of it.  The   *)
(* sockets (the library ws) and the exchange behind them are the           *)
(* environment: a socket may hang in its handshake, be refused, err, drop, *)
(* or close long after close() was called, and messages still come until   *)
(* it has closed.                                                          *)
(***************************************************************************)
EXTENDS Naturals, Sequences, FiniteSets

CONSTANTS
    Pairs,                 \* the configured Symbol x Timeframe pairs
    Category,              \* getBybitCategory() of each pair
    Sockets,               \* bound: the sockets that exist at a time
    Owner,                 \* the category a socket is made for
    NoSocket,
    MaxReconnectAttempts,
    MaxBar                 \* bound: the bars of a pair that close

Categories == {"linear", "spot"}

ASSUME BarFeedAssumption ==
    /\ Category \in [Pairs -> Categories]
    /\ Owner \in [Sockets -> Categories]
    /\ NoSocket \notin Sockets
    /\ MaxReconnectAttempts \in Nat
    /\ MaxBar \in Nat

VARIABLES
    sockets,        \* category -> the socket of that category, if any
    ready,          \* readyState of each socket; "aborting" is a handshake
                    \* that close() cut short, its two events still to come
    topics,         \* what the exchange streams on each socket
    inbox,          \* the messages of each socket that are still to be handled
    connecting,     \* category -> reconnectState.connecting
    attempts,       \* category -> reconnectState.attempts
    timer,          \* category -> a reconnect is scheduled
    timeoutTimer,   \* category -> the socket the armed connect timeout guards
    stopped,        \* isStopped
    subscriptions,  \* the subscribed pairs
    phase,          \* the engine's use of the feed: "new", "up", "down"
    bar,            \* pair -> the bar that is forming at the exchange
    bars,           \* pair -> the bars the engine was given, in order
    connected,      \* feedState.connected
    live            \* the pairs with ok = true in feedState.subscriptions

wire      == <<topics, inbox>>
client    == <<stopped, subscriptions, phase>>
exchange  == <<bar>>
telemetry == <<connected, live>>
vars == <<sockets, ready, topics, inbox, connecting, attempts, timer,
          timeoutTimer, stopped, subscriptions, phase, bar, bars, connected, live>>

Messages == [pair : Pairs, bar : 1..MaxBar, confirm : BOOLEAN]

TypeOK ==
    /\ sockets \in [Categories -> Sockets \cup {NoSocket}]
    /\ ready \in [Sockets -> {"connecting", "open", "closing", "aborting", "closed"}]
    /\ topics \in [Sockets -> SUBSET Pairs]
    /\ inbox \in [Sockets -> Seq(Messages)]
    /\ connecting \in [Categories -> BOOLEAN]
    /\ attempts \in [Categories -> 0..MaxReconnectAttempts]
    /\ timer \in [Categories -> BOOLEAN]
    /\ timeoutTimer \in [Categories -> Sockets \cup {NoSocket}]
    /\ stopped \in BOOLEAN
    /\ subscriptions \subseteq Pairs
    /\ phase \in {"new", "up", "down"}
    /\ bar \in [Pairs -> 1..MaxBar + 1]
    /\ bars \in [Pairs -> Seq(1..MaxBar)]
    /\ connected \in BOOLEAN
    /\ live \subseteq Pairs

Init ==
    /\ sockets = [c \in Categories |-> NoSocket]
    /\ ready = [s \in Sockets |-> "closed"]
    /\ topics = [s \in Sockets |-> {}]
    /\ inbox = [s \in Sockets |-> <<>>]
    /\ connecting = [c \in Categories |-> FALSE]
    /\ attempts = [c \in Categories |-> 0]
    /\ timer = [c \in Categories |-> FALSE]
    /\ timeoutTimer = [c \in Categories |-> NoSocket]
    /\ stopped = FALSE
    /\ subscriptions = {}
    /\ phase = "new"
    /\ bar = [p \in Pairs |-> 1]
    /\ bars = [p \in Pairs |-> <<>>]
    /\ connected = FALSE
    /\ live = {}

-----------------------------------------------------------------------------
(* Parts of the handlers.                                                  *)

SubscribedIn(c) == {p \in subscriptions : Category[p] = c}
IsOpen(c)    == sockets[c] \in Sockets /\ ready[sockets[c]] = "open"
Current(s)   == sockets[Owner[s]] = s

\* A socket that has nothing left to report.
Free(c) == {s \in Sockets : Owner[s] = c /\ ready[s] = "closed"}

\* Mutant of Scheduled: the attempts are not counted.
MutantScheduled(c) == timer[c] \/ ~stopped

\* Does scheduleReconnect() leave a timer behind?
Scheduled(c) == timer[c] \/ (~stopped /\ attempts[c] < MaxReconnectAttempts)

\* connect() goes through: a socket is made, and its connect timeout armed.
\* It supersedes a scheduled reconnect.  count is the attempts it starts from.
Open(c, count) ==
    \E s \in Free(c) :
        /\ sockets' = [sockets EXCEPT ![c] = s]
        /\ ready' = [ready EXCEPT ![s] = "connecting"]
        /\ connecting' = [connecting EXCEPT ![c] = TRUE]
        /\ timer' = [timer EXCEPT ![c] = FALSE]
        /\ timeoutTimer' = [timeoutTimer EXCEPT ![c] = s]
        /\ attempts' = [attempts EXCEPT ![c] = count]
        /\ stopped' = FALSE

\* connect() returns at once.
AlreadyConnected(c) == connecting[c] \/ IsOpen(c)

\* Mutant of Lose: no reconnect.
MutantLose(c) ==
    /\ timeoutTimer' = [timeoutTimer EXCEPT ![c] = NoSocket]
    /\ connecting' = [connecting EXCEPT ![c] = FALSE]
    /\ UNCHANGED timer

\* A close or error handler of the socket of c: the timeout is cleared and a
\* reconnect scheduled, unless the feed is stopped.
Lose(c) ==
    /\ timeoutTimer' = [timeoutTimer EXCEPT ![c] = NoSocket]
    /\ connecting' = [connecting EXCEPT ![c] = FALSE]
    /\ timer' = [timer EXCEPT ![c] = Scheduled(c)]

\* The identity guard: what a socket that was replaced reports is ignored.
Stale(s) ==
    /\ ~Current(s)
    /\ UNCHANGED <<timeoutTimer, connecting, timer, connected, live>>

\* The socket is closed: what was not handled by then is lost.
Closed(s) ==
    /\ ready' = [ready EXCEPT ![s] = "closed"]
    /\ topics' = [topics EXCEPT ![s] = {}]
    /\ inbox' = [inbox EXCEPT ![s] = <<>>]

\* close(): a handshake is aborted, an open connection closes in its time.
Close(S) ==
    ready' = [s \in Sockets |->
        CASE s \in S /\ ready[s] = "connecting" -> "aborting"
          [] s \in S /\ ready[s] = "open"       -> "closing"
          [] OTHER                              -> ready[s]]

-----------------------------------------------------------------------------
(* The engine's calls.                                                     *)

\* initialize(): the linear feed is connected before any pair is subscribed.
Connect ==
    /\ phase = "new"
    /\ Open("linear", attempts["linear"])
    /\ phase' = "up"
    /\ UNCHANGED <<topics, inbox, subscriptions, bar, bars, connected, live>>

\* subscribe(): the first spot pair opens the spot socket; the request is sent
\* at once only on an open socket, and otherwise when the socket opens.  The
\* engine records whether the feed was connected.
Subscribe(p) ==
    LET c == Category[p] IN
    /\ phase = "up"
    /\ p \notin subscriptions
    /\ subscriptions' = subscriptions \cup {p}
    /\ \/ /\ c = "spot" /\ ~AlreadyConnected(c)
          /\ Open(c, attempts[c])
          /\ UNCHANGED topics
       \/ /\ c = "linear" \/ AlreadyConnected(c)
          /\ topics' = IF IsOpen(c) THEN [topics EXCEPT ![sockets[c]] = @ \cup {p}]
                                    ELSE topics
          /\ UNCHANGED <<sockets, ready, connecting, timer,
                         timeoutTimer, attempts, stopped>>
    /\ live' = IF connected THEN live \cup {p} ELSE live \ {p}
    /\ UNCHANGED <<inbox, phase, bar, bars, connected>>

\* unsubscribe(): with its last pair the spot socket goes, and everything that
\* was scheduled for it.
Unsubscribe(p) ==
    LET c == Category[p] IN
    /\ phase = "up"
    /\ p \in subscriptions
    /\ subscriptions' = subscriptions \ {p}
    /\ topics' = IF IsOpen(c) THEN [topics EXCEPT ![sockets[c]] = @ \ {p}] ELSE topics
    /\ \/ /\ SubscribedIn("spot") = {p}
          /\ timer' = [timer EXCEPT !["spot"] = FALSE]
          /\ timeoutTimer' = [timeoutTimer EXCEPT !["spot"] = NoSocket]
          /\ connecting' = [connecting EXCEPT !["spot"] = FALSE]
          /\ attempts' = [attempts EXCEPT !["spot"] = 0]
          /\ Close({sockets["spot"]})
          /\ sockets' = [sockets EXCEPT !["spot"] = NoSocket]
       \/ /\ SubscribedIn("spot") # {p}
          /\ UNCHANGED <<timer, timeoutTimer, connecting, attempts, ready, sockets>>
    /\ UNCHANGED <<inbox, stopped, phase, bar, bars, connected, live>>

\* disconnect(), by the engine's shutdown().
Disconnect ==
    /\ phase = "up"
    /\ phase' = "down"
    /\ stopped' = TRUE
    /\ timer' = [c \in Categories |-> FALSE]
    /\ timeoutTimer' = [c \in Categories |-> NoSocket]
    /\ Close({sockets[c] : c \in Categories})
    /\ sockets' = [c \in Categories |-> NoSocket]
    /\ connected' = FALSE
    /\ UNCHANGED <<topics, inbox, connecting, attempts, subscriptions, bar, bars, live>>

-----------------------------------------------------------------------------
(* The timers.                                                             *)

\* The scheduled reconnect.  (It finds no other socket connecting or open:
\* whatever opened one since has cleared the timer.)
Reconnect(c) ==
    /\ timer[c]
    /\ ~AlreadyConnected(c)
    /\ Open(c, attempts[c] + 1)
    /\ UNCHANGED <<wire, subscriptions, phase, bar, bars, connected, live>>

\* The connect timeout: a handshake that hangs is given up and aborted.
ConnectTimeout(c) ==
    LET s == timeoutTimer[c] IN
    /\ s # NoSocket /\ sockets[c] = s /\ ready[s] # "open"
    /\ timeoutTimer' = [timeoutTimer EXCEPT ![c] = NoSocket]
    /\ connecting' = [connecting EXCEPT ![c] = FALSE]
    /\ live' = {}
    /\ Close({s})
    /\ timer' = [timer EXCEPT ![c] = Scheduled(c)]
    /\ UNCHANGED <<sockets, attempts, connected, wire, client, bar, bars>>

-----------------------------------------------------------------------------
(* The events of a socket.                                                 *)

\* Mutant of HandleOpen: the exchange is taken to remember the subscriptions.
MutantHandleOpen(s) ==
    LET c == Owner[s] IN
    /\ ready[s] = "connecting"
    /\ ready' = [ready EXCEPT ![s] = "open"]
    /\ Current(s)
    /\ timeoutTimer' = [timeoutTimer EXCEPT ![c] = NoSocket]
    /\ connecting' = [connecting EXCEPT ![c] = FALSE]
    /\ attempts' = [attempts EXCEPT ![c] = 0]
    /\ connected' = TRUE
    /\ live' = Pairs
    /\ UNCHANGED <<timer, topics>>
    /\ UNCHANGED <<sockets, inbox, client, bar, bars>>

\* open: the session is new, so every subscription is sent again.  (A socket
\* that was replaced does not open: close() aborts its handshake.)
HandleOpen(s) ==
    LET c == Owner[s] IN
    /\ ready[s] = "connecting"
    /\ ready' = [ready EXCEPT ![s] = "open"]
    /\ Current(s)
    /\ timeoutTimer' = [timeoutTimer EXCEPT ![c] = NoSocket]
    /\ connecting' = [connecting EXCEPT ![c] = FALSE]
    /\ attempts' = [attempts EXCEPT ![c] = 0]
    /\ connected' = TRUE
    /\ live' = Pairs
    /\ topics' = [topics EXCEPT ![s] = SubscribedIn(c)]
    /\ UNCHANGED timer
    /\ UNCHANGED <<sockets, inbox, client, bar, bars>>

\* error on an open socket: it is closing, its close event comes later.
HandleError(s) ==
    /\ ready[s] = "open"
    /\ ready' = [ready EXCEPT ![s] = "closing"]
    /\ \/ /\ Current(s)
          /\ Lose(Owner[s])
          /\ live' = {}
          /\ UNCHANGED connected
       \/ Stale(s)
    /\ UNCHANGED <<sockets, attempts, wire, client, bar, bars>>

\* close: of an open socket that dropped, or of one that was closing.
HandleClose(s) ==
    /\ ready[s] \in {"open", "closing"}
    /\ Closed(s)
    /\ \/ /\ Current(s)
          /\ Lose(Owner[s])
          /\ connected' = FALSE
          /\ UNCHANGED live
       \/ Stale(s)
    /\ UNCHANGED <<sockets, attempts, client, bar, bars>>

\* A handshake that is refused, or that was aborted: error and close in one.
HandleRefusal(s) ==
    /\ ready[s] \in {"connecting", "aborting"}
    /\ Closed(s)
    /\ \/ /\ Current(s)
          /\ Lose(Owner[s])
          /\ live' = {}
          /\ connected' = FALSE
       \/ Stale(s)
    /\ UNCHANGED <<sockets, attempts, client, bar, bars>>

\* Mutant of HandleMessage: no identity guard.
MutantHandleMessage(s) ==
    /\ ready[s] \in {"open", "closing"}
    /\ inbox[s] # <<>>
    /\ LET m == Head(inbox[s]) IN
       bars' = IF ~stopped /\ m.pair \in subscriptions /\ m.confirm
                 THEN [bars EXCEPT ![m.pair] = Append(@, m.bar)]
                 ELSE bars
    /\ inbox' = [inbox EXCEPT ![s] = Tail(@)]
    /\ UNCHANGED <<sockets, ready, topics, connecting, attempts, timer,
                   timeoutTimer, client, bar, telemetry>>

\* message: the engine is given the confirmed bars of subscribed pairs.
HandleMessage(s) ==
    /\ ready[s] \in {"open", "closing"}
    /\ inbox[s] # <<>>
    /\ LET m == Head(inbox[s]) IN
       bars' = IF Current(s) /\ ~stopped /\ m.pair \in subscriptions /\ m.confirm
                 THEN [bars EXCEPT ![m.pair] = Append(@, m.bar)]
                 ELSE bars
    /\ inbox' = [inbox EXCEPT ![s] = Tail(@)]
    /\ UNCHANGED <<sockets, ready, topics, connecting, attempts, timer,
                   timeoutTimer, client, bar, telemetry>>

-----------------------------------------------------------------------------
(* The exchange.                                                           *)

\* A message goes out on every socket that streams the pair.
Push(m) ==
    inbox' = [s \in Sockets |->
        IF ready[s] \in {"open", "closing"} /\ m.pair \in topics[s]
          THEN Append(inbox[s], m) ELSE inbox[s]]

\* The forming bar moves (bound: such messages do not queue up).
Tick(p) ==
    /\ bar[p] <= MaxBar
    /\ \A s \in Sockets : p \in topics[s] => inbox[s] = <<>>
    /\ \E s \in Sockets : ready[s] = "open" /\ p \in topics[s]
    /\ Push([pair |-> p, bar |-> bar[p], confirm |-> FALSE])
    /\ UNCHANGED <<sockets, ready, topics, connecting, attempts, timer,
                   timeoutTimer, client, bar, bars, telemetry>>

\* The forming bar closes: this is streamed once.
Confirm(p) ==
    /\ bar[p] <= MaxBar
    /\ Push([pair |-> p, bar |-> bar[p], confirm |-> TRUE])
    /\ bar' = [bar EXCEPT ![p] = @ + 1]
    /\ UNCHANGED <<sockets, ready, topics, connecting, attempts, timer,
                   timeoutTimer, client, bars, telemetry>>

-----------------------------------------------------------------------------

Next ==
    \/ Connect \/ Disconnect
    \/ \E p \in Pairs : Subscribe(p) \/ Unsubscribe(p) \/ Tick(p) \/ Confirm(p)
    \/ \E c \in Categories : Reconnect(c) \/ ConnectTimeout(c)
    \/ \E s \in Sockets :
          HandleOpen(s) \/ HandleError(s) \/ HandleClose(s) \/ HandleRefusal(s) \/ HandleMessage(s)

Spec == Init /\ [][Next]_vars

\* setTimeout() fires, and a socket that close() was called on reports it.
\* Nothing is promised about a handshake: it may hang for ever.
Fairness ==
    /\ \A c \in Categories : WF_vars(Reconnect(c)) /\ WF_vars(ConnectTimeout(c))
    /\ \A s \in Sockets :
          /\ WF_vars(ready[s] = "closing" /\ HandleClose(s))
          /\ WF_vars(ready[s] = "aborting" /\ HandleRefusal(s))

FairSpec == Spec /\ Fairness

-----------------------------------------------------------------------------
(* Correctness.                                                            *)

\* A confirmed bar reaches the strategy once and in order, however many
\* sockets were made, replaced and closed late: a bar that is processed twice
\* doubles its orders.
BarsOnceInOrder ==
    \A p \in Pairs : \A i, j \in 1..Len(bars[p]) : i < j => bars[p][i] < bars[p][j]

\* "Single-flight": whatever mixture of error, close, timeout and explicit
\* connect happens, a category has one socket that is open or may open.
OneLiveSocket ==
    \A c \in Categories :
        Cardinality({s \in Sockets : Owner[s] = c /\ ready[s] \in {"connecting", "open"}}) <= 1

\* Sessions of the exchange do not persist: an open socket streams exactly what
\* is subscribed, be it its first or its n-th, the pairs that came and went
\* while it was down included.
SubscriptionsAreServed ==
    \A c \in Categories : IsOpen(c) => topics[sockets[c]] = SubscribedIn(c)

\* A category is served by one socket, and by that one in full.
OneSocketServes == TypeOK /\ OneLiveSocket /\ SubscriptionsAreServed

Wanted(c)    == phase = "up" /\ (c = "linear" \/ SubscribedIn(c) # {})
Exhausted(c) == attempts[c] = MaxReconnectAttempts /\ ~connecting[c] /\ ~timer[c]

\* A feed in use does not hang silently, not even on a handshake that never
\* ends: it is open again at last, or has used up its attempts.
FeedRecovers ==
    \A c \in Categories : Wanted(c) ~> (IsOpen(c) \/ Exhausted(c) \/ ~Wanted(c))
=============================================================================
