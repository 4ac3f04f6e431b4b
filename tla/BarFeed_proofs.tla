-------------------------- MODULE BarFeed_proofs --------------------------
(***************************************************************************)
(* Proofs about the bar feed for every set of pairs and sockets and every  *)
(* number of attempts and bars: types, the bars that reach the engine once *)
(* and in order, one live socket for each category, and its subscriptions. *)
(***************************************************************************)
EXTENDS BarFeed, FiniteSetTheorems, SequenceTheorems, TLAPS

\* The socket of a category is one that was made for it.
Owned == \A c \in Categories : sockets[c] # NoSocket => Owner[sockets[c]] = c

\* A reconnect is scheduled only while attempts are left.
AttemptsLeft == \A c \in Categories : timer[c] => attempts[c] < MaxReconnectAttempts

\* A socket that is open or may open is the one of its category, which knows
\* that it is connecting; before the first connect
\* there is none, and no reconnect.
LiveIsCurrent ==
    /\ \A s \in Sockets : ready[s] \in {"connecting", "open"} => Current(s)
    /\ \A s \in Sockets : ready[s] = "connecting" => connecting[Owner[s]]
    /\ phase = "new" => \A c \in Categories : sockets[c] = NoSocket /\ ~timer[c]

FeedInv == Owned /\ LiveIsCurrent /\ SubscriptionsAreServed

\* Only a session streams, and only pairs of its category.
SessionStreams ==
    \A s \in Sockets :
        /\ ready[s] \notin {"open", "closing"} => topics[s] = {} /\ inbox[s] = <<>>
        /\ \A p \in topics[s] : Category[p] = Owner[s]

\* The messages of a queue are of category c, and its bars have closed (b: the
\* bars that are forming) and wait in the order they closed in.
QueueInOrder(q, c, b) ==
    /\ \A i \in 1..Len(q) :
          /\ Category[q[i].pair] = c
          /\ q[i].confirm => q[i].bar < b[q[i].pair]
    /\ \A i, j \in 1..Len(q) :
          i < j /\ q[i].confirm /\ q[j].confirm /\ q[i].pair = q[j].pair
             => q[i].bar < q[j].bar

\* A queue is newer than all that was delivered.
QueueIsNews(q, given) ==
    \A i \in 1..Len(q) : q[i].confirm =>
        \A k \in 1..Len(given[q[i].pair]) : given[q[i].pair][k] < q[i].bar

InboxInOrder == \A s \in Sockets : QueueInOrder(inbox[s], Owner[s], bar)

\* Only the socket that is listened to can add to what the engine has.
InboxIsNews == \A s \in Sockets : Current(s) => QueueIsNews(inbox[s], bars)

\* The engine has closed bars only.
BarsHaveClosed == \A p \in Pairs : \A k \in 1..Len(bars[p]) : bars[p][k] < bar[p]

BarInv == SessionStreams /\ InboxInOrder /\ InboxIsNews /\ BarsHaveClosed /\ BarsOnceInOrder

-----------------------------------------------------------------------------
(* Types                                                                   *)

TypeInv == TypeOK /\ AttemptsLeft

\* The types of what the handlers of the sockets write.
SocketTypes ==
    /\ sockets \in [Categories -> Sockets \cup {NoSocket}]
    /\ ready \in [Sockets -> {"connecting", "open", "closing", "aborting", "closed"}]
    /\ connecting \in [Categories -> BOOLEAN]
    /\ attempts \in [Categories -> 0..MaxReconnectAttempts]
    /\ timer \in [Categories -> BOOLEAN]
    /\ timeoutTimer \in [Categories -> Sockets \cup {NoSocket}]
    /\ stopped \in BOOLEAN

WireTypes ==
    /\ topics \in [Sockets -> SUBSET Pairs]
    /\ inbox \in [Sockets -> Seq(Messages)]

EngineTypes ==
    /\ subscriptions \subseteq Pairs
    /\ phase \in {"new", "up", "down"}
    /\ bar \in [Pairs -> 1..MaxBar + 1]
    /\ bars \in [Pairs -> Seq(1..MaxBar)]
    /\ connected \in BOOLEAN
    /\ live \subseteq Pairs

LEMMA TypesSplit == TypeOK <=> SocketTypes /\ WireTypes /\ EngineTypes
BY DEF TypeOK, SocketTypes, WireTypes, EngineTypes

LEMMA CategoryFacts ==
    /\ "linear" \in Categories /\ "spot" \in Categories
    /\ \A p \in Pairs : Category[p] \in Categories
    /\ \A s \in Sockets : Owner[s] \in Categories /\ s # NoSocket
    /\ MaxReconnectAttempts \in Nat /\ MaxBar \in Nat
BY BarFeedAssumption DEF Categories

LEMMA OpenTyped ==
    ASSUME TypeInv, NEW c \in Categories, NEW count \in 0..MaxReconnectAttempts, Open(c, count)
    PROVE  SocketTypes' /\ AttemptsLeft'
<1>1. PICK s \in Sockets :
        /\ sockets' = [sockets EXCEPT ![c] = s]
        /\ ready' = [ready EXCEPT ![s] = "connecting"]
        /\ connecting' = [connecting EXCEPT ![c] = TRUE]
        /\ timer' = [timer EXCEPT ![c] = FALSE]
        /\ timeoutTimer' = [timeoutTimer EXCEPT ![c] = s]
        /\ attempts' = [attempts EXCEPT ![c] = count]
        /\ stopped' = FALSE
  BY DEF Open, Free
<1>2. SocketTypes'
  BY <1>1 DEF TypeInv, TypeOK, SocketTypes
<1>3. AttemptsLeft'
  BY <1>1 DEF TypeInv, TypeOK, AttemptsLeft
<1>4. QED BY <1>2, <1>3

\* close() and a lost socket.
LEMMA CloseTyped ==
    ASSUME TypeInv, NEW S
    PROVE  /\ Close(S) => ready' \in [Sockets -> {"connecting", "open", "closing", "aborting", "closed"}]
           /\ \A c \in Categories : Scheduled(c) \in BOOLEAN
           /\ \A c \in Categories : Scheduled(c) => attempts[c] < MaxReconnectAttempts
<1>1. Close(S) => ready' \in [Sockets -> {"connecting", "open", "closing", "aborting", "closed"}]
  BY DEF Close, TypeInv, TypeOK
<1>2. /\ \A c \in Categories : Scheduled(c) \in BOOLEAN
      /\ \A c \in Categories : Scheduled(c) => attempts[c] < MaxReconnectAttempts
  BY DEF Scheduled, TypeInv, TypeOK, AttemptsLeft
<1>3. QED BY <1>1, <1>2

LEMMA LoseTyped ==
    ASSUME TypeInv, NEW c \in Categories, Lose(c), UNCHANGED attempts
    PROVE  /\ timeoutTimer' \in [Categories -> Sockets \cup {NoSocket}]
           /\ connecting' \in [Categories -> BOOLEAN]
           /\ timer' \in [Categories -> BOOLEAN]
           /\ AttemptsLeft'
<1>1. Scheduled(c) \in BOOLEAN /\ (Scheduled(c) => attempts[c] < MaxReconnectAttempts)
  BY CloseTyped
<1>2. PICK again \in BOOLEAN : again = Scheduled(c) BY <1>1
<1>3. QED BY <1>1, <1>2 DEF Lose, TypeInv, TypeOK, AttemptsLeft

\* A connect, a subscription and a reconnect.
LEMMA ConnectTyped ==
    ASSUME TypeInv, Connect
    PROVE  TypeInv'
<1>1. attempts["linear"] \in 0..MaxReconnectAttempts BY CategoryFacts DEF TypeInv, TypeOK
<1>2. SocketTypes' /\ AttemptsLeft' BY <1>1, CategoryFacts, OpenTyped DEF Connect
<1>3. WireTypes' /\ EngineTypes'
  BY DEF Connect, TypeInv, TypeOK, WireTypes, EngineTypes
<1>4. QED BY <1>2, <1>3, TypesSplit DEF TypeInv, TypeOK, SocketTypes, WireTypes, EngineTypes

LEMMA ReconnectTyped ==
    ASSUME TypeInv, NEW c \in Categories, Reconnect(c)
    PROVE  TypeInv'
<1>1. attempts[c] + 1 \in 0..MaxReconnectAttempts
  BY CategoryFacts DEF TypeInv, TypeOK, AttemptsLeft, Reconnect
<1>2. SocketTypes' /\ AttemptsLeft' BY <1>1, OpenTyped DEF Reconnect
<1>3. WireTypes' /\ EngineTypes'
  BY DEF Reconnect, wire, TypeInv, TypeOK, WireTypes, EngineTypes
<1>4. QED BY <1>2, <1>3 DEF TypeInv, TypeOK, SocketTypes, WireTypes, EngineTypes

LEMMA SubscribeTyped ==
    ASSUME TypeInv, NEW p \in Pairs, Subscribe(p)
    PROVE  TypeInv'
<1> DEFINE c == Category[p]
<1>1. c \in Categories /\ attempts[c] \in 0..MaxReconnectAttempts
  BY CategoryFacts DEF TypeInv, TypeOK
<1>2. SocketTypes' /\ AttemptsLeft' /\ topics' \in [Sockets -> SUBSET Pairs]
  <2>1. CASE Open(c, attempts[c]) /\ UNCHANGED topics
    BY <1>1, <2>1, OpenTyped DEF TypeInv, TypeOK
  <2>2. CASE /\ topics' = IF IsOpen(c) THEN [topics EXCEPT ![sockets[c]] = @ \cup {p}] ELSE topics
             /\ UNCHANGED <<sockets, ready, connecting, timer, timeoutTimer, attempts, stopped>>
    <3>1. topics' \in [Sockets -> SUBSET Pairs] BY <2>2 DEF TypeInv, TypeOK
    <3>2. SocketTypes' /\ AttemptsLeft'
      BY <2>2 DEF TypeInv, TypeOK, AttemptsLeft, SocketTypes
    <3>3. QED BY <3>1, <3>2
  <2>3. QED BY <2>1, <2>2 DEF Subscribe
<1>3. WireTypes' /\ EngineTypes'
  <2>1. /\ inbox' = inbox /\ phase' = phase /\ bar' = bar /\ bars' = bars /\ connected' = connected
        /\ subscriptions' = subscriptions \cup {p} /\ live' \subseteq live \cup {p}
    BY DEF Subscribe
  <2>2. QED BY <2>1, <1>2 DEF TypeInv, TypeOK, WireTypes, EngineTypes
<1>4. QED BY <1>2, <1>3 DEF TypeInv, TypeOK, SocketTypes, WireTypes, EngineTypes

LEMMA UnsubscribeTyped ==
    ASSUME TypeInv, NEW p \in Pairs, Unsubscribe(p)
    PROVE  TypeInv'
<1>1. topics' \in [Sockets -> SUBSET Pairs]
  BY DEF Unsubscribe, TypeInv, TypeOK
<1>2. SocketTypes' /\ AttemptsLeft'
  <2>1. CASE /\ timer' = [timer EXCEPT !["spot"] = FALSE]
             /\ timeoutTimer' = [timeoutTimer EXCEPT !["spot"] = NoSocket]
             /\ connecting' = [connecting EXCEPT !["spot"] = FALSE]
             /\ attempts' = [attempts EXCEPT !["spot"] = 0]
             /\ Close({sockets["spot"]})
             /\ sockets' = [sockets EXCEPT !["spot"] = NoSocket]
    <3>1. ready' \in [Sockets -> {"connecting", "open", "closing", "aborting", "closed"}]
      BY <2>1, CloseTyped
    <3>2. stopped' = stopped /\ 0 \in 0..MaxReconnectAttempts
      BY CategoryFacts DEF Unsubscribe
    <3>3. QED BY <2>1, <3>1, <3>2 DEF TypeInv, TypeOK, SocketTypes, AttemptsLeft
  <2>2. CASE UNCHANGED <<timer, timeoutTimer, connecting, attempts, ready, sockets>>
    BY <2>2 DEF Unsubscribe, TypeInv, TypeOK, SocketTypes, AttemptsLeft
  <2>3. QED BY <2>1, <2>2 DEF Unsubscribe
<1>3. WireTypes' /\ EngineTypes'
  BY <1>1 DEF Unsubscribe, TypeInv, TypeOK, WireTypes, EngineTypes
<1>4. QED BY <1>2, <1>3 DEF TypeInv, TypeOK, SocketTypes, WireTypes, EngineTypes

LEMMA DisconnectTyped ==
    ASSUME TypeInv, Disconnect
    PROVE  TypeInv'
<1>1. ready' \in [Sockets -> {"connecting", "open", "closing", "aborting", "closed"}]
  BY CloseTyped DEF Disconnect
<1>2. QED BY <1>1 DEF Disconnect, TypeInv, TypeOK, AttemptsLeft

LEMMA TimeoutTyped ==
    ASSUME TypeInv, NEW c \in Categories, ConnectTimeout(c)
    PROVE  TypeInv'
<1>1. /\ ready' \in [Sockets -> {"connecting", "open", "closing", "aborting", "closed"}]
      /\ Scheduled(c) \in BOOLEAN /\ (Scheduled(c) => attempts[c] < MaxReconnectAttempts)
  BY CloseTyped DEF ConnectTimeout
<1>2. PICK again \in BOOLEAN : again = Scheduled(c) BY <1>1
<1>3. /\ timeoutTimer' = [timeoutTimer EXCEPT ![c] = NoSocket]
      /\ connecting' = [connecting EXCEPT ![c] = FALSE]
      /\ live' = {} /\ timer' = [timer EXCEPT ![c] = again]
      /\ UNCHANGED <<sockets, attempts, connected, topics, inbox, stopped, subscriptions,
                     phase, bar, bars>>
  BY <1>2 DEF ConnectTimeout, wire, client
<1>4. QED BY <1>1, <1>2, <1>3 DEF TypeInv, TypeOK, AttemptsLeft

\* The events of a socket.
LEMMA OpenEventTyped ==
    ASSUME TypeInv, NEW s \in Sockets, HandleOpen(s)
    PROVE  TypeInv'
<1>1. Owner[s] \in Categories /\ 0 \in 0..MaxReconnectAttempts BY CategoryFacts
<1>2. SubscribedIn(Owner[s]) \subseteq Pairs BY DEF SubscribedIn, TypeInv, TypeOK
<1>3. PICK c \in Categories : c = Owner[s] BY <1>1
<1>4. /\ ready' = [ready EXCEPT ![s] = "open"]
      /\ timeoutTimer' = [timeoutTimer EXCEPT ![c] = NoSocket]
      /\ connecting' = [connecting EXCEPT ![c] = FALSE]
      /\ attempts' = [attempts EXCEPT ![c] = 0]
      /\ connected' = TRUE /\ live' = Pairs
      /\ topics' = [topics EXCEPT ![s] = SubscribedIn(c)]
      /\ UNCHANGED <<timer, sockets, inbox, stopped, subscriptions, phase, bar, bars>>
  BY <1>3 DEF HandleOpen, client
<1>5. AttemptsLeft' BY <1>4, CategoryFacts DEF TypeInv, TypeOK, AttemptsLeft
<1>6. SocketTypes' BY <1>1, <1>4 DEF TypeInv, TypeOK, SocketTypes
<1>7. WireTypes' /\ EngineTypes' BY <1>2, <1>3, <1>4 DEF TypeInv, TypeOK, WireTypes, EngineTypes
<1>8. QED BY <1>5, <1>6, <1>7 DEF TypeInv, TypeOK, SocketTypes, WireTypes, EngineTypes

\* The handlers of a socket that is lost, which may be a stale one.
LEMMA LostTyped ==
    ASSUME TypeInv, NEW s \in Sockets, HandleError(s) \/ HandleClose(s) \/ HandleRefusal(s)
    PROVE  TypeInv'
<1>1. Owner[s] \in Categories BY CategoryFacts
<1>2. \/ Lose(Owner[s])
      \/ UNCHANGED <<timeoutTimer, connecting, timer>>
  BY DEF HandleError, HandleClose, HandleRefusal, Stale
<1>3. /\ UNCHANGED <<sockets, attempts, stopped, subscriptions, phase, bar, bars>>
      /\ connected' \in BOOLEAN /\ live' \subseteq Pairs
  BY DEF HandleError, HandleClose, HandleRefusal, Stale, client, TypeInv, TypeOK
<1>4. /\ timeoutTimer' \in [Categories -> Sockets \cup {NoSocket}]
      /\ connecting' \in [Categories -> BOOLEAN]
      /\ timer' \in [Categories -> BOOLEAN]
      /\ AttemptsLeft'
  <2>1. CASE Lose(Owner[s]) BY <2>1, <1>1, <1>3, LoseTyped
  <2>2. CASE UNCHANGED <<timeoutTimer, connecting, timer>>
    BY <2>2, <1>3 DEF TypeInv, TypeOK, AttemptsLeft
  <2>3. QED BY <1>2, <2>1, <2>2
<1>5. /\ ready' \in [Sockets -> {"connecting", "open", "closing", "aborting", "closed"}]
      /\ topics' \in [Sockets -> SUBSET Pairs]
      /\ inbox' \in [Sockets -> Seq(Messages)]
  <2>1. CASE HandleError(s) BY <2>1 DEF HandleError, wire, TypeInv, TypeOK
  <2>2. CASE Closed(s)
    <3>1. <<>> \in Seq(Messages) BY EmptySeq
    <3>2. QED BY <2>2, <3>1 DEF Closed, TypeInv, TypeOK
  <2>3. QED BY <2>1, <2>2 DEF HandleClose, HandleRefusal
<1>6. QED BY <1>3, <1>4, <1>5 DEF TypeInv, TypeOK

\* The first message of an inbox, and the rest.
LEMMA InboxHead ==
    ASSUME TypeOK, NEW s \in Sockets, inbox[s] # <<>>
    PROVE  /\ Head(inbox[s]) = inbox[s][1] /\ Head(inbox[s]) \in Messages
           /\ 1 \in 1..Len(inbox[s])
           /\ Tail(inbox[s]) \in Seq(Messages)
           /\ Len(Tail(inbox[s])) = Len(inbox[s]) - 1
           /\ \A i \in 1..(Len(inbox[s]) - 1) : Tail(inbox[s])[i] = inbox[s][i + 1]
<1>1. inbox[s] \in Seq(Messages) BY DEF TypeOK
<1>2. PICK r \in Seq(Messages) : r = inbox[s] BY <1>1
<1>3. /\ Head(r) \in Messages /\ Tail(r) \in Seq(Messages) /\ Len(Tail(r)) = Len(r) - 1
      /\ \A i \in 1..Len(Tail(r)) : Tail(r)[i] = r[i + 1]
  BY <1>2, HeadTailProperties
<1>4. Len(r) \in Nat /\ Len(r) # 0 /\ Head(r) = r[1] BY <1>2, EmptySeq
<1>5. QED BY <1>2, <1>3, <1>4

\* What the engine is given of the first message of a socket.
Given(s, m) == Current(s) /\ ~stopped /\ m.pair \in subscriptions /\ m.confirm

LEMMA MessageTyped ==
    ASSUME TypeInv, NEW s \in Sockets, HandleMessage(s)
    PROVE  TypeInv'
<1>1. inbox[s] # <<>> BY DEF HandleMessage
<1>2. Head(inbox[s]) \in Messages /\ Tail(inbox[s]) \in Seq(Messages)
  BY <1>1, InboxHead DEF TypeInv
<1>3. PICK m \in Messages : m = Head(inbox[s]) BY <1>2
<1>4. bars' = IF Given(s, m) THEN [bars EXCEPT ![m.pair] = Append(@, m.bar)] ELSE bars
  BY <1>3 DEF HandleMessage, Given
<1>5. m.pair \in Pairs /\ m.bar \in 1..MaxBar BY DEF Messages
<1>6. bars' \in [Pairs -> Seq(1..MaxBar)]
  <2>1. Append(bars[m.pair], m.bar) \in Seq(1..MaxBar)
    BY <1>5, AppendProperties DEF TypeInv, TypeOK
  <2>2. QED BY <1>4, <2>1 DEF TypeInv, TypeOK
<1>7. inbox' \in [Sockets -> Seq(Messages)]
  BY <1>2 DEF HandleMessage, TypeInv, TypeOK
<1>8. UNCHANGED <<sockets, ready, topics, connecting, attempts, timer, timeoutTimer,
                  stopped, subscriptions, phase, bar, connected, live>>
  BY DEF HandleMessage, client, telemetry
<1>9. QED BY <1>6, <1>7, <1>8 DEF TypeInv, TypeOK, AttemptsLeft

\* The messages of the exchange.
LEMMA PushTyped ==
    ASSUME TypeOK, NEW m \in Messages, Push(m)
    PROVE  inbox' \in [Sockets -> Seq(Messages)]
<1>1. \A s \in Sockets : Append(inbox[s], m) \in Seq(Messages)
  BY AppendProperties DEF TypeOK
<1>2. QED BY <1>1 DEF Push, TypeOK

LEMMA ExchangeTyped ==
    ASSUME TypeInv, NEW p \in Pairs, Tick(p) \/ Confirm(p)
    PROVE  TypeInv'
<1>1. bar[p] \in 1..MaxBar /\ bar[p] + 1 \in 1..MaxBar + 1
  BY CategoryFacts DEF Tick, Confirm, TypeInv, TypeOK
<1>2. \A b \in BOOLEAN : [pair |-> p, bar |-> bar[p], confirm |-> b] \in Messages
  BY <1>1 DEF Messages
<1>3. inbox' \in [Sockets -> Seq(Messages)]
  <2>1. PICK b \in BOOLEAN : Push([pair |-> p, bar |-> bar[p], confirm |-> b])
    BY DEF Tick, Confirm
  <2>2. PICK m \in Messages : Push(m) BY <2>1, <1>2
  <2>3. QED BY <2>2, PushTyped DEF TypeInv
<1>4. bar' \in [Pairs -> 1..MaxBar + 1]
  BY <1>1 DEF Tick, Confirm, exchange, TypeInv, TypeOK
<1>5. UNCHANGED <<sockets, ready, topics, connecting, attempts, timer, timeoutTimer,
                  stopped, subscriptions, phase, bars, connected, live>>
  BY DEF Tick, Confirm, client, telemetry
<1>6. QED BY <1>3, <1>4, <1>5 DEF TypeInv, TypeOK, AttemptsLeft

LEMMA TypeInit == Init => TypeInv
<1>1. <<>> \in Seq(Messages) /\ <<>> \in Seq(1..MaxBar) BY EmptySeq
<1>2. 1 \in 1..MaxBar + 1 /\ 0 \in 0..MaxReconnectAttempts BY CategoryFacts
<1>3. QED BY <1>1, <1>2 DEF Init, TypeInv, TypeOK, AttemptsLeft

LEMMA TypeStep == TypeInv /\ [Next]_vars => TypeInv'
<1> SUFFICES ASSUME TypeInv, [Next]_vars PROVE TypeInv'
  OBVIOUS
<1>1. CASE Connect \/ Disconnect BY <1>1, ConnectTyped, DisconnectTyped
<1>2. ASSUME NEW p \in Pairs, Subscribe(p) \/ Unsubscribe(p) \/ Tick(p) \/ Confirm(p)
      PROVE  TypeInv'
  BY <1>2, SubscribeTyped, UnsubscribeTyped, ExchangeTyped
<1>3. ASSUME NEW c \in Categories, Reconnect(c) \/ ConnectTimeout(c) PROVE TypeInv'
  BY <1>3, ReconnectTyped, TimeoutTyped
<1>4. ASSUME NEW s \in Sockets,
             HandleOpen(s) \/ HandleError(s) \/ HandleClose(s) \/ HandleRefusal(s) \/ HandleMessage(s)
      PROVE  TypeInv'
  BY <1>4, OpenEventTyped, LostTyped, MessageTyped
<1>5. CASE UNCHANGED vars BY <1>5 DEF vars, TypeInv, TypeOK, AttemptsLeft
<1>6. QED BY <1>1, <1>2, <1>3, <1>4, <1>5 DEF Next

\* Every variable of the feed keeps its type: no reconnect is scheduled beyond
\* the attempts the feed has (bybit-websocket.ts, scheduleReconnect()).
THEOREM TypeCorrect == Spec => []TypeInv
<1>1. QED BY TypeInit, TypeStep, PTL DEF Spec

-----------------------------------------------------------------------------
(* One socket that serves                                                  *)

\* What the invariant says of one category and of one socket.
LEMMA FeedFacts ==
    ASSUME TypeOK, FeedInv
    PROVE  /\ \A c \in Categories : sockets[c] # NoSocket => sockets[c] \in Sockets /\ Owner[sockets[c]] = c
           /\ \A s \in Sockets : ready[s] \in {"connecting", "open"} => sockets[Owner[s]] = s
           /\ \A s \in Sockets : ready[s] = "connecting" => connecting[Owner[s]]
           /\ phase = "new" => \A c \in Categories : sockets[c] = NoSocket /\ ~timer[c]
           /\ \A c \in Categories : sockets[c] \in Sockets /\ ready[sockets[c]] = "open" =>
                 topics[sockets[c]] = SubscribedIn(c)
BY DEF TypeOK, FeedInv, Owned, LiveIsCurrent, SubscriptionsAreServed, Current, IsOpen

\* A category that is neither connecting nor connected has no live socket.
LEMMA NoneIsLive ==
    ASSUME TypeOK, FeedInv, NEW c \in Categories, ~AlreadyConnected(c) \/ phase = "new",
           NEW s \in Sockets, Owner[s] = c
    PROVE  ready[s] \notin {"connecting", "open"}
<1> SUFFICES ASSUME ready[s] \in {"connecting", "open"} PROVE FALSE
  OBVIOUS
<1>1. sockets[c] = s /\ (ready[s] = "connecting" => connecting[c]) BY FeedFacts
<1>2. s # NoSocket BY CategoryFacts
<1>3. CASE phase = "new" BY <1>1, <1>2, <1>3, FeedFacts
<1>4. CASE ~AlreadyConnected(c) BY <1>1, <1>4 DEF AlreadyConnected, IsOpen
<1>5. QED BY <1>3, <1>4

LEMMA OpenServes ==
    ASSUME TypeInv, FeedInv, NEW c \in Categories, NEW count, Open(c, count),
           \A s \in Sockets : Owner[s] = c => ready[s] \notin {"connecting", "open"},
           UNCHANGED topics, phase' # "new",
           \A d \in Categories \ {c} : SubscribedIn(d)' = SubscribedIn(d)
    PROVE  FeedInv'
<1>1. PICK s \in Sockets :
        /\ Owner[s] = c
        /\ sockets' = [sockets EXCEPT ![c] = s]
        /\ ready' = [ready EXCEPT ![s] = "connecting"]
        /\ connecting' = [connecting EXCEPT ![c] = TRUE]
  BY DEF Open, Free
<1>2. /\ sockets'[c] = s /\ ready'[s] = "connecting" /\ connecting'[c] = TRUE
      /\ \A d \in Categories \ {c} : sockets'[d] = sockets[d] /\ connecting'[d] = connecting[d]
      /\ \A t \in Sockets \ {s} : ready'[t] = ready[t]
  BY <1>1 DEF TypeInv, TypeOK
<1>3. \A t \in Sockets : Owner[t] \in Categories BY CategoryFacts
<1>4. Owned' BY <1>1, <1>2, FeedFacts DEF Owned, TypeInv
<1>5. LiveIsCurrent'
  <2>1. ASSUME NEW t \in Sockets, ready'[t] \in {"connecting", "open"}
        PROVE  sockets'[Owner[t]] = t /\ (ready'[t] = "connecting" => connecting'[Owner[t]])
    <3>1. CASE t = s BY <3>1, <1>1, <1>2
    <3>2. CASE t # s
      <4>1. ready[t] \in {"connecting", "open"} /\ ready[t] = ready'[t] BY <2>1, <3>2, <1>2
      <4>2. Owner[t] # c BY <4>1
      <4>3. QED BY <4>1, <4>2, <1>2, <1>3, FeedFacts DEF TypeInv
    <3>3. QED BY <3>1, <3>2
  <2>2. QED BY <2>1 DEF LiveIsCurrent, Current
<1>6. SubscriptionsAreServed'
  <2> SUFFICES ASSUME NEW d \in Categories, sockets'[d] \in Sockets, ready'[sockets'[d]] = "open"
               PROVE  topics'[sockets'[d]] = SubscribedIn(d)'
    BY DEF SubscriptionsAreServed, IsOpen
  <2>1. d # c BY <1>2
  <2>2. sockets'[d] = sockets[d] /\ sockets[d] # s
    <3>1. sockets[d] # NoSocket BY <2>1, <1>2, CategoryFacts
    <3>2. QED BY <3>1, <2>1, <1>1, <1>2, FeedFacts DEF TypeInv
  <2>3. ready[sockets[d]] = "open" BY <2>2, <1>2
  <2>4. QED BY <2>1, <2>2, <2>3, FeedFacts DEF TypeInv
<1>7. QED BY <1>4, <1>5, <1>6 DEF FeedInv

LEMMA ConnectServes ==
    ASSUME TypeInv, FeedInv, Connect
    PROVE  FeedInv'
<1>1. \A s \in Sockets : Owner[s] = "linear" => ready[s] \notin {"connecting", "open"}
  BY CategoryFacts, NoneIsLive DEF Connect, TypeInv
<1>2. /\ Open("linear", attempts["linear"]) /\ topics' = topics /\ phase' # "new"
      /\ \A d : SubscribedIn(d)' = SubscribedIn(d)
  BY DEF Connect, SubscribedIn
<1>3. QED BY <1>1, <1>2, CategoryFacts, OpenServes

LEMMA ReconnectServes ==
    ASSUME TypeInv, FeedInv, NEW c \in Categories, Reconnect(c)
    PROVE  FeedInv'
<1>1. \A s \in Sockets : Owner[s] = c => ready[s] \notin {"connecting", "open"}
  BY NoneIsLive DEF Reconnect, TypeInv
<1>2. /\ Open(c, attempts[c] + 1) /\ topics' = topics /\ phase' = phase
      /\ \A d : SubscribedIn(d)' = SubscribedIn(d)
  BY DEF Reconnect, SubscribedIn, wire
<1>3. phase # "new" BY FeedFacts DEF Reconnect, TypeInv
<1>4. QED BY <1>1, <1>2, <1>3, OpenServes

\* What a socket reports, a timeout and the exchange only narrow what is live.
LEMMA Narrowed ==
    ASSUME TypeInv, FeedInv, UNCHANGED <<sockets, subscriptions, phase>>,
           \A s \in Sockets : ready'[s] \in {"connecting", "open"} =>
               ready'[s] = ready[s] /\ topics'[s] = topics[s],
           \A s \in Sockets : ready'[s] = "connecting" => connecting'[Owner[s]],
           phase = "new" => \A c \in Categories : timer'[c] = timer[c]
    PROVE  FeedInv'
<1>1. Owned' BY DEF FeedInv, Owned
<1>2. LiveIsCurrent'
  <2>1. \A s \in Sockets : ready'[s] \in {"connecting", "open"} => sockets'[Owner[s]] = s
    BY FeedFacts DEF TypeInv
  <2>2. phase' = "new" => \A c \in Categories : sockets'[c] = NoSocket /\ ~timer'[c]
    BY FeedFacts DEF TypeInv
  <2>3. QED BY <2>1, <2>2 DEF LiveIsCurrent, Current
<1>3. SubscriptionsAreServed'
  <2> SUFFICES ASSUME NEW d \in Categories, sockets'[d] \in Sockets, ready'[sockets'[d]] = "open"
               PROVE  topics'[sockets'[d]] = SubscribedIn(d)'
    BY DEF SubscriptionsAreServed, IsOpen
  <2>1. sockets[d] \in Sockets /\ sockets'[d] = sockets[d] OBVIOUS
  <2>2. ready[sockets[d]] = "open" /\ topics'[sockets[d]] = topics[sockets[d]] BY <2>1
  <2>3. topics[sockets[d]] = SubscribedIn(d) BY <2>1, <2>2, FeedFacts DEF TypeInv
  <2>4. SubscribedIn(d)' = SubscribedIn(d) BY DEF SubscribedIn
  <2>5. QED BY <2>1, <2>2, <2>3, <2>4
<1>4. QED BY <1>1, <1>2, <1>3 DEF FeedInv

\* close() leaves nothing live of the sockets it is given, and the others alone.
LEMMA CloseFacts ==
    ASSUME NEW S, Close(S)
    PROVE  \A t \in Sockets :
              /\ ready'[t] \in {"connecting", "open"} => t \notin S /\ ready'[t] = ready[t]
              /\ t \notin S => ready'[t] = ready[t]
BY DEF Close

LEMMA TimeoutServes ==
    ASSUME TypeInv, FeedInv, NEW c \in Categories, ConnectTimeout(c)
    PROVE  FeedInv'
<1> DEFINE s == timeoutTimer[c]
<1>1. /\ s # NoSocket /\ sockets[c] = s
      /\ Close({s}) /\ connecting' = [connecting EXCEPT ![c] = FALSE]
      /\ UNCHANGED <<sockets, subscriptions, phase, topics>>
  BY DEF ConnectTimeout, wire, client
<1>2. \A t \in Sockets : ready'[t] \in {"connecting", "open"} => t # s /\ ready'[t] = ready[t]
  BY <1>1, CloseFacts
<1>3. ASSUME NEW t \in Sockets, ready'[t] = "connecting" PROVE connecting'[Owner[t]]
  <2>1. t # s /\ ready[t] = "connecting" BY <1>2, <1>3
  <2>2. sockets[Owner[t]] = t /\ connecting[Owner[t]] BY <2>1, FeedFacts DEF TypeInv
  <2>3. Owner[t] # c BY <1>1, <2>1, <2>2
  <2>4. QED BY <1>1, <2>2, <2>3, CategoryFacts DEF TypeInv, TypeOK
<1>4. phase # "new" BY <1>1, FeedFacts DEF TypeInv
<1>5. QED BY <1>1, <1>2, <1>3, <1>4, Narrowed

LEMMA LostServes ==
    ASSUME TypeInv, FeedInv, NEW s \in Sockets,
           HandleError(s) \/ HandleClose(s) \/ HandleRefusal(s)
    PROVE  FeedInv'
<1>1. UNCHANGED <<sockets, subscriptions, phase>>
  BY DEF HandleError, HandleClose, HandleRefusal, client
<1>2. \A t \in Sockets : ready'[t] \in {"connecting", "open"} =>
         t # s /\ ready'[t] = ready[t] /\ topics'[t] = topics[t]
  <2>1. CASE HandleError(s)
    <3>1. ready' = [ready EXCEPT ![s] = "closing"] /\ topics' = topics
      BY <2>1 DEF HandleError, wire
    <3>2. QED BY <3>1 DEF TypeInv, TypeOK
  <2>2. CASE Closed(s) BY <2>2 DEF Closed, TypeInv, TypeOK
  <2>3. QED BY <2>1, <2>2 DEF HandleClose, HandleRefusal
<1>3. \/ /\ sockets[Owner[s]] = s
         /\ connecting' = [connecting EXCEPT ![Owner[s]] = FALSE]
      \/ UNCHANGED <<connecting, timer>>
  BY DEF HandleError, HandleClose, HandleRefusal, Lose, Stale, Current
<1>4. ASSUME NEW t \in Sockets, ready'[t] = "connecting" PROVE connecting'[Owner[t]]
  <2>1. t # s /\ ready[t] = "connecting" BY <1>2, <1>4
  <2>2. sockets[Owner[t]] = t /\ connecting[Owner[t]] BY <2>1, FeedFacts DEF TypeInv
  <2>3. CASE UNCHANGED <<connecting, timer>> BY <2>2, <2>3
  <2>4. CASE sockets[Owner[s]] = s /\ connecting' = [connecting EXCEPT ![Owner[s]] = FALSE]
    <3>1. Owner[t] # Owner[s] BY <2>1, <2>2, <2>4
    <3>2. QED BY <2>2, <2>4, <3>1, CategoryFacts DEF TypeInv, TypeOK
  <2>5. QED BY <1>3, <2>3, <2>4
<1>5. phase = "new" => timer' = timer
  <2>1. phase = "new" => sockets[Owner[s]] # s BY CategoryFacts, FeedFacts DEF TypeInv
  <2>2. QED BY <1>3, <2>1
<1>6. QED BY <1>1, <1>2, <1>4, <1>5, Narrowed

\* A message and a bar of the exchange leave the sockets as they are.
LEMMA MessageServes ==
    ASSUME TypeInv, FeedInv,
           UNCHANGED <<sockets, ready, topics, connecting, timer, subscriptions, phase>>
    PROVE  FeedInv'
<1>1. \A s \in Sockets : ready'[s] = "connecting" => connecting'[Owner[s]]
  BY FeedFacts DEF TypeInv
<1>2. QED BY <1>1, Narrowed

LEMMA SubscribeServes ==
    ASSUME TypeInv, FeedInv, NEW p \in Pairs, Subscribe(p)
    PROVE  FeedInv'
<1>1. PICK c \in Categories : c = Category[p] BY CategoryFacts
<1>2. /\ subscriptions' = subscriptions \cup {p} /\ phase = "up" /\ phase' = "up"
  BY DEF Subscribe
<1>3. /\ SubscribedIn(c)' = SubscribedIn(c) \cup {p}
      /\ \A d \in Categories \ {c} : SubscribedIn(d)' = SubscribedIn(d)
  BY <1>1, <1>2 DEF SubscribedIn
<1>4. CASE ~AlreadyConnected(c) /\ Open(c, attempts[c]) /\ UNCHANGED topics
  <2>1. \A s \in Sockets : Owner[s] = c => ready[s] \notin {"connecting", "open"}
    BY <1>4, NoneIsLive DEF TypeInv
  <2>2. QED BY <1>2, <1>3, <1>4, <2>1, OpenServes
<1>5. CASE /\ topics' = IF IsOpen(c) THEN [topics EXCEPT ![sockets[c]] = @ \cup {p}] ELSE topics
           /\ UNCHANGED <<sockets, ready, connecting, timer>>
  <2>1. Owned' /\ LiveIsCurrent'
    BY <1>2, <1>5 DEF FeedInv, Owned, LiveIsCurrent, Current
  <2>2. ASSUME NEW d \in Categories, sockets[d] \in Sockets, ready[sockets[d]] = "open"
        PROVE  topics'[sockets[d]] = SubscribedIn(d)'
    <3>1. topics[sockets[d]] = SubscribedIn(d) BY <2>2, FeedFacts DEF TypeInv
    <3>2. CASE d = c
      <4>1. topics'[sockets[c]] = topics[sockets[c]] \cup {p}
        BY <1>5, <2>2, <3>2 DEF IsOpen, TypeInv, TypeOK
      <4>2. QED BY <1>3, <3>1, <3>2, <4>1
    <3>3. CASE d # c
      <4>1. IsOpen(c) => sockets[c] # sockets[d]
        BY <2>2, <3>3, FeedFacts, CategoryFacts DEF IsOpen, TypeInv
      <4>2. topics'[sockets[d]] = topics[sockets[d]]
        BY <1>5, <2>2, <4>1 DEF TypeInv, TypeOK
      <4>3. QED BY <1>3, <3>1, <3>3, <4>2
    <3>4. QED BY <3>2, <3>3
  <2>3. SubscriptionsAreServed' BY <1>5, <2>2 DEF SubscriptionsAreServed, IsOpen
  <2>4. QED BY <2>1, <2>3 DEF FeedInv
<1>6. QED BY <1>1, <1>4, <1>5 DEF Subscribe

LEMMA UnsubscribeServes ==
    ASSUME TypeInv, FeedInv, NEW p \in Pairs, Unsubscribe(p)
    PROVE  FeedInv'
<1>1. PICK c \in Categories : c = Category[p] BY CategoryFacts
<1>2. /\ p \in subscriptions /\ subscriptions' = subscriptions \ {p}
      /\ phase = "up" /\ phase' = "up"
      /\ topics' = IF IsOpen(c) THEN [topics EXCEPT ![sockets[c]] = @ \ {p}] ELSE topics
  BY <1>1 DEF Unsubscribe
<1>3. /\ SubscribedIn(c)' = SubscribedIn(c) \ {p}
      /\ \A d \in Categories \ {c} : SubscribedIn(d)' = SubscribedIn(d)
  BY <1>1, <1>2 DEF SubscribedIn
<1>4. ASSUME NEW d \in Categories, sockets[d] \in Sockets, ready[sockets[d]] = "open"
      PROVE  topics'[sockets[d]] = SubscribedIn(d)'
  <2>1. topics[sockets[d]] = SubscribedIn(d) BY <1>4, FeedFacts DEF TypeInv
  <2>2. CASE d = c
    <3>1. topics'[sockets[c]] = topics[sockets[c]] \ {p}
      BY <1>2, <1>4, <2>2 DEF IsOpen, TypeInv, TypeOK
    <3>2. QED BY <1>3, <2>1, <2>2, <3>1
  <2>3. CASE d # c
    <3>1. IsOpen(c) => sockets[c] # sockets[d]
      BY <1>4, <2>3, FeedFacts, CategoryFacts DEF IsOpen, TypeInv
    <3>2. topics'[sockets[d]] = topics[sockets[d]]
      BY <1>2, <1>4, <3>1 DEF TypeInv, TypeOK
    <3>3. QED BY <1>3, <2>1, <2>3, <3>2
  <2>4. QED BY <2>2, <2>3
<1>5. CASE UNCHANGED <<timer, connecting, ready, sockets>>
  <2>1. Owned' /\ LiveIsCurrent'
    BY <1>2, <1>5 DEF FeedInv, Owned, LiveIsCurrent, Current
  <2>2. SubscriptionsAreServed' BY <1>4, <1>5 DEF SubscriptionsAreServed, IsOpen
  <2>3. QED BY <2>1, <2>2 DEF FeedInv
<1>6. CASE /\ connecting' = [connecting EXCEPT !["spot"] = FALSE]
           /\ Close({sockets["spot"]})
           /\ sockets' = [sockets EXCEPT !["spot"] = NoSocket]
  <2>1. /\ sockets'["spot"] = NoSocket
        /\ \A d \in Categories \ {"spot"} : sockets'[d] = sockets[d] /\ connecting'[d] = connecting[d]
    BY <1>6, CategoryFacts DEF TypeInv, TypeOK
  <2>2. \A t \in Sockets :
           ready'[t] \in {"connecting", "open"} => t # sockets["spot"] /\ ready'[t] = ready[t]
    BY <1>6, CloseFacts
  <2>3. Owned' BY <2>1, FeedFacts DEF Owned, TypeInv
  <2>4. ASSUME NEW t \in Sockets, ready'[t] \in {"connecting", "open"}
        PROVE  sockets'[Owner[t]] = t /\ (ready'[t] = "connecting" => connecting'[Owner[t]])
    <3>1. t # sockets["spot"] /\ ready'[t] = ready[t] BY <2>2, <2>4
    <3>2. sockets[Owner[t]] = t /\ (ready[t] = "connecting" => connecting[Owner[t]])
      BY <2>4, <3>1, FeedFacts DEF TypeInv
    <3>3. Owner[t] # "spot" BY <3>1, <3>2
    <3>4. QED BY <2>1, <3>1, <3>2, <3>3, CategoryFacts
  <2>5. LiveIsCurrent' BY <1>2, <2>4 DEF LiveIsCurrent, Current
  <2>6. SubscriptionsAreServed'
    <3> SUFFICES ASSUME NEW d \in Categories, sockets'[d] \in Sockets, ready'[sockets'[d]] = "open"
                 PROVE  topics'[sockets'[d]] = SubscribedIn(d)'
      BY DEF SubscriptionsAreServed, IsOpen
    <3>1. d # "spot" BY <2>1, BarFeedAssumption
    <3>2. sockets[d] = sockets'[d] BY <2>1, <3>1
    <3>3. ready[sockets[d]] = "open" BY <2>2, <3>2
    <3>4. QED BY <1>4, <3>2, <3>3
  <2>7. QED BY <2>3, <2>5, <2>6 DEF FeedInv
<1>7. QED BY <1>5, <1>6 DEF Unsubscribe

LEMMA DisconnectServes ==
    ASSUME TypeInv, FeedInv, Disconnect
    PROVE  FeedInv'
<1>1. /\ phase' = "down" /\ sockets' = [c \in Categories |-> NoSocket]
      /\ Close({sockets[c] : c \in Categories})
  BY DEF Disconnect
<1>2. ASSUME NEW t \in Sockets PROVE ready'[t] \notin {"connecting", "open"}
  <2> SUFFICES ASSUME ready'[t] \in {"connecting", "open"} PROVE FALSE
    OBVIOUS
  <2>1. t \notin {sockets[c] : c \in Categories} /\ ready'[t] = ready[t]
    BY <1>1, CloseFacts
  <2>2. sockets[Owner[t]] = t BY <2>1, FeedFacts DEF TypeInv
  <2>3. QED BY <2>1, <2>2, CategoryFacts
<1>3. Owned' BY <1>1 DEF Owned
<1>4. LiveIsCurrent' BY <1>1, <1>2 DEF LiveIsCurrent
<1>5. SubscriptionsAreServed' BY <1>1, CategoryFacts DEF SubscriptionsAreServed, IsOpen
<1>6. QED BY <1>3, <1>4, <1>5 DEF FeedInv

LEMMA OpenEventServes ==
    ASSUME TypeInv, FeedInv, NEW s \in Sockets, HandleOpen(s)
    PROVE  FeedInv'
<1>1. PICK c \in Categories : c = Owner[s] BY CategoryFacts
<1>2. /\ sockets[c] = s /\ ready' = [ready EXCEPT ![s] = "open"]
      /\ connecting' = [connecting EXCEPT ![c] = FALSE]
      /\ topics' = [topics EXCEPT ![s] = SubscribedIn(c)]
      /\ UNCHANGED <<sockets, timer, subscriptions, phase>>
  BY <1>1 DEF HandleOpen, Current, client
<1>3. Owned' BY <1>2 DEF FeedInv, Owned
<1>4. ASSUME NEW t \in Sockets, ready'[t] \in {"connecting", "open"}
      PROVE  sockets'[Owner[t]] = t /\ (ready'[t] = "connecting" => connecting'[Owner[t]])
  <2>1. CASE t = s BY <1>1, <1>2, <2>1 DEF TypeInv, TypeOK
  <2>2. CASE t # s
    <3>1. ready'[t] = ready[t] BY <1>2, <2>2 DEF TypeInv, TypeOK
    <3>2. sockets[Owner[t]] = t /\ (ready[t] = "connecting" => connecting[Owner[t]])
      BY <1>4, <3>1, FeedFacts DEF TypeInv
    <3>3. Owner[t] # c BY <1>2, <2>2, <3>2
    <3>4. QED BY <1>2, <3>1, <3>2, <3>3, CategoryFacts DEF TypeInv, TypeOK
  <2>3. QED BY <2>1, <2>2
<1>5. phase' = "new" => \A d \in Categories : sockets'[d] = NoSocket /\ ~timer'[d]
  BY <1>2, FeedFacts DEF TypeInv
<1>6. LiveIsCurrent' BY <1>4, <1>5 DEF LiveIsCurrent, Current
<1>7. SubscriptionsAreServed'
  <2> SUFFICES ASSUME NEW d \in Categories, sockets'[d] \in Sockets, ready'[sockets'[d]] = "open"
               PROVE  topics'[sockets'[d]] = SubscribedIn(d)'
    BY DEF SubscriptionsAreServed, IsOpen
  <2>1. sockets'[d] = sockets[d] /\ SubscribedIn(d)' = SubscribedIn(d)
    BY <1>2 DEF SubscribedIn
  <2>2. CASE d = c
    <3>1. topics'[s] = SubscribedIn(c) BY <1>2 DEF TypeInv, TypeOK
    <3>2. QED BY <1>2, <2>1, <2>2, <3>1
  <2>3. CASE d # c
    <3>1. sockets[d] # s BY <1>1, <2>1, <2>3, FeedFacts, CategoryFacts DEF TypeInv
    <3>2. ready[sockets[d]] = "open" /\ topics'[sockets[d]] = topics[sockets[d]]
      BY <1>2, <2>1, <3>1 DEF TypeInv, TypeOK
    <3>3. QED BY <2>1, <3>2, FeedFacts DEF TypeInv
  <2>4. QED BY <2>2, <2>3
<1>8. QED BY <1>3, <1>6, <1>7 DEF FeedInv

LEMMA FeedInit == Init => FeedInv
BY CategoryFacts DEF Init, FeedInv, Owned, LiveIsCurrent, SubscriptionsAreServed, IsOpen, Current

LEMMA FeedStep == TypeInv /\ FeedInv /\ [Next]_vars => FeedInv'
<1> SUFFICES ASSUME TypeInv, FeedInv, [Next]_vars PROVE FeedInv'
  OBVIOUS
<1>1. CASE Connect \/ Disconnect BY <1>1, ConnectServes, DisconnectServes
<1>2. ASSUME NEW p \in Pairs, Subscribe(p) \/ Unsubscribe(p) \/ Tick(p) \/ Confirm(p)
      PROVE  FeedInv'
  <2>1. CASE Subscribe(p) \/ Unsubscribe(p) BY <2>1, SubscribeServes, UnsubscribeServes
  <2>2. CASE Tick(p) \/ Confirm(p) BY <2>2, MessageServes DEF Tick, Confirm, client
  <2>3. QED BY <1>2, <2>1, <2>2
<1>3. ASSUME NEW c \in Categories, Reconnect(c) \/ ConnectTimeout(c) PROVE FeedInv'
  BY <1>3, ReconnectServes, TimeoutServes
<1>4. ASSUME NEW s \in Sockets,
             HandleOpen(s) \/ HandleError(s) \/ HandleClose(s) \/ HandleRefusal(s) \/ HandleMessage(s)
      PROVE  FeedInv'
  <2>1. CASE HandleMessage(s) BY <2>1, MessageServes DEF HandleMessage, client
  <2>2. QED BY <1>4, <2>1, OpenEventServes, LostServes
<1>5. CASE UNCHANGED vars BY <1>5, MessageServes DEF vars
<1>6. QED BY <1>1, <1>2, <1>3, <1>4, <1>5 DEF Next

LEMMA OneIsLive ==
    ASSUME TypeOK, FeedInv
    PROVE  OneLiveSocket
<1> SUFFICES ASSUME NEW c \in Categories
             PROVE  Cardinality({s \in Sockets : Owner[s] = c /\ ready[s] \in {"connecting", "open"}}) <= 1
  BY DEF OneLiveSocket
<1> DEFINE L == {s \in Sockets : Owner[s] = c /\ ready[s] \in {"connecting", "open"}}
<1>1. L \subseteq {sockets[c]} BY FeedFacts
<1>2. IsFiniteSet({sockets[c]}) /\ Cardinality({sockets[c]}) = 1 BY FS_Singleton
<1>3. IsFiniteSet(L) /\ Cardinality(L) <= 1
  <2> HIDE DEF L
  <2>1. PICK one : one = {sockets[c]} OBVIOUS
  <2>2. IsFiniteSet(one) /\ Cardinality(one) = 1 /\ L \subseteq one BY <1>1, <1>2, <2>1
  <2>3. QED BY <2>2, FS_Subset
<1>4. QED BY <1>3

\* However error, close, timeout, reconnect and the engine's own calls follow
\* one another, a category has one socket that is open or may open, and an open
\* one streams exactly what is subscribed (bybit-websocket.ts, connect(),
\* scheduleReconnect() and the open handler's resubscription).
THEOREM OneSocketAlways == Spec => []OneSocketServes
<1>1. Init => TypeInv /\ FeedInv BY TypeInit, FeedInit
<1>2. TypeInv /\ FeedInv /\ [Next]_vars => (TypeInv /\ FeedInv)' BY TypeStep, FeedStep
<1>3. TypeInv /\ FeedInv => OneSocketServes
  BY OneIsLive DEF TypeInv, FeedInv, OneSocketServes
<1>4. QED BY <1>1, <1>2, <1>3, PTL DEF Spec

-----------------------------------------------------------------------------
(* Bars once and in order                                                  *)

LEMMA EmptyQueue ==
    ASSUME NEW c, NEW b, NEW given
    PROVE  QueueInOrder(<<>>, c, b) /\ QueueIsNews(<<>>, given)
BY DEF QueueInOrder, QueueIsNews

\* The first message of a queue, if it is a bar, is older than the rest.
LEMMA TailOfQueue ==
    ASSUME NEW q \in Seq(Messages), q # <<>>, NEW c, NEW b, NEW given,
           QueueInOrder(q, c, b)
    PROVE  /\ QueueInOrder(Tail(q), c, b)
           /\ QueueIsNews(q, given) => QueueIsNews(Tail(q), given)
           /\ Category[q[1].pair] = c
           /\ q[1].confirm => q[1].bar < b[q[1].pair]
           /\ q[1].confirm => \A i \in 1..Len(Tail(q)) :
                 Tail(q)[i].confirm /\ Tail(q)[i].pair = q[1].pair => q[1].bar < Tail(q)[i].bar
<1>1. /\ Tail(q) \in Seq(Messages) /\ Len(Tail(q)) = Len(q) - 1
      /\ \A i \in 1..Len(Tail(q)) : Tail(q)[i] = q[i + 1]
  BY HeadTailProperties
<1>2. PICK n \in Nat : n = Len(q) OBVIOUS
<1>3. n # 0 BY <1>2, EmptySeq
<1>4. PICK r : r = Tail(q) OBVIOUS
<1>5. Len(r) = n - 1 /\ 1 \in 1..n BY <1>1, <1>2, <1>3, <1>4
<1>6. \A i \in 1..(n - 1) : r[i] = q[i + 1] /\ i + 1 \in 1..n /\ 1 < i + 1
  BY <1>1, <1>2, <1>3, <1>4
<1>7. \A i, j \in 1..(n - 1) : i < j => i + 1 < j + 1 OBVIOUS
<1>8. /\ \A i \in 1..n : /\ Category[q[i].pair] = c
                         /\ q[i].confirm => q[i].bar < b[q[i].pair]
      /\ \A i, j \in 1..n : i < j /\ q[i].confirm /\ q[j].confirm /\ q[i].pair = q[j].pair
            => q[i].bar < q[j].bar
  BY <1>2 DEF QueueInOrder
<1>9. QueueInOrder(r, c, b)
  <2>1. \A i \in 1..(n - 1) : /\ Category[r[i].pair] = c
                              /\ r[i].confirm => r[i].bar < b[r[i].pair]
    BY <1>6, <1>8
  <2>2. ASSUME NEW i \in 1..(n - 1), NEW j \in 1..(n - 1), i < j,
               r[i].confirm, r[j].confirm, r[i].pair = r[j].pair
        PROVE  r[i].bar < r[j].bar
    <3>1. PICK x \in 1..n : x = i + 1 /\ r[i] = q[x] BY <1>6
    <3>2. PICK y \in 1..n : y = j + 1 /\ r[j] = q[y] BY <1>6
    <3>3. x < y BY <2>2, <3>1, <3>2
    <3>4. QED BY <1>8, <2>2, <3>1, <3>2, <3>3
  <2>3. QED BY <1>5, <2>1, <2>2 DEF QueueInOrder
<1>10. QueueIsNews(q, given) => QueueIsNews(r, given)
  BY <1>2, <1>5, <1>6 DEF QueueIsNews
<1>11. ASSUME q[1].confirm, NEW i \in 1..(n - 1), r[i].confirm, r[i].pair = q[1].pair
       PROVE  q[1].bar < r[i].bar
  <2>1. PICK x \in 1..n : x = i + 1 /\ r[i] = q[x] /\ 1 < x BY <1>6
  <2>2. QED BY <1>5, <1>8, <1>11, <2>1
<1>12. QED BY <1>4, <1>5, <1>8, <1>9, <1>10, <1>11

\* What the exchange sends is newer than all that waits.
LEMMA AppendToQueue ==
    ASSUME NEW q \in Seq(Messages), NEW m \in Messages, NEW b, NEW d,
           b \in [Pairs -> Nat], d \in [Pairs -> Nat],
           \A p \in Pairs : b[p] <= d[p],
           m.confirm => m.bar = b[m.pair] /\ m.bar < d[m.pair],
           NEW c, Category[m.pair] = c, QueueInOrder(q, c, b)
    PROVE  QueueInOrder(Append(q, m), c, d)
<1>1. PICK n \in Nat : n = Len(q) OBVIOUS
<1>2. PICK r : r = Append(q, m) OBVIOUS
<1>3. /\ Len(r) = n + 1 /\ r[n + 1] = m
      /\ \A i \in 1..n : r[i] = q[i] /\ r[i] \in Messages
  BY <1>1, <1>2, AppendProperties
<1>4. \A i \in 1..(n + 1) : i \in 1..n \/ i = n + 1 OBVIOUS
<1>5. /\ \A i \in 1..n : /\ Category[q[i].pair] = c
                         /\ q[i].confirm => q[i].bar < b[q[i].pair]
      /\ \A i, j \in 1..n : i < j /\ q[i].confirm /\ q[j].confirm /\ q[i].pair = q[j].pair
            => q[i].bar < q[j].bar
  BY <1>1 DEF QueueInOrder
<1>6. ASSUME NEW i \in 1..(n + 1)
      PROVE  Category[r[i].pair] = c /\ (r[i].confirm => r[i].bar < d[r[i].pair])
  <2>1. CASE i = n + 1 BY <2>1, <1>3
  <2>2. CASE i \in 1..n
    <3>1. r[i] = q[i] /\ r[i].pair \in Pairs /\ r[i].bar \in Nat
      BY <2>2, <1>3 DEF Messages
    <3>2. b[r[i].pair] <= d[r[i].pair] /\ b[r[i].pair] \in Nat /\ d[r[i].pair] \in Nat
      BY <3>1
    <3>3. Category[r[i].pair] = c /\ (r[i].confirm => r[i].bar < b[r[i].pair])
      BY <1>5, <2>2, <3>1
    <3>4. r[i].bar < b[r[i].pair] => r[i].bar < d[r[i].pair]
      BY <3>1, <3>2
    <3>5. QED BY <3>3, <3>4, Zenon
  <2>3. QED BY <1>4, <2>1, <2>2
<1>7. ASSUME NEW i \in 1..(n + 1), NEW j \in 1..(n + 1), i < j,
             r[i].confirm, r[j].confirm, r[i].pair = r[j].pair
      PROVE  r[i].bar < r[j].bar
  <2>1. i \in 1..n /\ r[i] = q[i] BY <1>3, <1>7
  <2>2. CASE j = n + 1
    <3>1. r[j] = m BY <1>3, <2>2
    <3>2. m.confirm /\ q[i].pair = m.pair /\ q[i].confirm BY <1>7, <2>1, <3>1
    <3>3. q[i].bar < b[m.pair] /\ m.bar = b[m.pair] BY <1>5, <2>1, <3>2
    <3>4. QED BY <2>1, <3>1, <3>3
  <2>3. CASE j \in 1..n
    <3>1. r[j] = q[j] BY <1>3, <2>3
    <3>2. QED BY <1>5, <1>7, <2>1, <2>3, <3>1
  <2>4. QED BY <1>4, <2>2, <2>3
<1>8. QED BY <1>2, <1>3, <1>6, <1>7 DEF QueueInOrder

LEMMA AppendIsNews ==
    ASSUME NEW q \in Seq(Messages), NEW m \in Messages, NEW given, QueueIsNews(q, given),
           m.confirm => \A k \in 1..Len(given[m.pair]) : given[m.pair][k] < m.bar
    PROVE  QueueIsNews(Append(q, m), given)
<1>1. PICK n \in Nat : n = Len(q) OBVIOUS
<1>2. PICK r : r = Append(q, m) OBVIOUS
<1>3. Len(r) = n + 1 /\ r[n + 1] = m /\ \A i \in 1..n : r[i] = q[i]
  BY <1>1, <1>2, AppendProperties
<1>4. \A i \in 1..(n + 1) : i \in 1..n \/ i = n + 1 OBVIOUS
<1>5. \A i \in 1..n : q[i].confirm => \A k \in 1..Len(given[q[i].pair]) : given[q[i].pair][k] < q[i].bar
  BY <1>1 DEF QueueIsNews
<1>6. \A i \in 1..(n + 1) : r[i].confirm => \A k \in 1..Len(given[r[i].pair]) : given[r[i].pair][k] < r[i].bar
  BY <1>3, <1>4, <1>5
<1>7. QED BY <1>2, <1>3, <1>6 DEF QueueIsNews

LEMMA BarFacts ==
    ASSUME TypeOK, BarInv, NEW s \in Sockets
    PROVE  /\ ready[s] \notin {"open", "closing"} => topics[s] = {} /\ inbox[s] = <<>>
           /\ \A p \in topics[s] : Category[p] = Owner[s]
           /\ inbox[s] \in Seq(Messages)
           /\ QueueInOrder(inbox[s], Owner[s], bar)
           /\ sockets[Owner[s]] = s => QueueIsNews(inbox[s], bars)
BY DEF TypeOK, BarInv, SessionStreams, InboxInOrder, InboxIsNews, Current

\* What neither sends nor delivers: a session ends only with its inbox, and a
\* socket that is made has none.
LEMMA NothingArrives ==
    ASSUME TypeOK, BarInv, UNCHANGED <<bar, bars>>,
           \A s \in Sockets :
              /\ inbox'[s] \in {inbox[s], <<>>}
              /\ ready'[s] \notin {"open", "closing"} =>
                    \/ topics'[s] = {} /\ inbox'[s] = <<>>
                    \/ ready[s] \notin {"open", "closing"} /\ topics'[s] = topics[s]
              /\ \A p \in topics'[s] : Category[p] = Owner[s]
              /\ sockets'[Owner[s]] = s => sockets[Owner[s]] = s \/ ready[s] = "closed"
    PROVE  BarInv'
<1>1. SessionStreams' BY BarFacts DEF SessionStreams
<1>2. InboxInOrder'
  <2> SUFFICES ASSUME NEW s \in Sockets PROVE QueueInOrder(inbox'[s], Owner[s], bar')
    BY DEF InboxInOrder
  <2>1. QueueInOrder(inbox[s], Owner[s], bar) /\ QueueInOrder(<<>>, Owner[s], bar)
    BY BarFacts, EmptyQueue
  <2>2. PICK q \in {inbox[s], <<>>} : q = inbox'[s] OBVIOUS
  <2>3. QueueInOrder(q, Owner[s], bar) BY <2>1, <2>2
  <2>4. bar' = bar OBVIOUS
  <2>5. QED BY <2>2, <2>3, <2>4
<1>3. InboxIsNews'
  <2> SUFFICES ASSUME NEW s \in Sockets, sockets'[Owner[s]] = s
               PROVE  QueueIsNews(inbox'[s], bars')
    BY DEF InboxIsNews, Current
  <2>1. QueueIsNews(<<>>, bars) BY EmptyQueue
  <2>2. QueueIsNews(inbox[s], bars)
    <3>1. CASE sockets[Owner[s]] = s BY <3>1, BarFacts
    <3>2. CASE ready[s] = "closed"
      <4>1. inbox[s] = <<>> BY <3>2, BarFacts
      <4>2. QED BY <2>1, <4>1
    <3>3. QED BY <3>1, <3>2
  <2>3. PICK q \in {inbox[s], <<>>} : q = inbox'[s] OBVIOUS
  <2>4. QueueIsNews(q, bars) BY <2>1, <2>2, <2>3
  <2>5. bars' = bars OBVIOUS
  <2>6. QED BY <2>3, <2>4, <2>5
<1>4. BarsHaveClosed' /\ BarsOnceInOrder' BY DEF BarInv, BarsHaveClosed, BarsOnceInOrder
<1>5. QED BY <1>1, <1>2, <1>3, <1>4 DEF BarInv

\* A socket that is made had closed.
LEMMA OpenArrives ==
    ASSUME TypeOK, BarInv, NEW c \in Categories, NEW count, Open(c, count),
           UNCHANGED <<topics, inbox, bar, bars>>
    PROVE  BarInv'
<1>1. PICK s \in Sockets :
        /\ Owner[s] = c /\ ready[s] = "closed"
        /\ sockets' = [sockets EXCEPT ![c] = s]
        /\ ready' = [ready EXCEPT ![s] = "connecting"]
  BY DEF Open, Free
<1>2. ASSUME NEW t \in Sockets
      PROVE  /\ ready'[t] \notin {"open", "closing"} => ready[t] \notin {"open", "closing"}
             /\ \A p \in topics'[t] : Category[p] = Owner[t]
             /\ sockets'[Owner[t]] = t => sockets[Owner[t]] = t \/ ready[t] = "closed"
  <2>1. ready'[t] \notin {"open", "closing"} => ready[t] \notin {"open", "closing"}
    BY <1>1 DEF TypeOK
  <2>2. \A p \in topics'[t] : Category[p] = Owner[t] BY BarFacts
  <2>3. sockets'[Owner[t]] = t => sockets[Owner[t]] = t \/ ready[t] = "closed"
    <3>1. CASE t = s BY <3>1, <1>1
    <3>2. CASE t # s BY <3>2, <1>1, CategoryFacts DEF TypeOK
    <3>3. QED BY <3>1, <3>2
  <2>4. QED BY <2>1, <2>2, <2>3
<1>3. QED BY <1>2, NothingArrives

\* close() ends no session.
LEMMA CloseEndsNone ==
    ASSUME TypeOK, NEW S, Close(S)
    PROVE  \A t \in Sockets : ready'[t] \notin {"open", "closing"} => ready[t] \notin {"open", "closing"}
BY DEF Close, TypeOK

LEMMA CallArrives ==
    ASSUME TypeInv, FeedInv, BarInv, NEW p \in Pairs, Subscribe(p) \/ Unsubscribe(p)
    PROVE  BarInv'
<1>1. PICK c \in Categories : c = Category[p] BY CategoryFacts
<1>2. UNCHANGED <<inbox, bar, bars>> BY DEF Subscribe, Unsubscribe
<1>3. CASE Open(c, attempts[c]) /\ UNCHANGED topics
  BY <1>2, <1>3, OpenArrives DEF TypeInv
<1>4. CASE /\ IsOpen(c) => \/ topics' = [topics EXCEPT ![sockets[c]] = @ \cup {p}]
                           \/ topics' = [topics EXCEPT ![sockets[c]] = @ \ {p}]
           /\ ~IsOpen(c) => topics' = topics
           /\ \/ UNCHANGED <<ready, sockets>>
              \/ Close({sockets["spot"]}) /\ sockets' = [sockets EXCEPT !["spot"] = NoSocket]
  <2>1. ASSUME NEW t \in Sockets
        PROVE  /\ ready'[t] \notin {"open", "closing"} =>
                     ready[t] \notin {"open", "closing"} /\ topics'[t] = topics[t]
               /\ \A r \in topics'[t] : Category[r] = Owner[t]
               /\ sockets'[Owner[t]] = t => sockets[Owner[t]] = t
    <3>1. ready'[t] \notin {"open", "closing"} => ready[t] \notin {"open", "closing"}
      BY <1>4, CloseEndsNone DEF TypeInv
    <3>2. IsOpen(c) => sockets[c] \in Sockets /\ ready[sockets[c]] = "open" /\ Owner[sockets[c]] = c
      BY FeedFacts, CategoryFacts DEF IsOpen, TypeInv
    <3>3. (t = sockets[c] /\ IsOpen(c)) \/ topics'[t] = topics[t]
      BY <1>4, <3>2 DEF TypeInv, TypeOK
    <3>4. ready[t] \notin {"open", "closing"} => topics'[t] = topics[t]
      BY <3>2, <3>3
    <3>5. \A r \in topics'[t] : Category[r] = Owner[t]
      <4>1. \A r \in topics[t] : Category[r] = Owner[t] BY BarFacts DEF TypeInv
      <4>2. CASE t = sockets[c] /\ IsOpen(c)
        <5>1. topics'[t] \subseteq topics[t] \cup {p}
          BY <1>4, <4>2 DEF TypeInv, TypeOK
        <5>2. QED BY <1>1, <3>2, <4>1, <4>2, <5>1
      <4>3. QED BY <3>3, <4>1, <4>2
    <3>6. sockets'[Owner[t]] = t => sockets[Owner[t]] = t
      BY <1>4, CategoryFacts DEF TypeInv, TypeOK
    <3>7. QED BY <3>1, <3>4, <3>5, <3>6
  <2>2. QED BY <1>2, <2>1, NothingArrives DEF TypeInv
<1>5. QED BY <1>1, <1>3, <1>4 DEF Subscribe, Unsubscribe

LEMMA DisconnectArrives ==
    ASSUME TypeInv, BarInv, Disconnect
    PROVE  BarInv'
<1>1. /\ UNCHANGED <<topics, inbox, bar, bars>>
      /\ Close({sockets[c] : c \in Categories}) /\ sockets' = [c \in Categories |-> NoSocket]
  BY DEF Disconnect
<1>2. ASSUME NEW t \in Sockets
      PROVE  /\ ready'[t] \notin {"open", "closing"} => ready[t] \notin {"open", "closing"}
             /\ \A p \in topics'[t] : Category[p] = Owner[t]
             /\ sockets'[Owner[t]] # t
  BY <1>1, CloseEndsNone, BarFacts, CategoryFacts DEF TypeInv
<1>3. QED BY <1>1, <1>2, NothingArrives DEF TypeInv

LEMMA TimeoutArrives ==
    ASSUME TypeInv, BarInv, NEW c \in Categories, ConnectTimeout(c)
    PROVE  BarInv'
<1>1. Close({timeoutTimer[c]}) /\ UNCHANGED <<sockets, topics, inbox, bar, bars>>
  BY DEF ConnectTimeout, wire
<1>2. \A t \in Sockets :
         /\ ready'[t] \notin {"open", "closing"} => ready[t] \notin {"open", "closing"}
         /\ \A p \in topics'[t] : Category[p] = Owner[t]
  BY <1>1, CloseEndsNone, BarFacts DEF TypeInv
<1>3. QED BY <1>1, <1>2, NothingArrives DEF TypeInv

LEMMA OpenEventArrives ==
    ASSUME TypeInv, BarInv, NEW s \in Sockets, HandleOpen(s)
    PROVE  BarInv'
<1>1. /\ UNCHANGED <<sockets, inbox, bar, bars>>
      /\ ready' = [ready EXCEPT ![s] = "open"]
      /\ topics' = [topics EXCEPT ![s] = SubscribedIn(Owner[s])]
  BY DEF HandleOpen
<1>2. ASSUME NEW t \in Sockets
      PROVE  /\ ready'[t] \notin {"open", "closing"} =>
                   ready[t] \notin {"open", "closing"} /\ topics'[t] = topics[t]
             /\ \A p \in topics'[t] : Category[p] = Owner[t]
  <2>1. CASE t = s BY <2>1, <1>1 DEF SubscribedIn, TypeInv, TypeOK
  <2>2. CASE t # s
    <3>1. ready'[t] = ready[t] /\ topics'[t] = topics[t] BY <2>2, <1>1 DEF TypeInv, TypeOK
    <3>2. QED BY <3>1, BarFacts DEF TypeInv
  <2>3. QED BY <2>1, <2>2
<1>3. QED BY <1>1, <1>2, NothingArrives DEF TypeInv

LEMMA LostArrives ==
    ASSUME TypeInv, BarInv, NEW s \in Sockets,
           HandleError(s) \/ HandleClose(s) \/ HandleRefusal(s)
    PROVE  BarInv'
<1>1. UNCHANGED <<sockets, bar, bars>> BY DEF HandleError, HandleClose, HandleRefusal
<1>2. ASSUME NEW t \in Sockets
      PROVE  /\ inbox'[t] \in {inbox[t], <<>>}
             /\ ready'[t] \notin {"open", "closing"} =>
                   \/ topics'[t] = {} /\ inbox'[t] = <<>>
                   \/ ready[t] \notin {"open", "closing"} /\ topics'[t] = topics[t]
             /\ \A p \in topics'[t] : Category[p] = Owner[t]
  <2>0. \A p \in topics[t] : Category[p] = Owner[t] BY BarFacts DEF TypeInv
  <2>1. CASE HandleError(s)
    <3>1. ready' = [ready EXCEPT ![s] = "closing"] /\ UNCHANGED <<topics, inbox>>
      BY <2>1 DEF HandleError, wire
    <3>2. ready'[t] \in {ready[t], "closing"} BY <3>1 DEF TypeInv, TypeOK
    <3>3. QED BY <2>0, <3>1, <3>2
  <2>2. CASE Closed(s)
    <3>1. CASE t = s
      <4>1. topics'[t] = {} /\ inbox'[t] = <<>> BY <2>2, <3>1 DEF Closed, TypeInv, TypeOK
      <4>2. QED BY <4>1
    <3>2. CASE t # s
      <4>1. ready'[t] = ready[t] /\ topics'[t] = topics[t] /\ inbox'[t] = inbox[t]
        BY <2>2, <3>2 DEF Closed, TypeInv, TypeOK
      <4>2. QED BY <2>0, <4>1
    <3>3. QED BY <3>1, <3>2
  <2>3. QED BY <2>1, <2>2 DEF HandleClose, HandleRefusal
<1>3. QED BY <1>1, <1>2, NothingArrives DEF TypeInv

LEMMA MessageArrives ==
    ASSUME TypeInv, BarInv, NEW s \in Sockets, HandleMessage(s)
    PROVE  BarInv'
<1>1. inbox[s] # <<>> BY DEF HandleMessage
<1>2. PICK q \in Seq(Messages) : q = inbox[s] BY DEF TypeInv, TypeOK
<1>3. /\ Head(inbox[s]) = q[1] /\ q[1] \in Messages
  BY <1>1, <1>2, InboxHead DEF TypeInv
<1>4. PICK m \in Messages : m = q[1] BY <1>3
<1>5. m.pair \in Pairs /\ m.bar \in 1..MaxBar BY DEF Messages
<1>6. /\ UNCHANGED <<sockets, ready, topics, bar>>
      /\ inbox' = [inbox EXCEPT ![s] = Tail(@)]
      /\ bars' = IF Given(s, m) THEN [bars EXCEPT ![m.pair] = Append(@, m.bar)] ELSE bars
  BY <1>3, <1>4 DEF HandleMessage, Given
<1>7. inbox'[s] = Tail(q) /\ \A t \in Sockets \ {s} : inbox'[t] = inbox[t]
  BY <1>2, <1>6 DEF TypeInv, TypeOK
<1>8. QueueInOrder(q, Owner[s], bar) /\ q # <<>> BY <1>1, <1>2, BarFacts DEF TypeInv
<1>9. /\ QueueInOrder(Tail(q), Owner[s], bar)
      /\ QueueIsNews(q, bars) => QueueIsNews(Tail(q), bars)
      /\ Category[m.pair] = Owner[s]
      /\ m.confirm => m.bar < bar[m.pair]
      /\ m.confirm => \A i \in 1..Len(Tail(q)) :
            Tail(q)[i].confirm /\ Tail(q)[i].pair = m.pair => m.bar < Tail(q)[i].bar
  BY <1>4, <1>8, TailOfQueue
<1>10. SessionStreams'
  <2>1. ready[s] \in {"open", "closing"} BY DEF HandleMessage
  <2>2. QED BY <1>6, <1>7, <2>1, BarFacts DEF SessionStreams, TypeInv
<1>11. InboxInOrder'
  <2>1. ASSUME NEW t \in Sockets PROVE QueueInOrder(inbox'[t], Owner[t], bar)
    <3>1. CASE t = s BY <3>1, <1>7, <1>9
    <3>2. CASE t # s BY <3>2, <1>7, BarFacts DEF TypeInv
    <3>3. QED BY <3>1, <3>2
  <2>2. QED BY <1>6, <2>1 DEF InboxInOrder
<1>12. \A t \in Sockets : sockets[Owner[t]] = t => QueueIsNews(inbox'[t], bars)
  <2> SUFFICES ASSUME NEW t \in Sockets, sockets[Owner[t]] = t PROVE QueueIsNews(inbox'[t], bars)
    OBVIOUS
  <2>1. QueueIsNews(inbox[t], bars) BY BarFacts DEF TypeInv
  <2>2. CASE t = s BY <2>1, <2>2, <1>2, <1>7, <1>9
  <2>3. CASE t # s BY <2>1, <2>3, <1>7
  <2>4. QED BY <2>2, <2>3
<1>13. CASE ~Given(s, m)
  <2>1. bars' = bars BY <1>6, <1>13
  <2>2. InboxIsNews' BY <1>6, <1>12, <2>1 DEF InboxIsNews, Current
  <2>3. BarsHaveClosed' /\ BarsOnceInOrder'
    BY <1>6, <2>1 DEF BarInv, BarsHaveClosed, BarsOnceInOrder
  <2>4. QED BY <1>10, <1>11, <2>2, <2>3 DEF BarInv
<1>14. CASE Given(s, m)
  <2>1. m.confirm /\ sockets[Owner[s]] = s BY <1>14 DEF Given, Current
  <2>2. PICK old \in Seq(1..MaxBar) : old = bars[m.pair] BY <1>5 DEF TypeInv, TypeOK
  <2>3. PICK n \in Nat : n = Len(old) OBVIOUS
  <2>4. PICK new : new = Append(old, m.bar) OBVIOUS
  <2>5. /\ Len(new) = n + 1 /\ new[n + 1] = m.bar /\ \A k \in 1..n : new[k] = old[k]
    BY <1>5, <2>3, <2>4, AppendProperties
  <2>6. bars'[m.pair] = new /\ \A p \in Pairs \ {m.pair} : bars'[p] = bars[p]
    BY <1>5, <1>6, <1>14, <2>2, <2>4 DEF TypeInv, TypeOK
  <2>7. \A k \in 1..(n + 1) : k \in 1..n \/ k = n + 1 OBVIOUS
  <2>8. \A k \in 1..n : old[k] < m.bar
    <3>1. QueueIsNews(q, bars) BY <1>2, <2>1, BarFacts DEF TypeInv
    <3>2. 1 \in 1..Len(q)
      <4>1. PICK l \in Nat : l = Len(q) OBVIOUS
      <4>2. l # 0 BY <1>8, <4>1, EmptySeq
      <4>3. QED BY <4>1, <4>2
    <3>3. QED BY <1>4, <2>1, <2>2, <2>3, <3>1, <3>2 DEF QueueIsNews
  <2>9. \A k \in 1..n : old[k] < bar[m.pair]
    BY <1>5, <2>2, <2>3 DEF BarInv, BarsHaveClosed
  <2>10. InboxIsNews'
    <3> SUFFICES ASSUME NEW t \in Sockets, sockets[Owner[t]] = t
                 PROVE  QueueIsNews(inbox'[t], bars')
      BY <1>6 DEF InboxIsNews, Current
    <3>1. PICK r : r = inbox'[t] OBVIOUS
    <3>2. QueueIsNews(r, bars) BY <1>12, <3>1
    <3>3. ASSUME NEW i \in 1..Len(r), r[i].confirm, r[i].pair = m.pair
          PROVE  m.bar < r[i].bar
      <4>1. CASE t = s
        <5>1. r = Tail(q) BY <3>1, <4>1, <1>7
        <5>2. QED BY <1>9, <2>1, <3>3, <5>1
      <4>2. CASE t # s
        <5>1. r = inbox[t] BY <3>1, <4>2, <1>7
        <5>2. Category[r[i].pair] = Owner[t] BY <3>3, <5>1, BarFacts DEF QueueInOrder, TypeInv
        <5>3. Owner[t] # Owner[s] BY <2>1, <4>2
        <5>4. QED BY <1>9, <3>3, <5>2, <5>3
      <4>3. QED BY <4>1, <4>2
    <3>4. ASSUME NEW i \in 1..Len(r), r[i].confirm
          PROVE  \A k \in 1..Len(bars'[r[i].pair]) : bars'[r[i].pair][k] < r[i].bar
      <4>1. \A k \in 1..Len(bars[r[i].pair]) : bars[r[i].pair][k] < r[i].bar
        BY <3>2, <3>4 DEF QueueIsNews
      <4>2. CASE r[i].pair = m.pair
        <5>1. m.bar < r[i].bar BY <3>3, <3>4, <4>2
        <5>2. \A k \in 1..n : old[k] < r[i].bar BY <2>2, <2>3, <4>1, <4>2
        <5>3. \A k \in 1..(n + 1) : new[k] < r[i].bar BY <2>5, <2>7, <5>1, <5>2
        <5>4. QED BY <2>5, <2>6, <4>2, <5>3
      <4>3. CASE r[i].pair # m.pair
        <5>1. r[i].pair \in Pairs
          <6>1. r \in Seq(Messages) BY <3>1, MessageTyped DEF TypeInv, TypeOK
          <6>2. r[i] \in Messages BY <6>1, ElementOfSeq
          <6>3. QED BY <6>2 DEF Messages
        <5>2. bars'[r[i].pair] = bars[r[i].pair] BY <2>6, <4>3, <5>1
        <5>3. QED BY <4>1, <5>2
      <4>4. QED BY <4>2, <4>3
    <3>5. QED BY <3>1, <3>4 DEF QueueIsNews
  <2>11. BarsHaveClosed'
    <3>1. \A k \in 1..(n + 1) : new[k] < bar[m.pair] BY <1>9, <2>1, <2>5, <2>7, <2>9
    <3>2. ASSUME NEW p \in Pairs PROVE \A k \in 1..Len(bars'[p]) : bars'[p][k] < bar[p]
      <4>1. CASE p = m.pair BY <4>1, <2>5, <2>6, <3>1
      <4>2. CASE p # m.pair BY <4>2, <2>6 DEF BarInv, BarsHaveClosed
      <4>3. QED BY <4>1, <4>2
    <3>3. QED BY <1>6, <3>2 DEF BarsHaveClosed
  <2>12. BarsOnceInOrder'
    <3>1. \A i, j \in 1..n : i < j => old[i] < old[j]
      BY <1>5, <2>2, <2>3 DEF BarInv, BarsOnceInOrder
    <3>2. ASSUME NEW i \in 1..(n + 1), NEW j \in 1..(n + 1), i < j PROVE new[i] < new[j]
      <4>1. i \in 1..n /\ new[i] = old[i] BY <2>5, <3>2
      <4>2. CASE j = n + 1 BY <2>5, <2>8, <4>1, <4>2
      <4>3. CASE j \in 1..n
        <5>1. new[j] = old[j] BY <2>5, <4>3
        <5>2. QED BY <3>1, <3>2, <4>1, <4>3, <5>1
      <4>4. QED BY <2>7, <4>2, <4>3
    <3>3. ASSUME NEW p \in Pairs
          PROVE  \A i, j \in 1..Len(bars'[p]) : i < j => bars'[p][i] < bars'[p][j]
      <4>1. CASE p = m.pair BY <4>1, <2>5, <2>6, <3>2
      <4>2. CASE p # m.pair BY <4>2, <2>6 DEF BarInv, BarsOnceInOrder
      <4>3. QED BY <4>1, <4>2
    <3>4. QED BY <3>3 DEF BarsOnceInOrder
  <2>13. QED BY <1>10, <1>11, <2>10, <2>11, <2>12 DEF BarInv
<1>15. QED BY <1>13, <1>14

\* A message goes out: a bar that is forming, or one that closes with it.
LEMMA PushArrives ==
    ASSUME TypeInv, BarInv, NEW m \in Messages, Push(m),
           UNCHANGED <<sockets, ready, topics, bars>>,
           bar' \in [Pairs -> Nat], \A p \in Pairs : bar[p] <= bar'[p],
           m.confirm => m.bar = bar[m.pair] /\ m.bar < bar'[m.pair]
    PROVE  BarInv'
<1>1. m.pair \in Pairs BY DEF Messages
<1>2. bar \in [Pairs -> Nat] BY CategoryFacts DEF TypeInv, TypeOK
<1>3. \A s \in Sockets :
         inbox'[s] = IF ready[s] \in {"open", "closing"} /\ m.pair \in topics[s]
                       THEN Append(inbox[s], m) ELSE inbox[s]
  BY DEF Push
<1>4. SessionStreams' BY <1>3, BarFacts DEF SessionStreams, TypeInv
<1>5. PICK d \in [Pairs -> Nat] : d = bar' OBVIOUS
<1>6. InboxInOrder'
  <2>1. ASSUME NEW s \in Sockets PROVE QueueInOrder(inbox'[s], Owner[s], d)
    <3>1. PICK q \in Seq(Messages) : q = inbox[s] /\ QueueInOrder(q, Owner[s], bar)
      BY BarFacts DEF TypeInv
    <3>2. CASE inbox'[s] = Append(inbox[s], m) /\ m.pair \in topics[s]
      <4>1. Category[m.pair] = Owner[s] BY <3>2, BarFacts DEF TypeInv
      <4>2. QueueInOrder(Append(q, m), Owner[s], d)
        BY <1>2, <1>5, <3>1, <4>1, AppendToQueue
      <4>3. QED BY <3>1, <3>2, <4>2
    <3>3. CASE inbox'[s] = inbox[s]
      <4>1. ASSUME NEW i \in 1..Len(q), q[i].confirm, q[i].bar < bar[q[i].pair]
            PROVE  q[i].bar < d[q[i].pair]
        <5>1. q[i] \in Messages BY ElementOfSeq
        <5>2. PICK p \in Pairs : p = q[i].pair BY <5>1 DEF Messages
        <5>3. PICK x \in Nat : x = q[i].bar BY <5>1 DEF Messages
        <5>4. x < bar[p] /\ bar[p] <= d[p] /\ bar[p] \in Nat /\ d[p] \in Nat
          BY <1>2, <1>5, <4>1, <5>2, <5>3
        <5>5. x < d[p] BY <5>4
        <5>6. QED BY <5>2, <5>3, <5>5
      <4>2. QueueInOrder(q, Owner[s], d) BY <3>1, <4>1 DEF QueueInOrder
      <4>3. QED BY <3>1, <3>3, <4>2
    <3>4. QED BY <1>3, <3>2, <3>3
  <2>2. QED BY <1>5, <2>1 DEF InboxInOrder
<1>7. InboxIsNews'
  <2> SUFFICES ASSUME NEW s \in Sockets, sockets[Owner[s]] = s
               PROVE  QueueIsNews(inbox'[s], bars)
    BY DEF InboxIsNews, Current
  <2>1. PICK q \in Seq(Messages) : q = inbox[s] /\ QueueIsNews(q, bars)
    BY BarFacts DEF TypeInv
  <2>2. m.confirm => \A k \in 1..Len(bars[m.pair]) : bars[m.pair][k] < m.bar
    BY <1>1 DEF BarInv, BarsHaveClosed
  <2>3. QueueIsNews(Append(q, m), bars) BY <2>1, <2>2, AppendIsNews
  <2>4. QED BY <1>3, <2>1, <2>3
<1>8. BarsHaveClosed'
  <2>1. ASSUME NEW p \in Pairs, NEW k \in 1..Len(bars[p]) PROVE bars[p][k] < d[p]
    <3>1. bars[p] \in Seq(1..MaxBar) BY DEF TypeInv, TypeOK
    <3>2. bars[p][k] \in 1..MaxBar BY <3>1, ElementOfSeq
    <3>3. PICK x \in Nat : x = bars[p][k] BY <3>2
    <3>4. x < bar[p] BY <3>3 DEF BarInv, BarsHaveClosed
    <3>5. bar[p] <= d[p] /\ bar[p] \in Nat /\ d[p] \in Nat BY <1>2, <1>5
    <3>6. QED BY <3>3, <3>4, <3>5
  <2>2. QED BY <1>5, <2>1 DEF BarsHaveClosed
<1>9. BarsOnceInOrder' BY DEF BarInv, BarsOnceInOrder
<1>10. QED BY <1>4, <1>6, <1>7, <1>8, <1>9 DEF BarInv

LEMMA ExchangeArrives ==
    ASSUME TypeInv, BarInv, NEW p \in Pairs, Tick(p) \/ Confirm(p)
    PROVE  BarInv'
<1>1. bar \in [Pairs -> Nat] /\ bar[p] \in 1..MaxBar
  BY CategoryFacts DEF Tick, Confirm, TypeInv, TypeOK
<1>2. \A b \in BOOLEAN : [pair |-> p, bar |-> bar[p], confirm |-> b] \in Messages
  BY <1>1 DEF Messages
<1>3. UNCHANGED <<sockets, ready, topics, bars>> BY DEF Tick, Confirm
<1>4. CASE Tick(p)
  <2>1. PICK m \in Messages : m = [pair |-> p, bar |-> bar[p], confirm |-> FALSE] BY <1>2
  <2>2. Push(m) /\ ~m.confirm /\ bar' = bar BY <1>4, <2>1 DEF Tick
  <2>3. bar' \in [Pairs -> Nat] /\ \A r \in Pairs : bar[r] <= bar'[r] BY <1>1, <2>2
  <2>4. QED BY <1>3, <2>2, <2>3, PushArrives
<1>5. CASE Confirm(p)
  <2>1. PICK m \in Messages : m = [pair |-> p, bar |-> bar[p], confirm |-> TRUE] BY <1>2
  <2>2. Push(m) /\ m.pair = p /\ m.bar = bar[p] BY <1>5, <2>1 DEF Confirm
  <2>3. bar' = [bar EXCEPT ![p] = @ + 1] BY <1>5 DEF Confirm
  <2>4. bar' \in [Pairs -> Nat] /\ bar[p] < bar'[p] /\ \A r \in Pairs : bar[r] <= bar'[r]
    BY <1>1, <2>3
  <2>5. QED BY <1>3, <2>2, <2>4, PushArrives
<1>6. QED BY <1>4, <1>5

LEMMA BarInit == Init => BarInv
<1> SUFFICES ASSUME Init PROVE BarInv
  OBVIOUS
<1>1. Len(<<>>) = 0 /\ \A k \in 1..0 : FALSE OBVIOUS
<1>2. \A s \in Sockets : QueueInOrder(inbox[s], Owner[s], bar) /\ QueueIsNews(inbox[s], bars)
  BY EmptyQueue DEF Init
<1>3. \A p \in Pairs : Len(bars[p]) = 0 BY DEF Init
<1>4. BarsHaveClosed /\ BarsOnceInOrder
  BY <1>1, <1>3 DEF BarsHaveClosed, BarsOnceInOrder
<1>5. SessionStreams BY DEF Init, SessionStreams
<1>6. QED BY <1>2, <1>4, <1>5 DEF BarInv, InboxInOrder, InboxIsNews

LEMMA BarStep == TypeInv /\ FeedInv /\ BarInv /\ [Next]_vars => BarInv'
<1> SUFFICES ASSUME TypeInv, FeedInv, BarInv, [Next]_vars PROVE BarInv'
  OBVIOUS
<1>1. CASE Connect
  BY <1>1, CategoryFacts, OpenArrives DEF Connect, TypeInv
<1>2. CASE Disconnect BY <1>2, DisconnectArrives
<1>3. ASSUME NEW p \in Pairs, Subscribe(p) \/ Unsubscribe(p) \/ Tick(p) \/ Confirm(p)
      PROVE  BarInv'
  BY <1>3, CallArrives, ExchangeArrives
<1>4. ASSUME NEW c \in Categories, Reconnect(c) \/ ConnectTimeout(c) PROVE BarInv'
  <2>1. CASE Reconnect(c) BY <2>1, OpenArrives DEF Reconnect, wire, TypeInv
  <2>2. QED BY <1>4, <2>1, TimeoutArrives
<1>5. ASSUME NEW s \in Sockets,
             HandleOpen(s) \/ HandleError(s) \/ HandleClose(s) \/ HandleRefusal(s) \/ HandleMessage(s)
      PROVE  BarInv'
  BY <1>5, OpenEventArrives, LostArrives, MessageArrives
<1>6. CASE UNCHANGED vars
  <2>1. UNCHANGED <<sockets, ready, topics, inbox, bar, bars>> BY <1>6 DEF vars
  <2>2. QED BY <2>1, BarFacts, NothingArrives DEF TypeInv
<1>7. QED BY <1>1, <1>2, <1>3, <1>4, <1>5, <1>6 DEF Next

\* A confirmed bar reaches the engine once, and the bars of a pair in order,
\* however many sockets were made, replaced and closed late (the identity guard
\* of bybit-websocket.ts, message handler).
THEOREM BarsArriveOnce == Spec => []BarsOnceInOrder
<1>1. Init => TypeInv /\ FeedInv /\ BarInv BY TypeInit, FeedInit, BarInit
<1>2. TypeInv /\ FeedInv /\ BarInv /\ [Next]_vars => (TypeInv /\ FeedInv /\ BarInv)'
  BY TypeStep, FeedStep, BarStep
<1>3. BarInv => BarsOnceInOrder BY DEF BarInv
<1>4. QED BY <1>1, <1>2, <1>3, PTL DEF Spec
=============================================================================
