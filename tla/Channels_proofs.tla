--------------------------- MODULE Channels_proofs ---------------------------
(***************************************************************************)
(* Proofs about the channels by which the server reaches people, which     *)
(* share no state: the chart gateway (IndicatorGateway), for any number of *)
(* clients, indicators, topics, runs and sockets; the notifications of     *)
(* Telegram (TelegramChats), for all chats, users and kinds of             *)
(* notifications, and any number of bots; its /backtest wizard             *)
(* (BacktestWizard), for any steps, offers, sessions and runs.             *)
(***************************************************************************)
EXTENDS IndicatorGateway, TelegramChats, BacktestWizard, SequenceTheorems, TLAPS

-----------------------------------------------------------------------------
(* The gateway: types                                                      *)

GatewayRun == [by : Clients \union {"rest"}, id : Ids, phase : {"computing", "over"}, cancelled : BOOLEAN]
Socket     == [category : Categories, phase : {"connecting", "open", "closing", "gone"}, streams : SUBSET Topics]

\* The socket of a category is one of its own that has not gone.
CurrentIsOwn ==
    \A k \in Categories : current[k] # None =>
        /\ current[k] \in DOMAIN sockets
        /\ sockets[current[k]].category = k /\ sockets[current[k]].phase # "gone"

RunTypes ==
    /\ sessions \in [Clients -> [Ids -> Runs \union {None}]]
    /\ runs \in Seq(GatewayRun) /\ Len(runs) <= MaxRuns
    /\ registry \in [Ids -> Runs \union {None}]
    /\ stale \subseteq Runs /\ robbed \subseteq Runs /\ delivered \subseteq Runs

ClientTypes ==
    /\ clients \in [Clients -> {"expected", "open", "closed"}]
    /\ follows \in [Clients -> SUBSET Topics]

UpTypes ==
    /\ routes \subseteq Topics
    /\ sockets \in Seq(Socket) /\ Len(sockets) <= MaxSockets
    /\ current \in [Categories -> 0..MaxSockets]
    /\ CurrentIsOwn
    /\ timers \in [Categories -> Nat]

LEMMA TypesSplit == TypeOK <=> ClientTypes /\ RunTypes /\ UpTypes
BY DEF TypeOK, ClientTypes, RunTypes, UpTypes, GatewayRun, Socket, CurrentIsOwn

LEMMA GatewayFacts ==
    /\ "linear" \in Categories /\ "spot" \in Categories
    /\ \A t \in Topics : CategoryOf[t] \in Categories
    /\ MaxRuns \in Nat /\ MaxSockets \in Nat /\ MaxSockets # 0 /\ None = 0 /\ None \notin Runs
BY GatewayAssumption DEF Categories, Runs, None

\* A function over the places of a sequence is a sequence.
LEMMA SameLength ==
    ASSUME NEW S, NEW T, NEW q \in Seq(S), NEW f \in [DOMAIN q -> T]
    PROVE  f \in Seq(T) /\ Len(f) = Len(q) /\ DOMAIN f = DOMAIN q
<1>1. DOMAIN q = 1..Len(q) /\ Len(q) \in Nat BY LenProperties
<1>2. f \in Seq(T) BY <1>1, SeqDef
<1>3. DOMAIN f = 1..Len(f) /\ Len(f) \in Nat BY <1>2, LenProperties
<1>4. 1..Len(f) = 1..Len(q) BY <1>1, <1>3
<1>5. Len(f) = Len(q) BY <1>1, <1>3, <1>4
<1>6. QED BY <1>2, <1>5, <1>1, <1>3

LEMMA RunPlaces ==
    ASSUME RunTypes
    PROVE  /\ DOMAIN runs = 1..Len(runs) /\ Len(runs) \in Nat /\ DOMAIN runs \subseteq Runs
           /\ \A r \in DOMAIN runs : runs[r] \in GatewayRun
<1>1. DOMAIN runs = 1..Len(runs) /\ Len(runs) \in Nat BY LenProperties DEF RunTypes
<1>2. \A r \in DOMAIN runs : runs[r] \in GatewayRun BY <1>1, ElementOfSeq DEF RunTypes
<1>3. QED BY <1>1, <1>2, GatewayFacts DEF RunTypes, Runs

\* cancel() flags the run whose token it is, and changes nothing else.
LEMMA CancelledRuns ==
    ASSUME RunTypes, NEW id \in Ids
    PROVE  /\ Cancelled(id) \in Seq(GatewayRun)
           /\ Len(Cancelled(id)) = Len(runs) /\ DOMAIN Cancelled(id) = DOMAIN runs
           /\ \A r \in DOMAIN runs :
                 /\ Cancelled(id)[r].by = runs[r].by /\ Cancelled(id)[r].id = runs[r].id
                 /\ Cancelled(id)[r].phase = runs[r].phase
                 /\ Cancelled(id)[r].cancelled <=> runs[r].cancelled \/ r = registry[id]
<1>1. \A r \in DOMAIN runs : runs[r] \in GatewayRun BY RunPlaces
<1>2. Cancelled(id) \in [DOMAIN runs -> GatewayRun] BY <1>1 DEF Cancelled, GatewayRun
<1>3. runs \in Seq(GatewayRun) BY DEF RunTypes
<1>4. /\ Cancelled(id) \in Seq(GatewayRun) /\ Len(Cancelled(id)) = Len(runs)
      /\ DOMAIN Cancelled(id) = DOMAIN runs
  BY <1>2, <1>3, SameLength
<1>5. ASSUME NEW r \in DOMAIN runs
      PROVE  /\ Cancelled(id)[r].by = runs[r].by /\ Cancelled(id)[r].id = runs[r].id
             /\ Cancelled(id)[r].phase = runs[r].phase
             /\ Cancelled(id)[r].cancelled <=> runs[r].cancelled \/ r = registry[id]
  <2>1. CASE r = registry[id]
    <3>1. Cancelled(id)[r] = [runs[r] EXCEPT !.cancelled = TRUE] BY <2>1 DEF Cancelled
    <3>2. QED BY <1>1, <2>1, <3>1 DEF GatewayRun
  <2>2. CASE r # registry[id] BY <2>2 DEF Cancelled
  <2>3. QED BY <2>1, <2>2
<1>6. QED BY <1>4, <1>5

LEMMA ComputingPlaces ==
    ASSUME RunTypes, NEW id
    PROVE  Computing(id) \subseteq DOMAIN runs /\ Computing(id) \subseteq Runs
BY RunPlaces DEF Computing

LEMMA ExecuteTyped ==
    ASSUME RunTypes, NEW id \in Ids, NEW by \in Clients \union {"rest"}, Execute(by, id)
    PROVE  RunTypes'
<1> DEFINE new == [by |-> by, id |-> id, phase |-> "computing", cancelled |-> FALSE]
<1>1. new \in GatewayRun BY DEF GatewayRun
<1>2. PICK q \in Seq(GatewayRun) : q = Cancelled(id) /\ Len(q) = Len(runs) BY CancelledRuns
<1>3. runs' = Append(q, new) /\ Len(runs) < MaxRuns BY <1>2 DEF Execute
<1>4. runs' \in Seq(GatewayRun) /\ Len(runs') = Len(runs) + 1
  BY <1>1, <1>2, <1>3, AppendProperties
<1>5. Len(runs) + 1 \in Runs /\ Len(runs) + 1 <= MaxRuns
  BY <1>3, RunPlaces, GatewayFacts DEF Runs
<1>6. registry' \in [Ids -> Runs \union {None}] BY <1>5 DEF Execute, RunTypes
<1>7. stale' \subseteq Runs BY ComputingPlaces DEF Execute, RunTypes
<1>8. sessions' \in [Clients -> [Ids -> Runs \union {None}]]
  <2>1. CASE by = "rest" BY <2>1 DEF Execute, RunTypes
  <2>2. CASE by # "rest"
    <3>1. by \in Clients /\ sessions' = [sessions EXCEPT ![by][id] = None] BY <2>2 DEF Execute
    <3>2. QED BY <3>1 DEF RunTypes
  <2>3. QED BY <2>1, <2>2
<1>9. robbed' = robbed /\ delivered' = delivered BY DEF Execute
<1>10. QED BY <1>4, <1>5, <1>6, <1>7, <1>8, <1>9 DEF RunTypes

LEMMA FinishTyped ==
    ASSUME RunTypes, NEW r \in DOMAIN runs, NEW success \in BOOLEAN, Finish(r, success)
    PROVE  RunTypes'
<1>1. r \in Runs /\ runs[r] \in GatewayRun BY RunPlaces
<1>2. PICK run \in GatewayRun : run = runs[r] BY <1>1
<1>3. runs' = [runs EXCEPT ![r].phase = "over"] BY DEF Finish
<1>4. runs' \in [DOMAIN runs -> GatewayRun] BY <1>1, <1>3, RunPlaces DEF RunTypes, GatewayRun
<1>5. runs' \in Seq(GatewayRun) /\ Len(runs') <= MaxRuns BY <1>4, SameLength DEF RunTypes
<1>6. registry' \in [Ids -> Runs \union {None}] BY <1>2 DEF Finish, RunTypes, GatewayRun
<1>7. robbed' \subseteq Runs /\ stale' = stale
  BY <1>2 DEF Finish, RunTypes, GatewayRun
<1>8. delivered' \subseteq Runs BY <1>1 DEF Finish, RunTypes
<1>9. sessions' \in [Clients -> [Ids -> Runs \union {None}]]
  <2>1. CASE sessions' = sessions BY <2>1 DEF RunTypes
  <2>2. CASE run.by # "rest" /\ sessions' = [sessions EXCEPT ![run.by][run.id] = r]
    <3>1. run.by \in Clients /\ run.id \in Ids BY <2>2 DEF GatewayRun
    <3>2. QED BY <2>2, <3>1, <1>1 DEF RunTypes
  <2>3. QED BY <1>2, <2>1, <2>2 DEF Finish
<1>10. QED BY <1>5, <1>6, <1>7, <1>8, <1>9 DEF RunTypes

LEMMA StopTyped ==
    ASSUME RunTypes, NEW id \in Ids, runs' = Cancelled(id), stale' = stale \union Computing(id),
           UNCHANGED <<registry, robbed, delivered>>,
           sessions' \in [Clients -> [Ids -> Runs \union {None}]]
    PROVE  RunTypes'
BY CancelledRuns, ComputingPlaces DEF RunTypes

-----------------------------------------------------------------------------
(* The gateway: tokens                                                     *)

\* A run that computes and was asked to stop knows it, unless another run took
\* its token; as long as nobody asked, the token is its own.
TokenInv ==
    /\ stale \union delivered \subseteq DOMAIN runs
    /\ \A id \in Ids : registry[id] # None => registry[id] \in DOMAIN runs
    /\ \A r \in delivered : runs[r].phase = "over"
    /\ \A r \in DOMAIN runs : runs[r].phase = "computing" =>
          \/ r \in robbed
          \/ runs[r].cancelled
          \/ registry[runs[r].id] = r /\ r \notin stale

RunInv == RunTypes /\ NoTokenLeaks /\ TokenInv /\ StaleOnlyIfRobbed

\* cancel() leaves no run of the id that computes and does not know, but those
\* whose token was taken.
LEMMA StopKeepsTokens ==
    ASSUME RunInv, NEW id \in Ids, runs' = Cancelled(id), stale' = stale \union Computing(id),
           UNCHANGED <<registry, robbed, delivered>>
    PROVE  NoTokenLeaks' /\ TokenInv' /\ StaleOnlyIfRobbed'
<1>1. /\ DOMAIN runs' = DOMAIN runs
      /\ \A r \in DOMAIN runs : /\ runs'[r].id = runs[r].id /\ runs'[r].phase = runs[r].phase
                                /\ runs'[r].cancelled <=> runs[r].cancelled \/ r = registry[id]
  BY CancelledRuns DEF RunInv
<1>2. NoTokenLeaks'
  <2>1. \A i \in Ids : registry[i] # None => registry[i] \in DOMAIN runs
    BY DEF RunInv, TokenInv
  <2>2. QED BY <1>1, <2>1 DEF RunInv, NoTokenLeaks
<1>3. TokenInv'
  <2>1. ASSUME NEW r \in DOMAIN runs, runs[r].phase = "computing", r \notin robbed, ~runs[r].cancelled
        PROVE  runs'[r].cancelled \/ (registry[runs[r].id] = r /\ r \notin stale')
    <3>1. registry[runs[r].id] = r /\ r \notin stale BY <2>1 DEF RunInv, TokenInv
    <3>2. CASE runs[r].id = id BY <1>1, <2>1, <3>1, <3>2
    <3>3. CASE runs[r].id # id BY <3>1, <3>3 DEF Computing
    <3>4. QED BY <3>2, <3>3
  <2>2. stale' \union delivered' \subseteq DOMAIN runs'
    BY <1>1, ComputingPlaces DEF RunInv, TokenInv
  <2>3. \A r \in delivered' : runs'[r].phase = "over" BY <1>1 DEF RunInv, TokenInv
  <2>4. QED BY <1>1, <2>1, <2>2, <2>3 DEF RunInv, TokenInv
<1>4. StaleOnlyIfRobbed'
  <2>1. \A r \in Computing(id) : r \notin delivered BY DEF RunInv, TokenInv, Computing
  <2>2. QED BY <2>1 DEF RunInv, StaleOnlyIfRobbed
<1>5. QED BY <1>2, <1>3, <1>4

LEMMA ExecuteKeepsTokens ==
    ASSUME RunInv, NEW id \in Ids, NEW by \in Clients \union {"rest"}, Execute(by, id)
    PROVE  NoTokenLeaks' /\ TokenInv' /\ StaleOnlyIfRobbed'
<1> DEFINE new == [by |-> by, id |-> id, phase |-> "computing", cancelled |-> FALSE]
<1>1. PICK n \in Nat : n = Len(runs) /\ DOMAIN runs = 1..n BY RunPlaces DEF RunInv
<1>2. PICK q \in Seq(GatewayRun) : q = Cancelled(id) /\ Len(q) = n BY <1>1, CancelledRuns DEF RunInv
<1>3. \A r \in 1..n : /\ q[r].id = runs[r].id /\ q[r].phase = runs[r].phase
                      /\ q[r].cancelled <=> runs[r].cancelled \/ r = registry[id]
  BY <1>1, <1>2, CancelledRuns DEF RunInv
<1>4. new \in GatewayRun BY DEF GatewayRun
<1>5. /\ runs' = Append(q, new) /\ registry' = [registry EXCEPT ![id] = n + 1]
      /\ stale' = stale \union Computing(id) /\ robbed' = robbed /\ delivered' = delivered
  BY <1>1, <1>2 DEF Execute
<1>6. PICK rs \in Seq(GatewayRun) : /\ rs = runs' /\ DOMAIN rs = 1..(n + 1) /\ rs[n + 1] = new
                             /\ \A r \in 1..n : rs[r] = q[r]
  BY <1>2, <1>4, <1>5, AppendProperties, LenProperties
<1>7. /\ registry'[id] = n + 1 /\ \A i \in Ids \ {id} : registry'[i] = registry[i]
  BY <1>5 DEF RunInv, RunTypes
<1>8. /\ \A i \in Ids : registry[i] # None => registry[i] \in 1..n
      /\ stale \subseteq 1..n /\ delivered \subseteq 1..n
      /\ \A r \in delivered : runs[r].phase = "over"
  BY <1>1 DEF RunInv, TokenInv
<1>9. n + 1 \notin 1..n /\ 1..n \subseteq 1..(n + 1) /\ n + 1 \in 1..(n + 1)
      /\ \A r \in 1..(n + 1) : r \in 1..n \/ r = n + 1
  OBVIOUS
<1>10. Computing(id) \subseteq 1..n BY <1>1, ComputingPlaces DEF RunInv
<1>11. NoTokenLeaks'
  <2> SUFFICES ASSUME NEW i \in Ids, registry'[i] # None
               PROVE  rs[registry'[i]].phase = "computing" /\ rs[registry'[i]].id = i
    BY <1>6 DEF NoTokenLeaks
  <2>1. CASE i = id BY <2>1, <1>6, <1>7
  <2>2. CASE i # id
    <3>1. registry'[i] = registry[i] /\ registry[i] \in 1..n BY <2>2, <1>7, <1>8
    <3>2. runs[registry[i]].phase = "computing" /\ runs[registry[i]].id = i
      BY <3>1 DEF RunInv, NoTokenLeaks
    <3>3. QED BY <1>3, <1>6, <3>1, <3>2
  <2>3. QED BY <2>1, <2>2
<1>12. TokenInv'
  <2>1. stale' \union delivered' \subseteq DOMAIN rs
    BY <1>5, <1>6, <1>8, <1>9, <1>10
  <2>2. \A i \in Ids : registry'[i] # None => registry'[i] \in DOMAIN rs
    BY <1>6, <1>7, <1>8, <1>9
  <2>3. \A r \in delivered' : rs[r].phase = "over"
    BY <1>3, <1>5, <1>6, <1>8
  <2>4. ASSUME NEW r \in 1..(n + 1), rs[r].phase = "computing", r \notin robbed, ~rs[r].cancelled
        PROVE  registry'[rs[r].id] = r /\ r \notin stale'
    <3>1. CASE r = n + 1
      <4>1. r \notin stale' BY <3>1, <1>5, <1>8, <1>9, <1>10
      <4>2. QED BY <3>1, <4>1, <1>6, <1>7
    <3>2. CASE r \in 1..n
      <4>1. /\ rs[r].id = runs[r].id /\ runs[r].phase = "computing" /\ ~runs[r].cancelled
            /\ r # registry[id]
        BY <2>4, <3>2, <1>3, <1>6
      <4>2. registry[runs[r].id] = r /\ r \notin stale
        BY <1>1, <2>4, <3>2, <4>1 DEF RunInv, TokenInv
      <4>3. runs[r].id \in Ids BY <1>1, <3>2, RunPlaces DEF RunInv, GatewayRun
      <4>4. runs[r].id # id BY <4>1, <4>2
      <4>5. r \notin Computing(id) BY <4>4 DEF Computing
      <4>6. QED BY <1>5, <1>7, <4>1, <4>2, <4>3, <4>4, <4>5
    <3>3. QED BY <1>9, <3>1, <3>2
  <2>5. QED BY <1>5, <1>6, <2>1, <2>2, <2>3, <2>4 DEF TokenInv
<1>13. StaleOnlyIfRobbed'
  <2>1. \A r \in Computing(id) : r \notin delivered BY <1>8 DEF Computing
  <2>2. QED BY <1>5, <2>1 DEF RunInv, StaleOnlyIfRobbed
<1>14. QED BY <1>11, <1>12, <1>13

LEMMA FinishKeepsTokens ==
    ASSUME RunInv, NEW r \in DOMAIN runs, NEW success \in BOOLEAN, Finish(r, success)
    PROVE  NoTokenLeaks' /\ TokenInv' /\ StaleOnlyIfRobbed'
<1>1. PICK id \in Ids : id = runs[r].id BY RunPlaces DEF RunInv, GatewayRun
<1>2. /\ runs[r].phase = "computing" /\ stale' = stale
      /\ registry' = [registry EXCEPT ![id] = None]
      /\ robbed' = robbed \union ({registry[id]} \ {r, None})
      /\ delivered' \subseteq delivered \union {r}
      /\ r \in delivered' /\ r \notin delivered => ~runs[r].cancelled
  BY <1>1 DEF Finish
<1>3. /\ DOMAIN runs' = DOMAIN runs
      /\ \A q \in DOMAIN runs : runs'[q].id = runs[q].id /\ runs'[q].cancelled = runs[q].cancelled
      /\ runs'[r].phase = "over" /\ \A q \in DOMAIN runs \ {r} : runs'[q] = runs[q]
  <2>1. runs' = [runs EXCEPT ![r].phase = "over"] BY DEF Finish
  <2>2. \A q \in DOMAIN runs : runs[q] \in GatewayRun BY RunPlaces DEF RunInv
  <2>3. QED BY <2>1, <2>2 DEF GatewayRun
<1>4. registry'[id] = None /\ \A i \in Ids \ {id} : registry'[i] = registry[i]
  BY <1>2 DEF RunInv, RunTypes
<1>5. NoTokenLeaks'
  <2> SUFFICES ASSUME NEW i \in Ids, registry'[i] # None
               PROVE  runs'[registry'[i]].phase = "computing" /\ runs'[registry'[i]].id = i
    BY DEF NoTokenLeaks
  <2>1. i # id /\ registry'[i] = registry[i] BY <1>4
  <2>2. /\ registry[i] \in DOMAIN runs /\ runs[registry[i]].phase = "computing"
        /\ runs[registry[i]].id = i
    BY <2>1 DEF RunInv, NoTokenLeaks, TokenInv
  <2>3. registry[i] # r BY <1>1, <2>1, <2>2
  <2>4. QED BY <1>3, <2>1, <2>2, <2>3
<1>6. TokenInv'
  <2>1. stale' \union delivered' \subseteq DOMAIN runs' BY <1>2, <1>3 DEF RunInv, TokenInv
  <2>2. \A i \in Ids : registry'[i] # None => registry'[i] \in DOMAIN runs'
    BY <1>3, <1>4 DEF RunInv, TokenInv
  <2>3. \A q \in delivered' : runs'[q].phase = "over" BY <1>2, <1>3 DEF RunInv, TokenInv
  <2>4. ASSUME NEW q \in DOMAIN runs, runs'[q].phase = "computing", q \notin robbed', ~runs'[q].cancelled
        PROVE  registry'[runs'[q].id] = q /\ q \notin stale'
    <3>1. q # r /\ runs'[q] = runs[q] BY <1>3, <2>4
    <3>2. registry[runs[q].id] = q /\ q \notin stale
      BY <1>2, <2>4, <3>1 DEF RunInv, TokenInv
    <3>3. runs[q].id \in Ids /\ q # None BY RunPlaces, GatewayFacts DEF RunInv, GatewayRun
    <3>4. runs[q].id # id BY <1>2, <2>4, <3>1, <3>2, <3>3
    <3>5. QED BY <1>2, <1>4, <3>1, <3>2, <3>3, <3>4
  <2>5. QED BY <1>3, <2>1, <2>2, <2>3, <2>4 DEF TokenInv
<1>7. StaleOnlyIfRobbed'
  <2>1. r \in delivered' /\ r \notin delivered => r \notin stale \/ r \in robbed
    BY <1>2 DEF RunInv, TokenInv
  <2>2. QED BY <1>2, <2>1 DEF RunInv, StaleOnlyIfRobbed
<1>8. QED BY <1>5, <1>6, <1>7

LEMMA RunInit == Init => RunInv
<1> SUFFICES ASSUME Init PROVE RunInv
  OBVIOUS
<1>1. runs = <<>> /\ <<>> \in Seq(GatewayRun) /\ Len(<<>>) = 0 /\ DOMAIN <<>> = {}
  BY EmptySeq DEF Init
<1>2. RunTypes BY <1>1, GatewayFacts DEF Init, RunTypes
<1>3. NoTokenLeaks /\ StaleOnlyIfRobbed BY DEF Init, NoTokenLeaks, StaleOnlyIfRobbed
<1>4. TokenInv BY <1>1 DEF Init, TokenInv
<1>5. QED BY <1>2, <1>3, <1>4 DEF RunInv

LEMMA RunStep == RunInv /\ [Next]_vars => RunInv'
<1> SUFFICES ASSUME RunInv, [Next]_vars PROVE RunInv'
  OBVIOUS
<1>1. ASSUME NEW id \in Ids, NEW by \in Clients \union {"rest"}, Execute(by, id) PROVE RunInv'
  BY <1>1, ExecuteTyped, ExecuteKeepsTokens DEF RunInv
<1>2. ASSUME NEW r \in DOMAIN runs, NEW success \in BOOLEAN, Finish(r, success) PROVE RunInv'
  BY <1>2, FinishTyped, FinishKeepsTokens DEF RunInv
<1>3. ASSUME NEW id \in Ids, Delete(id) \/ \E c \in Clients : Stop(c, id) PROVE RunInv'
  <2>1. /\ runs' = Cancelled(id) /\ stale' = stale \union Computing(id)
        /\ UNCHANGED <<registry, robbed, delivered>>
    BY <1>3 DEF Delete, Stop
  <2>2. sessions' \in [Clients -> [Ids -> Runs \union {None}]]
    <3>1. CASE sessions' = sessions BY <3>1 DEF RunInv, RunTypes
    <3>2. CASE \E c \in Clients : sessions' = [sessions EXCEPT ![c][id] = None]
      BY <3>2 DEF RunInv, RunTypes
    <3>3. QED BY <1>3, <3>1, <3>2 DEF Delete, Stop
  <2>3. RunTypes' BY <2>1, <2>2, StopTyped DEF RunInv
  <2>4. QED BY <2>1, <2>3, StopKeepsTokens DEF RunInv
<1>4. CASE UNCHANGED runVars
  BY <1>4 DEF runVars, RunInv, RunTypes, NoTokenLeaks, TokenInv, StaleOnlyIfRobbed
<1>5. ASSUME NEW c \in Clients, Connect(c) \/ Disconnect(c) PROVE RunInv'
  BY <1>4, <1>5 DEF Connect, Disconnect
<1>6. ASSUME NEW c \in Clients, NEW t \in Topics, Subscribe(c, t) \/ Unsubscribe(c, t) PROVE RunInv'
  BY <1>4, <1>6 DEF Subscribe, Unsubscribe
<1>7. ASSUME NEW s \in DOMAIN sockets, HandleOpen(s) \/ Lose(s) \/ HandleClose(s) PROVE RunInv'
  BY <1>4, <1>7 DEF HandleOpen, Lose, HandleClose
<1>8. ASSUME NEW k \in Categories, Reconnect(k) PROVE RunInv'
  BY <1>4, <1>8 DEF Reconnect
<1>9. CASE UNCHANGED vars BY <1>4, <1>9 DEF vars
<1>10. QED BY <1>1, <1>2, <1>3, <1>5, <1>6, <1>7, <1>8, <1>9 DEF Next

-----------------------------------------------------------------------------
(* The gateway: upstream                                                   *)

UpInv == ClientTypes /\ UpTypes /\ UpstreamServes

LEMMA SocketPlaces ==
    ASSUME UpTypes
    PROVE  /\ DOMAIN sockets = 1..Len(sockets) /\ Len(sockets) \in Nat
           /\ \A s \in DOMAIN sockets : sockets[s] \in Socket /\ s # None /\ s \in 0..MaxSockets
<1>1. DOMAIN sockets = 1..Len(sockets) /\ Len(sockets) \in Nat BY LenProperties DEF UpTypes
<1>2. \A s \in DOMAIN sockets : sockets[s] \in Socket BY <1>1, ElementOfSeq DEF UpTypes
<1>3. QED BY <1>1, <1>2, GatewayFacts DEF UpTypes

\* What the invariant says of one category and of one socket.
LEMMA UpFacts ==
    ASSUME UpInv
    PROVE  /\ routes = Followed("linear") \union Followed("spot")
           /\ \A k \in Categories : current[k] # None =>
                 /\ current[k] \in DOMAIN sockets
                 /\ sockets[current[k]].category = k /\ sockets[current[k]].phase # "gone"
                 /\ sockets[current[k]].phase = "open" => sockets[current[k]].streams = Followed(k)
           /\ \A k \in Categories : Followed(k) # {} => current[k] # None \/ timers[k] > 0
           /\ \A s \in DOMAIN sockets : sockets[s].phase = "open" /\ sockets[s].streams # {} =>
                 s = current[sockets[s].category]
BY DEF UpInv, UpTypes, CurrentIsOwn, UpstreamServes, IsOpen

\* A category that has no open socket is given one that connects.
LEMMA SocketIsMade ==
    ASSUME UpInv, NEW k \in Categories, ~IsOpen(k), Len(sockets) < MaxSockets,
           sockets' = Append(sockets, [category |-> k, phase |-> "connecting", streams |-> {}]),
           current' = [current EXCEPT ![k] = Len(sockets) + 1],
           timers' \in [Categories -> Nat], \A j \in Categories \ {k} : timers'[j] = timers[j],
           \A j \in Categories \ {k} : Followed(j)' = Followed(j),
           routes' = Followed("linear")' \union Followed("spot")', routes' \subseteq Topics
    PROVE  UpTypes' /\ UpstreamServes'
<1> DEFINE new == [category |-> k, phase |-> "connecting", streams |-> {}]
<1>1. PICK n \in Nat : n = Len(sockets) /\ DOMAIN sockets = 1..n /\ n < MaxSockets
  BY SocketPlaces DEF UpInv
<1>2. new \in Socket BY DEF Socket
<1>3. PICK q \in Seq(Socket) : /\ q = sockets' /\ Len(q) = n + 1 /\ DOMAIN q = 1..(n + 1)
                               /\ q[n + 1] = new /\ \A s \in 1..n : q[s] = sockets[s]
  <2>1. PICK p \in Seq(Socket) : p = sockets BY DEF UpInv, UpTypes
  <2>2. PICK r : r = Append(p, new) OBVIOUS
  <2>3. /\ r \in Seq(Socket) /\ Len(r) = n + 1 /\ r[n + 1] = new
        /\ \A s \in 1..n : r[s] = p[s]
    BY <1>1, <1>2, <2>1, <2>2, AppendProperties
  <2>4. DOMAIN r = 1..(n + 1) BY <2>3, LenProperties
  <2>5. QED BY <2>1, <2>2, <2>3, <2>4
<1>4. /\ n + 1 \notin 1..n /\ 1..n \subseteq 1..(n + 1) /\ n + 1 \in 1..(n + 1) /\ n + 1 # None
      /\ n + 1 \in 0..MaxSockets /\ n + 1 <= MaxSockets
      /\ \A s \in 1..(n + 1) : s \in 1..n \/ s = n + 1
  BY <1>1, GatewayFacts
<1>5. /\ current' = [current EXCEPT ![k] = n + 1] /\ current' \in [Categories -> 0..MaxSockets]
      /\ current'[k] = n + 1 /\ \A j \in Categories \ {k} : current'[j] = current[j]
  BY <1>1, <1>4 DEF UpInv, UpTypes
<1>6. ASSUME NEW j \in Categories, current'[j] # None
      PROVE  /\ current'[j] \in DOMAIN q /\ q[current'[j]].category = j
             /\ q[current'[j]].phase # "gone"
             /\ q[current'[j]].phase = "open" => q[current'[j]].streams = Followed(j)'
  <2>1. CASE j = k BY <2>1, <1>3, <1>4, <1>5
  <2>2. CASE j # k
    <3>1. current'[j] = current[j] /\ current[j] \in 1..n BY <1>1, <1>5, <1>6, <2>2, UpFacts
    <3>2. q[current'[j]] = sockets[current[j]] BY <1>3, <3>1
    <3>3. QED BY <1>3, <1>4, <1>6, <2>2, <3>1, <3>2, UpFacts
  <2>3. QED BY <2>1, <2>2
<1>7. ASSUME NEW j \in Categories, Followed(j)' # {}
      PROVE  current'[j] # None \/ timers'[j] > 0
  BY <1>4, <1>5, <1>7, UpFacts
<1>8. ASSUME NEW s \in DOMAIN q, q[s].phase = "open", q[s].streams # {}
      PROVE  s = current'[q[s].category]
  <2>1. s \in 1..n /\ q[s] = sockets[s] BY <1>3, <1>4, <1>8
  <2>2. s = current[q[s].category] /\ s # None
    BY <1>1, <1>8, <2>1, UpFacts, SocketPlaces DEF UpInv
  <2>3. q[s].category \in Categories BY <1>1, <2>1, SocketPlaces DEF UpInv, Socket
  <2>4. q[s].category # k BY <1>8, <2>1, <2>2 DEF IsOpen
  <2>5. QED BY <1>5, <2>2, <2>3, <2>4
<1>9. UpTypes'
  <2>1. CurrentIsOwn' BY <1>3, <1>6 DEF CurrentIsOwn
  <2>2. QED BY <1>3, <1>4, <1>5, <2>1 DEF UpTypes
<1>10. UpstreamServes' BY <1>3, <1>6, <1>7, <1>8 DEF UpstreamServes, IsOpen
<1>11. QED BY <1>9, <1>10

LEMMA ReconnectServes ==
    ASSUME UpInv, NEW k \in Categories, Reconnect(k)
    PROVE  UpInv'
<1>1. /\ timers[k] > 0 /\ timers' = [timers EXCEPT ![k] = @ - 1] /\ Ensure(k, sockets)
      /\ UNCHANGED <<clients, follows, routes>>
  BY DEF Reconnect
<1>2. timers' \in [Categories -> Nat] /\ \A j \in Categories \ {k} : timers'[j] = timers[j]
  BY <1>1 DEF UpInv, UpTypes
<1>3. \A j : Followed(j)' = Followed(j) BY <1>1 DEF Followed
<1>4. ClientTypes' BY <1>1 DEF UpInv, ClientTypes
<1>5. routes' = Followed("linear")' \union Followed("spot")' /\ routes' \subseteq Topics
  BY <1>1, <1>3, UpFacts DEF UpInv, UpTypes
<1>6. CASE ~IsOpen(k)
  <2>1. UpTypes' /\ UpstreamServes'
    BY <1>1, <1>2, <1>3, <1>5, <1>6, SocketIsMade DEF Ensure
  <2>2. QED BY <1>4, <2>1 DEF UpInv
<1>7. CASE IsOpen(k)
  <2>1. sockets' = sockets /\ current' = current BY <1>1, <1>7 DEF Ensure
  <2>2. UpTypes' BY <1>1, <1>2, <2>1 DEF UpInv, UpTypes, CurrentIsOwn
  <2>3. \A j \in Categories : Followed(j) # {} => current[j] # None \/ timers'[j] > 0
    BY <1>2, <1>7, UpFacts DEF IsOpen
  <2>4. UpstreamServes' BY <1>3, <1>5, <2>1, <2>3 DEF UpInv, UpstreamServes, IsOpen
  <2>5. QED BY <1>4, <2>2, <2>4 DEF UpInv
<1>8. QED BY <1>6, <1>7

\* The sockets that exist change, and none is made.
LEMMA SocketsChange ==
    ASSUME UpInv, NEW q \in [DOMAIN sockets -> Socket], sockets' = q,
           \A s \in DOMAIN sockets : q[s].category = sockets[s].category,
           current' \in [Categories -> 0..MaxSockets], timers' \in [Categories -> Nat],
           \A k \in Categories : current'[k] # None =>
               /\ current'[k] = current[k] /\ q[current[k]].phase # "gone"
               /\ q[current[k]].phase = "open" => q[current[k]].streams = Followed(k)',
           \A k \in Categories : Followed(k)' # {} => current'[k] # None \/ timers'[k] > 0,
           \A s \in DOMAIN sockets : q[s].phase = "open" /\ q[s].streams # {} =>
               s = current'[q[s].category],
           routes' = Followed("linear")' \union Followed("spot")', routes' \subseteq Topics
    PROVE  UpTypes' /\ UpstreamServes'
<1>1. q \in Seq(Socket) /\ Len(q) = Len(sockets) /\ DOMAIN q = DOMAIN sockets
  BY SameLength DEF UpInv, UpTypes
<1>2. CurrentIsOwn' BY <1>1, UpFacts DEF CurrentIsOwn
<1>3. UpTypes' BY <1>1, <1>2 DEF UpInv, UpTypes
<1>4. UpstreamServes' BY <1>1 DEF UpstreamServes, IsOpen
<1>5. QED BY <1>3, <1>4

LEMMA SubscribeServes ==
    ASSUME UpInv, NEW c \in Clients, NEW t \in Topics, Subscribe(c, t)
    PROVE  UpInv'
<1>1. PICK k \in Categories : k = CategoryOf[t] BY GatewayFacts
<1>2. /\ follows' = [follows EXCEPT ![c] = @ \union {t}] /\ routes' = routes \union {t}
      /\ Ensure(k, Streaming(t, TRUE)) /\ UNCHANGED <<clients, timers>>
  BY <1>1 DEF Subscribe
<1>3. ClientTypes' BY <1>2 DEF UpInv, ClientTypes
<1>4. Followed(k)' = Followed(k) \union {t} BY <1>1, <1>2 DEF Followed, UpInv, ClientTypes
<1>5. \A j \in Categories \ {k} : Followed(j)' = Followed(j)
  BY <1>1, <1>2 DEF Followed, UpInv, ClientTypes
<1>6. routes' = Followed("linear")' \union Followed("spot")' /\ routes' \subseteq Topics
  <2>1. k \in {"linear", "spot"} BY DEF Categories
  <2>2. CASE k = "linear" BY <2>2, <1>2, <1>4, <1>5, UpFacts, GatewayFacts DEF UpInv, UpTypes
  <2>3. CASE k = "spot" BY <2>3, <1>2, <1>4, <1>5, UpFacts, GatewayFacts DEF UpInv, UpTypes
  <2>4. QED BY <2>1, <2>2, <2>3
<1>7. timers' \in [Categories -> Nat] BY <1>2 DEF UpInv, UpTypes
<1>8. CASE ~IsOpen(k)
  <2>1. Streaming(t, TRUE) = sockets BY <1>1, <1>8 DEF Streaming
  <2>2. UpTypes' /\ UpstreamServes'
    BY <1>2, <1>5, <1>6, <1>7, <1>8, <2>1, SocketIsMade DEF Ensure
  <2>3. QED BY <1>3, <2>2 DEF UpInv
<1>9. CASE IsOpen(k)
  <2>1. PICK s \in DOMAIN sockets : s = current[k] /\ sockets[s].phase = "open"
                                    /\ sockets[s].category = k /\ sockets[s].streams = Followed(k)
    BY <1>9, UpFacts DEF IsOpen
  <2>2. PICK q : q = sockets' OBVIOUS
  <2>3. q = [sockets EXCEPT ![s].streams = @ \union {t}] /\ current' = current
    BY <1>1, <1>2, <1>9, <2>1, <2>2 DEF Ensure, Streaming
  <2>4. sockets \in [DOMAIN sockets -> Socket] BY SocketPlaces DEF UpInv, UpTypes
  <2>5. /\ q \in [DOMAIN sockets -> Socket]
        /\ \A r \in DOMAIN sockets : q[r].category = sockets[r].category /\ q[r].phase = sockets[r].phase
        /\ q[s].streams = Followed(k) \union {t}
        /\ \A r \in DOMAIN sockets \ {s} : q[r].streams = sockets[r].streams
    BY <2>1, <2>3, <2>4 DEF Socket
  <2>6. ASSUME NEW j \in Categories, current'[j] # None
        PROVE  /\ current'[j] = current[j] /\ q[current[j]].phase # "gone"
               /\ q[current[j]].phase = "open" => q[current[j]].streams = Followed(j)'
    <3>1. current'[j] = current[j] /\ current[j] \in DOMAIN sockets BY <2>3, <2>6, UpFacts
    <3>2. CASE j = k BY <3>1, <3>2, <1>4, <2>1, <2>5
    <3>3. CASE j # k
      <4>1. current[j] # s BY <2>1, <2>3, <2>6, <3>3, UpFacts
      <4>2. QED BY <1>5, <2>3, <2>5, <2>6, <3>1, <3>3, <4>1, UpFacts
    <3>4. QED BY <3>2, <3>3
  <2>7. \A j \in Categories : Followed(j)' # {} => current'[j] # None \/ timers'[j] > 0
    BY <1>2, <1>5, <1>9, <2>3, UpFacts DEF IsOpen
  <2>8. \A r \in DOMAIN sockets : q[r].phase = "open" /\ q[r].streams # {} => r = current'[q[r].category]
    BY <2>1, <2>3, <2>5, UpFacts
  <2>9. current' \in [Categories -> 0..MaxSockets] BY <2>3 DEF UpInv, UpTypes
  <2>10. UpTypes' /\ UpstreamServes'
    BY <1>6, <1>7, <2>2, <2>5, <2>6, <2>7, <2>8, <2>9, SocketsChange
  <2>11. QED BY <1>3, <2>10 DEF UpInv
<1>10. QED BY <1>8, <1>9

\* A handshake succeeds.
LEMMA OpenServes ==
    ASSUME UpInv, NEW s \in DOMAIN sockets, HandleOpen(s)
    PROVE  UpInv'
<1>1. PICK k \in Categories : k = sockets[s].category
  BY SocketPlaces DEF UpInv, Socket
<1>2. PICK streams : streams = IF s = current[k] THEN Followed(k) ELSE {} OBVIOUS
<1>3. PICK q : q = sockets' OBVIOUS
<1>4. /\ sockets[s].phase = "connecting"
      /\ q = [sockets EXCEPT ![s].phase = "open", ![s].streams = streams]
      /\ UNCHANGED <<clients, follows, routes, current, timers>>
  BY <1>1, <1>2, <1>3 DEF HandleOpen
<1>5. sockets \in [DOMAIN sockets -> Socket] /\ streams \subseteq Topics
  BY <1>2, SocketPlaces DEF UpInv, UpTypes, Followed
<1>6. /\ q \in [DOMAIN sockets -> Socket]
      /\ q[s].category = k /\ q[s].phase = "open" /\ q[s].streams = streams
      /\ \A r \in DOMAIN sockets \ {s} : q[r] = sockets[r]
  BY <1>1, <1>4, <1>5 DEF Socket
<1>7. \A j : Followed(j)' = Followed(j) BY <1>4 DEF Followed
<1>8. ASSUME NEW j \in Categories, current'[j] # None
      PROVE  /\ current'[j] = current[j] /\ q[current[j]].phase # "gone"
             /\ q[current[j]].phase = "open" => q[current[j]].streams = Followed(j)'
  <2>1. current'[j] = current[j] /\ current[j] \in DOMAIN sockets
        /\ sockets[current[j]].category = j
    BY <1>4, <1>8, UpFacts
  <2>2. CASE current[j] = s
    <3>1. j = k BY <1>1, <2>1, <2>2
    <3>2. QED BY <1>2, <1>6, <1>7, <2>1, <2>2, <3>1
  <2>3. CASE current[j] # s BY <1>4, <1>6, <1>7, <1>8, <2>1, <2>3, UpFacts
  <2>4. QED BY <2>2, <2>3
<1>9. \A j \in Categories : Followed(j)' # {} => current'[j] # None \/ timers'[j] > 0
  BY <1>4, <1>7, UpFacts
<1>10. ASSUME NEW r \in DOMAIN sockets, q[r].phase = "open", q[r].streams # {}
       PROVE  r = current'[q[r].category]
  <2>1. CASE r = s BY <1>2, <1>4, <1>6, <1>10, <2>1
  <2>2. CASE r # s BY <1>4, <1>6, <1>10, <2>2, UpFacts
  <2>3. QED BY <2>1, <2>2
<1>11. /\ current' \in [Categories -> 0..MaxSockets] /\ timers' \in [Categories -> Nat]
       /\ routes' = Followed("linear")' \union Followed("spot")' /\ routes' \subseteq Topics
  BY <1>4, <1>7, UpFacts DEF UpInv, UpTypes
<1>12. \A r \in DOMAIN sockets : q[r].category = sockets[r].category
  BY <1>1, <1>6
<1>13. UpTypes' /\ UpstreamServes'
  BY <1>3, <1>6, <1>8, <1>9, <1>10, <1>11, <1>12, SocketsChange
<1>14. ClientTypes' BY <1>4 DEF UpInv, ClientTypes
<1>15. QED BY <1>13, <1>14 DEF UpInv

\* A client lets go of topics: what nobody follows any more is unsubscribed.
LEMMA UnfollowServes ==
    ASSUME UpInv, NEW c \in Clients, NEW dropped \in SUBSET Topics,
           follows' = [follows EXCEPT ![c] = @ \ dropped], HandleLastUnsubscribe(dropped),
           timers' = timers
    PROVE  UpTypes' /\ UpstreamServes'
<1>1. PICK gone \in SUBSET Topics :
          gone = { t \in dropped : \A d \in Clients : t \notin follows'[d] }
  OBVIOUS
<1>2. PICK kept : kept = [s \in DOMAIN sockets |->
                            IF \E k \in Categories : s = current[k] /\ IsOpen(k)
                            THEN [sockets[s] EXCEPT !.streams = @ \ gone] ELSE sockets[s]]
  OBVIOUS
<1>3. PICK spot : spot = current["spot"] OBVIOUS
<1>4. /\ routes' = routes \ gone
      /\ \/ /\ \A t \in routes' : CategoryOf[t] # "spot"
            /\ spot # None /\ sockets' = [kept EXCEPT ![spot].phase = "closing"]
            /\ current' = [current EXCEPT !["spot"] = None]
         \/ sockets' = kept /\ current' = current
  BY <1>1, <1>2, <1>3 DEF HandleLastUnsubscribe
<1>5. ASSUME NEW j PROVE Followed(j)' = Followed(j) \ gone
  <2>1. \A d \in Clients : follows'[d] = IF d = c THEN follows[d] \ dropped ELSE follows[d]
    BY DEF UpInv, ClientTypes
  <2>2. ASSUME NEW t \in Topics
        PROVE  (\E d \in Clients : t \in follows'[d])
                 <=> (t \notin gone /\ \E d \in Clients : t \in follows[d])
    <3>1. CASE \E d \in Clients : t \in follows'[d] BY <1>1, <2>1, <3>1
    <3>2. CASE t \notin gone /\ \E d \in Clients : t \in follows[d] BY <1>1, <2>1, <3>2
    <3>3. QED BY <3>1, <3>2
  <2>3. QED BY <2>2 DEF Followed
<1>6. routes' = Followed("linear")' \union Followed("spot")' /\ routes' \subseteq Topics
  BY <1>4, <1>5, UpFacts DEF UpInv, UpTypes
<1>7. \A s \in DOMAIN sockets : sockets[s] \in Socket BY SocketPlaces DEF UpInv
<1>8. /\ kept \in [DOMAIN sockets -> Socket]
      /\ \A s \in DOMAIN sockets :
            /\ kept[s].category = sockets[s].category /\ kept[s].phase = sockets[s].phase
            /\ kept[s].streams \subseteq sockets[s].streams
            /\ (\E k \in Categories : s = current[k] /\ IsOpen(k)) =>
                   kept[s].streams = sockets[s].streams \ gone
  <2> SUFFICES ASSUME NEW s \in DOMAIN sockets
               PROVE  /\ kept[s] \in Socket
                      /\ kept[s].category = sockets[s].category /\ kept[s].phase = sockets[s].phase
                      /\ kept[s].streams \subseteq sockets[s].streams
                      /\ (\E k \in Categories : s = current[k] /\ IsOpen(k)) =>
                             kept[s].streams = sockets[s].streams \ gone
    BY <1>2
  <2>1. CASE \E k \in Categories : s = current[k] /\ IsOpen(k)
    <3>1. kept[s] = [sockets[s] EXCEPT !.streams = @ \ gone] BY <1>2, <2>1
    <3>2. QED BY <1>7, <3>1 DEF Socket
  <2>2. CASE ~\E k \in Categories : s = current[k] /\ IsOpen(k)
    <3>1. kept[s] = sockets[s] BY <1>2, <2>2
    <3>2. QED BY <1>7, <2>2, <3>1
  <2>3. QED BY <2>1, <2>2
\* What the sockets that remain current stream.
<1>9. ASSUME NEW j \in Categories, current[j] # None
      PROVE  /\ current[j] \in DOMAIN sockets /\ kept[current[j]].phase # "gone"
             /\ kept[current[j]].phase = "open" => kept[current[j]].streams = Followed(j)'
  <2>1. current[j] \in DOMAIN sockets /\ kept[current[j]].phase = sockets[current[j]].phase
    BY <1>8, <1>9, UpFacts
  <2>2. CASE sockets[current[j]].phase = "open"
    <3>1. IsOpen(j) BY <1>9, <2>2 DEF IsOpen
    <3>2. kept[current[j]].streams = sockets[current[j]].streams \ gone BY <1>8, <2>1, <3>1
    <3>3. QED BY <1>5, <1>9, <2>1, <2>2, <3>2, UpFacts
  <2>3. QED BY <1>9, <2>1, <2>2, UpFacts
<1>10. CASE sockets' = kept /\ current' = current
  <2>1. \A j \in Categories : Followed(j)' # {} => current'[j] # None \/ timers'[j] > 0
    BY <1>5, <1>10, UpFacts
  <2>2. \A s \in DOMAIN sockets : kept[s].phase = "open" /\ kept[s].streams # {} =>
            s = current'[kept[s].category]
    BY <1>8, <1>10, UpFacts
  <2>3. current' \in [Categories -> 0..MaxSockets] /\ timers' \in [Categories -> Nat]
    BY <1>10 DEF UpInv, UpTypes
  <2>4. QED BY <1>6, <1>8, <1>9, <1>10, <2>1, <2>2, <2>3, SocketsChange
<1>11. CASE /\ \A t \in routes' : CategoryOf[t] # "spot"
            /\ spot # None /\ sockets' = [kept EXCEPT ![spot].phase = "closing"]
            /\ current' = [current EXCEPT !["spot"] = None]
  <2>1. spot \in DOMAIN sockets /\ sockets[spot].category = "spot"
    BY <1>3, <1>11, UpFacts, GatewayFacts
  <2>2. PICK q : q = sockets' OBVIOUS
  <2>3. /\ q \in [DOMAIN sockets -> Socket] /\ q[spot].phase = "closing"
        /\ q[spot].category = kept[spot].category
        /\ \A s \in DOMAIN sockets \ {spot} : q[s] = kept[s]
    BY <1>8, <1>11, <2>1, <2>2 DEF Socket
  <2>4. /\ current' \in [Categories -> 0..MaxSockets] /\ current'["spot"] = None
        /\ \A j \in Categories \ {"spot"} : current'[j] = current[j]
        /\ timers' \in [Categories -> Nat]
    BY <1>11, GatewayFacts DEF UpInv, UpTypes, None
  <2>5. Followed("spot")' = {}
    <3>1. \A t \in Followed("spot")' : CategoryOf[t] = "spot" BY DEF Followed
    <3>2. QED BY <1>6, <1>11, <3>1
  <2>6. ASSUME NEW j \in Categories, current'[j] # None
        PROVE  /\ current'[j] = current[j] /\ q[current[j]].phase # "gone"
               /\ q[current[j]].phase = "open" => q[current[j]].streams = Followed(j)'
    <3>1. j # "spot" /\ current'[j] = current[j] BY <2>4, <2>6
    <3>2. current[j] # spot BY <2>1, <2>6, <3>1, UpFacts
    <3>3. current[j] \in DOMAIN sockets BY <2>6, <3>1, UpFacts
    <3>4. q[current[j]] = kept[current[j]] BY <2>3, <3>2, <3>3
    <3>5. QED BY <1>9, <2>6, <3>1, <3>4
  <2>7. ASSUME NEW j \in Categories, Followed(j)' # {}
        PROVE  current'[j] # None \/ timers'[j] > 0
    BY <1>5, <2>4, <2>5, <2>7, UpFacts
  <2>8. ASSUME NEW s \in DOMAIN sockets, q[s].phase = "open", q[s].streams # {}
        PROVE  s = current'[q[s].category]
    <3>1. s # spot /\ q[s] = kept[s] BY <2>3, <2>8
    <3>2. s = current[q[s].category] BY <1>8, <2>8, <3>1, UpFacts
    <3>3. q[s].category \in Categories BY <2>3 DEF Socket
    <3>4. q[s].category # "spot" BY <1>3, <3>1, <3>2
    <3>5. QED BY <2>4, <3>2, <3>3, <3>4
  <2>9. \A s \in DOMAIN sockets : q[s].category = sockets[s].category BY <1>8, <2>1, <2>3
  <2>10. QED BY <1>6, <2>2, <2>3, <2>4, <2>6, <2>7, <2>8, <2>9, SocketsChange
<1>12. QED BY <1>4, <1>10, <1>11

LEMMA UnsubscribeServes ==
    ASSUME UpInv, NEW c \in Clients, NEW t \in Topics, Unsubscribe(c, t)
    PROVE  UpInv'
<1>1. /\ follows' = [follows EXCEPT ![c] = @ \ {t}] /\ HandleLastUnsubscribe({t})
      /\ clients' = clients /\ timers' = timers
  BY DEF Unsubscribe
<1>2. PICK dropped \in SUBSET Topics : dropped = {t} OBVIOUS
<1>3. UpTypes' /\ UpstreamServes' BY <1>1, <1>2, UnfollowServes
<1>4. ClientTypes' BY <1>1 DEF UpInv, ClientTypes
<1>5. QED BY <1>3, <1>4 DEF UpInv

LEMMA DisconnectServes ==
    ASSUME UpInv, NEW c \in Clients, Disconnect(c)
    PROVE  UpInv'
<1>1. PICK dropped \in SUBSET Topics : dropped = follows[c] BY DEF UpInv, ClientTypes
<1>2. /\ follows' = [follows EXCEPT ![c] = {}] /\ HandleLastUnsubscribe(dropped)
      /\ clients' = [clients EXCEPT ![c] = "closed"] /\ timers' = timers
  BY <1>1 DEF Disconnect
<1>3. follows' = [follows EXCEPT ![c] = @ \ dropped]
  BY <1>1, <1>2 DEF UpInv, ClientTypes
<1>4. UpTypes' /\ UpstreamServes' BY <1>2, <1>3, UnfollowServes
<1>5. ClientTypes' BY <1>2 DEF UpInv, ClientTypes
<1>6. QED BY <1>4, <1>5 DEF UpInv

\* A socket is lost: its close event is to come.
LEMMA LoseServes ==
    ASSUME UpInv, NEW s \in DOMAIN sockets, Lose(s)
    PROVE  UpInv'
<1>1. PICK q : q = sockets' OBVIOUS
<1>2. /\ q = [sockets EXCEPT ![s].phase = "closing"]
      /\ UNCHANGED <<clients, follows, routes, current, timers>>
  BY <1>1 DEF Lose
<1>3. sockets \in [DOMAIN sockets -> Socket] BY SocketPlaces DEF UpInv, UpTypes
<1>4. /\ q \in [DOMAIN sockets -> Socket]
      /\ q[s].category = sockets[s].category /\ q[s].phase = "closing"
      /\ \A r \in DOMAIN sockets \ {s} : q[r] = sockets[r]
  BY <1>2, <1>3 DEF Socket
<1>5. \A j : Followed(j)' = Followed(j) BY <1>2 DEF Followed
<1>6. ASSUME NEW j \in Categories, current'[j] # None
      PROVE  /\ current'[j] = current[j] /\ q[current[j]].phase # "gone"
             /\ q[current[j]].phase = "open" => q[current[j]].streams = Followed(j)'
  <2>1. current'[j] = current[j] /\ current[j] \in DOMAIN sockets BY <1>2, <1>6, UpFacts
  <2>2. CASE current[j] = s BY <1>4, <2>1, <2>2
  <2>3. CASE current[j] # s BY <1>2, <1>4, <1>5, <1>6, <2>1, <2>3, UpFacts
  <2>4. QED BY <2>2, <2>3
<1>7. \A j \in Categories : Followed(j)' # {} => current'[j] # None \/ timers'[j] > 0
  BY <1>2, <1>5, UpFacts
<1>8. \A r \in DOMAIN sockets : q[r].phase = "open" /\ q[r].streams # {} => r = current'[q[r].category]
  BY <1>2, <1>4, UpFacts
<1>9. /\ current' \in [Categories -> 0..MaxSockets] /\ timers' \in [Categories -> Nat]
      /\ routes' = Followed("linear")' \union Followed("spot")' /\ routes' \subseteq Topics
  BY <1>2, <1>5, UpFacts DEF UpInv, UpTypes
<1>10. \A r \in DOMAIN sockets : q[r].category = sockets[r].category BY <1>4
<1>11. UpTypes' /\ UpstreamServes'
  BY <1>1, <1>4, <1>6, <1>7, <1>8, <1>9, <1>10, SocketsChange
<1>12. ClientTypes' BY <1>2 DEF UpInv, ClientTypes
<1>13. QED BY <1>11, <1>12 DEF UpInv

\* A socket has gone; if it was that of its category, a timer is started.
LEMMA CloseServes ==
    ASSUME UpInv, NEW s \in DOMAIN sockets, HandleClose(s)
    PROVE  UpInv'
<1>1. PICK k \in Categories : k = sockets[s].category
  BY SocketPlaces DEF UpInv, Socket
<1>2. PICK q : q = sockets' OBVIOUS
<1>3. /\ sockets[s].phase = "closing" /\ q = [sockets EXCEPT ![s].phase = "gone"]
      /\ UNCHANGED <<clients, follows, routes>>
      /\ \/ /\ s = current[k] /\ current' = [current EXCEPT ![k] = None]
            /\ timers' = [timers EXCEPT ![k] = @ + 1]
         \/ s # current[k] /\ current' = current /\ timers' = timers
  BY <1>1, <1>2 DEF HandleClose
<1>4. sockets \in [DOMAIN sockets -> Socket] BY SocketPlaces DEF UpInv, UpTypes
<1>5. /\ q \in [DOMAIN sockets -> Socket]
      /\ q[s].category = k /\ q[s].phase = "gone"
      /\ \A r \in DOMAIN sockets \ {s} : q[r] = sockets[r]
  BY <1>1, <1>3, <1>4 DEF Socket
<1>6. \A j : Followed(j)' = Followed(j) BY <1>3 DEF Followed
<1>7. /\ current' \in [Categories -> 0..MaxSockets] /\ timers' \in [Categories -> Nat]
      /\ \A j \in Categories \ {k} : current'[j] = current[j] /\ timers'[j] = timers[j]
      /\ \/ s = current[k] /\ current'[k] = None /\ timers'[k] > 0
         \/ s # current[k] /\ current'[k] = current[k] /\ timers'[k] = timers[k]
  <2>1. CASE s = current[k]
    <3>1. current' = [current EXCEPT ![k] = None] /\ timers' = [timers EXCEPT ![k] = @ + 1]
      BY <1>3, <2>1
    <3>2. current \in [Categories -> 0..MaxSockets] /\ timers \in [Categories -> Nat]
      BY DEF UpInv, UpTypes
    <3>3. None \in 0..MaxSockets BY GatewayFacts
    <3>4. QED BY <2>1, <3>1, <3>2, <3>3
  <2>2. CASE s # current[k] BY <1>3, <2>2 DEF UpInv, UpTypes
  <2>3. QED BY <2>1, <2>2
<1>8. ASSUME NEW j \in Categories, current'[j] # None
      PROVE  /\ current'[j] = current[j] /\ q[current[j]].phase # "gone"
             /\ q[current[j]].phase = "open" => q[current[j]].streams = Followed(j)'
  <2>1. current'[j] = current[j] /\ current[j] \in DOMAIN sockets
        /\ sockets[current[j]].category = j
    BY <1>7, <1>8, UpFacts
  <2>2. current[j] # s
    <3>1. CASE j = k BY <1>7, <1>8, <3>1
    <3>2. CASE j # k BY <1>1, <2>1, <3>2
    <3>3. QED BY <3>1, <3>2
  <2>3. QED BY <1>5, <1>6, <1>8, <2>1, <2>2, UpFacts
<1>9. \A j \in Categories : Followed(j)' # {} => current'[j] # None \/ timers'[j] > 0
  BY <1>6, <1>7, UpFacts
<1>10. ASSUME NEW r \in DOMAIN sockets, q[r].phase = "open", q[r].streams # {}
       PROVE  r = current'[q[r].category]
  <2>1. r # s /\ q[r] = sockets[r] BY <1>5, <1>10
  <2>2. r = current[q[r].category] BY <1>10, <2>1, UpFacts
  <2>3. q[r].category \in Categories BY <1>5 DEF Socket
  <2>4. QED BY <1>7, <2>1, <2>2, <2>3
<1>11. routes' = Followed("linear")' \union Followed("spot")' /\ routes' \subseteq Topics
  BY <1>3, <1>6, UpFacts DEF UpInv, UpTypes
<1>12. \A r \in DOMAIN sockets : q[r].category = sockets[r].category BY <1>1, <1>5
<1>13. UpTypes' /\ UpstreamServes'
  BY <1>2, <1>5, <1>7, <1>8, <1>9, <1>10, <1>11, <1>12, SocketsChange
<1>14. ClientTypes' BY <1>3 DEF UpInv, ClientTypes
<1>15. QED BY <1>13, <1>14 DEF UpInv

LEMMA UpInit == Init => UpInv
<1> SUFFICES ASSUME Init PROVE UpInv OBVIOUS
<1> DEFINE first == [category |-> "linear", phase |-> "connecting", streams |-> {}]
<1>1. sockets = <<first>> /\ first \in Socket BY GatewayFacts DEF Init, Socket
<1>2. sockets \in Seq(Socket) /\ Len(sockets) = 1 /\ DOMAIN sockets = {1} /\ sockets[1] = first
  <2>1. sockets \in Seq(Socket) /\ Len(sockets) = 1 /\ sockets[1] = first BY <1>1
  <2>2. DOMAIN sockets = 1..1 BY <2>1, LenProperties
  <2>3. QED BY <2>1, <2>2
<1>3. ClientTypes BY DEF Init, ClientTypes
<1>4. \A j : Followed(j) = {} BY DEF Init, Followed
<1>5. /\ current = [k \in Categories |-> IF k = "linear" THEN 1 ELSE None]
      /\ routes = {} /\ timers = [k \in Categories |-> 0]
  BY DEF Init
<1>6. current \in [Categories -> 0..MaxSockets] /\ 1 <= MaxSockets BY <1>5, GatewayFacts
<1>7. CurrentIsOwn BY <1>2, <1>5 DEF CurrentIsOwn
<1>8. UpTypes BY <1>2, <1>5, <1>6, <1>7 DEF UpTypes
<1>9. UpstreamServes
  <2>1. \A k \in Categories : ~IsOpen(k) BY <1>2, <1>5 DEF IsOpen
  <2>2. QED BY <1>2, <1>4, <1>5, <2>1 DEF UpstreamServes
<1>10. QED BY <1>3, <1>8, <1>9 DEF UpInv

LEMMA UpStep == UpInv /\ [Next]_vars => UpInv'
<1> SUFFICES ASSUME UpInv, [Next]_vars PROVE UpInv'
  OBVIOUS
<1>1. ASSUME UNCHANGED <<clients, follows, upVars>> PROVE UpInv'
  <2>1. UNCHANGED <<clients, follows, routes, sockets, current, timers>> BY <1>1 DEF upVars
  <2>2. ClientTypes' /\ UpTypes' BY <2>1 DEF UpInv, ClientTypes, UpTypes, CurrentIsOwn
  <2>3. UpstreamServes' BY <2>1 DEF UpInv, UpstreamServes, IsOpen, Followed
  <2>4. QED BY <2>2, <2>3 DEF UpInv
<1>2. ASSUME NEW id \in Ids, Delete(id) \/ \E by \in Clients \union {"rest"} : Execute(by, id)
      PROVE  UpInv'
  BY <1>1, <1>2 DEF Delete, Execute
<1>3. ASSUME NEW r \in DOMAIN runs, NEW success \in BOOLEAN, Finish(r, success) PROVE UpInv'
  BY <1>1, <1>3 DEF Finish
<1>4. ASSUME NEW c \in Clients, NEW id \in Ids, Stop(c, id) PROVE UpInv'
  BY <1>1, <1>4 DEF Stop
<1>5. ASSUME NEW c \in Clients, Connect(c) PROVE UpInv'
  <2>1. clients' = [clients EXCEPT ![c] = "open"] /\ follows' = follows
        /\ UNCHANGED <<routes, sockets, current, timers>>
    BY <1>5 DEF Connect, upVars
  <2>2. ClientTypes' /\ UpTypes' BY <2>1 DEF UpInv, ClientTypes, UpTypes, CurrentIsOwn
  <2>3. UpstreamServes' BY <2>1 DEF UpInv, UpstreamServes, IsOpen, Followed
  <2>4. QED BY <2>2, <2>3 DEF UpInv
<1>6. ASSUME NEW c \in Clients, Disconnect(c) PROVE UpInv' BY <1>6, DisconnectServes
<1>7. ASSUME NEW c \in Clients, NEW t \in Topics, Subscribe(c, t) PROVE UpInv'
  BY <1>7, SubscribeServes
<1>8. ASSUME NEW c \in Clients, NEW t \in Topics, Unsubscribe(c, t) PROVE UpInv'
  BY <1>8, UnsubscribeServes
<1>9. ASSUME NEW s \in DOMAIN sockets, HandleOpen(s) PROVE UpInv' BY <1>9, OpenServes
<1>10. ASSUME NEW s \in DOMAIN sockets, Lose(s) PROVE UpInv' BY <1>10, LoseServes
<1>11. ASSUME NEW s \in DOMAIN sockets, HandleClose(s) PROVE UpInv' BY <1>11, CloseServes
<1>12. ASSUME NEW k \in Categories, Reconnect(k) PROVE UpInv' BY <1>12, ReconnectServes
<1>13. CASE UNCHANGED vars BY <1>1, <1>13 DEF vars
<1>14. QED
  BY <1>2, <1>3, <1>4, <1>5, <1>6, <1>7, <1>8, <1>9, <1>10, <1>11, <1>12, <1>13 DEF Next

LEMMA GatewayIsSound == Spec => [](RunInv /\ UpInv)
<1>1. Init => RunInv /\ UpInv BY RunInit, UpInit
<1>2. RunInv /\ UpInv /\ [Next]_vars => (RunInv /\ UpInv)' BY RunStep, UpStep
<1>3. QED BY <1>1, <1>2, PTL DEF Spec

\* The gateway keeps its types, and the socket of a category is one of its own
\* that has not gone (ensureBybitSocket() and the close handler, gateway.ts).
THEOREM GatewayTypes == Spec => []TypeOK
<1>1. RunInv /\ UpInv => TypeOK BY TypesSplit DEF RunInv, UpInv
<1>2. QED BY <1>1, GatewayIsSound, PTL

\* The tokens of the gateway are sound for any number of clients, ids and runs:
\* none outlives its run, and the result of a run that was superseded, stopped or
\* deleted is not used, unless an older run of the id took its token away
\* (cancellation-registry.ts, the clean-up in gateway.ts and routes/execute.ts).
THEOREM TokensHold == Spec => []TokensAreSound
<1>1. RunInv /\ UpInv => TokensAreSound BY TypesSplit DEF RunInv, UpInv, TokensAreSound
<1>2. QED BY <1>1, GatewayIsSound, PTL

\* However often clients come, go, and change what they follow, and sockets open,
\* break and reconnect: what is followed is what the open socket of its category
\* streams, and without one a handshake, a close event or a timer is to come
\* (handleSubscribe, handleLastUnsubscribe and the Bybit handlers, gateway.ts).
THEOREM UpstreamAlwaysServes == Spec => []UpstreamServes
<1>1. RunInv /\ UpInv => UpstreamServes BY DEF UpInv
<1>2. QED BY <1>1, GatewayIsSound, PTL

-----------------------------------------------------------------------------
(* Telegram                                                                *)

\* The members a chat has: all of a group, and itself otherwise.
MembersOf(chat) == {m \in Members : IsGroup(chat) \/ m = chat}

\* What a known chat is in the file.
Sort(chat) == IF IsGroup(chat) THEN "group" ELSE "private"

\* The file says of each member what the member was shown, and of each chat
\* the kind it was met as.
Mirrors(file, shown) ==
    /\ file \in Files /\ shown \in [Chats -> [Members -> SUBSET Types]]
    /\ \A c \in Chats :
          /\ file[c].type \in {"none", Sort(c)}
          /\ \A m \in MembersOf(c) : shown[c][m] = Subscription(file, c, m)

LEMMA NobodyIsSubscriptions == Nobody \in Subscriptions /\ DOMAIN Nobody = {}
<1>1. Nobody \in [{} -> SUBSET Types] BY DEF Nobody
<1>2. QED BY <1>1 DEF Subscriptions, Nobody

\* What memberSubscriptions is after a member's entry was set.
LEMMA ChosenIsSet ==
    ASSUME NEW subs \in Subscriptions, NEW member \in Members, NEW types \in SUBSET Types
    PROVE  /\ Chosen(subs, member, types) \in Subscriptions
           /\ DOMAIN Chosen(subs, member, types) = DOMAIN subs \union {member}
           /\ Chosen(subs, member, types)[member] = types
           /\ \A m \in DOMAIN subs \ {member} : Chosen(subs, member, types)[m] = subs[m]
<1>1. PICK known \in SUBSET Members : subs \in [known -> SUBSET Types]
  BY DEF Subscriptions
<1>2. Chosen(subs, member, types) \in [known \union {member} -> SUBSET Types]
  BY <1>1 DEF Chosen
<1>3. known \union {member} \in SUBSET Members BY <1>1
<1>4. Chosen(subs, member, types) \in Subscriptions BY <1>2, <1>3 DEF Subscriptions
<1>5. QED BY <1>1, <1>4 DEF Chosen

\* What a member receives is some of the kinds there are.
LEMMA SubscriptionIsTyped ==
    ASSUME NEW file \in Files, NEW c \in Chats, NEW m \in Members
    PROVE  Subscription(file, c, m) \in SUBSET Types
<1>1. file[c].subs \in Subscriptions BY DEF Files
<1>2. PICK known \in SUBSET Members : file[c].subs \in [known -> SUBSET Types]
  BY <1>1 DEF Subscriptions
<1>3. QED BY <1>2 DEF Subscription

\* To set an entry of a known chat changes what that member receives, and
\* nothing else (memberSubscribe() and memberUnsubscribe() write the same file).
LEMMA PutSetsOne ==
    ASSUME NEW file \in Files, NEW chat \in Chats, NEW member \in Members,
           NEW types \in SUBSET Types, file[chat].type # "none"
    PROVE  /\ Put(file, chat, member, types) \in Files
           /\ \A c \in Chats :
                 /\ Put(file, chat, member, types)[c].type = file[c].type
                 /\ Put(file, chat, member, types)[c].linked = file[c].linked
                 /\ \A m \in Members :
                       Subscription(Put(file, chat, member, types), c, m) =
                           IF c = chat /\ m = member THEN types ELSE Subscription(file, c, m)
<1> DEFINE new == Put(file, chat, member, types)
           entry == Chosen(file[chat].subs, member, types)
<1>1. /\ file[chat] \in [type : {"none", "private", "group"}, linked : BOOLEAN,
                          subs : Subscriptions]
      /\ file[chat].subs \in Subscriptions
  BY DEF Files
<1>2. /\ entry \in Subscriptions
      /\ DOMAIN entry = DOMAIN file[chat].subs \union {member}
      /\ entry[member] = types
      /\ \A m \in DOMAIN file[chat].subs \ {member} : entry[m] = file[chat].subs[m]
  BY <1>1, ChosenIsSet
<1> HIDE DEF entry
<1>3. new = [file EXCEPT ![chat].subs = entry]
  BY DEF Put, entry
<1>4. new[chat] = [type |-> file[chat].type, linked |-> file[chat].linked, subs |-> entry]
  BY <1>1, <1>3 DEF Files
<1>5. \A c \in Chats \ {chat} : new[c] = file[c]
  BY <1>3 DEF Files
<1>6. new \in Files
  BY <1>1, <1>2, <1>3 DEF Files
<1> HIDE DEF new
<1>7. ASSUME NEW c \in Chats, NEW m \in Members
      PROVE  Subscription(new, c, m) =
                 IF c = chat /\ m = member THEN types ELSE Subscription(file, c, m)
  <2>1. CASE c = chat
    BY <2>1, <1>2, <1>4 DEF Subscription
  <2>2. CASE c # chat
    BY <2>2, <1>5 DEF Subscription
  <2>3. QED BY <2>1, <2>2
<1>8. ASSUME NEW c \in Chats
      PROVE  new[c].type = file[c].type /\ new[c].linked = file[c].linked
  <2>1. CASE c = chat BY <2>1, <1>4
  <2>2. CASE c # chat BY <2>2, <1>5
  <2>3. QED BY <2>1, <2>2
<1>9. QED BY <1>6, <1>7, <1>8 DEF new

\* A member is set, and is shown what was set.
LEMMA PutMirrors ==
    ASSUME NEW file, NEW shown, Mirrors(file, shown),
           NEW chat \in Chats, NEW member \in MembersOf(chat),
           NEW types \in SUBSET Types, file[chat].type # "none"
    PROVE  Mirrors(Put(file, chat, member, types), [shown EXCEPT ![chat][member] = types])
<1> DEFINE new == Put(file, chat, member, types)
           told == [shown EXCEPT ![chat][member] = types]
<1>1. member \in Members /\ file \in Files /\ shown \in [Chats -> [Members -> SUBSET Types]]
  BY DEF MembersOf, Mirrors
<1>2. /\ new \in Files
      /\ \A c \in Chats : new[c].type = file[c].type
      /\ \A c \in Chats, m \in Members :
            Subscription(new, c, m) =
                IF c = chat /\ m = member THEN types ELSE Subscription(file, c, m)
  BY <1>1, PutSetsOne
<1>3. told \in [Chats -> [Members -> SUBSET Types]]
  BY <1>1
<1>4. \A c \in Chats, m \in Members :
         told[c][m] = IF c = chat /\ m = member THEN types ELSE shown[c][m]
  BY <1>1
<1> HIDE DEF new, told
<1>5. QED
  BY <1>2, <1>3, <1>4 DEF Mirrors, MembersOf, new, told

\* A chat is only ever linked or unlinked: what its members receive stays.
LEMMA LinkMirrors ==
    ASSUME NEW file, NEW shown, Mirrors(file, shown),
           NEW chat \in Chats, NEW linked \in BOOLEAN
    PROVE  Mirrors([file EXCEPT ![chat].linked = linked], shown)
<1> DEFINE new == [file EXCEPT ![chat].linked = linked]
<1>1. file \in Files BY DEF Mirrors
<1>2. new \in Files BY <1>1 DEF Files
<1>3. ASSUME NEW c \in Chats PROVE new[c].type = file[c].type /\ new[c].subs = file[c].subs
  BY <1>1 DEF Files
<1> HIDE DEF new
<1>4. \A c \in Chats, m \in Members : Subscription(new, c, m) = Subscription(file, c, m)
  BY <1>3 DEF Subscription
<1>5. QED BY <1>2, <1>3, <1>4 DEF Mirrors, MembersOf, new

\* A chat that is met for the first time: a private one receives everything, a
\* group nothing (addChat() and the defaults of getMemberSubscription()).
LEMMA AddMirrors ==
    ASSUME Mirrors(chats, wants), NEW chat \in Chats
    PROVE  /\ Mirrors(AddChat(chats, chat), Greeted(chat))
           /\ AddChat(chats, chat)[chat].type # "none"
<1>1. chats \in Files /\ wants \in [Chats -> [Members -> SUBSET Types]]
  BY DEF Mirrors
<1>2. CASE Known(chat)
  BY <1>2 DEF AddChat, Greeted, Known
<1>3. CASE ~Known(chat)
  <2> DEFINE new == AddChat(chats, chat)
             told == Greeted(chat)
  <2>1. new = [chats EXCEPT ![chat] = NewChat(Sort(chat))]
    BY <1>3 DEF AddChat, Known, Sort
  <2>2. NewChat(Sort(chat)) \in [type : {"none", "private", "group"}, linked : BOOLEAN,
                                 subs : Subscriptions]
    BY NobodyIsSubscriptions DEF NewChat, Sort
  <2>3. new \in Files BY <1>1, <2>1, <2>2 DEF Files
  <2>4. new[chat].type = Sort(chat) /\ new[chat].subs = Nobody
    BY <1>1, <2>1 DEF Files, NewChat
  <2>5. \A c \in Chats \ {chat} : new[c] = chats[c]
    BY <1>1, <2>1 DEF Files
  <2>6. told \in [Chats -> [Members -> SUBSET Types]]
    BY <1>1 DEF Greeted
  <2>7. \A c \in Chats \ {chat} : told[c] = wants[c]
    BY <1>1 DEF Greeted
  <2>8. \A m \in Members : told[chat][m] = IF IsGroup(chat) THEN wants[chat][m] ELSE Types
    BY <1>1, <1>3 DEF Greeted
  <2>9. \A m \in MembersOf(chat) : wants[chat][m] = {}
    BY <1>3 DEF Mirrors, Subscription, Known
  <2> HIDE DEF new, told
  <2>10. \A m \in Members : Subscription(new, chat, m) = IF IsGroup(chat) THEN {} ELSE Types
    BY <2>4, NobodyIsSubscriptions DEF Subscription, Sort
  <2>11. \A c \in Chats \ {chat}, m \in Members :
            Subscription(new, c, m) = Subscription(chats, c, m)
    BY <2>5 DEF Subscription
  <2>12. ASSUME NEW c \in Chats
         PROVE  /\ new[c].type \in {"none", Sort(c)}
                /\ \A m \in MembersOf(c) : told[c][m] = Subscription(new, c, m)
    <3>1. CASE c = chat
      BY <3>1, <2>4, <2>8, <2>9, <2>10 DEF MembersOf
    <3>2. CASE c # chat
      BY <3>2, <2>5, <2>7, <2>11 DEF Mirrors, MembersOf
    <3>3. QED BY <3>1, <3>2
  <2>13. new[chat].type # "none" BY <2>4 DEF Sort
  <2>14. QED BY <2>3, <2>6, <2>12, <2>13 DEF Mirrors, new, told
<1>4. QED BY <1>2, <1>3

LEMMA MemberIsOfChat ==
    ASSUME NEW user \in Users, NEW chat \in Chats
    PROVE  MemberOf(user, chat) \in MembersOf(chat)
BY DEF MemberOf, MembersOf, Members

\* The buttons and the panel, on a known chat: whichever of the two primitives
\* they use, the member receives what it is shown.
LEMMA SetMirrors ==
    ASSUME NEW file, NEW shown, Mirrors(file, shown),
           NEW chat \in Chats, NEW member \in MembersOf(chat), file[chat].type # "none",
           NEW types \in SUBSET Types
    PROVE  /\ Mirrors(MemberSubscribe(file, chat, member, types),
                      [shown EXCEPT ![chat][member] = @ \union types])
           /\ Mirrors(MemberUnsubscribe(file, chat, member, types),
                      [shown EXCEPT ![chat][member] = @ \ types])
<1>1. /\ shown \in [Chats -> [Members -> SUBSET Types]]
      /\ member \in Members
      /\ shown[chat][member] = Subscription(file, chat, member)
      /\ Subscription(file, chat, member) \in SUBSET Types
  BY SubscriptionIsTyped DEF Mirrors, MembersOf
<1>2. Mirrors(Put(file, chat, member, Subscription(file, chat, member) \union types),
              [shown EXCEPT ![chat][member] = Subscription(file, chat, member) \union types])
  BY <1>1, PutMirrors
<1>3. Mirrors(Put(file, chat, member, Subscription(file, chat, member) \ types),
              [shown EXCEPT ![chat][member] = Subscription(file, chat, member) \ types])
  BY <1>1, PutMirrors
<1>4. /\ [shown EXCEPT ![chat][member] = @ \union types] =
             [shown EXCEPT ![chat][member] = Subscription(file, chat, member) \union types]
      /\ [shown EXCEPT ![chat][member] = @ \ types] =
             [shown EXCEPT ![chat][member] = Subscription(file, chat, member) \ types]
  BY <1>1
<1>5. QED BY <1>2, <1>3, <1>4 DEF MemberSubscribe, MemberUnsubscribe

\* What the panel sets is what the member receives, although it is written as
\* two differences (setMemberSubscriptions()).
LEMMA SetToMirrors ==
    ASSUME NEW file, NEW shown, Mirrors(file, shown),
           NEW chat \in Chats, NEW member \in MembersOf(chat), file[chat].type # "none",
           NEW types \in SUBSET Types
    PROVE  Mirrors(SetTo(file, chat, member, types), [shown EXCEPT ![chat][member] = types])
<1> DEFINE before == Subscription(file, chat, member)
           union == Put(file, chat, member, before \union (types \ before))
<1>1. /\ file \in Files /\ shown \in [Chats -> [Members -> SUBSET Types]]
      /\ member \in Members
      /\ shown[chat][member] = before
      /\ before \in SUBSET Types
  BY SubscriptionIsTyped DEF Mirrors, MembersOf
<1>2. /\ union \in Files
      /\ union[chat].type # "none"
      /\ Subscription(union, chat, member) = before \union types
      /\ Mirrors(union, [shown EXCEPT ![chat][member] = before \union types])
  <2>1. before \union (types \ before) = before \union types OBVIOUS
  <2>2. before \union types \in SUBSET Types BY <1>1
  <2> HIDE DEF before
  <2>3. Mirrors(union, [shown EXCEPT ![chat][member] = before \union types])
    BY <2>1, <2>2, PutMirrors
  <2>4. /\ union \in Files /\ union[chat].type # "none"
        /\ Subscription(union, chat, member) = before \union types
    BY <1>1, <2>1, <2>2, PutSetsOne
  <2>5. QED BY <2>3, <2>4
<1> HIDE DEF union
<1>3. CASE types \subseteq before /\ before \subseteq types
  <2>1. SetTo(file, chat, member, types) = file BY <1>3 DEF SetTo
  <2>a. types = before BY <1>3
  <2>b. types = shown[chat][member] BY <1>1, <2>a
  <2> HIDE DEF before
  <2>2. [shown EXCEPT ![chat][member] = types] = shown
    <3>1. [shown[chat] EXCEPT ![member] = types] = shown[chat] BY <1>1, <2>b
    <3>2. QED BY <1>1, <3>1
  <2>3. QED BY <2>1, <2>2
<1>4. CASE types \subseteq before /\ ~(before \subseteq types)
  <2>1. SetTo(file, chat, member, types) =
           Put(file, chat, member, before \ (before \ types))
    BY <1>4 DEF SetTo, MemberUnsubscribe
  <2>2. before \ (before \ types) = types BY <1>4
  <2>3. QED BY <2>1, <2>2, PutMirrors
<1>5. CASE ~(types \subseteq before) /\ before \subseteq types
  <2>1. SetTo(file, chat, member, types) = union
    BY <1>5 DEF SetTo, MemberSubscribe, union
  <2>2. before \union types = types BY <1>5
  <2>3. QED BY <1>2, <2>1, <2>2
<1>6. CASE ~(types \subseteq before) /\ ~(before \subseteq types)
  <2>1. SetTo(file, chat, member, types) =
           Put(union, chat, member, (before \union types) \ (before \ types))
    BY <1>2, <1>6 DEF SetTo, MemberSubscribe, MemberUnsubscribe, union
  <2>2. (before \union types) \ (before \ types) = types OBVIOUS
  <2>3. [[shown EXCEPT ![chat][member] = before \union types]
             EXCEPT ![chat][member] = types] = [shown EXCEPT ![chat][member] = types]
    BY <1>1
  <2> HIDE DEF before
  <2>4. Mirrors(Put(union, chat, member, types),
                [[shown EXCEPT ![chat][member] = before \union types]
                    EXCEPT ![chat][member] = types])
    BY <1>2, PutMirrors
  <2>5. QED BY <2>1, <2>2, <2>3, <2>4
<1>7. QED BY <1>3, <1>4, <1>5, <1>6

-----------------------------------------------------------------------------
(* The inductive invariant.                                                  *)

\* Of the bots that may still poll, the service has the only one, unless one
\* was stopped too early.
BotsAreKnown ==
    /\ bots \in Seq(Phases) /\ bot \in 0..Len(bots)
    /\ isRunning \in BOOLEAN /\ outlived \in BOOLEAN
    /\ isRunning = (bot # 0)
    /\ ~outlived => \A b \in DOMAIN bots : bots[b] # "ended" => b = bot

OperatorsAreKnown ==
    /\ controllers \subseteq Users /\ requests \subseteq Users
    /\ OperatorsAreGranted

ChatsInv == Mirrors(chats, wants) /\ OperatorsAreKnown /\ BotsAreKnown

LEMMA ChatsInvInit == ChatsInit => ChatsInv
<1> SUFFICES ASSUME ChatsInit PROVE ChatsInv OBVIOUS
<1>1. OperatorsAreKnown BY DEF ChatsInit, OperatorsAreKnown, OperatorsAreGranted
<1>2. BotsAreKnown
  <2>1. bots = <<>> /\ bot = 0 /\ isRunning = FALSE /\ outlived = FALSE BY DEF ChatsInit
  <2>2. bots \in Seq(Phases) /\ Len(bots) = 0 /\ DOMAIN bots = {} BY <2>1
  <2>3. isRunning \in BOOLEAN /\ outlived \in BOOLEAN BY <2>1
  <2>4. isRunning = (bot # 0) BY <2>1
  <2>5. bot \in 0..Len(bots) BY <2>1, <2>2
  <2>6. QED BY <2>2, <2>3, <2>4, <2>5 DEF BotsAreKnown
<1>3. Mirrors(chats, wants)
  <2>1. PICK legacy \in SUBSET {c \in Chats : KindOf[c] = "private"} :
          /\ chats = [c \in Chats |->
                IF c \in legacy
                THEN [type |-> "private", linked |-> TRUE, subs |-> Chosen(Nobody, c, Types)]
                ELSE NoChat]
          /\ wants = [c \in Chats |-> [m \in Members |-> IF c \in legacy THEN Types ELSE {}]]
    BY DEF ChatsInit
  <2>2. ASSUME NEW c \in legacy
        PROVE  /\ Chosen(Nobody, c, Types) \in Subscriptions
               /\ c \in DOMAIN Chosen(Nobody, c, Types)
               /\ Chosen(Nobody, c, Types)[c] = Types
               /\ ~IsGroup(c)
    <3>1. c \in Members BY DEF Members
    <3>2. Types \in SUBSET Types OBVIOUS
    <3>3. ~IsGroup(c) BY DEF IsGroup
    <3>4. Nobody \in Subscriptions BY NobodyIsSubscriptions
    <3>5. /\ Chosen(Nobody, c, Types) \in Subscriptions
          /\ DOMAIN Chosen(Nobody, c, Types) = DOMAIN Nobody \union {c}
          /\ Chosen(Nobody, c, Types)[c] = Types
      BY <3>1, <3>2, <3>4, ChosenIsSet
    <3>6. QED BY <3>3, <3>5
  <2>3. chats \in Files
    BY <2>1, <2>2, NobodyIsSubscriptions DEF Files, NoChat
  <2>4. wants \in [Chats -> [Members -> SUBSET Types]] BY <2>1
  <2>5. ASSUME NEW c \in Chats
        PROVE  /\ chats[c].type \in {"none", Sort(c)}
               /\ \A m \in MembersOf(c) : wants[c][m] = Subscription(chats, c, m)
    <3>1. CASE c \in legacy
      <4>1. chats[c] = [type |-> "private", linked |-> TRUE, subs |-> Chosen(Nobody, c, Types)]
        BY <2>1, <3>1
      <4>2. QED BY <2>1, <2>2, <3>1, <4>1 DEF Subscription, MembersOf, Sort
    <3>2. CASE c \notin legacy
      BY <2>1, <3>2 DEF NoChat, Subscription, MembersOf
    <3>3. QED BY <3>1, <3>2
  <2>6. QED BY <2>3, <2>4, <2>5 DEF Mirrors
<1>4. QED BY <1>1, <1>2, <1>3 DEF ChatsInv

\* The first use of a chat and a button in it are one step.
LEMMA ButtonMirrors ==
    ASSUME Mirrors(chats, wants), NEW user \in Users, NEW chat \in Chats,
           NEW types \in SUBSET Types
    PROVE  LET member == MemberOf(user, chat)
               file == AddChat(chats, chat)
           IN  /\ Mirrors(MemberSubscribe(file, chat, member, types),
                          [Greeted(chat) EXCEPT ![chat][member] = @ \union types])
               /\ Mirrors(MemberUnsubscribe(file, chat, member, types),
                          [Greeted(chat) EXCEPT ![chat][member] = @ \ types])
               /\ Greeted(chat) \in [Chats -> [Members -> SUBSET Types]]
               /\ member \in Members
               /\ Greeted(chat)[chat][member] = Subscription(file, chat, member)
<1>1. MemberOf(user, chat) \in MembersOf(chat) BY MemberIsOfChat
<1>2. /\ Mirrors(AddChat(chats, chat), Greeted(chat))
      /\ AddChat(chats, chat)[chat].type # "none"
  BY AddMirrors
<1>3. /\ Greeted(chat) \in [Chats -> [Members -> SUBSET Types]]
      /\ MemberOf(user, chat) \in Members
      /\ Greeted(chat)[chat][MemberOf(user, chat)] =
             Subscription(AddChat(chats, chat), chat, MemberOf(user, chat))
  BY <1>1, <1>2 DEF Mirrors, MembersOf
<1>4. QED BY <1>1, <1>2, <1>3, SetMirrors

LEMMA ToggleKeeps ==
    ASSUME Mirrors(chats, wants), NEW user \in Users, NEW chat \in Chats,
           NEW type \in Types, Toggle(user, chat, type)
    PROVE  Mirrors(chats, wants)'
<1> DEFINE member == MemberOf(user, chat)
           file == AddChat(chats, chat)
           told == Greeted(chat)
<1>1. {type} \in SUBSET Types OBVIOUS
<1>2. /\ Mirrors(MemberSubscribe(file, chat, member, {type}),
                 [told EXCEPT ![chat][member] = @ \union {type}])
      /\ Mirrors(MemberUnsubscribe(file, chat, member, {type}),
                 [told EXCEPT ![chat][member] = @ \ {type}])
      /\ told \in [Chats -> [Members -> SUBSET Types]]
      /\ member \in Members
      /\ told[chat][member] = Subscription(file, chat, member)
  BY <1>1, ButtonMirrors
<1>3. /\ chats' = Toggled(file, chat, member, type)
      /\ wants' = [told EXCEPT
            ![chat][member] = IF type \in @ THEN @ \ {type} ELSE @ \union {type}]
  BY DEF Toggle
<1> HIDE DEF member, file, told
<1>4. CASE type \in Subscription(file, chat, member)
  <2>1. chats' = MemberUnsubscribe(file, chat, member, {type})
    BY <1>3, <1>4 DEF Toggled
  <2>2. wants' = [told EXCEPT ![chat][member] = @ \ {type}]
    BY <1>2, <1>3, <1>4
  <2>3. QED BY <1>2, <2>1, <2>2 DEF Mirrors
<1>5. CASE type \notin Subscription(file, chat, member)
  <2>1. chats' = MemberSubscribe(file, chat, member, {type})
    BY <1>3, <1>5 DEF Toggled
  <2>2. wants' = [told EXCEPT ![chat][member] = @ \union {type}]
    BY <1>2, <1>3, <1>5
  <2>3. QED BY <1>2, <2>1, <2>2
<1>6. QED BY <1>4, <1>5

LEMMA ToggleAllKeeps ==
    ASSUME Mirrors(chats, wants), NEW user \in Users, NEW chat \in Chats,
           NEW on \in BOOLEAN, ToggleAll(user, chat, on)
    PROVE  Mirrors(chats, wants)'
<1> DEFINE member == MemberOf(user, chat)
           file == AddChat(chats, chat)
           told == Greeted(chat)
<1>1. Types \in SUBSET Types OBVIOUS
<1>2. /\ Mirrors(MemberSubscribe(file, chat, member, Types),
                 [told EXCEPT ![chat][member] = @ \union Types])
      /\ Mirrors(MemberUnsubscribe(file, chat, member, Types),
                 [told EXCEPT ![chat][member] = @ \ Types])
      /\ told \in [Chats -> [Members -> SUBSET Types]]
      /\ member \in Members
  BY <1>1, ButtonMirrors
<1>3. /\ chats' = IF on THEN MemberSubscribe(file, chat, member, Types)
                  ELSE MemberUnsubscribe(file, chat, member, Types)
      /\ wants' = [told EXCEPT ![chat][member] = IF on THEN Types ELSE {}]
  BY DEF ToggleAll
<1> HIDE DEF member, file, told
<1>4. told[chat][member] \union Types = Types /\ told[chat][member] \ Types = {}
  BY <1>2
<1>5. CASE on
  <2>1. wants' = [told EXCEPT ![chat][member] = @ \union Types] BY <1>2, <1>3, <1>4, <1>5
  <2>2. QED BY <1>2, <1>3, <1>5, <2>1
<1>6. CASE ~on
  <2>1. wants' = [told EXCEPT ![chat][member] = @ \ Types] BY <1>2, <1>3, <1>4, <1>6
  <2>2. QED BY <1>2, <1>3, <1>6, <2>1
<1>7. QED BY <1>5, <1>6

\* Every step on the chats leaves the file the mirror of what was shown.
LEMMA ChatStepMirrors ==
    ASSUME Mirrors(chats, wants), NEW user \in Users, NEW chat \in Chats,
           \/ StartCommand(user, chat)
           \/ \E type \in Types : Toggle(user, chat, type)
           \/ \E on \in BOOLEAN : ToggleAll(user, chat, on)
           \/ \E types \in SUBSET Types : SetMemberSubscriptions(user, chat, types)
           \/ \E linked \in BOOLEAN : LinkChat(chat, linked)
    PROVE  Mirrors(chats, wants)'
<1>1. CASE StartCommand(user, chat)
  <2>1. Mirrors(AddChat(chats, chat), Greeted(chat)) BY AddMirrors
  <2>2. (IsGroup(chat) \/ AddChat(chats, chat)[chat].linked) \in BOOLEAN OBVIOUS
  <2>3. /\ chats' = [AddChat(chats, chat) EXCEPT
              ![chat].linked = IsGroup(chat) \/ AddChat(chats, chat)[chat].linked]
        /\ wants' = Greeted(chat)
    BY <1>1 DEF StartCommand
  <2>4. QED BY <2>1, <2>2, <2>3, LinkMirrors
<1>2. CASE \E type \in Types : Toggle(user, chat, type)
  BY <1>2, ToggleKeeps
<1>3. CASE \E on \in BOOLEAN : ToggleAll(user, chat, on)
  BY <1>3, ToggleAllKeeps
<1>4. CASE \E types \in SUBSET Types : SetMemberSubscriptions(user, chat, types)
  <2>1. PICK types \in SUBSET Types : SetMemberSubscriptions(user, chat, types)
    BY <1>4
  <2>2. /\ chats[chat].type # "none"
        /\ chats' = SetTo(chats, chat, MemberOf(user, chat), types)
        /\ wants' = [wants EXCEPT ![chat][MemberOf(user, chat)] = types]
    BY <2>1 DEF SetMemberSubscriptions, Known
  <2>3. MemberOf(user, chat) \in MembersOf(chat) BY MemberIsOfChat
  <2>4. QED BY <2>2, <2>3, SetToMirrors
<1>5. CASE \E linked \in BOOLEAN : LinkChat(chat, linked)
  <2>1. PICK linked \in BOOLEAN : LinkChat(chat, linked) BY <1>5
  <2>2. chats' = [chats EXCEPT ![chat].linked = linked] /\ wants' = wants
    BY <2>1 DEF LinkChat
  <2>3. QED BY <2>2, LinkMirrors
<1>6. QED BY <1>1, <1>2, <1>3, <1>4, <1>5

LEMMA OperatorStep ==
    ASSUME OperatorsAreKnown, NEW user \in Users,
           Request(user) \/ Approve(user) \/ Deny(user) \/ RemoveController(user)
    PROVE  OperatorsAreKnown'
<1>1. CASE Request(user)
  BY <1>1 DEF Request, OperatorsAreKnown, OperatorsAreGranted
<1>2. CASE Approve(user)
  BY <1>2 DEF Approve, OperatorsAreKnown, OperatorsAreGranted
<1>3. CASE Deny(user)
  BY <1>3 DEF Deny, OperatorsAreKnown, OperatorsAreGranted
<1>4. CASE RemoveController(user)
  BY <1>4 DEF RemoveController, OperatorsAreKnown, OperatorsAreGranted
<1>5. QED BY <1>1, <1>2, <1>3, <1>4

\* What stop() leaves: of the bots there were, none but the outliving polls.
LEMMA StoppedLeavesNone ==
    ASSUME BotsAreKnown, bot # 0
    PROVE  /\ Stopped \in Seq(Phases) /\ Len(Stopped) = Len(bots)
           /\ (~outlived /\ bots[bot] # "launching") =>
                  \A b \in 1..Len(bots) : Stopped[b] = "ended"
<1>1. bots \in Seq(Phases) /\ bot \in 1..Len(bots) BY DEF BotsAreKnown
<1>2. Stopped = [bots EXCEPT ![bot] = IF bots[bot] = "launching" THEN "outlives" ELSE "ended"]
  BY DEF Stopped
<1>3. Stopped \in Seq(Phases) /\ Len(Stopped) = Len(bots)
  BY <1>1, <1>2 DEF Phases
<1>4. ASSUME ~outlived, bots[bot] # "launching", NEW b \in 1..Len(bots)
      PROVE  Stopped[b] = "ended"
  <2>1. bots[b] # "ended" => b = bot BY <1>1, <1>4 DEF BotsAreKnown
  <2>2. QED BY <1>1, <1>2, <1>4, <2>1
<1>5. QED BY <1>3, <1>4

LEMMA RestartKeeps ==
    ASSUME BotsAreKnown, NEW hasToken \in BOOLEAN, RestartService(hasToken)
    PROVE  BotsAreKnown'
<1> DEFINE stops == isRunning /\ bot # 0
           left == IF stops THEN Stopped ELSE bots
<1>1. /\ bots \in Seq(Phases) /\ bot \in 0..Len(bots) /\ outlived \in BOOLEAN
      /\ isRunning = (bot # 0)
      /\ ~outlived => \A b \in 1..Len(bots) : bots[b] # "ended" => b = bot
  BY DEF BotsAreKnown
<1>2. left \in Seq(Phases) /\ Len(left) = Len(bots)
  BY <1>1, StoppedLeavesNone
<1>3. outlived' = (outlived \/ (stops /\ bots[bot] = "launching"))
  BY DEF RestartService
<1>4. ASSUME ~outlived' PROVE \A b \in 1..Len(bots) : left[b] = "ended"
  <2>1. CASE bot = 0
    BY <1>1, <1>3, <1>4, <2>1
  <2>2. CASE bot # 0
    BY <1>1, <1>3, <1>4, <2>2, StoppedLeavesNone
  <2>3. QED BY <2>1, <2>2
<1>5. outlived' \in BOOLEAN BY <1>3
<1> HIDE DEF left
<1>6. CASE hasToken
  <2>1. bots' = Append(left, "launching") /\ bot' = Len(bots) + 1 /\ isRunning' = TRUE
    BY <1>6 DEF RestartService, left
  <2>2. /\ bots' \in Seq(Phases) /\ Len(bots') = Len(bots) + 1
        /\ \A b \in 1..Len(bots) : bots'[b] = left[b]
    BY <1>2, <2>1 DEF Phases
  <2>3. bot' # 0 /\ bot' \in 0..Len(bots') BY <1>1, <2>1, <2>2
  <2>4. ASSUME ~outlived', NEW b \in DOMAIN bots', bots'[b] # "ended" PROVE b = bot'
    BY <1>1, <1>4, <2>1, <2>2, <2>4
  <2>5. isRunning' = (bot' # 0) /\ isRunning' \in BOOLEAN BY <2>1, <2>3
  <2>6. QED BY <1>5, <2>2, <2>3, <2>4, <2>5 DEF BotsAreKnown
<1>7. CASE ~hasToken
  <2>1. bots' = left /\ bot' = 0 /\ isRunning' = FALSE
    BY <1>7 DEF RestartService, left
  <2>2. isRunning' = (bot' # 0) /\ isRunning' \in BOOLEAN BY <2>1
  <2>3. bot' \in 0..Len(bots') BY <1>1, <1>2, <2>1
  <2>4. ASSUME ~outlived', NEW b \in DOMAIN bots', bots'[b] # "ended" PROVE b = bot'
    BY <1>1, <1>2, <1>4, <2>1, <2>4
  <2>5. QED BY <1>2, <1>5, <2>1, <2>2, <2>3, <2>4 DEF BotsAreKnown
<1>8. QED BY <1>6, <1>7

LEMMA LaunchKeeps ==
    ASSUME BotsAreKnown, NEW b \in DOMAIN bots, Launched(b) \/ LaunchFails(b)
    PROVE  BotsAreKnown'
<1>1. /\ bots \in Seq(Phases) /\ bot \in 0..Len(bots) /\ outlived \in BOOLEAN
      /\ isRunning \in BOOLEAN /\ isRunning = (bot # 0)
      /\ ~outlived => \A a \in DOMAIN bots : bots[a] # "ended" => a = bot
  BY DEF BotsAreKnown
<1>2. CASE Launched(b)
  <2>1. /\ bots' = [bots EXCEPT ![b] = "polling"] /\ bots[b] # "ended"
        /\ bot' = bot /\ isRunning' = isRunning /\ outlived' = outlived
    BY <1>2 DEF Launched, fileVars
  <2>2. bots' \in Seq(Phases) /\ Len(bots') = Len(bots) /\ DOMAIN bots' = DOMAIN bots
    BY <1>1, <2>1 DEF Phases
  <2>3. ASSUME ~outlived', NEW a \in DOMAIN bots', bots'[a] # "ended" PROVE a = bot'
    BY <1>1, <2>1, <2>2, <2>3
  <2>4. isRunning' = (bot' # 0) BY <1>1, <2>1
  <2>5. bot' \in 0..Len(bots') /\ isRunning' \in BOOLEAN /\ outlived' \in BOOLEAN
    BY <1>1, <2>1, <2>2
  <2>6. QED BY <2>2, <2>3, <2>4, <2>5 DEF BotsAreKnown
<1>3. CASE LaunchFails(b)
  <2>1. /\ bots' = [bots EXCEPT ![b] = "ended"] /\ bots[b] # "ended"
        /\ bot' = 0 /\ isRunning' = FALSE /\ outlived' = outlived
    BY <1>3 DEF LaunchFails, fileVars
  <2>2. bots' \in Seq(Phases) /\ Len(bots') = Len(bots) /\ DOMAIN bots' = DOMAIN bots
    BY <1>1, <2>1 DEF Phases
  <2>3. ASSUME ~outlived', NEW a \in DOMAIN bots' PROVE bots'[a] = "ended"
    BY <1>1, <2>1, <2>2, <2>3
  <2>4. isRunning' = (bot' # 0) BY <2>1
  <2>5. Len(bots) \in Nat BY <1>1
  <2>6. bot' \in 0..Len(bots') BY <2>1, <2>2, <2>5
  <2>7. isRunning' \in BOOLEAN /\ outlived' \in BOOLEAN BY <1>1, <2>1
  <2>8. QED BY <2>2, <2>3, <2>4, <2>6, <2>7 DEF BotsAreKnown
<1>4. QED BY <1>2, <1>3

LEMMA ChatsInvNext == ChatsInv /\ [ChatsNext]_chatsVars => ChatsInv'
<1> SUFFICES ASSUME ChatsInv, [ChatsNext]_chatsVars PROVE ChatsInv' OBVIOUS
<1>1. Mirrors(chats, wants) /\ OperatorsAreKnown /\ BotsAreKnown BY DEF ChatsInv
<1>2. ASSUME UNCHANGED <<chats, wants>> PROVE Mirrors(chats, wants)'
  BY <1>1, <1>2 DEF Mirrors, Subscription
<1>3. ASSUME UNCHANGED <<controllers, requests, granted>> PROVE OperatorsAreKnown'
  BY <1>1, <1>3 DEF OperatorsAreKnown, OperatorsAreGranted
<1>4. ASSUME UNCHANGED botVars PROVE BotsAreKnown'
  BY <1>1, <1>4 DEF BotsAreKnown, botVars
<1>5. CASE \E user \in Users, chat \in Chats :
              \/ StartCommand(user, chat)
              \/ \E type \in Types : Toggle(user, chat, type)
              \/ \E on \in BOOLEAN : ToggleAll(user, chat, on)
              \/ \E types \in SUBSET Types : SetMemberSubscriptions(user, chat, types)
  <2>1. Mirrors(chats, wants)' BY <1>1, <1>5, ChatStepMirrors
  <2>2. UNCHANGED <<controllers, requests, granted, botVars>>
    BY <1>5 DEF StartCommand, Toggle, ToggleAll, SetMemberSubscriptions
  <2>3. QED BY <1>3, <1>4, <2>1, <2>2 DEF ChatsInv
<1>6. CASE \E chat \in Chats, linked \in BOOLEAN : LinkChat(chat, linked)
  <2>1. PICK chat \in Chats, linked \in BOOLEAN : LinkChat(chat, linked) BY <1>6
  <2>2. chats' = [chats EXCEPT ![chat].linked = linked] /\ wants' = wants
    BY <2>1 DEF LinkChat
  <2>3. Mirrors(chats, wants)' BY <1>1, <2>2, LinkMirrors
  <2>4. UNCHANGED <<controllers, requests, granted, botVars>> BY <2>1 DEF LinkChat
  <2>5. QED BY <1>3, <1>4, <2>3, <2>4 DEF ChatsInv
<1>7. CASE \E user \in Users :
              Request(user) \/ Approve(user) \/ Deny(user) \/ RemoveController(user)
  <2>1. OperatorsAreKnown' BY <1>1, <1>7, OperatorStep
  <2>2. UNCHANGED <<chats, wants, botVars>>
    BY <1>7 DEF Request, Approve, Deny, RemoveController
  <2>3. QED BY <1>2, <1>4, <2>1, <2>2 DEF ChatsInv
<1>8. CASE \/ \E hasToken \in BOOLEAN : RestartService(hasToken)
           \/ \E b \in DOMAIN bots : Launched(b) \/ LaunchFails(b)
  <2>1. BotsAreKnown' BY <1>1, <1>8, RestartKeeps, LaunchKeeps
  <2>2. UNCHANGED fileVars BY <1>8 DEF RestartService, Launched, LaunchFails
  <2>3. QED BY <1>2, <1>3, <2>1, <2>2 DEF ChatsInv, fileVars
<1>9. CASE UNCHANGED chatsVars
  BY <1>2, <1>3, <1>4, <1>9 DEF ChatsInv, chatsVars, fileVars
<1>10. QED BY <1>5, <1>6, <1>7, <1>8, <1>9 DEF ChatsNext

LEMMA MirrorIsAudience == ASSUME Mirrors(chats, wants) PROVE AudienceIsRight
<1> SUFFICES ASSUME NEW type \in Types, NEW c \in Chats
             PROVE  c \in Recipients(type) <=>
                       /\ Known(c) /\ (IsGroup(c) => chats[c].linked)
                       /\ \E m \in Members : type \in wants[c][m] /\ (IsGroup(c) \/ m = c)
  BY DEF AudienceIsRight, Recipients
<1>1. /\ chats[c].type \in {"none", Sort(c)}
      /\ \A m \in MembersOf(c) : wants[c][m] = Subscription(chats, c, m)
      /\ chats[c].subs \in Subscriptions
  BY DEF Mirrors, Files
<1>2. DOMAIN chats[c].subs \subseteq Members
  <2>1. PICK known \in SUBSET Members : chats[c].subs \in [known -> SUBSET Types]
    BY <1>1 DEF Subscriptions
  <2>2. QED BY <2>1
<1>3. CASE ~IsGroup(c)
  <2>1. MembersOf(c) = {c} BY <1>3 DEF MembersOf, Members
  <2>2. chats[c].type \in {"none", "private"} BY <1>1, <1>3 DEF Sort
  <2>3. wants[c][c] = Subscription(chats, c, c) /\ c \in Members
    BY <1>1, <2>1 DEF Members
  <2>4. QED BY <1>3, <2>2, <2>3 DEF Recipients, Known
<1>4. CASE IsGroup(c)
  <2>1. MembersOf(c) = Members BY <1>4 DEF MembersOf
  <2>2. chats[c].type \in {"none", "group"} BY <1>1, <1>4 DEF Sort
  <2>3. \A m \in Members : wants[c][m] = Subscription(chats, c, m) BY <1>1, <2>1
  <2>4. chats[c].type = "group" =>
           \A m \in Members \ DOMAIN chats[c].subs : Subscription(chats, c, m) = {}
    BY DEF Subscription
  <2>5. QED BY <1>2, <1>4, <2>2, <2>3, <2>4 DEF Recipients, Known
<1>5. QED BY <1>3, <1>4

\* Notifications go to exactly those who were last shown to receive them, the
\* operators are those who were approved, and a bot that polls is the one the
\* service has (the buttons, the panel, the approvals and the restarts of the
\* transport, in any order).
THEOREM ChatsAreSound == ChatsSpec => []TelegramIsSound
<1>1. ChatsInv => TelegramIsSound
  <2> SUFFICES ASSUME ChatsInv PROVE TelegramIsSound OBVIOUS
  <2>1. ChatsTypeOK BY DEF ChatsInv, Mirrors, OperatorsAreKnown, BotsAreKnown, ChatsTypeOK
  <2>2. AudienceIsRight BY MirrorIsAudience DEF ChatsInv
  <2>3. OperatorsAreGranted BY DEF ChatsInv, OperatorsAreKnown
  <2>4. OneBotPolls BY DEF ChatsInv, BotsAreKnown, OneBotPolls
  <2>5. QED BY <2>1, <2>2, <2>3, <2>4 DEF TelegramIsSound
<1>2. QED BY ChatsInvInit, ChatsInvNext, <1>1, PTL DEF ChatsSpec

-----------------------------------------------------------------------------
(* The backtest wizard                                                     *)

Values == (UNION { Offers[s] : s \in Settings }) \union {Unset}
Picks  == { p \in [Settings -> Values] : \A s \in Settings : p[s] \in Offers[s] \union {Unset} }
Wizard == [step : ToSet(Steps), picked : Picks, running : BOOLEAN, summary : Picks]
Waits  == [op : {"start", "restart", "end"}] \union [op : {"show"}, step : ToSet(Steps)]
Backtest == [of : Nat, phase : {"accepted", "running", "lost", "done"}]

WizardTypes ==
    /\ wizards \in Seq(Wizard) /\ active \in 0..Len(wizards)
    /\ waiting \in Seq(Waits)
    /\ backtests \in Seq(Backtest)
    /\ \A r \in DOMAIN backtests : backtests[r].of \in DOMAIN wizards
    /\ seen \subseteq ToSet(Steps) /\ leftover \in BOOLEAN

WizardInv == WizardTypes /\ OneRunAtATime /\ NobodyIsLockedOut /\ SummaryIsTrue

LEMMA StepFacts ==
    /\ Settings \subseteq ToSet(Steps) /\ "run" \in ToSet(Steps) /\ "run" \notin Settings
    /\ Head(Steps) \in ToSet(Steps)
    /\ \A step \in Settings : NextStep(step) \in ToSet(Steps)
<1>1. PICK n \in Nat : n = Len(Steps) /\ DOMAIN Steps = 1..n /\ n > 1 /\ Steps[n] = "run"
  BY WizardAssumption, LenProperties DEF Last
<1>2. Steps \in Seq(STRING) /\ \A i \in 1..n : Steps[i] \in STRING
  BY <1>1, WizardAssumption, ElementOfSeq
<1>3. /\ Front(Steps) \in Seq(STRING) /\ Len(Front(Steps)) = n - 1
      /\ \A i \in 1..(n - 1) : Front(Steps)[i] = Steps[i]
  <2>1. \A i \in 1..(n - 1) : Steps[i] \in STRING BY <1>1, <1>2
  <2>2. /\ SubSeq(Steps, 1, n - 1) \in Seq(STRING)
        /\ Len(SubSeq(Steps, 1, n - 1)) = IF 1 <= n - 1 THEN n - 1 - 1 + 1 ELSE 0
        /\ \A i \in 1..(n - 1 - 1 + 1) : SubSeq(Steps, 1, n - 1)[i] = Steps[1 + i - 1]
    BY <1>1, <1>2, <2>1, SubSeqProperties
  <2>3. Front(Steps) = SubSeq(Steps, 1, n - 1) BY <1>1 DEF Front
  <2>4. QED BY <1>1, <2>2, <2>3
<1>4. DOMAIN Front(Steps) = 1..(n - 1) BY <1>3, LenProperties
<1>5. \A step \in Settings : \E i \in 1..(n - 1) : Steps[i] = step
  BY <1>3, <1>4 DEF Settings, ToSet
<1>6. \A i \in 1..n : Steps[i] \in ToSet(Steps) BY <1>1 DEF ToSet
<1>7. ASSUME NEW step \in Settings PROVE NextStep(step) \in ToSet(Steps)
  <2>1. PICK i \in 1..(n - 1) : Steps[i] = step BY <1>5
  <2>2. i + 1 \in DOMAIN Steps /\ i + 1 > 1 /\ (i + 1) - 1 = i BY <1>1
  <2>3. \E j \in DOMAIN Steps : j > 1 /\ Steps[j - 1] = step BY <2>1, <2>2
  <2>4. PICK j \in DOMAIN Steps : NextStep(step) = Steps[j] BY <2>3 DEF NextStep
  <2>5. QED BY <1>1, <1>6, <2>4
<1>8. ASSUME NEW step \in Settings PROVE step \in ToSet(Steps)
  <2>1. PICK i \in 1..(n - 1) : Steps[i] = step BY <1>5
  <2>2. i \in 1..n BY <1>1
  <2>3. QED BY <1>6, <2>1, <2>2
<1>9. Head(Steps) = Steps[1] /\ 1 \in 1..n /\ n \in 1..n BY <1>1, <1>2
<1>10. QED BY <1>1, <1>6, <1>7, <1>8, <1>9, WizardAssumption

\* What remains of a sequence without one of its elements is of the same type.
LEMMA RemoveAtType ==
    ASSUME NEW S, NEW q \in Seq(S), NEW i \in DOMAIN q
    PROVE  RemoveAt(q, i) \in Seq(S)
<1>1. PICK n \in Nat : n = Len(q) /\ DOMAIN q = 1..n BY LenProperties
<1>2. i \in 1..n /\ \A j \in 1..n : q[j] \in S BY <1>1, ElementOfSeq
<1>3. SubSeq(q, 1, i - 1) \in Seq(S)
  <2>1. \A j \in 1..(i - 1) : q[j] \in S BY <1>2
  <2>2. i - 1 \in Int BY <1>2
  <2>3. QED BY <2>1, <2>2, SubSeqProperties
<1>4. SubSeq(q, i + 1, n) \in Seq(S)
  <2>1. \A j \in (i + 1)..n : q[j] \in S BY <1>2
  <2>2. i + 1 \in Int BY <1>2
  <2>3. QED BY <1>1, <2>1, <2>2, SubSeqProperties
<1>5. RemoveAt(q, i) = SubSeq(q, 1, i - 1) \o SubSeq(q, i + 1, n) BY <1>1 DEF RemoveAt
<1>6. QED BY <1>3, <1>4, <1>5

LEMMA WizardPlaces ==
    ASSUME WizardTypes
    PROVE  /\ DOMAIN wizards = 1..Len(wizards) /\ Len(wizards) \in Nat
           /\ DOMAIN backtests = 1..Len(backtests) /\ Len(backtests) \in Nat
           /\ \A w \in DOMAIN wizards : wizards[w] \in Wizard
           /\ \A r \in DOMAIN backtests : backtests[r] \in Backtest
           /\ active # 0 => active \in DOMAIN wizards
<1>1. DOMAIN wizards = 1..Len(wizards) /\ Len(wizards) \in Nat BY LenProperties DEF WizardTypes
<1>2. DOMAIN backtests = 1..Len(backtests) /\ Len(backtests) \in Nat
  BY LenProperties DEF WizardTypes
<1>3. \A w \in DOMAIN wizards : wizards[w] \in Wizard BY <1>1, ElementOfSeq DEF WizardTypes
<1>4. \A r \in DOMAIN backtests : backtests[r] \in Backtest BY <1>2, ElementOfSeq DEF WizardTypes
<1>5. active # 0 => active \in DOMAIN wizards BY <1>1 DEF WizardTypes
<1>6. QED BY <1>1, <1>2, <1>3, <1>4, <1>5

\* A handler comes to wait, or goes.
LEMMA WaitingKeeps ==
    ASSUME WizardInv, waiting' \in Seq(Waits),
           UNCHANGED <<wizards, active, backtests, seen, leftover>>
    PROVE  WizardInv'
BY DEF WizardInv, WizardTypes, OneRunAtATime, NobodyIsLockedOut, SummaryIsTrue, InFlight, Session

\* The session of the chat changes, but for whether it runs.
LEMMA SessionChanges ==
    ASSUME WizardInv, active # 0, NEW w \in Wizard, wizards' = [wizards EXCEPT ![active] = w],
           w.running = Session.running, w.step = "run" => w.summary = w.picked,
           waiting' \in Seq(Waits), seen' \subseteq ToSet(Steps),
           UNCHANGED <<active, backtests, leftover>>
    PROVE  WizardInv'
<1>1. WizardTypes BY DEF WizardInv
<1>2. active \in DOMAIN wizards /\ wizards \in Seq(Wizard) BY <1>1, WizardPlaces DEF WizardTypes
<1>3. wizards' \in Seq(Wizard) /\ Len(wizards') = Len(wizards) /\ DOMAIN wizards' = DOMAIN wizards
      /\ wizards'[active] = w
  <2>1. wizards \in [DOMAIN wizards -> Wizard] BY <1>1, WizardPlaces DEF WizardTypes
  <2>2. PICK q \in [DOMAIN wizards -> Wizard] : q = wizards' BY <2>1
  <2>3. q \in Seq(Wizard) /\ Len(q) = Len(wizards) BY <1>2, <2>2, SameLength
  <2>4. QED BY <1>2, <2>2, <2>3
<1>4. WizardTypes' BY <1>1, <1>3 DEF WizardTypes
<1>5. Session' = w /\ InFlight' = InFlight BY <1>3 DEF Session, InFlight
<1>6. OneRunAtATime' BY <1>5 DEF WizardInv, OneRunAtATime
<1>7. NobodyIsLockedOut' BY <1>5 DEF WizardInv, NobodyIsLockedOut
<1>8. SummaryIsTrue' BY <1>5 DEF SummaryIsTrue
<1>9. QED BY <1>4, <1>6, <1>7, <1>8 DEF WizardInv

LEMMA SelectKeeps ==
    ASSUME WizardInv, NEW step \in Settings, NEW value \in Offers[step], Select(step, value)
    PROVE  WizardInv'
<1>1. active # 0 /\ Session \in Wizard /\ Session.step = step
  BY WizardPlaces DEF WizardInv, Select, Session
<1>2. PICK s \in Wizard : s = Session BY <1>1
<1>3. PICK w : w = [s EXCEPT !.picked[step] = value] OBVIOUS
<1>4. wizards' = [wizards EXCEPT ![active] = w] BY <1>2, <1>3 DEF Select, Session
<1>5. w \in Wizard /\ w.running = s.running /\ w.step = step
  <2>1. value \in Values /\ s.picked \in Picks BY <1>2 DEF Values, Wizard
  <2>2. [s.picked EXCEPT ![step] = value] \in Picks BY <2>1 DEF Picks
  <2>3. w = [s EXCEPT !.picked = [s.picked EXCEPT ![step] = value]] BY <1>3
  <2>4. QED BY <1>1, <1>2, <2>2, <2>3 DEF Wizard
<1>6. w.step # "run" BY <1>5, StepFacts
<1>7. waiting' \in Seq(Waits)
  <2>1. PICK op \in Waits : op = [op |-> "show", step |-> NextStep(step)]
    BY StepFacts DEF Waits
  <2>2. waiting' = Append(waiting, op) BY <2>1 DEF Select, Await
  <2>3. QED BY <2>2, AppendProperties DEF WizardInv, WizardTypes
<1>8. UNCHANGED <<active, backtests, seen, leftover>> BY DEF Select
<1>9. seen' \subseteq ToSet(Steps) BY <1>8 DEF WizardInv, WizardTypes
<1>10. QED BY <1>1, <1>2, <1>4, <1>5, <1>6, <1>7, <1>8, <1>9, SessionChanges

LEMMA ShowStepKeeps ==
    ASSUME WizardInv, NEW i \in DOMAIN waiting, ShowStep(i)
    PROVE  WizardInv'
<1>1. waiting[i].op = "show" /\ waiting' = RemoveAt(waiting, i)
      /\ UNCHANGED <<active, backtests, leftover>>
  BY DEF ShowStep, Resume
<1>2. waiting \in Seq(Waits) BY DEF WizardInv, WizardTypes
<1>3. waiting' \in Seq(Waits) BY <1>1, <1>2, RemoveAtType
<1>4. waiting[i].step \in ToSet(Steps)
  <2>1. waiting[i] \in Waits BY <1>2, ElementOfSeq, LenProperties
  <2>2. QED BY <1>1, <2>1 DEF Waits
<1>5. CASE active = 0 BY <1>1, <1>3, <1>5, WaitingKeeps DEF ShowStep
<1>6. CASE active # 0
  <2>1. PICK step \in ToSet(Steps) : step = waiting[i].step BY <1>4
  <2>2. PICK s \in Wizard : s = Session BY <1>6, WizardPlaces DEF WizardInv, Session
  <2>3. PICK w : w = [s EXCEPT !.step = step,
                               !.summary = IF step = "run" THEN s.picked ELSE s.summary]
    OBVIOUS
  <2>4. /\ wizards' = [wizards EXCEPT ![active].step = step,
                       ![active].summary = IF step = "run" THEN Session.picked ELSE @]
        /\ seen' = seen \union {step}
    BY <1>6, <2>1 DEF ShowStep
  <2>5. wizards' = [wizards EXCEPT ![active] = w]
    <3>1. active \in DOMAIN wizards /\ wizards[active] = s
      BY <1>6, <2>2, WizardPlaces DEF WizardInv, Session
    <3>2. QED BY <2>2, <2>3, <2>4, <3>1 DEF Wizard
  <2>6. w \in Wizard /\ w.running = s.running /\ (w.step = "run" => w.summary = w.picked)
    BY <2>2, <2>3 DEF Wizard
  <2>7. seen' \subseteq ToSet(Steps) BY <2>4 DEF WizardInv, WizardTypes
  <2>8. QED BY <1>1, <1>3, <1>6, <2>2, <2>5, <2>6, <2>7, SessionChanges
<1>7. QED BY <1>5, <1>6

LEMMA LoadedKeeps ==
    ASSUME WizardInv, NEW i \in DOMAIN waiting, Loaded(i)
    PROVE  WizardInv'
<1>1. /\ waiting' = RemoveAt(waiting, i)
      /\ wizards' = Append(wizards, Fresh) /\ active' = Len(wizards')
      /\ seen' = seen \union {Head(Steps)} /\ backtests' = backtests
      /\ leftover' = (leftover \/ \E r \in InFlight : backtests[r].of = active)
  BY DEF Loaded, Resume
<1>2. PICK n \in Nat : n = Len(wizards) /\ DOMAIN wizards = 1..n BY WizardPlaces DEF WizardInv
<1>3. Fresh \in Wizard /\ Fresh.running = FALSE /\ Fresh.summary = Fresh.picked
  <2>1. PICK nothing : nothing = [s \in Settings |-> Unset] OBVIOUS
  <2>2. nothing \in Picks
    <3>1. Unset \in Values BY DEF Values
    <3>2. nothing \in [Settings -> Values] BY <2>1, <3>1
    <3>3. \A s \in Settings : nothing[s] = Unset BY <2>1
    <3>4. QED BY <3>2, <3>3 DEF Picks
  <2>3. Fresh = [step |-> Head(Steps), picked |-> nothing, running |-> FALSE, summary |-> nothing]
    BY <2>1 DEF Fresh
  <2>4. QED BY <2>2, <2>3, StepFacts DEF Wizard
<1>4. PICK new \in Wizard : new = Fresh /\ ~new.running /\ new.summary = new.picked BY <1>3
<1>5. /\ wizards' \in Seq(Wizard) /\ Len(wizards') = n + 1 /\ DOMAIN wizards' = 1..(n + 1)
      /\ wizards'[n + 1] = new
  <2>1. PICK q \in Seq(Wizard) : q = wizards BY DEF WizardInv, WizardTypes
  <2>2. PICK p : p = Append(q, new) OBVIOUS
  <2>3. p \in Seq(Wizard) /\ Len(p) = n + 1 /\ p[n + 1] = new
    BY <1>2, <2>1, <2>2, AppendProperties
  <2>4. DOMAIN p = 1..(n + 1) BY <2>3, LenProperties
  <2>5. QED BY <1>1, <1>4, <2>1, <2>2, <2>3, <2>4
<1>6. active' = n + 1 /\ active' \in 0..(n + 1) /\ 1..n \subseteq 1..(n + 1) BY <1>1, <1>5
<1>7. Session' = new BY <1>5, <1>6 DEF Session
<1>8. WizardTypes'
  <2>1. waiting' \in Seq(Waits) BY <1>1, RemoveAtType DEF WizardInv, WizardTypes
  <2>2. seen' \subseteq ToSet(Steps) BY <1>1, StepFacts DEF WizardInv, WizardTypes
  <2>3. leftover' \in BOOLEAN BY <1>1
  <2>4. \A r \in DOMAIN backtests' : backtests'[r].of \in DOMAIN wizards'
    BY <1>1, <1>2, <1>5, <1>6 DEF WizardInv, WizardTypes
  <2>5. backtests' \in Seq(Backtest) BY <1>1 DEF WizardInv, WizardTypes
  <2>6. QED BY <1>5, <1>6, <2>1, <2>2, <2>3, <2>4, <2>5 DEF WizardTypes
<1>9. OneRunAtATime'
  <2> SUFFICES ASSUME ~leftover' PROVE InFlight' = {} BY DEF OneRunAtATime
  <2>1. ~leftover /\ \A r \in InFlight : backtests[r].of # active BY <1>1
  <2>2. InFlight = {} BY <2>1 DEF WizardInv, OneRunAtATime
  <2>3. QED BY <1>1, <2>2 DEF InFlight
<1>10. NobodyIsLockedOut' BY <1>4, <1>7 DEF NobodyIsLockedOut
<1>11. SummaryIsTrue' BY <1>4, <1>7 DEF SummaryIsTrue
<1>12. QED BY <1>8, <1>9, <1>10, <1>11 DEF WizardInv

LEMMA EndSessionKeeps ==
    ASSUME WizardInv, NEW i \in DOMAIN waiting, EndSession(i)
    PROVE  WizardInv'
<1>1. /\ waiting' = RemoveAt(waiting, i) /\ active' = 0
      /\ leftover' = (leftover \/ \E r \in InFlight : backtests[r].of = active)
      /\ UNCHANGED <<wizards, backtests, seen>>
  BY DEF EndSession, Resume
<1>2. WizardTypes'
  <2>1. waiting' \in Seq(Waits) BY <1>1, RemoveAtType DEF WizardInv, WizardTypes
  <2>2. leftover' \in BOOLEAN BY <1>1
  <2>3. 0 \in 0..Len(wizards) BY WizardPlaces DEF WizardInv
  <2>4. QED BY <1>1, <2>1, <2>2, <2>3 DEF WizardInv, WizardTypes
<1>3. OneRunAtATime'
  <2> SUFFICES ASSUME ~leftover' PROVE InFlight' = {} BY DEF OneRunAtATime
  <2>1. ~leftover /\ \A r \in InFlight : backtests[r].of # active BY <1>1
  <2>2. InFlight = {} BY <2>1 DEF WizardInv, OneRunAtATime
  <2>3. QED BY <1>1, <2>2 DEF InFlight
<1>4. NobodyIsLockedOut' /\ SummaryIsTrue' BY <1>1 DEF NobodyIsLockedOut, SummaryIsTrue
<1>5. QED BY <1>2, <1>3, <1>4 DEF WizardInv

\* The run is the only one: a session that does not run has none in flight.
LEMMA RunKeeps ==
    ASSUME WizardInv, Run
    PROVE  WizardInv'
<1>1. /\ active # 0 /\ Session.step = "run" /\ ~Session.running
      /\ wizards' = [wizards EXCEPT ![active].running = TRUE]
      /\ backtests' = Append(backtests, [of |-> active, phase |-> "accepted"])
      /\ UNCHANGED <<active, waiting, seen, leftover>>
  BY DEF Run
<1>2. WizardTypes /\ active \in DOMAIN wizards /\ wizards[active] \in Wizard
      /\ Session = wizards[active]
  BY <1>1, WizardPlaces DEF WizardInv, Session
<1>3. /\ wizards' \in Seq(Wizard) /\ Len(wizards') = Len(wizards) /\ DOMAIN wizards' = DOMAIN wizards
      /\ wizards'[active].running = TRUE /\ wizards'[active].picked = Session.picked
      /\ wizards'[active].summary = Session.summary
  <2>1. wizards \in [DOMAIN wizards -> Wizard] BY <1>2, WizardPlaces DEF WizardTypes
  <2>2. PICK q : q = wizards' OBVIOUS
  <2>3. q = [wizards EXCEPT ![active].running = TRUE] BY <1>1, <2>2
  <2>4. /\ q \in [DOMAIN wizards -> Wizard]
        /\ q[active].running = TRUE /\ q[active].picked = wizards[active].picked
        /\ q[active].summary = wizards[active].summary
    BY <1>2, <2>1, <2>3 DEF Wizard
  <2>5. q \in Seq(Wizard) /\ Len(q) = Len(wizards) /\ DOMAIN q = DOMAIN wizards
    BY <2>4, SameLength, <1>2 DEF WizardTypes
  <2>6. QED BY <1>2, <2>2, <2>4, <2>5
<1>4. PICK new \in Backtest : new = [of |-> active, phase |-> "accepted"]
  <2>1. active \in Nat BY <1>2, WizardPlaces
  <2>2. QED BY <2>1 DEF Backtest
<1>5. PICK n \in Nat : n = Len(backtests) /\ DOMAIN backtests = 1..n BY <1>2, WizardPlaces
<1>6. PICK q \in Seq(Backtest) : /\ q = backtests' /\ DOMAIN q = 1..(n + 1) /\ q[n + 1] = new
                                 /\ \A r \in 1..n : q[r] = backtests[r]
  <2>1. PICK p \in Seq(Backtest) : p = backtests BY DEF WizardInv, WizardTypes
  <2>2. PICK t : t = Append(p, new) OBVIOUS
  <2>3. /\ t \in Seq(Backtest) /\ Len(t) = n + 1 /\ t[n + 1] = new
        /\ \A r \in 1..n : t[r] = p[r]
    BY <1>5, <2>1, <2>2, AppendProperties
  <2>4. DOMAIN t = 1..(n + 1) BY <2>3, LenProperties
  <2>5. QED BY <1>1, <1>4, <2>1, <2>2, <2>3, <2>4
<1>7. n + 1 \in 1..(n + 1) /\ \A r \in 1..(n + 1) : r \in 1..n \/ r = n + 1 OBVIOUS
<1>8. WizardTypes'
  <2>1. \A r \in DOMAIN q : q[r].of \in DOMAIN wizards'
    BY <1>2, <1>3, <1>4, <1>5, <1>6, <1>7 DEF WizardTypes
  <2>2. QED BY <1>1, <1>2, <1>3, <1>6, <2>1 DEF WizardTypes
<1>9. Session' = wizards'[active] BY <1>1 DEF Session
<1>10. OneRunAtATime'
  <2> SUFFICES ASSUME ~leftover'
               PROVE  \A r \in InFlight' : r = n + 1 /\ active' = q[r].of /\ Session'.running
    BY <1>6 DEF OneRunAtATime
  <2>1. InFlight = {} BY <1>1 DEF WizardInv, OneRunAtATime
  <2>2. \A r \in 1..n : q[r].phase \notin {"accepted", "running"}
    BY <1>5, <1>6, <2>1 DEF InFlight
  <2>3. \A r \in InFlight' : r = n + 1 BY <1>6, <1>7, <2>2 DEF InFlight
  <2>4. QED BY <1>1, <1>3, <1>4, <1>6, <1>9, <2>3
<1>11. NobodyIsLockedOut'
  <2>1. q[n + 1].of = active' /\ q[n + 1].phase # "done" BY <1>1, <1>4, <1>6
  <2>2. QED BY <1>6, <1>7, <2>1 DEF NobodyIsLockedOut
<1>12. SummaryIsTrue' BY <1>1, <1>3, <1>9 DEF WizardInv, SummaryIsTrue
<1>13. QED BY <1>8, <1>10, <1>11, <1>12 DEF WizardInv

LEMMA BacktestKeeps ==
    ASSUME WizardInv, NEW r \in DOMAIN backtests, RunBegins(r) \/ RunIsLost(r) \/ RunEnds(r)
    PROVE  WizardInv'
<1>1. PICK phase \in {"running", "lost", "done"} :
          /\ backtests' = [backtests EXCEPT ![r].phase = phase]
          /\ backtests[r].phase \in {"accepted", "running"}
          /\ active' = IF phase = "done" THEN 0 ELSE active
          /\ UNCHANGED <<wizards, waiting, seen, leftover>>
  BY DEF RunBegins, RunIsLost, RunEnds
<1>2. WizardTypes BY DEF WizardInv
<1>3. PICK q : q = backtests' OBVIOUS
<1>4. /\ q \in [DOMAIN backtests -> Backtest]
      /\ q[r].phase = phase /\ \A t \in DOMAIN backtests : q[t].of = backtests[t].of
      /\ \A t \in DOMAIN backtests \ {r} : q[t] = backtests[t]
  <2>1. backtests \in [DOMAIN backtests -> Backtest] BY <1>2, WizardPlaces DEF WizardTypes
  <2>2. QED BY <1>1, <1>3, <2>1 DEF Backtest
<1>5. q \in Seq(Backtest) /\ DOMAIN q = DOMAIN backtests BY <1>2, <1>4, SameLength DEF WizardTypes
<1>6. WizardTypes'
  <2>1. active' \in 0..Len(wizards') BY <1>1, <1>2, WizardPlaces DEF WizardTypes
  <2>2. QED BY <1>1, <1>2, <1>3, <1>4, <1>5, <2>1 DEF WizardTypes
<1>7. r \in InFlight /\ InFlight' = IF phase = "running" THEN InFlight ELSE InFlight \ {r}
  BY <1>1, <1>3, <1>4, <1>5 DEF InFlight
<1>8. OneRunAtATime'
  <2> SUFFICES ASSUME ~leftover', NEW t \in InFlight', NEW u \in InFlight'
               PROVE  t = u /\ active' = backtests'[t].of /\ Session'.running
    BY DEF OneRunAtATime
  <2>1. /\ ~leftover /\ t \in InFlight /\ u \in InFlight
        /\ t \in DOMAIN backtests
    BY <1>1, <1>7 DEF InFlight
  <2>2. t = u /\ t = r /\ active = backtests[t].of /\ Session.running
    BY <1>7, <2>1 DEF WizardInv, OneRunAtATime
  <2>3. phase = "running" BY <1>7, <2>2
  <2>4. QED BY <1>1, <1>3, <1>4, <2>1, <2>2, <2>3 DEF Session
<1>9. NobodyIsLockedOut'
  <2> SUFFICES ASSUME active' # 0, Session'.running
               PROVE  \E t \in DOMAIN q : q[t].of = active' /\ q[t].phase # "done"
    BY <1>3 DEF NobodyIsLockedOut
  <2>1. phase # "done" /\ active' = active /\ active # 0 /\ Session.running BY <1>1 DEF Session
  <2>2. PICK t \in DOMAIN backtests : backtests[t].of = active /\ backtests[t].phase # "done"
    BY <2>1 DEF WizardInv, NobodyIsLockedOut
  <2>3. q[t].of = active /\ q[t].phase # "done" BY <1>4, <2>1, <2>2
  <2>4. QED BY <1>5, <2>1, <2>3
<1>10. SummaryIsTrue' BY <1>1 DEF WizardInv, SummaryIsTrue, Session
<1>11. QED BY <1>6, <1>8, <1>9, <1>10 DEF WizardInv

LEMMA WizardInvInit == WizardInit => WizardInv
<1> SUFFICES ASSUME WizardInit PROVE WizardInv OBVIOUS
<1>1. /\ wizards = <<>> /\ active = 0 /\ waiting = <<>> /\ backtests = <<>>
      /\ seen = {} /\ leftover = FALSE
  BY DEF WizardInit
<1>2. DOMAIN backtests = {} BY <1>1, EmptySeq
<1>3. /\ wizards \in Seq(Wizard) /\ Len(wizards) = 0
      /\ waiting \in Seq(Waits) /\ backtests \in Seq(Backtest)
  BY <1>1, EmptySeq
<1>4. active \in 0..Len(wizards) BY <1>1, <1>3
<1>5. WizardTypes BY <1>1, <1>2, <1>3, <1>4 DEF WizardTypes
<1>6. QED BY <1>1, <1>2, <1>5 DEF WizardInv, OneRunAtATime, NobodyIsLockedOut, SummaryIsTrue, InFlight

LEMMA WizardInvNext == WizardInv /\ [WizardNext]_wizardVars => WizardInv'
<1> SUFFICES ASSUME WizardInv, [WizardNext]_wizardVars PROVE WizardInv' OBVIOUS
<1>1. ASSUME NEW op \in Waits, Await(op), UNCHANGED <<wizards, active, backtests, seen, leftover>>
      PROVE  WizardInv'
  <2>1. waiting' \in Seq(Waits) BY <1>1, AppendProperties DEF Await, WizardInv, WizardTypes
  <2>2. QED BY <1>1, <2>1, WaitingKeeps
<1>2. CASE Start \/ Restart \/ Cancel
  <2>1. PICK op \in Waits : Await(op) /\ UNCHANGED <<wizards, active, backtests, seen, leftover>>
    BY <1>2 DEF Start, Restart, Cancel, Waits
  <2>2. QED BY <1>1, <2>1
<1>3. CASE RunIncomplete
  <2>1. [op |-> "show", step |-> "run"] \in Waits BY StepFacts DEF Waits
  <2>2. QED BY <1>1, <1>3, <2>1 DEF RunIncomplete
<1>4. ASSUME NEW step \in Settings, Back(step) PROVE WizardInv'
  <2>1. [op |-> "show", step |-> step] \in Waits BY StepFacts DEF Waits
  <2>2. QED BY <1>1, <1>4, <2>1 DEF Back
<1>5. ASSUME NEW i \in DOMAIN waiting, LoadedNone(i) \/ HandlerFails(i) PROVE WizardInv'
  <2>1. waiting \in Seq(Waits) BY DEF WizardInv, WizardTypes
  <2>2. \/ waiting' = RemoveAt(waiting, i) \/ waiting' = [waiting EXCEPT ![i] = [op |-> "end"]]
    BY <1>5 DEF LoadedNone, HandlerFails, Resume
  <2>3. [op |-> "end"] \in Waits BY DEF Waits
  <2>4. waiting' \in Seq(Waits)
    <3>1. CASE waiting' = RemoveAt(waiting, i) BY <2>1, <3>1, RemoveAtType
    <3>2. CASE waiting' = [waiting EXCEPT ![i] = [op |-> "end"]]
      <4>1. i \in 1..Len(waiting) BY <2>1, LenProperties
      <4>2. QED BY <2>1, <2>3, <3>2, <4>1, ExceptSeq
    <3>3. QED BY <2>2, <3>1, <3>2
  <2>5. UNCHANGED <<wizards, active, backtests, seen, leftover>> BY <1>5 DEF LoadedNone, HandlerFails
  <2>6. QED BY <2>4, <2>5, WaitingKeeps
<1>6. ASSUME NEW i \in DOMAIN waiting, Loaded(i) \/ ShowStep(i) \/ EndSession(i) PROVE WizardInv'
  BY <1>6, LoadedKeeps, ShowStepKeeps, EndSessionKeeps
<1>7. ASSUME NEW step \in Settings, NEW value \in Offers[step], Select(step, value) PROVE WizardInv'
  BY <1>7, SelectKeeps
<1>8. CASE Run BY <1>8, RunKeeps
<1>9. ASSUME NEW r \in DOMAIN backtests, RunBegins(r) \/ RunIsLost(r) \/ RunEnds(r) PROVE WizardInv'
  BY <1>9, BacktestKeeps
<1>10. CASE UNCHANGED wizardVars
  <2>1. UNCHANGED <<wizards, active, waiting, backtests, seen, leftover>> BY <1>10 DEF wizardVars
  <2>2. waiting' \in Seq(Waits) BY <2>1 DEF WizardInv, WizardTypes
  <2>3. QED BY <2>1, <2>2, WaitingKeeps
<1>11. QED BY <1>2, <1>3, <1>4, <1>5, <1>6, <1>7, <1>8, <1>9, <1>10 DEF WizardNext

\* Whatever the chat taps, and however late its handlers go on: as long as nobody
\* gives up a session that runs, one backtest at a time runs in the chat, which is
\* never locked out, and what runs is what the summary said (start(), restart(),
\* run(), showStep() and executeRun() of the wizard).
THEOREM WizardsAreSound == WizardSpec => []WizardIsSound
<1>1. WizardInv => WizardIsSound
  <2> SUFFICES ASSUME WizardInv PROVE WizardIsSound OBVIOUS
  <2>1. WizardTypes BY DEF WizardInv
  <2>2. \A s \in Range(wizards) : s \in Wizard BY <2>1, WizardPlaces DEF Range
  <2>3. \A p \in Picks : \A f \in Settings : p[f] \in Offers[f] \union {Unset} BY DEF Picks
  <2>4. \A w \in Range(waiting) : w.op \in {"start", "restart", "show", "end"}
    <3>1. \A i \in DOMAIN waiting : waiting[i] \in Waits
      BY <2>1, ElementOfSeq, LenProperties DEF WizardTypes
    <3>2. QED BY <3>1 DEF Range, Waits
  <2>5. \A r \in Range(backtests) : r.of \in DOMAIN wizards
                                    /\ r.phase \in {"accepted", "running", "lost", "done"}
    BY <2>1, WizardPlaces DEF Range, Backtest, WizardTypes
  <2>6. WizardTypeOK BY <2>1, <2>2, <2>3, <2>4, <2>5 DEF WizardTypeOK, WizardTypes, Wizard
  <2>7. QED BY <2>6 DEF WizardInv, WizardIsSound
<1>2. QED BY <1>1, WizardInvInit, WizardInvNext, PTL DEF WizardSpec
=============================================================================
