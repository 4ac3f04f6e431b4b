---------------------------- MODULE Bot_proofs ----------------------------
(***************************************************************************)
(* Proofs of the safety properties of the bot engine's lifecycle, for      *)
(* every set of callers and every set of configurations, and of the custody*)
(* of its key, for every set of orders, snapshots, close runs and wrappers *)
(* and every number of unlocks.                                            *)
(***************************************************************************)
EXTENDS BotLifecycle, KeyCustody, FiniteSetTheorems, TLAPS

-----------------------------------------------------------------------------
(* The custody of the key                                                  *)

\* Who has not been given a wrapper yet, or not any more, holds none.
IdleHoldsNothing ==
    \A u \in Users : phase[u] \in {"idle", "loading"} => key[u] = NoWrapper

\* The live wrappers besides the cached one were replaced by an unlock each.
SpareKeys ==
    /\ IsFiniteSet(live)
    /\ Cardinality(live \ {cached}) <= unlocks

\* The inductive invariant.  That a key is in use needs that a caller who gets
\* one does not drop another; the number of live keys is bounded by counting
\* those that are not cached, because a live cached key is never replaced by
\* anybody but an unlock.
CustodyInv ==
    /\ CustodyTypeOK
    /\ IdleHoldsNothing
    /\ KeyIsInUse
    /\ SpareKeys

LEMMA CustodyStarts == CustodyInit => CustodyInv
<1> SUFFICES ASSUME CustodyInit PROVE CustodyInv
  OBVIOUS
<1> USE KeyCustodyAssumption DEF CustodyInit
<1>1. CustodyTypeOK BY DEF CustodyTypeOK
<1>2. IdleHoldsNothing BY DEF IdleHoldsNothing
<1>3. KeyIsInUse BY DEF KeyIsInUse
<1>4. SpareKeys
  <2>1. live \ {cached} = {} OBVIOUS
  <2>2. QED BY <2>1, FS_EmptySet DEF SpareKeys
<1>5. QED BY <1>1, <1>2, <1>3, <1>4 DEF CustodyInv

\* A step that only disposes wrappers keeps the bound.
LEMMA DisposeKeepsSpare ==
    ASSUME CustodyInv, live' \subseteq live, unlocks' = unlocks,
           cached' = cached \/ (live' = live \ {cached})
    PROVE  SpareKeys'
<1>1. live' \ {cached'} \subseteq live \ {cached}
  OBVIOUS
<1>2. IsFiniteSet(live \ {cached}) /\ Cardinality(live \ {cached}) <= unlocks
  BY FS_RemoveElement DEF CustodyInv, SpareKeys
<1>3. IsFiniteSet(live') BY FS_Subset DEF CustodyInv, SpareKeys
<1>4. /\ IsFiniteSet(live' \ {cached'})
      /\ Cardinality(live' \ {cached'}) <= Cardinality(live \ {cached})
  BY <1>1, <1>2, FS_Subset
<1>5. /\ Cardinality(live \ {cached}) \in Nat
      /\ Cardinality(live' \ {cached'}) \in Nat
      /\ unlocks \in Nat
  BY <1>2, <1>4, FS_CardinalityType, KeyCustodyAssumption DEF CustodyInv, CustodyTypeOK
<1>6. QED BY <1>2, <1>3, <1>4, <1>5 DEF SpareKeys

\* A new wrapper adds one to those that are not cached only if the cached one
\* was alive.
LEMMA DeriveKeepsSpare ==
    ASSUME CustodyInv, NEW k \in Free, Derive(k),
           \/ cached \notin live /\ unlocks' = unlocks
           \/ unlocks' = unlocks + 1
    PROVE  SpareKeys'
<1>1. k \notin live /\ live' \ {cached'} = live
  BY DEF Free, Derive
<1>2. IsFiniteSet(live') BY FS_AddElement DEF CustodyInv, SpareKeys, Derive
<1>3. /\ Cardinality(live) \in Nat
      /\ unlocks \in Nat
      /\ Cardinality(live \ {cached}) <= unlocks
  BY FS_CardinalityType, KeyCustodyAssumption DEF CustodyInv, SpareKeys, CustodyTypeOK
<1>4. Cardinality(live \ {cached}) =
        IF cached \in live THEN Cardinality(live) - 1 ELSE Cardinality(live)
  BY FS_RemoveElement DEF CustodyInv, SpareKeys
<1>5. Cardinality(live) <= unlocks'
  BY <1>3, <1>4
<1>6. QED BY <1>1, <1>2, <1>5 DEF SpareKeys

\* A call that is over disposes its wrapper for everybody.
LEMMA FinishInv ==
    ASSUME CustodyInv, NEW u \in Users, Finish(u)
    PROVE  CustodyInv'
<1> USE KeyCustodyAssumption DEF Finish
<1>1. CustodyTypeOK' BY DEF CustodyInv, CustodyTypeOK
<1>2. IdleHoldsNothing' BY DEF CustodyInv, CustodyTypeOK, IdleHoldsNothing
<1>3. KeyIsInUse'
  <2> SUFFICES ASSUME NEW k \in live' \ unlocked'
               PROVE  \E v \in Users : key'[v] = k
    BY DEF KeyIsInUse
  <2>1. k \in live \ unlocked /\ k # key[u] OBVIOUS
  <2>2. PICK v \in Users : key[v] = k BY <2>1 DEF CustodyInv, KeyIsInUse
  <2>3. v # u /\ key'[v] = k BY <2>1, <2>2 DEF CustodyInv, CustodyTypeOK
  <2>4. QED BY <2>3
<1>4. SpareKeys' BY DisposeKeepsSpare
<1>5. QED BY <1>1, <1>2, <1>3, <1>4 DEF CustodyInv

\* A caller who is given a wrapper held none before, so nobody's key is lost.
LEMMA GetKeypairInv ==
    ASSUME CustodyInv, NEW u \in Users, GetKeypair(u)
    PROVE  CustodyInv'
<1>0. phase[u] = "loading" /\ unlocks' = unlocks /\ key[u] = NoWrapper
  BY DEF GetKeypair, CustodyInv, IdleHoldsNothing
<1>1. CASE cached \in live /\ Hold(u, cached) /\ UNCHANGED <<cached, live, unlocked>>
  <2>1. CustodyTypeOK' BY <1>0, <1>1, KeyCustodyAssumption DEF CustodyInv, CustodyTypeOK, Hold
  <2>2. IdleHoldsNothing' BY <1>0, <1>1 DEF CustodyInv, CustodyTypeOK, IdleHoldsNothing, Hold
  <2>3. KeyIsInUse'
    BY <1>0, <1>1, KeyCustodyAssumption DEF CustodyInv, CustodyTypeOK, KeyIsInUse, Hold
  <2>4. SpareKeys' BY <1>0, <1>1, DisposeKeepsSpare
  <2>5. QED BY <2>1, <2>2, <2>3, <2>4 DEF CustodyInv
<1>2. ASSUME NEW k \in Free, cached \notin live, Derive(k), Hold(u, k),
             unlocked' = unlocked \ {k}
      PROVE  CustodyInv'
  <2>0. k \in Wrappers /\ k \notin live BY DEF Free
  <2>1. CustodyTypeOK' BY <1>0, <1>2, <2>0, KeyCustodyAssumption DEF CustodyInv, CustodyTypeOK, Hold, Derive
  <2>2. IdleHoldsNothing' BY <1>0, <1>2 DEF CustodyInv, CustodyTypeOK, IdleHoldsNothing, Hold
  <2>3. KeyIsInUse'
    <3> SUFFICES ASSUME NEW j \in live' \ unlocked'
                 PROVE  \E v \in Users : key'[v] = j
      BY DEF KeyIsInUse
    <3>1. CASE j = k BY <3>1, <1>2 DEF CustodyInv, CustodyTypeOK, Hold
    <3>2. CASE j # k
      <4>1. j \in live \ unlocked BY <3>2, <1>2 DEF Derive
      <4>2. PICK v \in Users : key[v] = j BY <4>1 DEF CustodyInv, KeyIsInUse
      <4>3. v # u BY <4>1, <4>2, <1>0, KeyCustodyAssumption DEF CustodyInv, CustodyTypeOK
      <4>4. QED BY <4>2, <4>3, <1>2 DEF CustodyInv, CustodyTypeOK, Hold
    <3>3. QED BY <3>1, <3>2
  <2>4. SpareKeys' BY <1>0, <1>2, DeriveKeepsSpare
  <2>5. QED BY <2>1, <2>2, <2>3, <2>4 DEF CustodyInv
<1>3. CASE phase' = [phase EXCEPT ![u] = "idle"] /\ UNCHANGED <<cached, live, unlocked, key>>
  <2>1. CustodyTypeOK' BY <1>0, <1>3 DEF CustodyInv, CustodyTypeOK
  <2>2. IdleHoldsNothing' BY <1>0, <1>3 DEF CustodyInv, CustodyTypeOK, IdleHoldsNothing
  <2>3. KeyIsInUse' BY <1>3 DEF CustodyInv, KeyIsInUse
  <2>4. SpareKeys' BY <1>0, <1>3, DisposeKeepsSpare
  <2>5. QED BY <2>1, <2>2, <2>3, <2>4 DEF CustodyInv
<1>4. QED BY <1>1, <1>2, <1>3 DEF GetKeypair

\* A step that only moves a user to another await.
LEMMA MoveInv ==
    ASSUME CustodyInv, NEW u \in Users,
           NEW p \in {"loading", "quoting", "swapping"},
           phase[u] = "idle" \/ p # "loading",
           phase[u] # "idle" \/ p = "loading",
           phase' = [phase EXCEPT ![u] = p],
           UNCHANGED <<cached, live, unlocked, unlocks, key>>
    PROVE  CustodyInv'
<1>1. CustodyTypeOK' BY DEF CustodyInv, CustodyTypeOK
<1>2. IdleHoldsNothing' BY DEF CustodyInv, CustodyTypeOK, IdleHoldsNothing
<1>3. KeyIsInUse' BY DEF CustodyInv, KeyIsInUse
<1>4. SpareKeys' BY DisposeKeepsSpare
<1>5. QED BY <1>1, <1>2, <1>3, <1>4 DEF CustodyInv

LEMMA UnlockInv ==
    ASSUME CustodyInv, Unlock
    PROVE  CustodyInv'
<1>1. PICK k \in Free : Derive(k) /\ unlocked' = unlocked \cup {k}
  BY DEF Unlock
<1> USE <1>1, KeyCustodyAssumption DEF Unlock
<1>2. CustodyTypeOK' BY DEF CustodyInv, CustodyTypeOK, Derive, Free
<1>3. IdleHoldsNothing' BY DEF CustodyInv, IdleHoldsNothing
<1>4. KeyIsInUse'
  <2>1. live' \ unlocked' \subseteq live \ unlocked BY DEF Derive
  <2>2. QED BY <2>1 DEF CustodyInv, KeyIsInUse
<1>5. SpareKeys' BY DeriveKeepsSpare
<1>6. QED BY <1>2, <1>3, <1>4, <1>5 DEF CustodyInv

LEMMA WipeInv ==
    ASSUME CustodyInv, WipeKeypair
    PROVE  CustodyInv'
<1> USE DEF WipeKeypair
<1>1. CustodyTypeOK' BY DEF CustodyInv, CustodyTypeOK
<1>2. IdleHoldsNothing' BY DEF CustodyInv, IdleHoldsNothing
<1>3. KeyIsInUse' BY DEF CustodyInv, KeyIsInUse
<1>4. SpareKeys' BY DisposeKeepsSpare
<1>5. QED BY <1>1, <1>2, <1>3, <1>4 DEF CustodyInv

LEMMA CustodySteps == CustodyInv /\ [CustodyNext]_custodyVars => CustodyInv'
<1> SUFFICES ASSUME CustodyInv, [CustodyNext]_custodyVars PROVE CustodyInv'
  OBVIOUS
<1>1. CASE Unlock BY <1>1, UnlockInv
<1>2. CASE WipeKeypair BY <1>2, WipeInv
<1>3. ASSUME NEW u \in Users, Request(u) PROVE CustodyInv'
  BY <1>3, MoveInv DEF Request
<1>4. ASSUME NEW u \in Users, GetKeypair(u) PROVE CustodyInv'
  BY <1>4, GetKeypairInv
<1>5. ASSUME NEW u \in Users, BalanceEnds(u) \/ QuoteFails(u) \/ SwapReturns(u) \/ CloseRunEnds(u)
      PROVE CustodyInv'
  BY <1>5, FinishInv DEF BalanceEnds, QuoteFails, SwapReturns, CloseRunEnds
<1>6. ASSUME NEW u \in Users, AskQuote(u) PROVE CustodyInv'
  BY <1>6, MoveInv DEF AskQuote
<1>7. ASSUME NEW u \in Users, QuoteReturns(u) PROVE CustodyInv'
  BY <1>7, MoveInv, FinishInv DEF QuoteReturns
<1>8. CASE UNCHANGED custodyVars
  BY <1>8 DEF custodyVars, CustodyInv, CustodyTypeOK, IdleHoldsNothing, KeyIsInUse, SpareKeys
<1>9. QED BY <1>1, <1>2, <1>3, <1>4, <1>5, <1>6, <1>7, <1>8 DEF CustodyNext

\* CustodyInv holds in every reachable state.
THEOREM CustodyInvariant == CustodySpec => []CustodyInv
<1>1. QED BY CustodyStarts, CustodySteps, PTL DEF CustodySpec

\* Every variable keeps its type.
THEOREM CustodyTypes == CustodySpec => []CustodyTypeOK
<1>1. CustodyInv => CustodyTypeOK BY DEF CustodyInv
<1>2. QED BY <1>1, CustodyInvariant, PTL

\* A key that getKeypair() decrypted is alive only while somebody who was
\* given it is still at work.
THEOREM KeysAreInUse == CustodySpec => []KeyIsInUse
<1>1. CustodyInv => KeyIsInUse BY DEF CustodyInv
<1>2. QED BY <1>1, CustodyInvariant, PTL

\* However many users load the wallet at once, they share one decrypted key;
\* each unlock adds one at most.
THEOREM KeysAreBounded == CustodySpec => []OneLiveKey
<1>1. ASSUME CustodyInv PROVE OneLiveKey
  <2>1. /\ Cardinality(live \ {cached}) <= unlocks
        /\ Cardinality(live) \in Nat
        /\ unlocks \in Nat
    BY <1>1, FS_CardinalityType, KeyCustodyAssumption DEF CustodyInv, SpareKeys, CustodyTypeOK
  <2>2. Cardinality(live \ {cached}) =
          IF cached \in live THEN Cardinality(live) - 1 ELSE Cardinality(live)
    BY <1>1, FS_RemoveElement DEF CustodyInv, SpareKeys
  <2>3. QED BY <2>1, <2>2 DEF OneLiveKey
<1>2. QED BY <1>1, CustodyInvariant, PTL

-----------------------------------------------------------------------------
(* The lifecycle of the engine                                             *)

\* The inductive invariant: what a call finds when it resumes (PhaseOwnsState)
\* is what makes the mutual exclusion of starts and stops and the state of the
\* components inductive.
LifecycleInv ==
    /\ TypeOK
    /\ SingleCloseRun
    /\ StartsAlone
    /\ RunningIsArmed
    /\ HaltedIsDown
    /\ PhaseOwnsState

USE DEF StartPhases, TeardownPhases, RunPhases

\* The initial state of the engine satisfies the invariant.
LEMMA InitInv == Init => LifecycleInv
BY ConfigsAssumption
DEF Init, LifecycleInv, TypeOK, SingleCloseRun, StartsAlone, RunningIsArmed,
    HaltedIsDown, PhaseOwnsState, BotState

\* What the transition map allows, read the other way round: the states from
\* which each target can be entered.
LEMMA Sources ==
    ASSUME state \in BotState
    PROVE  /\ CanTransition("Idle") <=> state = "Stopped"
           /\ CanTransition("Starting") <=> state \in {"Idle", "Stopped"}
           /\ CanTransition("Running") <=> state = "Starting"
           /\ CanTransition("Stopped") <=> state \in {"Stopping", "Error"}
           /\ CanTransition("Error") <=> state # "Error"
<1>1. CASE state = "Idle" BY <1>1 DEF CanTransition, BOT_STATE_TRANSITIONS
<1>2. CASE state = "Starting" BY <1>2 DEF CanTransition, BOT_STATE_TRANSITIONS
<1>3. CASE state = "Running" BY <1>3 DEF CanTransition, BOT_STATE_TRANSITIONS
<1>4. CASE state = "Stopping" BY <1>4 DEF CanTransition, BOT_STATE_TRANSITIONS
<1>5. CASE state = "Stopped" BY <1>5 DEF CanTransition, BOT_STATE_TRANSITIONS
<1>6. CASE state = "Error" BY <1>6 DEF CanTransition, BOT_STATE_TRANSITIONS
<1>7. QED BY <1>1, <1>2, <1>3, <1>4, <1>5, <1>6 DEF BotState

\* configure(), the chaos toggle and reset() preserve the invariant.
LEMMA ConfigCallsInv ==
    ASSUME LifecycleInv, NEW c \in Callers,
           \/ \E cfg \in Configs : Configure(c, cfg)
           \/ \E enabled \in BOOLEAN : ToggleChaosMode(c, enabled)
           \/ Reset(c)
    PROVE  LifecycleInv'
<1> USE DEF LifecycleInv, TypeOK, SingleCloseRun, StartsAlone, RunningIsArmed,
            HaltedIsDown, PhaseOwnsState, Settle
<1>1. ASSUME NEW cfg \in Configs, Configure(c, cfg) PROVE LifecycleInv'
  BY <1>1, ConfigsAssumption DEF Configure
<1>2. ASSUME NEW enabled \in BOOLEAN, ToggleChaosMode(c, enabled) PROVE LifecycleInv'
  <2>1. config' \in Config \union {NoConfig} /\ (config # NoConfig => config' # NoConfig)
    BY <1>2, ConfigsAssumption DEF ToggleChaosMode, Config
  <2>2. QED BY <1>2, <2>1 DEF ToggleChaosMode
<1>3. CASE Reset(c)
  <2>1. \/ state = "Stopped" /\ state' = "Idle"
        \/ state' = state
    BY <1>3, Sources DEF Reset, Reject
  <2>2. startedAt' \in BOOLEAN /\ pc[c] = "idle" /\ pc' = pc
    BY <1>3 DEF Reset, Reject
  <2>3. outcome' \in [Callers -> {"none", "resolved", "rejected", "ignored"}]
    BY <1>3 DEF Reset, Reject
  <2>4. UNCHANGED <<config, closeRunInProgress, abort, executor, feed, kind, sawChaos>>
    BY <1>3 DEF Reset
  <2>5. QED BY <2>1, <2>2, <2>3, <2>4 DEF BotState
<1>4. QED BY <1>1, <1>2, <1>3

\* A step of start() enters Starting: the caller was at the door and the bot
\* Idle or Stopped, so nobody else is starting or tearing down.
LEMMA BeginStartingInv ==
    ASSUME LifecycleInv, NEW c \in Callers, pc[c] \in {"idle", "selecting"},
           NEW cfg \in Config, NEW chaos \in BOOLEAN, config # NoConfig,
           BeginStarting(c, cfg, chaos), UNCHANGED sawChaos
    PROVE  LifecycleInv'
<1> USE DEF LifecycleInv, TypeOK, SingleCloseRun, StartsAlone, RunningIsArmed,
            HaltedIsDown, PhaseOwnsState, BeginStarting
<1>1. CASE CanTransition("Starting") /\ state' = "Starting" /\ Goto(c, "building")
           /\ UNCHANGED outcome
  BY <1>1, Sources, ConfigsAssumption DEF Goto, BotState
<1>2. CASE Reject(c)
  BY <1>2, ConfigsAssumption DEF Reject, Settle
<1>3. QED BY <1>1, <1>2

\* start(), from its call to the end of the auto-selection, preserves the
\* invariant.
LEMMA StartCallInv ==
    ASSUME LifecycleInv, NEW c \in Callers, StartCall(c) \/ PairsSelected(c)
    PROVE  LifecycleInv'
<1> USE DEF LifecycleInv, TypeOK, SingleCloseRun, StartsAlone, RunningIsArmed,
            HaltedIsDown, PhaseOwnsState, engineVars
<1>1. CASE StartCall(c)
  <2>1. CASE Reject(c) /\ UNCHANGED <<engineVars, kind, sawChaos>>
    BY <2>1, <1>1 DEF Reject, Settle, StartCall
  <2>2. CASE /\ config # NoConfig
             /\ sawChaos' = [sawChaos EXCEPT ![c] = config.chaos]
             /\ Goto(c, "selecting")
             /\ UNCHANGED <<state, engineVars, kind, outcome>>
    <3>1. config.chaos \in BOOLEAN BY <2>2 DEF Config
    <3>2. QED BY <2>2, <3>1, <1>1 DEF Goto, StartCall
  <2>3. CASE config # NoConfig /\ BeginStarting(c, config, config.chaos) /\ UNCHANGED sawChaos
    <3>1. config \in Config /\ config.chaos \in BOOLEAN BY <2>3 DEF Config
    <3>2. pc[c] \in {"idle", "selecting"} BY <1>1 DEF StartCall
    <3>3. LifecycleInv BY DEF LifecycleInv
    <3>4. QED BY ONLY <2>3, <3>1, <3>2, <3>3, c \in Callers, BeginStartingInv
  <2>4. QED BY <1>1, <2>1, <2>2, <2>3 DEF StartCall
<1>2. CASE PairsSelected(c)
  <2>1. config # NoConfig /\ [config EXCEPT !.pairs = TRUE] \in Config
    BY <1>2 DEF PairsSelected, Config
  <2>2. CASE BeginStarting(c, [config EXCEPT !.pairs = TRUE], sawChaos[c])
             /\ UNCHANGED sawChaos
    <3>1. pc[c] \in {"idle", "selecting"} /\ sawChaos[c] \in BOOLEAN
      BY <1>2 DEF PairsSelected
    <3>2. LifecycleInv BY DEF LifecycleInv
    <3>3. QED BY ONLY <2>2, <2>1, <3>1, <3>2, c \in Callers, BeginStartingInv
  <2>3. CASE Reject(c) /\ UNCHANGED <<engineVars, kind, sawChaos>>
    BY <2>3, <1>2 DEF Reject, Settle, PairsSelected
  <2>4. QED BY <1>2, <2>2, <2>3 DEF PairsSelected
<1>3. QED BY <1>1, <1>2

\* initialize() preserves the invariant: only its own caller is in Starting.
LEMMA InitializeInv ==
    ASSUME LifecycleInv, NEW c \in Callers, BuildExecutor(c) \/ ConnectFeed(c)
    PROVE  LifecycleInv'
<1> USE DEF LifecycleInv, TypeOK, SingleCloseRun, StartsAlone, RunningIsArmed,
            HaltedIsDown, PhaseOwnsState, Goto, Settle, StartFailed, BotState
<1>1. CASE BuildExecutor(c)
  <2>1. config' \in Config /\ config' # NoConfig
    BY <1>1, ConfigsAssumption DEF BuildExecutor, Config
  <2>2. QED BY <1>1, <2>1, Sources DEF BuildExecutor
<1>2. CASE ConnectFeed(c)
  <2>1. /\ pc[c] = "connecting" /\ pc' = [pc EXCEPT ![c] = "idle"] /\ feed' = TRUE
        /\ UNCHANGED <<config, closeRunInProgress, abort, executor, kind, sawChaos>>
    BY <1>2 DEF ConnectFeed
  <2>2. state' \in {"Running", "Error"} /\ executor /\ abort = "armed"
    BY <1>2 DEF ConnectFeed
  <2>3. \A d \in Callers \ {c} : pc[d] \notin StartPhases \union TeardownPhases
    BY <2>1
  <2>4. TypeOK'
    BY <1>2, <2>1, <2>2 DEF ConnectFeed
  <2>5. SingleCloseRun' /\ StartsAlone'
    BY <2>1, <2>3
  <2>6. RunningIsArmed' /\ HaltedIsDown' /\ PhaseOwnsState'
    BY <2>1, <2>2, <2>3
  <2>7. QED BY <2>4, <2>5, <2>6
<1>3. QED BY <1>1, <1>2

\* The call of a stop, by a user, an emergency or a breached limit, preserves
\* the invariant: the guard decides between one run and none.
LEMMA StopCallInv ==
    ASSUME LifecycleInv, NEW c \in Callers,
           StopCall(c) \/ EmergencyStopCall(c) \/ RiskBreach(c)
    PROVE  LifecycleInv'
<1> USE DEF LifecycleInv, TypeOK, SingleCloseRun, StartsAlone, RunningIsArmed,
            HaltedIsDown, PhaseOwnsState
<1>1. PICK k \in {"stop", "emergency"}, states \in SUBSET {"Running", "Error"} :
          StopFrom(c, k, states)
  BY DEF StopCall, EmergencyStopCall, RiskBreach
<1>2. CASE state \in states /\ BeginCloseRun(c, k)
  BY <1>1, <1>2 DEF StopFrom, BeginCloseRun, TryBeginCloseRun, Goto, BotState
<1>3. CASE IgnoreStop(c)
  BY <1>1, <1>3 DEF StopFrom, IgnoreStop, Settle
<1>4. CASE Reject(c) /\ UNCHANGED <<closeRunInProgress, abort, kind>>
  BY <1>1, <1>4 DEF StopFrom, Reject, Settle
<1>5. QED BY <1>1, <1>2, <1>3, <1>4 DEF StopFrom

\* The stop pipeline preserves the invariant: its caller holds the close run,
\* and no start can be initializing beside it.
LEMMA PipelineInv ==
    ASSUME LifecycleInv, NEW c \in Callers,
           \/ DrainInFlightProcessing(c) \/ CloseOpenPositions(c)
           \/ Shutdown(c) \/ ReleaseCloseRun(c)
    PROVE  LifecycleInv'
<1> USE DEF LifecycleInv, TypeOK, SingleCloseRun, StartsAlone, RunningIsArmed,
            HaltedIsDown, PhaseOwnsState
<1>1. CASE DrainInFlightProcessing(c)
  BY <1>1 DEF DrainInFlightProcessing, Goto, engineVars
<1>2. CASE CloseOpenPositions(c)
  <2>1. /\ pc[c] = "closing" /\ state \in {"Stopping", "Error"}
        /\ UNCHANGED <<config, startedAt, abort, executor, kind, sawChaos>>
    BY <1>2 DEF CloseOpenPositions
  <2>2. \A d \in Callers \ {c} : pc[d] \notin StartPhases \union RunPhases
    BY <2>1
  <2>3. CASE feed' = FALSE /\ Goto(c, "persisting")
             /\ UNCHANGED <<state, closeRunInProgress, outcome>>
    BY <2>1, <2>2, <2>3 DEF Goto
  <2>4. CASE /\ state' = "Error" /\ Goto(c, "releasing")
             /\ UNCHANGED <<closeRunInProgress, outcome, feed>>
    BY <2>1, <2>2, <2>4 DEF Goto, BotState
  <2>5. CASE Reject(c) /\ closeRunInProgress' = FALSE /\ UNCHANGED feed
    BY <2>1, <2>2, <2>5 DEF Reject, Settle
  <2>6. QED BY <1>2, <2>3, <2>4, <2>5 DEF CloseOpenPositions, StopFailed
<1>3. CASE Shutdown(c)
  <2>1. /\ pc[c] = "persisting" /\ pc' = [pc EXCEPT ![c] = "notifying"]
        /\ executor' = FALSE /\ abort' = "none" /\ state' = "Stopped" /\ ~feed
        /\ UNCHANGED <<config, startedAt, closeRunInProgress, feed, kind, sawChaos, outcome>>
    BY <1>3 DEF Shutdown, Goto
  <2>2. \A d \in Callers \ {c} : pc[d] \notin StartPhases \union RunPhases
    BY <2>1
  <2>3. TypeOK' BY <2>1 DEF BotState
  <2>4. SingleCloseRun' /\ StartsAlone' BY <2>1, <2>2
  <2>5. RunningIsArmed' /\ HaltedIsDown' /\ PhaseOwnsState' BY <2>1, <2>2
  <2>6. QED BY <2>3, <2>4, <2>5
<1>4. CASE ReleaseCloseRun(c)
  BY <1>4 DEF ReleaseCloseRun, Settle
<1>5. QED BY <1>1, <1>2, <1>3, <1>4

\* Every step of the engine preserves the invariant.
LEMMA NextInv == LifecycleInv /\ [Next]_vars => LifecycleInv'
<1> SUFFICES ASSUME LifecycleInv, [Next]_vars PROVE LifecycleInv'
  OBVIOUS
<1>1. CASE RecordFatalError
  BY <1>1
  DEF RecordFatalError, LifecycleInv, TypeOK, BotState, SingleCloseRun, StartsAlone,
      RunningIsArmed, HaltedIsDown, PhaseOwnsState
<1>2. ASSUME NEW c \in Callers, Call(c) PROVE LifecycleInv'
  BY <1>2, ConfigCallsInv, StartCallInv, StopCallInv DEF Call
<1>3. ASSUME NEW c \in Callers, Continue(c) PROVE LifecycleInv'
  BY <1>3, StartCallInv, InitializeInv, PipelineInv DEF Continue
<1>4. CASE UNCHANGED vars
  BY <1>4
  DEF vars, LifecycleInv, TypeOK, SingleCloseRun, StartsAlone, RunningIsArmed,
      HaltedIsDown, PhaseOwnsState
<1>5. QED BY <1>1, <1>2, <1>3, <1>4 DEF Next

\* The inductive invariant holds in every reachable state of the engine.
THEOREM Invariance == Spec => []LifecycleInv
<1>1. Init => LifecycleInv BY InitInv
<1>2. LifecycleInv /\ [Next]_vars => LifecycleInv' BY NextInv
<1>3. QED BY <1>1, <1>2, PTL DEF Spec

\* Type correctness, for any number of callers and any configurations.
THEOREM TypeCorrect == Spec => []TypeOK
<1>1. LifecycleInv => TypeOK BY DEF LifecycleInv
<1>2. QED BY <1>1, Invariance, PTL

\* At most one close run is ever in progress, and the guard says so exactly.
THEOREM CloseRunIsSingleFlight == Spec => []SingleCloseRun
<1>1. LifecycleInv => SingleCloseRun BY DEF LifecycleInv
<1>2. QED BY <1>1, Invariance, PTL

\* No two starts initialize the engine together, and none beside a teardown.
THEOREM StartsRunAlone == Spec => []StartsAlone
<1>1. LifecycleInv => StartsAlone BY DEF LifecycleInv
<1>2. QED BY <1>1, Invariance, PTL

\* Running means able to trade; Idle and Stopped mean nothing is left alive.
THEOREM StateMatchesComponents == Spec => []StateIsHonest
<1>1. LifecycleInv => StateIsHonest BY DEF LifecycleInv, StateIsHonest
<1>2. QED BY <1>1, Invariance, PTL
=============================================================================
