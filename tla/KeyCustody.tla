---------------------------- MODULE KeyCustody ----------------------------
(***************************************************************************)
(* The decrypted wallet key (src/src/trading/wallet/).  getKeypair() gives *)
(* everybody the same disposable wrapper as long as it is alive, and       *)
(* everybody disposes what he was given when he is done: the orders of the *)
(* strategy executor, its balance snapshots and the close runs.            *)
(*                                                                         *)
(* A wrapper is a member of Wrappers.  It is free again when it is dead    *)
(* and nobody refers to it, so no counter is needed.                       *)
(***************************************************************************)
EXTENDS Naturals, FiniteSets

CONSTANTS
    Orders,      \* concurrent calls of executeSignal()
    Snapshots,   \* concurrent calls of fetchUsdcBalance()
    CloseRuns,   \* concurrent calls of closeAllPositions()
    Wrappers,    \* bound: the wrappers that exist at a time
    NoWrapper,
    MaxUnlocks   \* bound: how often the operator unlocks the wallet

Users == Orders \cup Snapshots \cup CloseRuns

ASSUME KeyCustodyAssumption ==
    /\ NoWrapper \notin Wrappers
    /\ MaxUnlocks \in Nat
    /\ Orders \cap (Snapshots \cup CloseRuns) = {} /\ Snapshots \cap CloseRuns = {}

VARIABLES
    cached,     \* decryptedKeypair
    live,       \* the wrappers that are not disposed
    unlocked,   \* the wrappers that unlock() made
    unlocks,    \* how often unlock() succeeded
    phase,      \* the await each user is suspended at
    key         \* the wrapper each user was given

custodyVars == <<cached, live, unlocked, unlocks, phase, key>>

CustodyTypeOK ==
    /\ cached \in Wrappers \cup {NoWrapper}
    /\ live \subseteq Wrappers
    /\ unlocked \subseteq Wrappers
    /\ unlocks \in 0..MaxUnlocks
    /\ phase \in [Users -> {"idle", "loading", "balance", "quoting", "swapping", "closing"}]
    /\ key \in [Users -> Wrappers \cup {NoWrapper}]

CustodyInit ==
    /\ cached = NoWrapper
    /\ live = {}
    /\ unlocked = {}
    /\ unlocks = 0
    /\ phase = [u \in Users |-> "idle"]
    /\ key = [u \in Users |-> NoWrapper]

-----------------------------------------------------------------------------

Free == Wrappers \ (live \cup {cached} \cup {key[u] : u \in Users})

\* new SensitiveData(keypair), kept as the cached one.
Derive(k) ==
    /\ k \in Free
    /\ cached' = k
    /\ live' = live \cup {k}

\* The call of u is over: its finally block disposes the wrapper.
Finish(u) ==
    /\ live' = live \ {key[u]}
    /\ key' = [key EXCEPT ![u] = NoWrapper]
    /\ phase' = [phase EXCEPT ![u] = "idle"]
    /\ UNCHANGED <<cached, unlocked, unlocks>>

\* u goes on with wrapper k: it reads the public key, or the bytes that the
\* whole close run uses.
Hold(u, k) ==
    /\ key' = [key EXCEPT ![u] = k]
    /\ phase' = [phase EXCEPT ![u] = IF u \in CloseRuns THEN "closing" ELSE "balance"]

Request(u) ==
    /\ phase[u] = "idle"
    /\ phase' = [phase EXCEPT ![u] = "loading"]
    /\ UNCHANGED <<cached, live, unlocked, unlocks, key>>

\* Mutant of GetKeypair: the cache was looked up before the wallet was loaded.
MutantGetKeypair(u) ==
    /\ phase[u] = "loading"
    /\ \E k \in Free : /\ Derive(k)
                       /\ Hold(u, k)
                       /\ unlocked' = unlocked \ {k}
                       /\ UNCHANGED unlocks

\* getKeypair() after the wallet was loaded: the cached wrapper if it is
\* alive, a new one otherwise, an error if there is no wallet to decrypt.
GetKeypair(u) ==
    /\ phase[u] = "loading"
    /\ \/ /\ cached \in live
          /\ Hold(u, cached)
          /\ UNCHANGED <<cached, live, unlocked>>
       \/ /\ cached \notin live
          /\ \E k \in Free : Derive(k) /\ Hold(u, k) /\ unlocked' = unlocked \ {k}
       \/ /\ phase' = [phase EXCEPT ![u] = "idle"]
          /\ UNCHANGED <<cached, live, unlocked, key>>
    /\ UNCHANGED unlocks

\* Mutant of BalanceEnds: no finally block.
MutantBalanceEnds(u) ==
    /\ phase[u] = "balance"
    /\ key' = [key EXCEPT ![u] = NoWrapper]
    /\ phase' = [phase EXCEPT ![u] = "idle"]
    /\ UNCHANGED <<cached, live, unlocked, unlocks>>

\* The balance of a snapshot is there or its fetch failed; an order fails or
\* is blocked by the balance.
BalanceEnds(u) == phase[u] = "balance" /\ Finish(u)

AskQuote(o) ==
    /\ o \in Orders
    /\ phase[o] = "balance"
    /\ phase' = [phase EXCEPT ![o] = "quoting"]
    /\ UNCHANGED <<cached, live, unlocked, unlocks, key>>

QuoteFails(o) == phase[o] = "quoting" /\ Finish(o)

\* The order reads the private key out of the wrapper only now: it throws when
\* the wrapper was disposed in the meantime, and swaps otherwise.
QuoteReturns(o) ==
    /\ phase[o] = "quoting"
    /\ \/ /\ key[o] \in live
          /\ phase' = [phase EXCEPT ![o] = "swapping"]
          /\ UNCHANGED <<cached, live, unlocked, unlocks, key>>
       \/ /\ key[o] \notin live
          /\ Finish(o)

SwapReturns(o) == phase[o] = "swapping" /\ Finish(o)

\* The close run resolved, with its closes or at its deadline.
CloseRunEnds(r) == phase[r] = "closing" /\ Finish(r)

\* unlock(): a wrapper of its own, whatever was cached before.
Unlock ==
    /\ unlocks < MaxUnlocks
    /\ \E k \in Free : Derive(k) /\ unlocked' = unlocked \cup {k}
    /\ unlocks' = unlocks + 1
    /\ UNCHANGED <<phase, key>>

\* wipeKeypair(), for lock(), forgotPassword() and removeWallet().
WipeKeypair ==
    /\ cached # NoWrapper
    /\ live' = live \ {cached}
    /\ cached' = NoWrapper
    /\ UNCHANGED <<unlocked, unlocks, phase, key>>

-----------------------------------------------------------------------------

CustodyNext ==
    \/ Unlock \/ WipeKeypair
    \/ \E u \in Users :
          \/ Request(u) \/ GetKeypair(u) \/ BalanceEnds(u) \/ AskQuote(u)
          \/ QuoteFails(u) \/ QuoteReturns(u) \/ SwapReturns(u) \/ CloseRunEnds(u)

CustodySpec == CustodyInit /\ [][CustodyNext]_custodyVars

-----------------------------------------------------------------------------
(* Correctness.                                                            *)

\* "Decrypted into memory, used, and wiped": a key that getKeypair() decrypted
\* is alive only while somebody who was given it is still at work, whoever of
\* those who share it finishes first and however his call ends.
KeyIsInUse == \A k \in live \ unlocked : \E u \in Users : key[u] = k

\* Concurrent users share one decrypted key although each of them loads the
\* wallet on its own; each unlock() adds one at most.
OneLiveKey == Cardinality(live) <= 1 + unlocks
=============================================================================
