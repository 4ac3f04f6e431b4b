------------------------------ MODULE MCStores ------------------------------
(* What the server keeps for its clients: the trade history with its archive *)
(* (TradeHistory) and the cached bars (BarCache).  A behaviour moves one     *)
(* part, which Init chooses; the other stays at its beginning, and the       *)
(* bounds of each are its own.                                               *)
EXTENDS TradeHistory, BarCache, TLC

VARIABLE part
allVars == <<part, vars, cacheVars>>

\* Trade ids end in a decimal counter, so their string order is not their age:
\* "...-9" comes after "...-10".  The third trade sorts before the second.
MCIdRank == <<1, 3, 2, 5, 4>>

MCInit == part \in {"trades", "bars"} /\ Init /\ CacheInit

MCNext ==
    \/ part = "trades" /\ Next /\ UNCHANGED <<part, cacheVars>>
    \/ part = "bars" /\ CacheNext /\ UNCHANGED <<part, vars>>

MCSpec == MCInit /\ [][MCNext]_allVars
=============================================================================
