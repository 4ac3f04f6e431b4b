------------------------------ MODULE MCLimits ------------------------------
(* What an operator sets and the bot has to keep: the limits of the loss     *)
(* guards (RiskGuards), the mode of a running bot (ChaosMode), and the       *)
(* configuration of the next start (BotConfiguration).  A behaviour moves    *)
(* one part, which Init chooses; the others stay at their beginning, and the *)
(* bounds of each are its own.                                               *)
EXTENDS RiskGuards, ChaosMode, BotConfiguration, TLC

CONSTANTS f1, f2, w1, w2, t1, t2, t3, gold, btc, s1, s2

VARIABLE part

MCFetches == {f1, f2}
MCWorlds == {w1, w2}
MCToggles == {t1, t2, t3}
MCPairs == {gold, btc}
MCStrategies == {s1, s2}
MCSymmetry == Permutations(MCFetches) \cup Permutations(MCWorlds) \cup Permutations(MCToggles)

MCInit ==
    /\ part \in {"guards", "mode", "configuration"}
    /\ Init /\ ConfigInit
    /\ ModeInit
    /\ part # "mode" => source = "none" /\ ~mode /\ (\A c \in Candles : candles[c].world = w1)

MCNext ==
    \/ part = "guards" /\ Next /\ UNCHANGED <<part, modeVars, configVars>>
    \/ part = "mode" /\ ModeNext /\ UNCHANGED <<part, vars, configVars>>
    \/ part = "configuration" /\ ConfigNext /\ UNCHANGED <<part, vars, modeVars>>

MCSpec == MCInit /\ [][MCNext]_<<part, vars, modeVars, configVars>>
=============================================================================
