--------------------------- MODULE MCBotLifecycle ---------------------------
(* The instances of BotLifecycle that TLC checks. *)
EXTENDS BotLifecycle

CONSTANTS c1, c2

Cfg(autoSelect, pairs, worlds, chaos, source) ==
    [autoSelect |-> autoSelect, pairs |-> pairs, worlds |-> worlds,
     chaos |-> chaos, source |-> source]

\* A chaos bot whose pairs are still to be selected, a multi-world strategy
\* bot, and a strategy bot that lost its source.
SomeConfigs ==
    {Cfg(TRUE, FALSE, FALSE, TRUE, FALSE),
     Cfg(FALSE, FALSE, TRUE, FALSE, TRUE),
     Cfg(TRUE, FALSE, FALSE, FALSE, FALSE)}
=============================================================================
