------------------------- MODULE MCBotConfiguration -------------------------
(* The instance of BotConfiguration that shows which pairs are traded; the   *)
(* rest of the module is checked in MCLimits.                                *)
EXTENDS BotConfiguration
CONSTANTS gold, btc, s1, s2, none
MCPairs == {gold, btc}
MCStrategies == {s1, s2}
=============================================================================
