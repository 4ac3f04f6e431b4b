-------------------------- MODULE MCStrategyEngine --------------------------
(* The instance of StrategyEngine that TLC checks: entries at the market;    *)
(* exits at the market, at a profit and of one entry only, through a stop    *)
(* that becomes a limit, and with a trailing stop.                           *)
EXTENDS StrategyEngine

CONSTANTS a, b

MCEntryForms == {[stop |-> 0, limit |-> 0]}
MCExitForms ==
    {[stop |-> 0, limit |-> 0, trail |-> "none", from |-> None, name |-> b],
     [stop |-> 0, limit |-> 3, trail |-> "none", from |-> b, name |-> a],
     [stop |-> 3, limit |-> 3, trail |-> "none", from |-> None, name |-> a],
     [stop |-> 0, limit |-> 0, trail |-> "offset", from |-> None, name |-> a]}
=============================================================================
