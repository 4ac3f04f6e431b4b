--------------------------- MODULE CloseContract ---------------------------
(***************************************************************************)
(* What a close run promises, whatever its workers, timers and retries do: *)
(* each position is sold at most once, a position is announced as closed   *)
(* only when its sale is on the chain, a warning may be upgraded to        *)
(* "closed" but never the other way round, and the summary that ends the   *)
(* run counts as closed only what was announced as closed.                 *)
(* (src/openspec/specs/stop-close-all/spec.md, close-manager.ts)           *)
(***************************************************************************)
EXTENDS Sequences

CONSTANTS Positions, Attempts

VARIABLES
    landed,   \* landed[p]: the attempts whose sale of p is on the chain
    trail,    \* trail[p]: the events announced for p, oldest first
    summary   \* summary[p]: how the finished run reports p

vars == <<landed, trail, summary>>

Init ==
    /\ landed = [p \in Positions |-> {}]
    /\ trail = [p \in Positions |-> <<>>]
    /\ summary = [p \in Positions |-> "open"]

Sell(p) ==
    /\ landed[p] = {}
    /\ \E a \in Attempts : landed' = [landed EXCEPT ![p] = {a}]
    /\ UNCHANGED <<trail, summary>>

Warn(p) ==
    /\ trail[p] = <<>>
    /\ trail' = [trail EXCEPT ![p] = <<"close_failed">>]
    /\ UNCHANGED <<landed, summary>>

Confirm(p) ==
    /\ landed[p] # {}
    /\ trail[p] \in {<<>>, <<"close_failed">>}
    /\ trail' = [trail EXCEPT ![p] = Append(@, "position_closed")]
    /\ UNCHANGED <<landed, summary>>

Resolve ==
    /\ \A p \in Positions : summary[p] = "open"
    /\ summary' \in [Positions -> {"closed", "failed", "timed_out"}]
    /\ \A p \in Positions : summary'[p] = "closed" => trail[p] = <<"position_closed">>
    /\ UNCHANGED <<landed, trail>>

Next == Resolve \/ \E p \in Positions : Sell(p) \/ Warn(p) \/ Confirm(p)

Spec == Init /\ [][Next]_vars
=============================================================================
