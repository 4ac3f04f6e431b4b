----------------------------- MODULE MCBarFeed -----------------------------
(* The instances of BarFeed that TLC checks: an instrument of each category. *)
EXTENDS BarFeed, TLC

CONSTANTS btc, gold, s1, s2, s3, s4

MCCategory == [p \in Pairs |-> IF p = btc THEN "linear" ELSE "spot"]
MCOwner    == [s \in Sockets |-> IF s \in {s1, s2} THEN "linear" ELSE "spot"]
=============================================================================
