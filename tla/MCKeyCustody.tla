---------------------------- MODULE MCKeyCustody ----------------------------
(* The instances of KeyCustody that TLC checks. *)
EXTENDS KeyCustody, TLC

CONSTANTS o1, o2, s1, r1, k1, k2, k3, k4, k5

\* The users of one kind are alike, and so are the wrappers.
CustodySymmetry ==
    Permutations(Orders) \cup Permutations(Snapshots) \cup Permutations(Wrappers)
=============================================================================
