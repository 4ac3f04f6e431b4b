-------------------------- MODULE MCOrderPipeline --------------------------
(* The instances of OrderPipeline that TLC checks. *)
EXTENDS OrderPipeline, TLC

CONSTANTS w1, w2

WorldSymmetry == Permutations(Worlds)
=============================================================================
