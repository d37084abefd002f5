-------------------------- MODULE MCTriggerIngest --------------------------
(* Small instances of TriggerIngest: three deliveries of one video, which   *)
(* are interchangeable, and one of another.                                 *)
EXTENDS TriggerIngest, TLC

CONSTANTS d1, d2, d3, d4, k1, k2

SomeKeys  == d1 :> k1 @@ d2 :> k1 @@ d3 :> k1 @@ d4 :> k2
SameVideo == Permutations({d1, d2, d3})
=============================================================================
