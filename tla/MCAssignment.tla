---------------------------- MODULE MCAssignment ----------------------------
(* Two concurrent calls over two accounts and two single-slot workers of   *)
(* two regions; the second account still has a binding in the legacy hash. *)
EXTENDS Assignment, TLC

CONSTANTS a1, a2, w1, w2, c1, c2, east, west, elsewhere

MCCapacity == [w \in Worker |-> 1]
MCRegionOf == (w1 :> east) @@ (w2 :> west)
MCLegacy == (a1 :> NoWorker) @@ (a2 :> w2)
MCNoLegacy == [a \in Account |-> NoWorker]
Callers == Permutations({c1, c2})
=============================================================================
