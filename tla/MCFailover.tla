----------------------------- MODULE MCFailover -----------------------------
(* One tick per master, or two ticks of each of two masters, over workers  *)
(* of capacity 1 and a cluster without legacy keys.                        *)
EXTENDS Failover, TLC

CONSTANTS m1, m2, t1, t2

MCCapacity == [w \in Worker |-> 1]
MCRoomy == [w \in Worker |-> 3]
MCNoLegacy == [a \in Account |-> NoWorker]
MCMasterOf == (t1 :> m1) @@ (t2 :> m2)
MCOneMaster == [t \in Tick |-> m1]
Places == Permutations(Account) \cup Permutations(Worker)
Symmetric == Permutations(Account) \cup Permutations(Worker) \cup Permutations(Tick)

(* The one master never loses its lock, the API makes one assign call at a *)
(* time, and the workers are not silent all at once.                       *)
Steady ==
    /\ leader # NoMaster => leader' = leader
    /\ \E w \in Worker : hb'[w] # "stale"
    /\ Cardinality({a \in Account : request'[a] # NoWorker}) <= 1
=============================================================================
