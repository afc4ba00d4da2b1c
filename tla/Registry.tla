------------------------------ MODULE Registry ------------------------------
(***************************************************************************)
(* The routing state that every process of the cluster shares in Redis     *)
(* (registry/registry.ts), and the Lua scripts that change it.  Redis runs *)
(* a script without interleaving, so each script is one atomic step here;  *)
(* the modules that extend this one model the TypeScript around the        *)
(* scripts, one step per awaited command.                                  *)
(*                                                                         *)
(*   assign   registry:assign, accountId -> workerId                       *)
(*   load     registry:load, workerId -> slots in use (absent reads as 0)  *)
(*   members  registry:worker_accounts:<wid>, the reverse index            *)
(*   Legacy   the hash of the same name without the cluster tag: old       *)
(*            releases wrote it, this one only reads it                    *)
(*                                                                         *)
(* registry:assigned_at feeds one latency metric and is left out.          *)
(***************************************************************************)
EXTENDS Integers, FiniteSets

CONSTANTS
    Account,    \* accountIds
    Worker,     \* workerIds
    NoWorker,   \* "no binding"
    Capacity,   \* WorkerInfo.capacity
    Legacy      \* the binding the pre-cluster hash holds

ASSUME AccountAssumption == IsFiniteSet(Account)
ASSUME WorkerAssumption == NoWorker \notin Worker
ASSUME CapacityAssumption == Capacity \in [Worker -> Nat \ {0}]
ASSUME LegacyAssumption == Legacy \in [Account -> Worker \cup {NoWorker}]

VARIABLES assign, load, members

registryVars == <<assign, load, members>>

Binding == Worker \cup {NoWorker}

RegistryTypeOK ==
    /\ assign \in [Account -> Binding]
    /\ load \in [Worker -> Nat]
    /\ members \in [Worker -> SUBSET Account]

RegistryInit ==
    /\ assign = [a \in Account |-> NoWorker]
    /\ load = [w \in Worker |-> 0]
    /\ members = [w \in Worker |-> {}]

(* The accounts the hash binds to w. *)
Owned(w) == {a \in Account : assign[a] = w}

(* No account of this cluster predates the cluster-tagged keys. *)
NoLegacy == \A a \in Account : Legacy[a] = NoWorker

-----------------------------------------------------------------------------
(* What the scripts return, in the state they run in. *)

(* Variants of AssignCode with a bug: no look at the existing binding, the *)
(* capacity off by one.                                                    *)
AssignCodeBlind(a, w) == IF load[w] >= Capacity[w] THEN -1 ELSE 1

AssignCodeOffByOne(a, w) ==
    IF assign[a] # NoWorker THEN 0
    ELSE IF load[w] > Capacity[w] THEN -1 ELSE 1

AssignCode(a, w) ==
    IF assign[a] # NoWorker THEN 0
    ELSE IF load[w] >= Capacity[w] THEN -1 ELSE 1

ReassignCode(a, new, old) ==
    IF assign[a] = NoWorker THEN -1
    ELSE IF assign[a] = new THEN 0
    ELSE IF old # NoWorker /\ assign[a] # old THEN -1 ELSE 1

UnassignCode(a, expected) ==
    IF assign[a] = NoWorker THEN -1
    ELSE IF assign[a] # expected THEN 0 ELSE 1

(* What the scripts do. *)

(* Variants with a bug: assign without taking a slot, assign without      *)
(* writing the index.                                                      *)
AtomicAssignNoSlot(a, w) ==
    IF AssignCode(a, w) = 1
    THEN /\ assign' = [assign EXCEPT ![a] = w]
         /\ members' = [members EXCEPT ![w] = @ \cup {a}]
         /\ UNCHANGED load
    ELSE UNCHANGED registryVars

AtomicAssignNoIndex(a, w) ==
    IF AssignCode(a, w) = 1
    THEN /\ assign' = [assign EXCEPT ![a] = w]
         /\ load' = [load EXCEPT ![w] = @ + 1]
         /\ UNCHANGED members
    ELSE UNCHANGED registryVars

AtomicAssign(a, w) ==
    IF AssignCode(a, w) = 1
    THEN /\ assign' = [assign EXCEPT ![a] = w]
         /\ load' = [load EXCEPT ![w] = @ + 1]
         /\ members' = [members EXCEPT ![w] = @ \cup {a}]
    ELSE UNCHANGED registryVars

(* Variants with a bug: reassign without taking a slot on the new owner,   *)
(* reassign without clearing the index of the old one.                     *)
AtomicReassignNoSlot(a, new, old) ==
    IF ReassignCode(a, new, old) = 1
    THEN /\ assign' = [assign EXCEPT ![a] = new]
         /\ members' = [w \in Worker |->
                          IF w = new THEN members[w] \cup {a}
                          ELSE IF w = old THEN members[w] \ {a}
                          ELSE members[w]]
         /\ UNCHANGED load
    ELSE UNCHANGED registryVars

AtomicReassignNoIndex(a, new, old) ==
    IF ReassignCode(a, new, old) = 1
    THEN /\ assign' = [assign EXCEPT ![a] = new]
         /\ load' = [load EXCEPT ![new] = @ + 1]
         /\ members' = [members EXCEPT ![new] = @ \cup {a}]
    ELSE UNCHANGED registryVars

(* The old owner keeps its slot; with no old owner (the caller's lookup    *)
(* found none) nothing is taken out of any index.                          *)
AtomicReassign(a, new, old) ==
    IF ReassignCode(a, new, old) = 1
    THEN /\ assign' = [assign EXCEPT ![a] = new]
         /\ load' = [load EXCEPT ![new] = @ + 1]
         /\ members' = [w \in Worker |->
                          IF w = new THEN members[w] \cup {a}
                          ELSE IF w = old THEN members[w] \ {a}
                          ELSE members[w]]
    ELSE UNCHANGED registryVars

(* Variant with a bug: unassign leaves the account in the index. *)
AtomicUnassignNoIndex(a, expected, release) ==
    IF UnassignCode(a, expected) = 1
    THEN /\ assign' = [assign EXCEPT ![a] = NoWorker]
         /\ load' = [load EXCEPT ![expected] =
                        IF release /\ @ > 0 THEN @ - 1 ELSE @]
         /\ UNCHANGED members
    ELSE UNCHANGED registryVars

(* Variant with a bug: the counter is lowered without looking at zero. *)
AtomicUnassignUnchecked(a, expected, release) ==
    IF UnassignCode(a, expected) = 1
    THEN /\ assign' = [assign EXCEPT ![a] = NoWorker]
         /\ members' = [members EXCEPT ![expected] = @ \ {a}]
         /\ load' = [load EXCEPT ![expected] = IF release THEN @ - 1 ELSE @]
    ELSE UNCHANGED registryVars

(* release is releaseSlot: whether the slot counter goes down as well. *)
AtomicUnassign(a, expected, release) ==
    IF UnassignCode(a, expected) = 1
    THEN /\ assign' = [assign EXCEPT ![a] = NoWorker]
         /\ members' = [members EXCEPT ![expected] = @ \ {a}]
         /\ load' = [load EXCEPT ![expected] =
                        IF release /\ @ > 0 THEN @ - 1 ELSE @]
    ELSE UNCHANGED registryVars

(* The load half of ATOMIC_HEARTBEAT_LUA: raise to n, or with force set n. *)
AtomicSyncLoad(w, n, force) ==
    /\ load' = [load EXCEPT ![w] = IF force \/ n > @ THEN n ELSE @]
    /\ UNCHANGED <<assign, members>>

(* backfillAssignment: a legacy binding is copied to the current keys.  It *)
(* was read earlier and is written unconditionally; load is not touched.   *)
BackfillAssignment(a, w) ==
    /\ assign' = [assign EXCEPT ![a] = w]
    /\ members' = [members EXCEPT ![w] = @ \cup {a}]
    /\ UNCHANGED load
=============================================================================
