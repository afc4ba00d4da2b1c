--------------------------- MODULE RegistryProofs ---------------------------
(***************************************************************************)
(* Lemmas about the scripts of Registry, for the proofs about the modules  *)
(* that run them: what they keep typed, and what they do to the accounts   *)
(* of a worker and to its slot counter.                                    *)
(***************************************************************************)
EXTENDS Registry, FiniteSetTheorems, TLAPS

-----------------------------------------------------------------------------
(* The scripts keep the types of the registry.                             *)

LEMMA AssignTyped ==
    ASSUME RegistryTypeOK, NEW a \in Account, NEW w \in Worker, AtomicAssign(a, w)
    PROVE  RegistryTypeOK'
BY DEF RegistryTypeOK, AtomicAssign, registryVars, Binding

LEMMA ReassignTyped ==
    ASSUME RegistryTypeOK, NEW a \in Account, NEW w \in Worker, NEW o \in Binding,
           AtomicReassign(a, w, o)
    PROVE  /\ RegistryTypeOK'
           /\ \A b \in Account : assign[b] # NoWorker => assign'[b] # NoWorker
<1>1. CASE ReassignCode(a, w, o) = 1
  <2>1. /\ assign' = [assign EXCEPT ![a] = w]
        /\ load' = [load EXCEPT ![w] = @ + 1]
        /\ members' = [x \in Worker |-> IF x = w THEN members[x] \cup {a}
                                        ELSE IF x = o THEN members[x] \ {a}
                                        ELSE members[x]]
    BY <1>1 DEF AtomicReassign
  <2>2. members' \in [Worker -> SUBSET Account]
    BY <2>1 DEF RegistryTypeOK
  <2> QED
    BY <2>1, <2>2, WorkerAssumption DEF RegistryTypeOK, Binding
<1>2. CASE ReassignCode(a, w, o) # 1
  BY <1>2 DEF AtomicReassign, RegistryTypeOK, registryVars
<1> QED
  BY <1>1, <1>2

LEMMA UnassignTyped ==
    ASSUME RegistryTypeOK, NEW a \in Account, NEW w \in Binding, NEW r \in BOOLEAN,
           AtomicUnassign(a, w, r)
    PROVE  /\ RegistryTypeOK'
           /\ \A b \in Account : assign'[b] # assign[b] => assign[b] = w
<1>1. CASE UnassignCode(a, w) = 1
  <2>1. /\ assign' = [assign EXCEPT ![a] = NoWorker]
        /\ members' = [members EXCEPT ![w] = @ \ {a}]
        /\ load' = [load EXCEPT ![w] = IF r /\ @ > 0 THEN @ - 1 ELSE @]
        /\ assign[a] = w /\ w \in Worker
    BY <1>1 DEF AtomicUnassign, UnassignCode, Binding
  <2> QED
    BY <2>1 DEF RegistryTypeOK, Binding
<1>2. CASE UnassignCode(a, w) # 1
  BY <1>2 DEF AtomicUnassign, RegistryTypeOK, registryVars
<1> QED
  BY <1>1, <1>2

LEMMA SyncTyped ==
    ASSUME RegistryTypeOK, NEW w \in Worker, NEW n \in Nat, NEW f \in BOOLEAN,
           AtomicSyncLoad(w, n, f)
    PROVE  RegistryTypeOK' /\ UNCHANGED assign
BY DEF RegistryTypeOK, AtomicSyncLoad

LEMMA BackfillTyped ==
    ASSUME RegistryTypeOK, NEW a \in Account, NEW w \in Binding, BackfillAssignment(a, w)
    PROVE  /\ RegistryTypeOK'
           /\ w # NoWorker =>
                \A b \in Account : assign[b] # NoWorker => assign'[b] # NoWorker
BY DEF RegistryTypeOK, BackfillAssignment, Binding

-----------------------------------------------------------------------------
(* The slot counters.                                                      *)

LEMMA OwnedFinite ==
    ASSUME NEW w \in Worker
    PROVE  IsFiniteSet(Owned(w)) /\ Cardinality(Owned(w)) \in Nat
BY AccountAssumption, FS_Subset, FS_CardinalityType DEF Owned

(* What a script does to the accounts of a worker and to its counter.      *)
Fewer(w) == Owned(w)' \subseteq Owned(w) /\ load'[w] = load[w]
OneMore(w) ==
    /\ load'[w] = load[w] + 1
    /\ \E a \in Account \ Owned(w) : Owned(w)' = Owned(w) \cup {a}
OneLess(w) ==
    /\ load'[w] >= load[w] - 1
    /\ \E a \in Owned(w) : Owned(w)' = Owned(w) \ {a}

(* The assign script looks at the capacity first, reassign does not.       *)
OneMoreFits(w) == OneMore(w) /\ load[w] < Capacity[w]

LEMMA AssignSlots ==
    ASSUME RegistryTypeOK, NEW a \in Account, NEW v \in Worker, AtomicAssign(a, v),
           NEW w \in Worker
    PROVE  Fewer(w) \/ OneMoreFits(w)
<1> USE WorkerAssumption, CapacityAssumption DEF WorkerAssumption, CapacityAssumption
<1>1. CASE UNCHANGED registryVars
  BY <1>1 DEF registryVars, Fewer, Owned
<1>2. CASE AssignCode(a, v) = 1
  <2>1. /\ assign[a] = NoWorker /\ load[v] < Capacity[v]
        /\ assign' = [assign EXCEPT ![a] = v]
        /\ load' = [load EXCEPT ![v] = @ + 1]
    BY <1>2 DEF AtomicAssign, AssignCode, RegistryTypeOK
  <2>2. CASE w = v
    <3>1. a \notin Owned(w) /\ Owned(w)' = Owned(w) \cup {a}
      BY <2>1, <2>2 DEF Owned, RegistryTypeOK
    <3> QED
      BY <2>1, <2>2, <3>1 DEF OneMoreFits, OneMore, RegistryTypeOK
  <2>3. CASE w # v
    BY <2>1, <2>3 DEF Fewer, Owned, RegistryTypeOK
  <2> QED
    BY <2>2, <2>3
<1> QED
  BY <1>1, <1>2 DEF AtomicAssign

(* The new owner gains a slot and an account; the old one keeps its slot.  *)
LEMMA ReassignSlots ==
    ASSUME RegistryTypeOK, NEW a \in Account, NEW v \in Worker, NEW o \in Binding,
           AtomicReassign(a, v, o), NEW w \in Worker
    PROVE  Fewer(w) \/ OneMore(w)
<1>1. CASE UNCHANGED registryVars
  BY <1>1 DEF registryVars, Fewer, Owned
<1>2. CASE ReassignCode(a, v, o) = 1
  <2>1. /\ assign[a] # v
        /\ assign' = [assign EXCEPT ![a] = v]
        /\ load' = [load EXCEPT ![v] = @ + 1]
    BY <1>2 DEF AtomicReassign, ReassignCode
  <2>2. CASE w = v
    <3>1. a \notin Owned(w) /\ Owned(w)' = Owned(w) \cup {a}
      BY <2>1, <2>2 DEF Owned, RegistryTypeOK
    <3> QED
      BY <2>1, <2>2, <3>1 DEF OneMore, RegistryTypeOK
  <2>3. CASE w # v
    BY <2>1, <2>3 DEF Fewer, Owned, RegistryTypeOK
  <2> QED
    BY <2>2, <2>3
<1> QED
  BY <1>1, <1>2 DEF AtomicReassign

LEMMA UnassignSlots ==
    ASSUME RegistryTypeOK, NEW a \in Account, NEW v \in Binding, NEW r \in BOOLEAN,
           AtomicUnassign(a, v, r), NEW w \in Worker
    PROVE  Fewer(w) \/ OneLess(w)
<1> USE WorkerAssumption DEF WorkerAssumption
<1>1. CASE UNCHANGED registryVars
  BY <1>1 DEF registryVars, Fewer, Owned
<1>2. CASE UnassignCode(a, v) = 1
  <2>1. /\ assign[a] = v /\ v \in Worker
        /\ assign' = [assign EXCEPT ![a] = NoWorker]
        /\ load' = [load EXCEPT ![v] = IF r /\ @ > 0 THEN @ - 1 ELSE @]
    BY <1>2 DEF AtomicUnassign, UnassignCode, RegistryTypeOK, Binding
  <2>2. CASE w = v
    <3>1. a \in Owned(w) /\ Owned(w)' = Owned(w) \ {a}
      BY <2>1, <2>2 DEF Owned, RegistryTypeOK
    <3>2. load'[w] >= load[w] - 1
      BY <2>1, <2>2 DEF RegistryTypeOK
    <3> QED
      BY <3>1, <3>2 DEF OneLess
  <2>3. CASE w # v
    BY <2>1, <2>3 DEF Fewer, Owned, RegistryTypeOK
  <2> QED
    BY <2>2, <2>3
<1> QED
  BY <1>1, <1>2 DEF AtomicUnassign

(* The number of accounts follows: what the counter loses, they lose too.  *)
LEMMA CountStep ==
    ASSUME NEW w \in Worker
    PROVE  LET n == Cardinality(Owned(w))
               m == Cardinality(Owned(w)')
           IN  /\ n \in Nat /\ m \in Nat
               /\ assign' = assign => m = n
               /\ Fewer(w) => m <= n /\ load'[w] = load[w]
               /\ OneMore(w) => m = n + 1 /\ load'[w] = load[w] + 1
               /\ OneLess(w) => m = n - 1 /\ load'[w] >= load[w] - 1
<1>1. IsFiniteSet(Owned(w)) /\ Cardinality(Owned(w)) \in Nat
  BY OwnedFinite
<1>2. IsFiniteSet(Owned(w)') /\ Cardinality(Owned(w)') \in Nat
  BY AccountAssumption, FS_Subset, FS_CardinalityType DEF Owned
<1>3. assign' = assign => Owned(w)' = Owned(w)
  BY DEF Owned
<1>4. Fewer(w) => Cardinality(Owned(w)') <= Cardinality(Owned(w))
  BY <1>1, FS_Subset DEF Fewer
<1>5. OneMore(w) => Cardinality(Owned(w)') = Cardinality(Owned(w)) + 1
  BY <1>1, FS_AddElement DEF OneMore
<1>6. OneLess(w) => Cardinality(Owned(w)') = Cardinality(Owned(w)) - 1
  BY <1>1, FS_RemoveElement DEF OneLess
<1>7. /\ Fewer(w) => load'[w] = load[w]
      /\ OneMore(w) => load'[w] = load[w] + 1
      /\ OneLess(w) => load'[w] >= load[w] - 1
  BY DEF Fewer, OneMore, OneLess
<1> QED
  BY <1>1, <1>2, <1>3, <1>4, <1>5, <1>6, <1>7
=============================================================================
