--------------------------- MODULE FailoverProofs ---------------------------
(***************************************************************************)
(* Proofs about Failover, for any number of masters, ticks, workers,       *)
(* accounts and faults and, where nothing else is said, for ticks that     *)
(* overlap as they like.                                                   *)
(***************************************************************************)
EXTENDS Failover, RegistryProofs, WellFoundedInduction

SharedTyped ==
    /\ registered \subseteq Worker
    /\ hb \in [Worker -> {"none", "fresh", "stale"}]
    /\ up \subseteq Worker
    /\ leader \in Master \cup {NoMaster}
    /\ isLeader \in [Master -> BOOLEAN]
    /\ rebuild \in [Worker -> Tick \cup {"free", "orphan"}]
    /\ request \in [Account -> Binding]
    /\ faults \in 0..MaxFaults

TicksTyped ==
    /\ pc \in [Tick -> Step]
    /\ dead \in [Tick -> SUBSET Worker]
    /\ cur \in [Tick -> Binding]
    /\ todo \in [Tick -> SUBSET Account]
    /\ acct \in [Tick -> Account \cup {NoAccount}]
    /\ processed \in [Tick -> Nat]
    /\ view \in [Tick -> Seq(Seen)]
    /\ target \in [Tick -> Binding]
    /\ old \in [Tick -> Binding]

(* What a tick is about at each of its steps.                              *)
Aimed ==
    \A t \in Tick :
        /\ pc[t] \notin {"idle", "renew", "scan", "list"} => cur[t] \in Worker
        /\ pc[t] \in {"reload", "place", "move", "unbind"} => acct[t] \in Account
        /\ pc[t] = "move" => target[t] \in Worker /\ Roomy(view[t]) # {}

Typed == RegistryTypeOK /\ SharedTyped /\ TicksTyped /\ Aimed

LEMMA TypedOK == Typed => TypeOK
BY DEF Typed, SharedTyped, TicksTyped, TypeOK

LEMMA OwnerTyped == ASSUME RegistryTypeOK, NEW a \in Account PROVE Owner(a) \in Binding
BY LegacyAssumption DEF RegistryTypeOK, Owner, Binding, LegacyAssumption

-----------------------------------------------------------------------------
(* The snapshots.                                                          *)

LEMMA LeastIndex ==
    ASSUME NEW S \in SUBSET Nat, S # {} PROVE \E i \in S : \A j \in S : i =< j
<1> DEFINE R == OpToRel(<, Nat)
<1>1. IsWellFoundedOn(R, Nat)
  BY NatLessThanWellFounded
<1>2. \A x, y \in Nat : x < y => <<x, y>> \in R
  BY DEF OpToRel
<1> HIDE DEF R
<1>3. PICK x \in S : \A y \in S : <<y, x>> \notin R
  BY <1>1, WFMin
<1>4. ASSUME NEW j \in S PROVE x =< j
  <2>1. x \in Nat /\ j \in Nat /\ ~(j < x)
    BY <1>2, <1>3
  <2> QED
    BY <2>1
<1> QED
  BY <1>3, <1>4

LEMMA FirstRoomy ==
    ASSUME NEW s \in Seq(Seen), Roomy(s) # {} PROVE First(s) \in DOMAIN s
<1>1. Roomy(s) \in SUBSET Nat /\ Roomy(s) \subseteq DOMAIN s
  BY DEF Roomy
<1>2. \E i \in Roomy(s) : \A j \in Roomy(s) : i =< j
  BY <1>1, LeastIndex
<1> QED
  BY <1>1, <1>2 DEF First

LEMMA PlacedTyped ==
    ASSUME NEW s \in Seq(Seen), Roomy(s) # {}
    PROVE  Placed(s) \in Seq(Seen) /\ s[First(s)].worker \in Worker
<1>1. First(s) \in DOMAIN s /\ s[First(s)] \in Seen
  BY FirstRoomy
<1> QED
  BY <1>1 DEF Placed, Seen

LEMMA SnapshotsTyped ==
    ASSUME SharedTyped, RegistryTypeOK, NEW w, NEW s \in Snapshots(w) PROVE s \in Seq(Seen)
<1>1. IsFiniteSet(Live(w)) /\ Live(w) \subseteq Worker
  BY ClusterAssumption, FS_Subset DEF Live, SharedTyped, ClusterAssumption
<1>2. Cardinality(Live(w)) \in Nat
  BY <1>1, FS_CardinalityType
<1>3. s \in [1..Cardinality(Live(w)) -> [worker : Live(w), load : {load[v] : v \in Live(w)}]]
  BY DEF Snapshots
<1>4. [worker : Live(w), load : {load[v] : v \in Live(w)}] \subseteq Seen
  BY <1>1 DEF Seen, RegistryTypeOK
<1>5. s \in [1..Cardinality(Live(w)) -> Seen]
  BY <1>3, <1>4
<1> QED
  BY <1>2, <1>5

-----------------------------------------------------------------------------
(* The steps of a tick keep the types.                                     *)

LEMMA LeaderTyped ==
    ASSUME Typed, NEW t \in Tick, Acquire(t) \/ Renew(t) \/ Scan(t)
    PROVE  Typed'
<1>1. MasterOf[t] \in Master
  BY TickAssumption DEF TickAssumption
<1>2. CASE Acquire(t)
  <2>1. RegistryTypeOK' /\ SharedTyped'
    BY <1>1, <1>2 DEF Acquire, Typed, RegistryTypeOK, SharedTyped, registryVars, workerVars,
          lockVars
  <2>2. TicksTyped'
    BY <1>1, <1>2 DEF Acquire, Typed, TicksTyped, Step, Goto, tickVars
  <2>3. Aimed'
    BY <1>1, <1>2 DEF Acquire, Typed, TicksTyped, Aimed, Goto, tickVars
  <2> QED
    BY <2>1, <2>2, <2>3 DEF Typed
<1>3. CASE Renew(t)
  <2>1. RegistryTypeOK' /\ SharedTyped'
    BY <1>1, <1>3 DEF Renew, Typed, RegistryTypeOK, SharedTyped, registryVars, workerVars, lockVars
  <2>2. TicksTyped'
    BY <1>1, <1>3 DEF Renew, Typed, TicksTyped, Step, Goto, tickVars
  <2>3. Aimed'
    BY <1>1, <1>3 DEF Renew, Typed, TicksTyped, Aimed, Goto, tickVars
  <2> QED
    BY <2>1, <2>2, <2>3 DEF Typed
<1>4. CASE Scan(t)
  <2>1. {w \in Worker : hb[w] = "stale"} \in SUBSET Worker
    OBVIOUS
  <2> QED
    <3>1. RegistryTypeOK' /\ SharedTyped'
      BY <1>4, <2>1 DEF Scan, Typed, RegistryTypeOK, SharedTyped, registryVars, workerVars, lockVars
    <3>2. TicksTyped'
      BY <1>4, <2>1 DEF Scan, Typed, TicksTyped, Step, Goto, tickVars
    <3>3. Aimed'
      BY <1>4, <2>1 DEF Scan, Typed, TicksTyped, Aimed, Goto, tickVars
    <3> QED
      BY <3>1, <3>2, <3>3 DEF Typed
<1> QED
  BY <1>2, <1>3, <1>4

LEMMA ListTyped == ASSUME Typed, NEW t \in Tick, List(t) PROVE Typed'
<1>1. PICK w \in dead[t] :
        /\ cur' = [cur EXCEPT ![t] = w]
        /\ todo' = [todo EXCEPT ![t] = members[w]]
        /\ \/ /\ members[w] # {}
              /\ Goto(t, "fetch")
              /\ UNCHANGED rebuild
           \/ /\ members[w] = {} /\ rebuild[w] # "free"
              /\ Goto(t, "unreg_worker")
              /\ UNCHANGED rebuild
           \/ /\ members[w] = {} /\ rebuild[w] = "free"
              /\ rebuild' = [rebuild EXCEPT ![w] = t]
              /\ Goto(t, "hscan")
  BY DEF List
<1>2. w \in Worker /\ members[w] \in SUBSET Account
  BY DEF Typed, TicksTyped, RegistryTypeOK
<1>3. rebuild' \in [Worker -> Tick \cup {"free", "orphan"}]
  BY <1>1, <1>2 DEF Typed, SharedTyped
<1>4. RegistryTypeOK' /\ SharedTyped'
  BY <1>3 DEF List, Typed, RegistryTypeOK, SharedTyped, registryVars, workerVars
<1>5. pc[t] = "list" /\ \E step \in {"fetch", "unreg_worker", "hscan"} : Goto(t, step)
  BY <1>1 DEF List
<1>6. UNCHANGED <<dead, acct, processed, view, target, old>>
  BY DEF List
<1>7. TicksTyped' /\ Aimed'
  BY <1>1, <1>2, <1>5, <1>6 DEF Typed, TicksTyped, Aimed, Goto, Step, Binding
<1> QED
  BY <1>4, <1>7 DEF Typed

LEMMA ReleaseTyped ==
    ASSUME SharedTyped, NEW t \in Tick, ReleaseRebuild(t)
    PROVE  rebuild' \in [Worker -> Tick \cup {"free", "orphan"}]
BY DEF SharedTyped, ReleaseRebuild

LEMMA RebuildTyped ==
    ASSUME Typed, NEW t \in Tick, HScan(t) \/ Rebuild(t)
    PROVE  Typed' /\ \A b \in Account : assign[b] # NoWorker => assign'[b] # NoWorker
<1>1. CASE HScan(t)
  <2>1. Bound(cur[t]) \in SUBSET Account
    BY DEF Bound
  <2> QED
    <3>1. RegistryTypeOK' /\ SharedTyped'
      BY <1>1, <2>1 DEF HScan, Typed, RegistryTypeOK, SharedTyped, registryVars, workerVars,
            lockVars
    <3>2. TicksTyped'
      BY <1>1, <2>1 DEF HScan, Typed, TicksTyped, Step, Goto, tickVars
    <3>3. Aimed'
      BY <1>1, <2>1 DEF HScan, Typed, TicksTyped, Aimed, Goto, tickVars
    <3> QED
      BY <1>1, <3>1, <3>2, <3>3 DEF HScan, Typed, registryVars
<1>2. CASE Rebuild(t)
  <2>1. cur[t] \in Worker /\ todo[t] \in SUBSET Account
    BY <1>2 DEF Rebuild, Typed, Aimed, TicksTyped
  <2>2. RegistryTypeOK' /\ \A b \in Account : assign[b] # NoWorker => assign'[b] # NoWorker
    BY <1>2, <2>1, WorkerAssumption
       DEF Rebuild, Typed, RegistryTypeOK, Binding, WorkerAssumption
  <2>3. SharedTyped'
    BY <1>2, ReleaseTyped DEF Rebuild, Typed, SharedTyped, workerVars
  <2>4. TicksTyped' /\ Aimed'
    BY <1>2 DEF Rebuild, Typed, TicksTyped, Aimed, Goto, Step
  <2> QED
    BY <2>2, <2>3, <2>4 DEF Typed
<1> QED
  BY <1>1, <1>2

LEMMA FetchTyped == ASSUME Typed, NEW t \in Tick, Fetch(t) \/ Reload(t) PROVE Typed'
<1>1. PICK s \in Snapshots(cur[t]) : view' = [view EXCEPT ![t] = s]
  BY DEF Fetch, Reload
<1>2. s \in Seq(Seen)
  BY SnapshotsTyped DEF Typed
<1>3. CASE Fetch(t)
  <2>1. RegistryTypeOK' /\ SharedTyped'
    BY <1>1, <1>2, <1>3 DEF Fetch, Typed, RegistryTypeOK, SharedTyped, registryVars,
          workerVars, lockVars
  <2>2. TicksTyped'
    BY <1>1, <1>2, <1>3 DEF Fetch, Typed, TicksTyped, Step, Goto, tickVars
  <2>3. Aimed'
    BY <1>1, <1>2, <1>3 DEF Fetch, Typed, TicksTyped, Aimed, Goto, tickVars
  <2> QED
    BY <2>1, <2>2, <2>3 DEF Typed
<1>4. CASE Reload(t)
  <2>1. RegistryTypeOK' /\ SharedTyped'
    BY <1>1, <1>2, <1>4 DEF Reload, Typed, RegistryTypeOK, SharedTyped, registryVars,
          workerVars, lockVars
  <2>2. TicksTyped'
    BY <1>1, <1>2, <1>4 DEF Reload, Typed, TicksTyped, Step, Goto, tickVars
  <2>3. Aimed'
    BY <1>1, <1>2, <1>4 DEF Reload, Typed, TicksTyped, Aimed, Goto, tickVars
  <2> QED
    BY <2>1, <2>2, <2>3 DEF Typed
<1> QED
  BY <1>3, <1>4

LEMMA NextAccountTyped == ASSUME Typed, NEW t \in Tick, NextAccount(t) PROVE Typed'
<1>1. CASE todo[t] = {} /\ Goto(t, "unreg_worker") /\ UNCHANGED <<acct, todo, processed>>
  <2>1. RegistryTypeOK' /\ SharedTyped'
    BY <1>1 DEF NextAccount, Typed, RegistryTypeOK, SharedTyped, registryVars, workerVars, lockVars
  <2>2. TicksTyped'
    BY <1>1 DEF NextAccount, Typed, TicksTyped, Step, Goto, tickVars
  <2>3. Aimed'
    BY <1>1 DEF NextAccount, Typed, TicksTyped, Aimed, Goto, tickVars
  <2> QED
    BY <2>1, <2>2, <2>3 DEF Typed
<1>2. CASE \E a \in todo[t] :
             /\ acct' = [acct EXCEPT ![t] = a]
             /\ todo' = [todo EXCEPT ![t] = @ \ {a}]
             /\ processed' = [processed EXCEPT ![t] = @ + 1]
             /\ Goto(t, IF ReloadDue(processed'[t]) THEN "reload" ELSE "place")
  <2>1. PICK a \in todo[t] :
             /\ acct' = [acct EXCEPT ![t] = a]
             /\ todo' = [todo EXCEPT ![t] = @ \ {a}]
             /\ processed' = [processed EXCEPT ![t] = @ + 1]
             /\ Goto(t, IF ReloadDue(processed'[t]) THEN "reload" ELSE "place")
    BY <1>2
  <2>2. \E step \in {"reload", "place"} : Goto(t, step)
    BY <2>1
  <2>3. a \in Account
    BY DEF Typed, TicksTyped
  <2>4. pc[t] = "next" /\ UNCHANGED <<dead, cur, view, target, old>>
    BY DEF NextAccount
  <2>5. RegistryTypeOK' /\ SharedTyped'
    BY DEF NextAccount, Typed, RegistryTypeOK, SharedTyped, registryVars, workerVars, lockVars
  <2>6. TicksTyped'
    BY <2>1, <2>2, <2>3, <2>4 DEF Typed, TicksTyped, Goto, Step
  <2>7. Aimed'
    BY <2>1, <2>2, <2>3, <2>4 DEF Typed, TicksTyped, Aimed, Goto
  <2> QED
    BY <2>5, <2>6, <2>7 DEF Typed
<1> QED
  BY <1>1, <1>2 DEF NextAccount

LEMMA DoneTyped ==
    ASSUME NEW t \in Tick, TicksTyped, Aimed, Done(t), view' \in [Tick -> Seq(Seen)],
           \A u \in Tick : u # t => view'[u] = view[u],
           pc[t] \in {"place", "move", "unbind"}, UNCHANGED <<dead, cur, todo, processed>>
    PROVE  TicksTyped' /\ Aimed'
<1>1. TicksTyped'
  BY DEF Done, TicksTyped, Goto, Step, Binding
<1>2. \A u \in Tick : u # t => /\ pc'[u] = pc[u] /\ acct'[u] = acct[u]
                               /\ target'[u] = target[u] /\ view'[u] = view[u]
  BY DEF Done, TicksTyped, Goto
<1>3. pc'[t] = "next" /\ cur[t] \in Worker
  BY DEF Done, Goto, TicksTyped, Aimed
<1>4. Aimed'
  BY <1>2, <1>3 DEF Aimed
<1> QED
  BY <1>1, <1>4

LEMMA PlaceTyped ==
    ASSUME Typed, NEW t \in Tick, Place(t)
    PROVE  Typed' /\ \A b \in Account : assign[b] # NoWorker => assign'[b] # NoWorker
<1> DEFINE s == view[t]
           a == acct[t]
           w == s[First(s)].worker
           owner == Owner(a)
<1>1. pc[t] = "place" /\ a \in Account /\ s \in Seq(Seen) /\ owner \in Binding
  BY OwnerTyped DEF Place, Typed, Aimed, TicksTyped
<1>2. SharedTyped'
  BY DEF Place, Typed, SharedTyped, workerVars, lockVars
<1>3. UNCHANGED <<dead, cur, todo, processed>>
  BY DEF Place
<1>4. CASE /\ Roomy(s) = {}
           /\ Goto(t, "unbind")
           /\ UNCHANGED <<registryVars, view, acct, target, old>>
  BY <1>1, <1>2, <1>3, <1>4
     DEF Typed, RegistryTypeOK, registryVars, TicksTyped, Aimed, Goto, Step
<1>5. CASE /\ Roomy(s) # {}
           /\ IF assign[a] = owner
              THEN UNCHANGED registryVars
              ELSE BackfillAssignment(a, owner)
           /\ \/ /\ owner = w
                 /\ view' = [view EXCEPT ![t] = Placed(s)]
                 /\ Done(t)
              \/ /\ owner # w
                 /\ target' = [target EXCEPT ![t] = w]
                 /\ old' = [old EXCEPT ![t] = owner]
                 /\ Goto(t, "move")
                 /\ UNCHANGED <<view, acct>>
  <2>1. Placed(s) \in Seq(Seen) /\ w \in Worker
    BY <1>1, <1>5, PlacedTyped
  <2>2. assign[a] # owner => owner \in Worker
    BY <1>1 DEF Owner, Binding
  <2>3. RegistryTypeOK' /\ \A b \in Account : assign[b] # NoWorker => assign'[b] # NoWorker
    <3>1. CASE assign[a] = owner
      BY <1>5, <3>1 DEF Typed, RegistryTypeOK, registryVars
    <3>2. CASE assign[a] # owner
      BY <1>1, <1>5, <2>2, <3>2, BackfillTyped, WorkerAssumption DEF Typed, Binding
    <3> QED
      BY <3>1, <3>2
  <2>4. TicksTyped' /\ Aimed'
    <3>1. CASE view' = [view EXCEPT ![t] = Placed(s)] /\ Done(t)
      <4>1. /\ view' \in [Tick -> Seq(Seen)]
            /\ \A u \in Tick : u # t => view'[u] = view[u]
        BY <2>1, <3>1 DEF Typed, TicksTyped
      <4> QED
        BY <1>1, <1>3, <3>1, <4>1, DoneTyped DEF Typed
    <3>2. CASE /\ target' = [target EXCEPT ![t] = w]
               /\ old' = [old EXCEPT ![t] = owner]
               /\ Goto(t, "move")
               /\ UNCHANGED <<view, acct>>
      <4>1. Roomy(view'[t]) # {}
        BY <1>5, <3>2
      <4> HIDE DEF w, owner
      <4> QED
        BY <1>1, <1>3, <4>1, <2>1, <3>2 DEF Typed, TicksTyped, Aimed, Goto, Step, Binding
    <3> QED
      BY <1>5, <3>1, <3>2
  <2> QED
    BY <1>2, <2>3, <2>4 DEF Typed
<1> QED
  BY <1>4, <1>5 DEF Place

LEMMA MoveTyped ==
    ASSUME Typed, NEW t \in Tick, Move(t)
    PROVE  Typed' /\ \A b \in Account : assign[b] # NoWorker => assign'[b] # NoWorker
<1>1. /\ pc[t] = "move" /\ acct[t] \in Account /\ target[t] \in Worker
      /\ old[t] \in Binding /\ view[t] \in Seq(Seen)
  BY DEF Move, Typed, Aimed, TicksTyped
<1>2. RegistryTypeOK' /\ \A b \in Account : assign[b] # NoWorker => assign'[b] # NoWorker
  BY <1>1, ReassignTyped DEF Move, Typed
<1>3. SharedTyped'
  BY DEF Move, Typed, SharedTyped, workerVars, lockVars
<1>4. view' \in [Tick -> Seq(Seen)] /\ \A u \in Tick : u # t => view'[u] = view[u]
  <2>1. Placed(view[t]) \in Seq(Seen)
    BY <1>1, PlacedTyped DEF Typed, Aimed
  <2> QED
    BY <2>1 DEF Move, Typed, TicksTyped
<1>5. TicksTyped' /\ Aimed'
  BY <1>1, <1>4, DoneTyped DEF Move, Typed
<1> QED
  BY <1>2, <1>3, <1>5 DEF Typed

LEMMA ThrowsTyped ==
    ASSUME Typed, NEW t \in Tick, ReassignThrows(t)
    PROVE  Typed' /\ \A b \in Account : assign[b] # NoWorker => assign'[b] # NoWorker
<1>1. pc[t] \in {"place", "move"}
  BY DEF ReassignThrows
<1>2. RegistryTypeOK' /\ \A b \in Account : assign[b] # NoWorker => assign'[b] # NoWorker
  <2>1. CASE UNCHANGED registryVars
    BY <2>1 DEF Typed, RegistryTypeOK, registryVars
  <2>2. CASE pc[t] = "move" /\ AtomicReassign(acct[t], target[t], old[t])
    <3>1. acct[t] \in Account /\ target[t] \in Worker /\ old[t] \in Binding
      BY <2>2 DEF Typed, Aimed, TicksTyped
    <3> QED
      BY <2>2, <3>1, ReassignTyped DEF Typed
  <2> QED
    BY <2>1, <2>2 DEF ReassignThrows
<1>3. SharedTyped'
  BY MaxFaultsAssumption
     DEF ReassignThrows, Fault, Typed, SharedTyped, workerVars, lockVars, MaxFaultsAssumption
<1>4. TicksTyped' /\ Aimed'
  BY <1>1 DEF ReassignThrows, Typed, TicksTyped, Aimed, Goto, Step, Binding
<1> QED
  BY <1>2, <1>3, <1>4 DEF Typed

(* Strand and Unbind take the binding of the worker being migrated only. *)
LEMMA UnbindTyped ==
    ASSUME Typed, NEW t \in Tick, Strand(t) \/ Unbind(t)
    PROVE  Typed' /\ \A b \in Account : assign'[b] # assign[b] => assign[b] = cur[t]
<1>1. cur[t] \in Worker
  BY DEF Strand, Unbind, Typed, Aimed
<1>2. CASE Strand(t)
  <2>1. PICK a \in todo[t] :
          AtomicUnassign(a, cur[t], TRUE) /\ todo' = [todo EXCEPT ![t] = @ \ {a}]
    BY <1>2 DEF Strand
  <2>2. a \in Account
    BY DEF Typed, TicksTyped
  <2>3. RegistryTypeOK' /\ \A b \in Account : assign'[b] # assign[b] => assign[b] = cur[t]
    BY <1>1, <2>1, <2>2, UnassignTyped DEF Typed, Binding
  <2>4. SharedTyped'
    BY <1>2 DEF Strand, Typed, SharedTyped, workerVars, lockVars
  <2>5. pc[t] = "strand" /\ \E step \in {"unreg_worker", "strand"} : Goto(t, step)
    BY <1>2 DEF Strand
  <2>6. UNCHANGED <<dead, cur, acct, processed, view, target, old>>
    BY <1>2 DEF Strand
  <2>7. TicksTyped' /\ Aimed'
    BY <2>1, <2>5, <2>6 DEF Typed, TicksTyped, Aimed, Goto, Step
  <2> QED
    BY <2>3, <2>4, <2>7 DEF Typed
<1>3. CASE Unbind(t)
  <2>1. pc[t] = "unbind" /\ acct[t] \in Account
    BY <1>3 DEF Unbind, Typed, Aimed
  <2>2. RegistryTypeOK' /\ \A b \in Account : assign'[b] # assign[b] => assign[b] = cur[t]
    BY <1>1, <1>3, <2>1, UnassignTyped DEF Unbind, Typed, Binding
  <2>3. SharedTyped'
    BY <1>3 DEF Unbind, Typed, SharedTyped, workerVars, lockVars
  <2>4. TicksTyped' /\ Aimed'
    BY <1>3, <2>1, DoneTyped DEF Unbind, Typed, TicksTyped
  <2> QED
    BY <2>2, <2>3, <2>4 DEF Typed
<1> QED
  BY <1>2, <1>3

LEMMA UnregisterTyped ==
    ASSUME Typed, NEW t \in Tick,
           \/ UnregisterWorker(t) \/ UnregisterHb(t)
           \/ UnregisterLoad(t) \/ UnregisterIndex(t)
    PROVE  Typed'
<1>1. CASE UnregisterWorker(t)
  <2>1. RegistryTypeOK' /\ SharedTyped'
    BY <1>1 DEF UnregisterWorker, Typed, RegistryTypeOK, SharedTyped, registryVars,
          workerVars, lockVars
  <2>2. TicksTyped'
    BY <1>1 DEF UnregisterWorker, Typed, TicksTyped, Step, Goto, tickVars
  <2>3. Aimed'
    BY <1>1 DEF UnregisterWorker, Typed, TicksTyped, Aimed, Goto, tickVars
  <2> QED
    BY <2>1, <2>2, <2>3 DEF Typed
<1>2. CASE UnregisterHb(t)
  <2>1. RegistryTypeOK' /\ SharedTyped'
    BY <1>2 DEF UnregisterHb, Typed, RegistryTypeOK, SharedTyped, registryVars, workerVars, lockVars
  <2>2. TicksTyped'
    BY <1>2 DEF UnregisterHb, Typed, TicksTyped, Step, Goto, tickVars
  <2>3. Aimed'
    BY <1>2 DEF UnregisterHb, Typed, TicksTyped, Aimed, Goto, tickVars
  <2> QED
    BY <2>1, <2>2, <2>3 DEF Typed
<1>3. CASE UnregisterLoad(t)
  <2>1. RegistryTypeOK' /\ SharedTyped'
    BY <1>3 DEF UnregisterLoad, Typed, RegistryTypeOK, SharedTyped, registryVars, workerVars,
          lockVars
  <2>2. TicksTyped'
    BY <1>3 DEF UnregisterLoad, Typed, TicksTyped, Step, Goto, tickVars
  <2>3. Aimed'
    BY <1>3 DEF UnregisterLoad, Typed, TicksTyped, Aimed, Goto, tickVars
  <2> QED
    BY <2>1, <2>2, <2>3 DEF Typed
<1>4. CASE UnregisterIndex(t)
  <2>1. /\ pc[t] = "unreg_index" /\ cur[t] \in Worker
        /\ \E step \in {"idle", "list"} : Goto(t, step)
    BY <1>4 DEF UnregisterIndex, Typed, Aimed
  <2>2. RegistryTypeOK' /\ SharedTyped'
    BY <1>4 DEF UnregisterIndex, Typed, RegistryTypeOK, SharedTyped, workerVars, lockVars
  <2>3. TicksTyped'
    BY <1>4, <2>1 DEF UnregisterIndex, Typed, TicksTyped, Goto, Step, Binding
  <2>4. Aimed'
    BY <1>4, <2>1 DEF UnregisterIndex, Typed, TicksTyped, Aimed, Goto
  <2> QED
    BY <2>2, <2>3, <2>4 DEF Typed
<1> QED
  BY <1>1, <1>2, <1>3, <1>4

LEMMA AbortTyped ==
    ASSUME TicksTyped, Aimed, NEW T \in SUBSET Tick, Abort(T)
    PROVE  TicksTyped' /\ Aimed'
<1>1. TicksTyped'
  BY DEF Abort, TicksTyped, Step, Binding
<1>2. Aimed'
  BY DEF Abort, Aimed, TicksTyped
<1> QED
  BY <1>1, <1>2

LEMMA EndTyped ==
    ASSUME Typed, (\E t \in Tick : TickThrows(t)) \/ (\E m \in Master : MasterCrash(m))
    PROVE  Typed'
<1>1. RegistryTypeOK'
  BY DEF TickThrows, MasterCrash, Typed, RegistryTypeOK, registryVars
<1>2. ASSUME NEW t \in Tick, TickThrows(t) PROVE SharedTyped' /\ TicksTyped' /\ Aimed'
  <2>1. rebuild' \in [Worker -> Tick \cup {"free", "orphan"}]
    BY <1>2, ReleaseTyped DEF TickThrows, Typed
  <2>2. SharedTyped'
    BY <1>2, <2>1, MaxFaultsAssumption
       DEF TickThrows, Fault, Typed, SharedTyped, workerVars, MaxFaultsAssumption
  <2> QED
    BY <1>2, <2>2, AbortTyped DEF TickThrows, Typed
<1>3. ASSUME NEW m \in Master, MasterCrash(m) PROVE SharedTyped' /\ TicksTyped' /\ Aimed'
  <2>1. SharedTyped'
    BY <1>3, MaxFaultsAssumption
       DEF MasterCrash, Fault, Typed, SharedTyped, workerVars, MaxFaultsAssumption
  <2>2. Abort({t \in Tick : MasterOf[t] = m})
    BY <1>3 DEF MasterCrash
  <2> QED
    BY <2>1, <2>2, AbortTyped DEF Typed
<1> QED
  BY <1>1, <1>2, <1>3 DEF Typed

-----------------------------------------------------------------------------
(* The steps of the others.                                                *)

LEMMA OthersTyped ==
    ASSUME Typed,
           \/ \E m \in Master : Stop(m)
           \/ LeaderExpires
           \/ \E w \in Worker : \/ RebuildExpires(w) \/ Heartbeat(w) \/ Silent(w)
                                \/ Crash(w) \/ Start(w) \/ ShutDown(w)
           \/ \E a \in Account : ApiPick(a) \/ ApiAssign(a)
    PROVE  Typed' /\ \A b \in Account : assign[b] # NoWorker => assign'[b] # NoWorker
<1>1. UNCHANGED tickVars
  BY DEF Stop, LeaderExpires, RebuildExpires, Heartbeat, Silent, Crash, Start, ShutDown,
         ApiPick, ApiAssign
<1>2. TicksTyped' /\ Aimed'
  BY <1>1 DEF Typed, TicksTyped, Aimed, tickVars
<1>3. CASE (\E m \in Master : Stop(m)) \/ LeaderExpires
  <2>1. UNCHANGED <<registryVars, workerVars, rebuild, request, faults>>
    BY <1>3 DEF Stop, LeaderExpires
  <2>2. leader' \in Master \cup {NoMaster} /\ isLeader' \in [Master -> BOOLEAN]
    BY <1>3 DEF Stop, LeaderExpires, Typed, SharedTyped
  <2> QED
    BY <1>2, <2>1, <2>2 DEF Typed, RegistryTypeOK, SharedTyped, registryVars, workerVars
<1>4. ASSUME NEW w \in Worker, RebuildExpires(w) \/ Silent(w) \/ Crash(w) \/ Start(w)
      PROVE  RegistryTypeOK' /\ SharedTyped' /\ UNCHANGED assign
  <2>1. UNCHANGED <<registryVars, leader, isLeader, request>>
    BY <1>4 DEF RebuildExpires, Silent, Crash, Start, lockVars
  <2>2. /\ registered' \subseteq Worker /\ up' \subseteq Worker
        /\ hb' \in [Worker -> {"none", "fresh", "stale"}]
        /\ rebuild' \in [Worker -> Tick \cup {"free", "orphan"}]
        /\ faults' \in 0..MaxFaults
    BY <1>4, MaxFaultsAssumption
       DEF RebuildExpires, Silent, Crash, Start, Fault, Typed, SharedTyped, lockVars,
           workerVars, MaxFaultsAssumption
  <2> QED
    BY <2>1, <2>2 DEF Typed, RegistryTypeOK, SharedTyped, registryVars
<1>5. ASSUME NEW w \in Worker, Heartbeat(w)
      PROVE  RegistryTypeOK' /\ SharedTyped' /\ UNCHANGED assign
  <2>1. PICK n \in Reports, force \in BOOLEAN : AtomicSyncLoad(w, n, force)
    BY <1>5 DEF Heartbeat
  <2>2. n \in Nat
    BY ReportsAssumption DEF ReportsAssumption
  <2>3. RegistryTypeOK' /\ UNCHANGED assign
    BY <2>1, <2>2 DEF AtomicSyncLoad, Typed, RegistryTypeOK
  <2>4. SharedTyped'
    BY <1>5 DEF Heartbeat, Typed, SharedTyped, lockVars
  <2> QED
    BY <2>3, <2>4
<1>6. ASSUME NEW w \in Worker, ShutDown(w)
      PROVE  RegistryTypeOK' /\ SharedTyped' /\ UNCHANGED assign
  <2>1. \E n \in Nat : load' = [load EXCEPT ![w] = n]
    BY <1>6, ReportsAssumption DEF ShutDown, ReportsAssumption
  <2>2. RegistryTypeOK' /\ UNCHANGED assign
    BY <1>6, <2>1 DEF ShutDown, Typed, RegistryTypeOK
  <2>3. SharedTyped'
    BY <1>6, MaxFaultsAssumption
       DEF ShutDown, Fault, Typed, SharedTyped, lockVars, MaxFaultsAssumption
  <2> QED
    BY <2>2, <2>3
<1>7. ASSUME NEW a \in Account, ApiPick(a)
      PROVE  RegistryTypeOK' /\ SharedTyped' /\ UNCHANGED assign
  <2>1. request' \in [Account -> Binding]
    BY <1>7 DEF ApiPick, Typed, SharedTyped, Binding
  <2> QED
    BY <1>7, <2>1
       DEF ApiPick, Typed, RegistryTypeOK, SharedTyped, registryVars, workerVars, lockVars
<1>8. ASSUME NEW a \in Account, ApiAssign(a)
      PROVE  /\ RegistryTypeOK' /\ SharedTyped'
             /\ \A b \in Account : assign[b] # NoWorker => assign'[b] # NoWorker
  <2>1. request[a] \in Worker /\ AtomicAssign(a, request[a])
    BY <1>8 DEF ApiAssign, Typed, SharedTyped, Binding
  <2>2. RegistryTypeOK'
    BY <2>1, AssignTyped DEF Typed
  <2>3. \A b \in Account : assign[b] # NoWorker => assign'[b] # NoWorker
    BY <2>1, WorkerAssumption
       DEF AtomicAssign, AssignCode, registryVars, Typed, RegistryTypeOK, WorkerAssumption
  <2>4. SharedTyped'
    BY <1>8 DEF ApiAssign, Typed, SharedTyped, Binding, workerVars, lockVars
  <2> QED
    BY <2>2, <2>3, <2>4
<1> QED
  BY <1>2, <1>3, <1>4, <1>5, <1>6, <1>7, <1>8 DEF Typed, Stop, LeaderExpires, registryVars

LEMMA UnassignApiTyped ==
    ASSUME Typed, NEW a \in Account, ApiUnassign(a) PROVE Typed' /\ UNCHANGED tickVars
<1>1. assign[a] \in Worker /\ AtomicUnassign(a, assign[a], TRUE)
  BY DEF ApiUnassign, Typed, RegistryTypeOK, Binding
<1>2. RegistryTypeOK'
  BY <1>1, UnassignTyped DEF Typed, Binding
<1>3. SharedTyped'
  BY MaxFaultsAssumption
     DEF ApiUnassign, Fault, Typed, SharedTyped, workerVars, lockVars, MaxFaultsAssumption
<1>4. TicksTyped' /\ Aimed' /\ UNCHANGED tickVars
  BY DEF ApiUnassign, Typed, TicksTyped, Aimed, tickVars
<1> QED
  BY <1>2, <1>3, <1>4 DEF Typed

LEMMA InitTyped == Init => Typed
<1> SUFFICES ASSUME Init PROVE Typed
  OBVIOUS
<1>1. RegistryTypeOK
  BY DEF Init, RegistryInit, RegistryTypeOK, Binding
<1>2. SharedTyped
  BY MaxFaultsAssumption DEF Init, SharedTyped, Binding, MaxFaultsAssumption
<1>3. TicksTyped /\ Aimed
  BY DEF Init, TicksTyped, Aimed, Step, Binding
<1> QED
  BY <1>1, <1>2, <1>3 DEF Typed

(* The actions of Next by what they do to the bindings. *)
Keeps ==
    \/ \E t \in Tick : \/ Acquire(t) \/ Renew(t) \/ Scan(t) \/ List(t) \/ HScan(t)
                       \/ Rebuild(t) \/ Fetch(t) \/ NextAccount(t) \/ Reload(t)
                       \/ Place(t) \/ Move(t) \/ ReassignThrows(t) \/ TickThrows(t)
                       \/ UnregisterWorker(t) \/ UnregisterHb(t)
                       \/ UnregisterLoad(t) \/ UnregisterIndex(t)
    \/ \E m \in Master : Stop(m) \/ MasterCrash(m)
    \/ LeaderExpires
    \/ \E w \in Worker : \/ RebuildExpires(w) \/ Heartbeat(w) \/ Silent(w)
                         \/ Crash(w) \/ Start(w) \/ ShutDown(w)
    \/ \E a \in Account : ApiPick(a) \/ ApiAssign(a)

LEMMA NextCases ==
    ASSUME Next
    PROVE  \/ Keeps
           \/ \E t \in Tick : Strand(t) \/ Unbind(t)
           \/ \E a \in Account : ApiUnassign(a)
BY DEF Next, TickStep, Keeps

LEMMA KeepsTyped ==
    ASSUME Typed, Keeps
    PROVE  Typed' /\ \A b \in Account : assign[b] # NoWorker => assign'[b] # NoWorker
<1>1. ASSUME NEW t \in Tick,
             \/ Acquire(t) \/ Renew(t) \/ Scan(t) \/ List(t) \/ Fetch(t)
             \/ NextAccount(t) \/ Reload(t)
      PROVE  Typed' /\ UNCHANGED assign
  <2>1. Typed'
    BY <1>1, LeaderTyped, ListTyped, FetchTyped, NextAccountTyped
  <2>2. UNCHANGED assign
    BY <1>1 DEF Acquire, Renew, Scan, List, Fetch, NextAccount, Reload, registryVars
  <2> QED
    BY <2>1, <2>2
<1>2. ASSUME NEW t \in Tick,
             \/ UnregisterWorker(t) \/ UnregisterHb(t)
             \/ UnregisterLoad(t) \/ UnregisterIndex(t)
      PROVE  Typed' /\ UNCHANGED assign
  <2>1. Typed'
    BY <1>2, UnregisterTyped
  <2>2. UNCHANGED assign
    BY <1>2 DEF UnregisterWorker, UnregisterHb, UnregisterLoad, UnregisterIndex, registryVars
  <2> QED
    BY <2>1, <2>2
<1>3. ASSUME NEW t \in Tick,
             HScan(t) \/ Rebuild(t) \/ Place(t) \/ Move(t) \/ ReassignThrows(t)
      PROVE  Typed' /\ \A b \in Account : assign[b] # NoWorker => assign'[b] # NoWorker
  BY <1>3, RebuildTyped, PlaceTyped, MoveTyped, ThrowsTyped
<1>4. ASSUME (\E t \in Tick : TickThrows(t)) \/ (\E m \in Master : MasterCrash(m))
      PROVE  Typed' /\ UNCHANGED assign
  <2>1. UNCHANGED assign
    BY <1>4 DEF TickThrows, MasterCrash, registryVars
  <2> QED
    BY <1>4, <2>1, EndTyped
<1> QED
  BY <1>1, <1>2, <1>3, <1>4, OthersTyped DEF Keeps

LEMMA StepTyped == Typed /\ [Next]_vars => Typed'
<1> SUFFICES ASSUME Typed, [Next]_vars PROVE Typed'
  OBVIOUS
<1>1. CASE Next
  BY <1>1, NextCases, KeepsTyped, UnbindTyped, UnassignApiTyped
<1>2. CASE UNCHANGED vars
  BY <1>2 DEF vars, Typed, RegistryTypeOK, SharedTyped, TicksTyped, Aimed,
              registryVars, workerVars, lockVars, tickVars
<1> QED
  BY <1>1, <1>2

LEMMA AlwaysTyped == Spec => []Typed
BY InitTyped, StepTyped, PTL DEF Spec

(* Every variable of the masters, the registry and the workers keeps to    *)
(* its type, whoever fails, crashes or overlaps: in particular the counter *)
(* of a worker never goes below zero and a placement never looks beyond    *)
(* the end of its snapshot.                                                *)
THEOREM FailoverTypeCorrect == Spec => []TypeOK
BY AlwaysTyped, TypedOK, PTL

-----------------------------------------------------------------------------
(* Whose binding a tick may undo.                                          *)

Unbinds ==
    \A a \in Account, t \in Tick :
        Acting(t) /\ assign[a] # NoWorker /\ assign'[a] = NoWorker => cur[t] = assign[a]

LEMMA StepUnbinds == Typed /\ [Next]_vars => Unbinds
<1> SUFFICES ASSUME Typed, [Next]_vars PROVE Unbinds
  OBVIOUS
<1>1. CASE Keeps
  BY <1>1, KeepsTyped DEF Unbinds
<1>2. ASSUME NEW t \in Tick, Strand(t) \/ Unbind(t) PROVE Unbinds
  <2>1. \A b \in Account : assign'[b] # assign[b] => assign[b] = cur[t]
    BY <1>2, UnbindTyped
  <2>2. \A u \in Tick : u # t => ~Acting(u)
    BY <1>2 DEF Acting, Strand, Unbind, Done, Goto, Typed, TicksTyped
  <2> QED
    BY <2>1, <2>2 DEF Unbinds
<1>3. ASSUME NEW a \in Account, ApiUnassign(a) PROVE Unbinds
  BY <1>3, UnassignApiTyped DEF Unbinds, Acting, tickVars
<1>4. CASE UNCHANGED vars
  BY <1>4 DEF Unbinds, vars, registryVars
<1> QED
  BY <1>1, <1>2, <1>3, <1>4, NextCases

(* However many ticks overlap, however old the snapshots, lists and owners *)
(* they read, and whatever throws on the way: a tick makes an account      *)
(* unbound only while the binding it undoes is to the worker the tick is   *)
(* migrating.                                                              *)
THEOREM OnlyFromTheDead == Spec => UnbindsOnlyFromDead
<1>1. Typed /\ [Next]_vars => [Unbinds]_vars
  BY StepUnbinds
<1> QED
  BY <1>1, AlwaysTyped, PTL DEF Spec, UnbindsOnlyFromDead, Unbinds

-----------------------------------------------------------------------------
(* One migration at a time, if a tick ends before its lock and its         *)
(* interval do.                                                            *)

(* A tick past the lock holds it, and no master has two ticks in progress. *)
Led ==
    /\ \A t \in Tick : Migrating(t) => leader = MasterOf[t]
    /\ \A t, u \in Tick :
          MasterOf[t] = MasterOf[u] /\ pc[t] # "idle" /\ pc[u] # "idle" => t = u

LEMMA LedOne == Led => OneMigrator
BY DEF Led, OneMigrator, Migrating

LEMMA TickKeepsLed ==
    ASSUME Typed, Led, NEW t \in Tick, pc[t] # "idle", leader' = leader,
           Migrating(t) \/ pc'[t] = "idle" \/ leader = MasterOf[t],
           pc' \in [Tick -> Step], \A u \in Tick : u # t => pc'[u] = pc[u]
    PROVE  Led'
BY DEF Led, Migrating

LEMMA StepLed == ASSUME ~Overlap, Typed, Led, [Next]_vars PROVE Led'
<1>1. CASE UNCHANGED vars
  BY <1>1 DEF vars, lockVars, tickVars, Led, Migrating
<1>2. ASSUME NEW t \in Tick, Acquire(t) PROVE Led'
  <2>1. MasterOf[t] \in Master /\ ~Busy(MasterOf[t]) /\ pc[t] = "idle"
    BY <1>2, TickAssumption DEF Acquire, TickAssumption
  <2>2. \A u \in Tick : MasterOf[u] \in Master /\ MasterOf[u] # NoMaster
    BY TickAssumption, MasterAssumption DEF TickAssumption, MasterAssumption
  <2>3. \A u \in Tick : u # t => pc'[u] = pc[u]
    BY <1>2 DEF Acquire, Goto, Typed, TicksTyped
  <2>4. \/ leader = NoMaster /\ leader' = MasterOf[t] /\ pc'[t] = "scan"
        \/ leader' = leader /\ pc'[t] = "renew"
    BY <1>2 DEF Acquire, Goto, Typed, TicksTyped
  <2>5. \A u \in Tick : MasterOf[u] = MasterOf[t] => pc[u] = "idle"
    BY <2>1 DEF Busy
  <2> QED
    BY <2>2, <2>3, <2>4, <2>5 DEF Led, Migrating
<1>3. ASSUME NEW t \in Tick, TickStep(t) \/ ReassignThrows(t) PROVE Led'
  <2>1. pc[t] # "idle"
    BY <1>3 DEF TickStep, Renew, Scan, List, HScan, Rebuild, Fetch, Strand, NextAccount,
                Reload, Place, Move, Unbind, UnregisterWorker, UnregisterHb,
                UnregisterLoad, UnregisterIndex, ReassignThrows
  <2>2. leader' = leader
    BY <1>3 DEF TickStep, Renew, Scan, List, HScan, Rebuild, Fetch, Strand, NextAccount,
                Reload, Place, Move, Unbind, UnregisterWorker, UnregisterHb,
                UnregisterLoad, UnregisterIndex, ReassignThrows, lockVars
  <2>3. Migrating(t) \/ pc'[t] = "idle" \/ leader = MasterOf[t]
    BY <1>3 DEF TickStep, Renew, Scan, List, HScan, Rebuild, Fetch, Strand, NextAccount,
                Reload, Place, Move, Unbind, UnregisterWorker, UnregisterHb,
                UnregisterLoad, UnregisterIndex, ReassignThrows, Migrating, Goto,
                Typed, TicksTyped
  <2>4. pc' \in [Tick -> Step]
    BY <1>3, StepTyped DEF Next, Typed, TicksTyped
  <2>5. \A u \in Tick : u # t => pc'[u] = pc[u]
    BY <1>3 DEF TickStep, Renew, Scan, List, HScan, Rebuild, Fetch, Strand, NextAccount,
                Reload, Place, Move, Unbind, UnregisterWorker, UnregisterHb,
                UnregisterLoad, UnregisterIndex, ReassignThrows, Goto, Done,
                Typed, TicksTyped
  <2> QED
    BY <2>1, <2>2, <2>3, <2>4, <2>5, TickKeepsLed
<1>4. ASSUME NEW T \in SUBSET Tick, Abort(T), leader' = leader PROVE Led'
  BY <1>4 DEF Abort, Led, Migrating
<1>5. ASSUME NEW t \in Tick, TickThrows(t) PROVE Led'
  BY <1>4, <1>5 DEF TickThrows
<1>6. ASSUME NEW m \in Master, MasterCrash(m) PROVE Led'
  <2>1. Abort({t \in Tick : MasterOf[t] = m}) /\ leader' = leader
    BY <1>6 DEF MasterCrash
  <2> QED
    BY <1>4, <2>1
<1>7. ASSUME NEW m \in Master, Stop(m) PROVE Led'
  BY <1>7 DEF Stop, Busy, Led, Migrating, tickVars
<1>8. CASE LeaderExpires
  BY <1>8 DEF LeaderExpires, Busy, Led, Migrating, tickVars
<1>9. ASSUME UNCHANGED <<leader, pc>> PROVE Led'
  BY <1>9 DEF Led, Migrating
<1>10. ASSUME NEW w \in Worker,
              \/ RebuildExpires(w) \/ Heartbeat(w) \/ Silent(w)
              \/ Crash(w) \/ Start(w) \/ ShutDown(w)
       PROVE  Led'
  BY <1>9, <1>10 DEF RebuildExpires, Heartbeat, Silent, Crash, Start, ShutDown,
                     lockVars, tickVars
<1>11. ASSUME NEW a \in Account, ApiPick(a) \/ ApiAssign(a) \/ ApiUnassign(a) PROVE Led'
  BY <1>9, <1>11 DEF ApiPick, ApiAssign, ApiUnassign, lockVars, tickVars
<1> QED
  BY <1>1, <1>2, <1>3, <1>5, <1>6, <1>7, <1>8, <1>10, <1>11 DEF Next

(* Masters crash and are restarted with the lock still theirs, are         *)
(* overtaken, and stop: while no tick outlasts its lock or its interval,   *)
(* at most one tick of the whole cluster is past the lock.                 *)
THEOREM OneMigratorAlone == ASSUME ~Overlap PROVE Spec => []OneMigrator
<1>1. Init => Led
  BY DEF Init, Led, Migrating
<1>2. Typed /\ Led /\ [Next]_vars => Led'
  BY StepLed
<1> QED
  BY <1>1, <1>2, AlwaysTyped, LedOne, PTL DEF Spec

-----------------------------------------------------------------------------
(* The slot counters.                                                      *)

Excused(w) ==
    \/ hb'[w] # hb[w] \/ up' # up
    \/ assign' = assign /\ \E t \in Tick : Acting(t) /\ cur[t] = w
    \/ assign' = assign /\ tickVars' = tickVars
    \/ \E t \in Tick : pc[t] = "rebuild" /\ Acting(t) /\ cur[t] = w

Paced(w) == Fewer(w) \/ OneMore(w) \/ OneLess(w) \/ Excused(w)

LEMMA IdleSlots ==
    ASSUME UNCHANGED <<assign, load>>, NEW w \in Worker PROVE Paced(w)
BY DEF Paced, Fewer, Owned

LEMMA RebuildSlots ==
    ASSUME Typed, NEW t \in Tick, Rebuild(t), NEW w \in Worker PROVE Paced(w)
<1>1. cur[t] \in Worker /\ pc[t] = "rebuild"
  BY DEF Rebuild, Typed, Aimed
<1>2. CASE w = cur[t]
  <2>1. pc'[t] # pc[t]
    BY <1>1 DEF Rebuild, Goto, Typed, TicksTyped
  <2> QED
    BY <1>1, <1>2, <2>1 DEF Paced, Excused, Acting
<1>3. CASE w # cur[t]
  BY <1>3 DEF Rebuild, Paced, Fewer, Owned
<1> QED
  BY <1>2, <1>3

LEMMA TickSlots ==
    ASSUME NoLegacy, Typed, NEW t \in Tick, TickStep(t) \/ ReassignThrows(t), NEW w \in Worker
    PROVE  Paced(w)
<1>1. CASE \/ Renew(t) \/ Scan(t) \/ List(t) \/ HScan(t) \/ Fetch(t) \/ NextAccount(t)
           \/ Reload(t) \/ UnregisterWorker(t) \/ UnregisterHb(t) \/ UnregisterIndex(t)
  <2>1. UNCHANGED <<assign, load>>
    BY <1>1 DEF Renew, Scan, List, HScan, Fetch, NextAccount, Reload, UnregisterWorker,
                UnregisterHb, UnregisterIndex, registryVars
  <2> QED
    BY <2>1, IdleSlots
<1>2. CASE Rebuild(t)
  BY <1>2, RebuildSlots
<1>3. CASE Strand(t) \/ Unbind(t)
  <2>1. cur[t] \in Binding
    BY DEF Typed, TicksTyped
  <2>2. PICK a \in Account : AtomicUnassign(a, cur[t], TRUE)
    BY <1>3 DEF Strand, Unbind, Typed, TicksTyped, Aimed
  <2> QED
    BY <2>1, <2>2, UnassignSlots DEF Typed, Paced
<1>4. CASE Place(t)
  <2>1. acct[t] \in Account
    BY <1>4 DEF Place, Typed, Aimed
  <2>2. Owner(acct[t]) = assign[acct[t]]
    BY <2>1 DEF Owner, NoLegacy
  <2>3. UNCHANGED registryVars
    BY <1>4, <2>2 DEF Place
  <2> QED
    BY <2>3, IdleSlots DEF registryVars
<1>5. CASE Move(t) \/ ReassignThrows(t)
  <2>1. CASE UNCHANGED registryVars
    BY <2>1, IdleSlots DEF registryVars
  <2>2. CASE pc[t] = "move" /\ AtomicReassign(acct[t], target[t], old[t])
    <3>1. acct[t] \in Account /\ target[t] \in Worker /\ old[t] \in Binding
      BY <2>2 DEF Typed, Aimed, TicksTyped
    <3> QED
      BY <2>2, <3>1, ReassignSlots DEF Typed, Paced
  <2> QED
    BY <1>5, <2>1, <2>2 DEF Move, ReassignThrows
<1>6. CASE UnregisterLoad(t)
  <2>1. assign' = assign /\ load' = [load EXCEPT ![cur[t]] = 0] /\ pc'[t] # pc[t]
    BY <1>6 DEF UnregisterLoad, Goto, Typed, TicksTyped
  <2>2. CASE w = cur[t]
    BY <2>1, <2>2 DEF Paced, Excused, Acting
  <2>3. CASE w # cur[t]
    BY <2>1, <2>3 DEF Paced, Fewer, Owned, Typed, RegistryTypeOK
  <2> QED
    BY <2>2, <2>3
<1> QED
  BY <1>1, <1>2, <1>3, <1>4, <1>5, <1>6 DEF TickStep

LEMMA StepSlots ==
    ASSUME NoLegacy, Typed, [Next]_vars, NEW w \in Worker PROVE Paced(w)
<1>1. ASSUME NEW t \in Tick, TickStep(t) \/ ReassignThrows(t) PROVE Paced(w)
  BY <1>1, TickSlots
<1>2. ASSUME NEW v \in Worker, Heartbeat(v) PROVE Paced(w)
  BY <1>2 DEF Heartbeat, AtomicSyncLoad, Paced, Excused
<1>3. ASSUME NEW v \in Worker, ShutDown(v) PROVE Paced(w)
  <2>1. up' # up
    BY <1>3 DEF ShutDown
  <2> QED
    BY <2>1 DEF Paced, Excused
<1>4. ASSUME NEW a \in Account, ApiAssign(a) PROVE Paced(w)
  <2>1. request[a] \in Worker /\ AtomicAssign(a, request[a])
    BY <1>4 DEF ApiAssign, Typed, SharedTyped, Binding
  <2> QED
    BY <2>1, AssignSlots DEF Typed, Paced, OneMoreFits
<1>5. ASSUME NEW a \in Account, ApiUnassign(a) PROVE Paced(w)
  <2>1. assign[a] \in Binding /\ AtomicUnassign(a, assign[a], TRUE)
    BY <1>5 DEF ApiUnassign, Typed, RegistryTypeOK
  <2> QED
    BY <2>1, UnassignSlots DEF Typed, Paced
<1>6. CASE \/ \E t \in Tick : Acquire(t) \/ TickThrows(t)
           \/ \E m \in Master : Stop(m) \/ MasterCrash(m)
           \/ LeaderExpires
           \/ \E v \in Worker : RebuildExpires(v) \/ Silent(v) \/ Crash(v) \/ Start(v)
           \/ \E a \in Account : ApiPick(a)
           \/ UNCHANGED vars
  <2>1. UNCHANGED <<assign, load>>
    BY <1>6 DEF Acquire, TickThrows, Stop, MasterCrash, LeaderExpires, RebuildExpires,
                Silent, Crash, Start, ApiPick, vars, registryVars
  <2> QED
    BY <2>1, IdleSlots
<1> QED
  BY <1>1, <1>2, <1>3, <1>4, <1>5, <1>6 DEF Next

(* However many ticks overlap, and whatever fails, crashes or is assigned  *)
(* and unassigned meanwhile: in a cluster without legacy bindings the slot *)
(* counter of a worker falls below the number of its accounts only when    *)
(* the worker reports, comes, goes or is unregistered, or when a rebuild   *)
(* of its index restores bindings.                                         *)
THEOREM SlotsCoveredInFailover == ASSUME NoLegacy PROVE Spec => SlotsStayCovered
<1> DEFINE Slot(w) == Covered(w) /\ ~Covered(w)' => Excused(w)
<1>1. ASSUME Typed, [Next]_vars, NEW w \in Worker PROVE Slot(w)
  <2>1. load[w] \in Nat /\ load'[w] \in Nat
    BY <1>1, StepTyped DEF Typed, RegistryTypeOK
  <2>2. Fewer(w) \/ OneMore(w) \/ OneLess(w) => Slot(w)
    BY <2>1, CountStep DEF Covered
  <2> QED
    BY <1>1, <2>2, StepSlots DEF Paced
<1>2. Typed /\ [Next]_vars => [\A w \in Worker : Slot(w)]_vars
  BY <1>1
<1> QED
  BY <1>2, AlwaysTyped, PTL DEF Spec, SlotsStayCovered, Excused

-----------------------------------------------------------------------------
(* What a tick has read stays true.  An account is firm that nobody        *)
(* unassigns meanwhile and that no older release has bound: the claims of  *)
(* a tick, and the index, are about those.                                 *)

Firm(a) == a \notin Unassignable /\ Legacy[a] = NoWorker

FirmIndex == \A w \in Worker : \A a \in members[w] : Firm(a) => assign[a] = w

(* What tick t still relies on: the accounts on its list and the one in    *)
(* hand, whose owner it has looked up, are bound to the worker it migrates.*)
Claims(t) ==
    /\ pc[t] \notin {"idle", "renew", "scan", "list"} =>
          \A a \in todo[t] : Firm(a) => assign[a] = cur[t]
    /\ pc[t] \in {"reload", "place", "move", "unbind"} => acct[t] \notin todo[t]
    /\ pc[t] \in {"reload", "place", "move"} /\ Firm(acct[t]) => assign[acct[t]] = cur[t]
    /\ pc[t] = "move" /\ Firm(acct[t]) => old[t] = cur[t]

Reliable == FirmIndex /\ \A t \in Tick : Claims(t)

(* A firm account that is bound stays where it is; all of them but S do.   *)
Stays(S) ==
    \A a \in Account : Firm(a) /\ a \notin S /\ assign[a] # NoWorker => assign'[a] = assign[a]

Same(u) ==
    /\ pc'[u] = pc[u] /\ cur'[u] = cur[u] /\ todo'[u] = todo[u]
    /\ acct'[u] = acct[u] /\ old'[u] = old[u]

LEMMA IdleClaims ==
    ASSUME NEW u \in Tick, pc[u] \in {"idle", "renew", "scan", "list"} PROVE Claims(u)
BY DEF Claims

LEMMA SameClaims ==
    ASSUME Typed, NEW u \in Tick, Claims(u), Same(u), Stays({}) PROVE Claims(u)'
<1>1. pc[u] \notin {"idle", "renew", "scan", "list"} => cur[u] \in Worker /\ cur[u] # NoWorker
  BY WorkerAssumption DEF Typed, Aimed
<1>2. todo[u] \in SUBSET Account
  BY DEF Typed, TicksTyped
<1>3. pc[u] \in {"reload", "place", "move", "unbind"} => acct[u] \in Account
  BY DEF Typed, Aimed
<1>4. \A a : Firm(a)' <=> Firm(a)
  BY DEF Firm
<1> QED
  BY <1>1, <1>2, <1>3, <1>4 DEF Claims, Same, Stays

LEMMA OthersSame ==
    ASSUME Typed, NEW t \in Tick, Acquire(t) \/ TickStep(t) \/ ReassignThrows(t),
           NEW u \in Tick, u # t
    PROVE  Same(u)
<1>1. CASE Acquire(t) \/ Renew(t) \/ Scan(t)
  BY <1>1 DEF Acquire, Renew, Scan, Goto, Same, Typed, TicksTyped
<1>2. CASE List(t)
  BY <1>2 DEF List, Goto, Same, Typed, TicksTyped
<1>3. CASE HScan(t) \/ Rebuild(t) \/ Fetch(t) \/ Reload(t)
  BY <1>3 DEF HScan, Rebuild, Fetch, Reload, Goto, Same, Typed, TicksTyped
<1>4. CASE Strand(t) \/ NextAccount(t)
  BY <1>4 DEF Strand, NextAccount, Goto, Same, Typed, TicksTyped
<1>5. CASE Place(t)
  BY <1>5 DEF Place, Done, Goto, Same, Typed, TicksTyped
<1>6. CASE Move(t) \/ Unbind(t) \/ ReassignThrows(t)
  BY <1>6 DEF Move, Unbind, ReassignThrows, Done, Goto, Same, Typed, TicksTyped
<1>7. CASE \/ UnregisterWorker(t) \/ UnregisterHb(t) \/ UnregisterLoad(t)
           \/ UnregisterIndex(t)
  BY <1>7 DEF UnregisterWorker, UnregisterHb, UnregisterLoad, UnregisterIndex, Goto, Same,
              Typed, TicksTyped
<1> QED
  BY <1>1, <1>2, <1>3, <1>4, <1>5, <1>6, <1>7 DEF TickStep

(* Only one tick is past the lock, so none of the others relies on         *)
(* anything when t has changed a binding.                                  *)
LEMMA OthersIdle ==
    ASSUME Led, NEW t \in Tick, Migrating(t), NEW u \in Tick, u # t, Same(u)
    PROVE  Claims(u)'
<1>1. pc'[u] \in {"idle", "renew"}
  BY LedOne DEF OneMigrator, Migrating, Same
<1> QED
  BY <1>1 DEF Claims

(* No binding and no index changes.                                        *)
LEMMA UntouchedIndex == ASSUME FirmIndex, UNCHANGED <<assign, members>> PROVE FirmIndex' /\ Stays({})
BY DEF FirmIndex, Firm, Stays

-----------------------------------------------------------------------------
(* What a tick does to its own claims.                                     *)

LEMMA ReadingClaims ==
    ASSUME Typed, Reliable, NEW t \in Tick,
           \/ Acquire(t) \/ Renew(t) \/ Scan(t) \/ List(t) \/ HScan(t) \/ Fetch(t)
           \/ NextAccount(t) \/ Reload(t)
    PROVE  UNCHANGED <<assign, members>> /\ Claims(t)'
<1>1. UNCHANGED <<assign, members>>
  BY DEF Acquire, Renew, Scan, List, HScan, Fetch, NextAccount, Reload, registryVars
<1>2. CASE Acquire(t) \/ Renew(t) \/ Scan(t)
  <2>1. pc'[t] \in {"idle", "renew", "scan", "list"}
    BY <1>2 DEF Acquire, Renew, Scan, Goto, Typed, TicksTyped
  <2> QED
    BY <1>1, <2>1 DEF Claims
<1>3. CASE List(t)
  <2>1. PICK w \in dead[t] : cur'[t] = w /\ todo'[t] = members[w]
    BY <1>3 DEF List, Typed, TicksTyped
  <2>2. w \in Worker
    BY DEF Typed, TicksTyped
  <2>3. pc'[t] \in {"fetch", "unreg_worker", "hscan"}
    BY <1>3 DEF List, Goto, Typed, TicksTyped
  <2> QED
    BY <1>1, <2>1, <2>2, <2>3 DEF Claims, Reliable, FirmIndex, Firm
<1>4. CASE HScan(t)
  <2>1. cur[t] \in Worker /\ cur[t] # NoWorker
    BY <1>4, WorkerAssumption DEF HScan, Typed, Aimed
  <2>2. pc'[t] = "rebuild" /\ todo'[t] = Bound(cur[t]) /\ cur'[t] = cur[t]
    BY <1>4 DEF HScan, Goto, Typed, TicksTyped
  <2> QED
    BY <1>1, <2>1, <2>2 DEF Claims, Bound, Firm
<1>5. CASE Fetch(t)
  <2>1. pc[t] = "fetch" /\ pc'[t] \in {"strand", "next"} /\ UNCHANGED <<cur, todo>>
    BY <1>5 DEF Fetch, Goto, Typed, TicksTyped
  <2> QED
    BY <1>1, <2>1 DEF Claims, Reliable, Firm
<1>6. CASE NextAccount(t)
  <2>1. pc[t] = "next" /\ UNCHANGED cur
    BY <1>6 DEF NextAccount
  <2>2. CASE pc'[t] = "unreg_worker" /\ UNCHANGED <<acct, todo>>
    BY <1>1, <2>1, <2>2 DEF Claims, Reliable, Firm
  <2>3. CASE \E a \in todo[t] : /\ acct'[t] = a /\ todo'[t] = todo[t] \ {a}
                                /\ pc'[t] \in {"reload", "place"}
    BY <1>1, <2>1, <2>3 DEF Claims, Reliable, Firm
  <2> QED
    BY <1>6, <2>2, <2>3 DEF NextAccount, Goto, Typed, TicksTyped
<1>7. CASE Reload(t)
  <2>1. pc[t] = "reload" /\ pc'[t] = "place" /\ UNCHANGED <<cur, todo, acct>>
    BY <1>7 DEF Reload, Goto, Typed, TicksTyped
  <2> QED
    BY <1>1, <2>1 DEF Claims, Reliable, Firm
<1> QED
  BY <1>1, <1>2, <1>3, <1>4, <1>5, <1>6, <1>7

LEMMA UnregisterClaims ==
    ASSUME Typed, Reliable, NEW t \in Tick,
           \/ UnregisterWorker(t) \/ UnregisterHb(t) \/ UnregisterLoad(t)
           \/ UnregisterIndex(t)
    PROVE  FirmIndex' /\ Stays({}) /\ Claims(t)'
<1>1. UNCHANGED assign
  BY DEF UnregisterWorker, UnregisterHb, UnregisterLoad, UnregisterIndex, registryVars
<1>2. FirmIndex' /\ Stays({})
  <2>1. \A w \in Worker : members'[w] \subseteq members[w]
    BY DEF UnregisterWorker, UnregisterHb, UnregisterLoad, UnregisterIndex, registryVars,
           Typed, RegistryTypeOK
  <2> QED
    BY <1>1, <2>1 DEF Reliable, FirmIndex, Firm, Stays
<1>3. CASE UnregisterIndex(t)
  <2>1. pc'[t] \in {"idle", "list"}
    BY <1>3 DEF UnregisterIndex, Goto, Typed, TicksTyped
  <2> QED
    BY <1>2, <2>1 DEF Claims
<1>4. CASE UnregisterWorker(t) \/ UnregisterHb(t) \/ UnregisterLoad(t)
  <2>1. /\ pc[t] \in {"unreg_worker", "unreg_hb", "unreg_load"}
        /\ pc'[t] \in {"unreg_hb", "unreg_load", "unreg_index"}
        /\ UNCHANGED <<cur, todo>>
    BY <1>4 DEF UnregisterWorker, UnregisterHb, UnregisterLoad, Goto, Typed, TicksTyped
  <2> QED
    BY <1>1, <1>2, <2>1 DEF Claims, Reliable, Firm
<1> QED
  BY <1>2, <1>3, <1>4

(* A rebuild writes back what the scan found; for firm accounts it has not *)
(* changed since.                                                          *)
LEMMA RebuildClaims ==
    ASSUME Typed, Reliable, NEW t \in Tick, Rebuild(t)
    PROVE  FirmIndex' /\ Stays({}) /\ Claims(t)'
<1>1. /\ pc[t] = "rebuild" /\ cur[t] \in Worker /\ todo[t] \in SUBSET Account
      /\ assign' = [a \in Account |-> IF a \in todo[t] THEN cur[t] ELSE assign[a]]
      /\ members' = [members EXCEPT ![cur[t]] = @ \cup todo[t]]
      /\ UNCHANGED <<cur, todo>>
  BY DEF Rebuild, Typed, Aimed, TicksTyped
<1>2. \A a \in todo[t] : Firm(a) => assign[a] = cur[t]
  BY <1>1 DEF Reliable, Claims
<1>3. \A a \in Account : Firm(a) => assign'[a] = assign[a]
  BY <1>1, <1>2
<1>4. ASSUME NEW w \in Worker, NEW a \in members'[w]
      PROVE  a \in Account /\ (a \in members[w] \/ (a \in todo[t] /\ w = cur[t]))
  <2>1. members'[w] = IF w = cur[t] THEN members[w] \cup todo[t] ELSE members[w]
    BY <1>1 DEF Typed, RegistryTypeOK
  <2>2. members[w] \in SUBSET Account
    BY DEF Typed, RegistryTypeOK
  <2> QED
    BY <1>1, <2>1, <2>2
<1>5. FirmIndex'
  BY <1>2, <1>3, <1>4 DEF Reliable, FirmIndex, Firm
<1>6. pc'[t] \in {"unreg_worker", "fetch"}
  BY DEF Rebuild, Goto, Typed, TicksTyped
<1>7. Claims(t)'
  BY <1>1, <1>2, <1>3, <1>6 DEF Claims, Firm
<1> QED
  BY <1>3, <1>5, <1>7 DEF Stays

(* Neither does placing a firm account: its owner is the worker the tick   *)
(* migrates, and there is no legacy binding to write back.                 *)
LEMMA PlaceClaims ==
    ASSUME Typed, Reliable, NEW t \in Tick, Place(t)
    PROVE  FirmIndex' /\ Stays({}) /\ Claims(t)'
<1> DEFINE a == acct[t]
<1>1. pc[t] = "place" /\ a \in Account /\ a \notin todo[t]
  BY DEF Place, Typed, Aimed, Reliable, Claims
<1>2. cur[t] \in Worker /\ cur[t] # NoWorker
  BY <1>1, WorkerAssumption DEF Typed, Aimed
<1>3. Firm(a) => Owner(a) = cur[t] /\ assign[a] = cur[t]
  BY <1>1, <1>2 DEF Owner, Reliable, Claims
<1>4. \/ UNCHANGED registryVars
      \/ BackfillAssignment(a, Owner(a)) /\ ~Firm(a)
  BY <1>3 DEF Place
<1>5. /\ \A b \in Account : Firm(b) => assign'[b] = assign[b]
      /\ \A w \in Worker : \A b \in members'[w] : b \in Account /\ (Firm(b) => b \in members[w])
  <2>1. CASE UNCHANGED registryVars
    BY <2>1 DEF registryVars, Typed, RegistryTypeOK
  <2>2. CASE BackfillAssignment(a, Owner(a)) /\ ~Firm(a)
    BY <1>1, <2>2 DEF BackfillAssignment, Typed, RegistryTypeOK
  <2> QED
    BY <1>4, <2>1, <2>2
<1>6. FirmIndex' /\ Stays({})
  BY <1>5 DEF Reliable, FirmIndex, Firm, Stays
<1>7. /\ UNCHANGED <<cur, todo>>
      /\ \/ pc'[t] \in {"next", "unbind"} /\ (pc'[t] = "unbind" => acct'[t] = a)
         \/ pc'[t] = "move" /\ acct'[t] = a /\ old'[t] = Owner(a)
  BY DEF Place, Done, Goto, Typed, TicksTyped
<1>8. todo[t] \in SUBSET Account
  BY DEF Typed, TicksTyped
<1> HIDE DEF a
<1>9. Claims(t)'
  BY <1>1, <1>3, <1>5, <1>7, <1>8 DEF Claims, Reliable, Firm
<1> QED
  BY <1>6, <1>9

(* The script takes a firm account out of the index of its old owner.      *)
LEMMA ReassignFirm ==
    ASSUME Typed, FirmIndex, NEW a \in Account, NEW w \in Worker, NEW o \in Binding,
           AtomicReassign(a, w, o), Firm(a) => o \in Worker /\ o = assign[a]
    PROVE  FirmIndex' /\ Stays({a})
<1>1. CASE UNCHANGED registryVars
  BY <1>1, UntouchedIndex DEF registryVars, Stays
<1>2. CASE ReassignCode(a, w, o) = 1
  <2>1. /\ assign' = [assign EXCEPT ![a] = w]
        /\ members' = [x \in Worker |-> IF x = w THEN members[x] \cup {a}
                                        ELSE IF x = o THEN members[x] \ {a}
                                        ELSE members[x]]
    BY <1>2 DEF AtomicReassign
  <2>2. \A b \in Account : b # a => assign'[b] = assign[b]
    BY <2>1 DEF Typed, RegistryTypeOK
  <2>3. assign'[a] = w
    BY <2>1 DEF Typed, RegistryTypeOK
  <2>4. ASSUME NEW v \in Worker, NEW b \in members'[v], Firm(b) PROVE assign'[b] = v
    <3>1. members[v] \in SUBSET Account
      BY DEF Typed, RegistryTypeOK
    <3>2. b \in Account /\ (b \in members[v] \/ (b = a /\ v = w)) /\ (v = o => b # a \/ v = w)
      <4>1. CASE v = w
        BY <2>1, <2>4, <3>1, <4>1
      <4>2. CASE v # w
        BY <2>1, <2>4, <3>1, <4>2
      <4> QED
        BY <4>1, <4>2
    <3>3. CASE b = a
      BY <2>3, <2>4, <3>2, <3>3 DEF FirmIndex
    <3>4. CASE b # a
      BY <2>2, <2>4, <3>2, <3>4 DEF FirmIndex
    <3> QED
      BY <3>3, <3>4
  <2> QED
    BY <2>2, <2>4 DEF FirmIndex, Firm, Stays
<1> QED
  BY <1>1, <1>2 DEF AtomicReassign

LEMMA UnassignFirm ==
    ASSUME Typed, FirmIndex, NEW a \in Account, NEW w \in Worker, AtomicUnassign(a, w, TRUE)
    PROVE  FirmIndex' /\ Stays({a}) /\ \A b \in Account : b # a => assign'[b] = assign[b]
<1>1. CASE UNCHANGED registryVars
  BY <1>1, UntouchedIndex DEF registryVars, Stays
<1>2. CASE UnassignCode(a, w) = 1
  <2>1. /\ assign' = [assign EXCEPT ![a] = NoWorker]
        /\ members' = [members EXCEPT ![w] = @ \ {a}]
        /\ assign[a] = w
    BY <1>2 DEF AtomicUnassign, UnassignCode
  <2>2. \A b \in Account : b # a => assign'[b] = assign[b]
    BY <2>1 DEF Typed, RegistryTypeOK
  <2>3. ASSUME NEW v \in Worker, NEW b \in members'[v], Firm(b) PROVE assign'[b] = v
    <3>1. members[v] \in SUBSET Account
      BY DEF Typed, RegistryTypeOK
    <3>2. b \in members[v] /\ b \in Account /\ (v = w => b # a)
      BY <2>1, <2>3, <3>1 DEF Typed, RegistryTypeOK
    <3>3. b # a
      BY <2>1, <2>3, <3>2 DEF FirmIndex
    <3> QED
      BY <2>2, <2>3, <3>2, <3>3 DEF FirmIndex
  <2> QED
    BY <2>2, <2>3 DEF FirmIndex, Firm, Stays
<1> QED
  BY <1>1, <1>2 DEF AtomicUnassign

(* Move, and reassign throwing, executed or not.                           *)
LEMMA MoveClaims ==
    ASSUME Typed, Reliable, NEW t \in Tick, Move(t) \/ ReassignThrows(t)
    PROVE  FirmIndex' /\ Stays({acct[t]}) /\ Claims(t)' /\ Migrating(t)
<1> DEFINE a == acct[t]
<1>1. pc[t] \in {"place", "move"} /\ Migrating(t)
  BY DEF Move, ReassignThrows, Migrating
<1>2. a \in Account /\ a \notin todo[t] /\ todo[t] \in SUBSET Account
  BY <1>1 DEF Typed, Aimed, TicksTyped, Reliable, Claims
<1>3. FirmIndex' /\ Stays({a})
  <2>1. CASE UNCHANGED registryVars
    BY <2>1, UntouchedIndex DEF registryVars, Stays, Reliable
  <2>2. CASE pc[t] = "move" /\ AtomicReassign(a, target[t], old[t])
    <3>1. target[t] \in Worker /\ old[t] \in Binding /\ cur[t] \in Worker
      BY <2>2 DEF Typed, Aimed, TicksTyped
    <3>2. Firm(a) => old[t] \in Worker /\ old[t] = assign[a]
      BY <2>2, <3>1 DEF Reliable, Claims
    <3> QED
      BY <1>2, <2>2, <3>1, <3>2, ReassignFirm DEF Reliable
  <2> QED
    BY <2>1, <2>2 DEF Move, ReassignThrows
<1>4. /\ UNCHANGED <<cur, todo>>
      /\ \/ pc'[t] = "next"
         \/ pc'[t] = "unbind" /\ UNCHANGED acct
  BY DEF Move, ReassignThrows, Done, Goto, Typed, TicksTyped
<1>5. cur[t] \in Worker /\ cur[t] # NoWorker
  BY <1>1, WorkerAssumption DEF Typed, Aimed
<1>6. \A b \in todo[t] : Firm(b) => assign'[b] = cur[t]
  BY <1>1, <1>2, <1>3, <1>5 DEF Stays, Reliable, Claims
<1> HIDE DEF a
<1>7. Claims(t)'
  BY <1>2, <1>4, <1>6 DEF Claims, Firm, a
<1> QED
  BY <1>1, <1>3, <1>7 DEF a

LEMMA UnbindClaims ==
    ASSUME Typed, Reliable, NEW t \in Tick, Strand(t) \/ Unbind(t)
    PROVE  FirmIndex' /\ Claims(t)' /\ Migrating(t)
<1>1. pc[t] \in {"strand", "unbind"} /\ Migrating(t) /\ cur[t] \in Worker
  BY DEF Strand, Unbind, Migrating, Typed, Aimed
<1>2. PICK a \in Account :
        /\ AtomicUnassign(a, cur[t], TRUE)
        /\ a \notin todo'[t] /\ todo'[t] \subseteq todo[t]
  <2>1. CASE Strand(t)
    BY <2>1 DEF Strand, Typed, TicksTyped
  <2>2. CASE Unbind(t)
    BY <2>2 DEF Unbind, Typed, Aimed, Reliable, Claims
  <2> QED
    BY <2>1, <2>2
<1>3. FirmIndex' /\ \A b \in Account : b # a => assign'[b] = assign[b]
  BY <1>1, <1>2, UnassignFirm DEF Reliable
<1>4. pc'[t] \in {"unreg_worker", "strand", "next"} /\ UNCHANGED cur
  BY DEF Strand, Unbind, Done, Goto, Typed, TicksTyped
<1>5. todo[t] \in SUBSET Account
  BY DEF Typed, TicksTyped
<1>6. \A b \in todo'[t] : Firm(b) => assign'[b] = cur[t]
  BY <1>1, <1>2, <1>3, <1>5 DEF Reliable, Claims
<1> QED
  BY <1>1, <1>3, <1>4, <1>6 DEF Claims, Firm

-----------------------------------------------------------------------------
(* The others: an assign binds only what is not bound, and what the API    *)
(* unassigns is not firm.                                                  *)

LEMMA ApiClaims ==
    ASSUME Typed, FirmIndex, NEW a \in Account, ApiAssign(a) \/ ApiUnassign(a)
    PROVE  FirmIndex' /\ Stays({}) /\ UNCHANGED tickVars
<1>1. UNCHANGED tickVars
  BY DEF ApiAssign, ApiUnassign
<1>2. CASE ApiAssign(a)
  <2>1. request[a] \in Worker /\ AtomicAssign(a, request[a])
    BY <1>2 DEF ApiAssign, Typed, SharedTyped, Binding
  <2> DEFINE w == request[a]
  <2>2. CASE UNCHANGED registryVars
    BY <1>1, <2>2, UntouchedIndex DEF registryVars
  <2>3. CASE AssignCode(a, w) = 1
    <3>1. /\ assign[a] = NoWorker
          /\ assign' = [assign EXCEPT ![a] = w]
          /\ members' = [members EXCEPT ![w] = @ \cup {a}]
      BY <2>1, <2>3 DEF AtomicAssign, AssignCode
    <3>2. assign'[a] = w /\ \A b \in Account : b # a => assign'[b] = assign[b]
      BY <3>1 DEF Typed, RegistryTypeOK
    <3>3. ASSUME NEW v \in Worker, NEW b \in members'[v], Firm(b) PROVE assign'[b] = v
      <4>1. members[v] \in SUBSET Account
        BY DEF Typed, RegistryTypeOK
      <4>2. b \in Account /\ (b \in members[v] \/ (b = a /\ v = w))
        BY <2>1, <3>1, <3>3, <4>1 DEF Typed, RegistryTypeOK
      <4>3. b = a => v = w
        BY <3>1, <3>3, <4>2, WorkerAssumption DEF FirmIndex
      <4> QED
        BY <3>2, <3>3, <4>2, <4>3 DEF FirmIndex
    <3> QED
      BY <1>1, <3>1, <3>2, <3>3 DEF FirmIndex, Firm, Stays
  <2> QED
    BY <2>1, <2>2, <2>3 DEF AtomicAssign
<1>3. CASE ApiUnassign(a)
  <2>1. assign[a] \in Worker /\ AtomicUnassign(a, assign[a], TRUE) /\ ~Firm(a)
    BY <1>3 DEF ApiUnassign, Typed, RegistryTypeOK, Binding, Firm
  <2> QED
    BY <1>1, <2>1, UnassignFirm DEF Stays
<1> QED
  BY <1>2, <1>3

LEMMA OtherClaims ==
    ASSUME Typed, FirmIndex,
           \/ \E m \in Master : Stop(m)
           \/ LeaderExpires
           \/ \E w \in Worker : \/ RebuildExpires(w) \/ Heartbeat(w) \/ Silent(w)
                                \/ Crash(w) \/ Start(w) \/ ShutDown(w)
           \/ \E a \in Account : ApiPick(a) \/ ApiAssign(a) \/ ApiUnassign(a)
           \/ UNCHANGED vars
    PROVE  FirmIndex' /\ Stays({}) /\ UNCHANGED tickVars
<1>1. CASE \/ \E m \in Master : Stop(m)
           \/ LeaderExpires
           \/ \E w \in Worker : RebuildExpires(w) \/ Silent(w) \/ Crash(w) \/ Start(w)
           \/ \E a \in Account : ApiPick(a)
           \/ UNCHANGED vars
  <2>1. UNCHANGED <<assign, members>> /\ UNCHANGED tickVars
    BY <1>1 DEF Stop, LeaderExpires, RebuildExpires, Silent, Crash, Start, ApiPick, vars,
                registryVars
  <2> QED
    BY <2>1, UntouchedIndex
<1>2. ASSUME NEW w \in Worker, Heartbeat(w) PROVE FirmIndex' /\ Stays({}) /\ UNCHANGED tickVars
  <2>1. UNCHANGED <<assign, members>> /\ UNCHANGED tickVars
    BY <1>2 DEF Heartbeat, AtomicSyncLoad
  <2> QED
    BY <2>1, UntouchedIndex
<1>3. ASSUME NEW w \in Worker, ShutDown(w) PROVE FirmIndex' /\ Stays({}) /\ UNCHANGED tickVars
  <2>1. /\ assign' = assign /\ UNCHANGED tickVars
        /\ \A v \in Worker : members'[v] \subseteq members[v]
    BY <1>3 DEF ShutDown, Typed, RegistryTypeOK
  <2> QED
    BY <2>1 DEF FirmIndex, Firm, Stays
<1> QED
  BY <1>1, <1>2, <1>3, ApiClaims

LEMMA EndClaims ==
    ASSUME Typed, Reliable, (\E t \in Tick : TickThrows(t)) \/ (\E m \in Master : MasterCrash(m))
    PROVE  FirmIndex' /\ Stays({}) /\ \A u \in Tick : Claims(u)'
<1>1. UNCHANGED <<assign, members>> /\ \E T \in SUBSET Tick : Abort(T)
  BY DEF TickThrows, MasterCrash, registryVars
<1>2. PICK T \in SUBSET Tick : Abort(T)
  BY <1>1
<1>3. ASSUME NEW u \in Tick PROVE Claims(u)'
  <2>1. CASE u \in T
    BY <1>2, <2>1 DEF Abort, Claims
  <2>2. CASE u \notin T
    <3>1. Same(u)
      BY <1>2, <2>2 DEF Abort, Same
    <3> QED
      BY <1>1, <3>1, SameClaims, UntouchedIndex DEF Reliable
  <2> QED
    BY <2>1, <2>2
<1> QED
  BY <1>1, <1>3, UntouchedIndex DEF Reliable

(* A firm account leaves its worker in a migration of that worker only.    *)
Leaves ==
    \A a \in Account :
        Firm(a) /\ assign[a] # NoWorker /\ assign'[a] # assign[a] =>
            \E t \in Tick : Acting(t) /\ cur[t] = assign[a]

LEMMA StepReliable ==
    ASSUME Typed, Led, Reliable, [Next]_vars PROVE Reliable' /\ Leaves
<1> USE DEF Reliable
<1>1. Stays({}) => Leaves
  BY DEF Stays, Leaves
<1>2. ASSUME NEW t \in Tick,
             \/ Acquire(t) \/ Renew(t) \/ Scan(t) \/ List(t) \/ HScan(t) \/ Fetch(t)
             \/ NextAccount(t) \/ Reload(t) \/ Rebuild(t) \/ Place(t)
             \/ UnregisterWorker(t) \/ UnregisterHb(t) \/ UnregisterLoad(t)
             \/ UnregisterIndex(t)
      PROVE  Reliable' /\ Leaves
  <2>1. FirmIndex' /\ Stays({}) /\ Claims(t)'
    BY <1>2, ReadingClaims, UntouchedIndex, RebuildClaims, PlaceClaims, UnregisterClaims
  <2>2. \A u \in Tick : u # t => Same(u)
    BY <1>2, OthersSame DEF TickStep
  <2>3. \A u \in Tick : Claims(u)'
    BY <2>1, <2>2, SameClaims
  <2> QED
    BY <1>1, <2>1, <2>3
<1>3. ASSUME NEW t \in Tick, Move(t) \/ ReassignThrows(t) PROVE Reliable' /\ Leaves
  <2>1. FirmIndex' /\ Stays({acct[t]}) /\ Claims(t)' /\ Migrating(t)
    BY <1>3, MoveClaims
  <2>2. \A u \in Tick : u # t => Same(u)
    BY <1>3, OthersSame DEF TickStep
  <2>3. \A u \in Tick : Claims(u)'
    BY <2>1, <2>2, OthersIdle
  <2>4. pc[t] \in {"place", "move"} /\ pc'[t] # pc[t]
    BY <1>3 DEF Move, ReassignThrows, Done, Goto, Typed, TicksTyped
  <2>5. Firm(acct[t]) => assign[acct[t]] = cur[t]
    BY <2>4 DEF Claims
  <2> QED
    BY <2>1, <2>3, <2>4, <2>5 DEF Leaves, Stays, Acting
<1>4. ASSUME NEW t \in Tick, Strand(t) \/ Unbind(t) PROVE Reliable' /\ Leaves
  <2>1. FirmIndex' /\ Claims(t)' /\ Migrating(t)
    BY <1>4, UnbindClaims
  <2>2. \A u \in Tick : u # t => Same(u)
    BY <1>4, OthersSame DEF TickStep
  <2>3. \A u \in Tick : Claims(u)'
    BY <2>1, <2>2, OthersIdle
  <2>4. \A b \in Account : assign'[b] # assign[b] => assign[b] = cur[t]
    BY <1>4, UnbindTyped
  <2>5. Acting(t)
    BY <1>4 DEF Strand, Unbind, Done, Goto, Acting, Typed, TicksTyped
  <2> QED
    BY <2>1, <2>3, <2>4, <2>5 DEF Leaves
<1>5. CASE (\E t \in Tick : TickThrows(t)) \/ (\E m \in Master : MasterCrash(m))
  BY <1>1, <1>5, EndClaims
<1>6. CASE \/ \E m \in Master : Stop(m)
           \/ LeaderExpires
           \/ \E w \in Worker : \/ RebuildExpires(w) \/ Heartbeat(w) \/ Silent(w)
                                \/ Crash(w) \/ Start(w) \/ ShutDown(w)
           \/ \E a \in Account : ApiPick(a) \/ ApiAssign(a) \/ ApiUnassign(a)
           \/ UNCHANGED vars
  <2>1. FirmIndex' /\ Stays({}) /\ UNCHANGED tickVars
    BY <1>6, OtherClaims
  <2>2. \A u \in Tick : Same(u)
    BY <2>1 DEF tickVars, Same
  <2> QED
    BY <1>1, <2>1, <2>2, SameClaims
<1> QED
  BY <1>2, <1>3, <1>4, <1>5, <1>6 DEF Next, TickStep

LEMMA AlwaysReliable == ASSUME ~Overlap PROVE Spec => [](Typed /\ Led /\ Reliable)
<1>1. Init => Led /\ Reliable
  BY DEF Init, RegistryInit, Led, Migrating, Reliable, FirmIndex, Claims
<1>2. Typed /\ Led /\ Reliable /\ [Next]_vars => Led' /\ Reliable'
  BY StepLed, StepReliable
<1> QED
  BY <1>1, <1>2, AlwaysTyped, PTL DEF Spec

(* Whatever fails, throws, crashes, restarts or shuts down on the way, and *)
(* whichever master takes over: while no tick outlasts its lock or its     *)
(* interval, an account is in the index of a worker it is not bound to     *)
(* only if somebody may unassign it meanwhile or an older release has      *)
(* bound it.                                                               *)
THEOREM GhostsAreNotFirm ==
    ASSUME ~Overlap
    PROVE  Spec => [](\A w \in Worker : \A a \in Ghosts(w) : ~Firm(a))
<1>1. Reliable => \A w \in Worker : \A a \in Ghosts(w) : ~Firm(a)
  BY DEF Reliable, FirmIndex, Ghosts
<1> QED
  BY <1>1, AlwaysReliable, PTL

(* So there is no ghost at all in a cluster without legacy bindings whose  *)
(* accounts nobody unassigns.                                              *)
THEOREM NoGhostsUndisturbed ==
    ASSUME ~Overlap, NoLegacy, Unassignable = {} PROVE Spec => []NoGhosts
<1>1. Typed /\ Reliable => NoGhosts
  BY DEF Typed, RegistryTypeOK, Reliable, FirmIndex, Firm, NoLegacy, NoGhosts, Ghosts
<1> QED
  BY <1>1, AlwaysReliable, PTL

(* Under the same condition on the ticks, whatever else fails: a firm      *)
(* account that is bound leaves its worker, for another or for none, only  *)
(* through a tick that is migrating that worker.                           *)
THEOREM FirmLeaveInMigrations == ASSUME ~Overlap PROVE Spec => [][Leaves]_vars
<1>1. Typed /\ Led /\ Reliable /\ [Next]_vars => [Leaves]_vars
  BY StepReliable
<1> QED
  BY <1>1, AlwaysReliable, PTL DEF Spec

(* So failover, or anything else, moves an account from one worker to      *)
(* another only in the migration of the worker it leaves: neither an owner *)
(* read before, nor a list, nor a rebuilt index takes it from anyone else. *)
THEOREM TakenOnlyFromDead ==
    ASSUME ~Overlap, NoLegacy, Unassignable = {} PROVE Spec => TakesOnlyFromDead
<1>1. [Leaves]_vars =>
        [\A a \in Account :
            assign[a] # NoWorker /\ assign'[a] \notin {NoWorker, assign[a]}
              => \E t \in Tick : Acting(t) /\ cur[t] = assign[a]]_vars
  BY DEF Leaves, Firm, NoLegacy
<1> QED
  BY <1>1, FirmLeaveInMigrations, PTL DEF TakesOnlyFromDead
=============================================================================
