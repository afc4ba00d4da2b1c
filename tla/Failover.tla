------------------------------ MODULE Failover ------------------------------
(***************************************************************************)
(* The master processes (registry/master.ts) and the migration of a dead   *)
(* worker's accounts (registry/failover.ts), with the workers that beat,   *)
(* fall silent, die, restart or shut down around them and the assign and   *)
(* unassign calls of the API.                                              *)
(*                                                                         *)
(*   tick      acquire | renew -> scan -> (migrate; unregister)*           *)
(*   migrate   list -> fetch -> (reload? -> place -> move | unbind)*       *)
(*               |        \-> [no live worker] strand*                     *)
(*               \-> [empty index] hscan -> rebuild                        *)
(*                                                                         *)
(* setInterval starts a tick whether or not the previous one has returned, *)
(* the leader lock runs out after 15 s however long a tick takes, and      *)
(* stop() gives it up at once.  Overlap says whether the model lets that   *)
(* happen to a tick in progress.                                           *)
(*                                                                         *)
(* Events (owner_changed, owner_unassigned) are not part of the state: a   *)
(* publish that fails is logged and changes nothing.  An index is rebuilt  *)
(* with one pipeline, as it is for up to 100 accounts.                     *)
(***************************************************************************)
EXTENDS Registry, Sequences

CONSTANTS
    Master, NoMaster, NoAccount,
    Tick, MasterOf,     \* invocations of tick() that may run side by side
    Overlap,            \* may a tick outlast its interval or its lock?
    ReloadEvery,        \* RELOAD_EVERY (50 in the code)
    Reports,            \* the activeSize values a worker may report
    Unassignable,       \* accounts somebody may unassign meanwhile
    MaxFaults           \* bound on failed ticks and scripts, crashes, unassigns

ASSUME ClusterAssumption == IsFiniteSet(Worker)
ASSUME MasterAssumption == NoMaster \notin Master /\ NoAccount \notin Account
ASSUME TickAssumption == MasterOf \in [Tick -> Master]
ASSUME OverlapAssumption == Overlap \in BOOLEAN
ASSUME ReloadAssumption == ReloadEvery \in Nat \ {0, 1}
ASSUME ReportsAssumption == Reports \subseteq Nat
ASSUME UnassignableAssumption == Unassignable \subseteq Account
ASSUME MaxFaultsAssumption == MaxFaults \in Nat

VARIABLES
    registered, \* keys of registry:workers
    hb,         \* registry:hb: no entry, or younger or older than 60 s
    up,         \* worker processes that are running
    leader,     \* unsea:master:leader
    isLeader,   \* Master.isLeader of each process
    rebuild,    \* registry:backfill:lock:<wid>: free, a tick's, or a dead one's
    pc,         \* the await each tick is suspended at
    dead,       \* dead workers the tick has still to deal with
    cur,        \* the one it is migrating
    todo,       \* its accounts still to place
    acct,       \* the account being placed
    processed,  \* accounts taken up so far
    view,       \* liveWorkers: snapshot of the live workers, most free first
    target,     \* the worker picked for acct
    old,        \* what reassign's lookup returned
    request,    \* target of an assign call between its listWorkers and its script
    faults

workerVars == <<registered, hb, up>>
lockVars == <<leader, isLeader, rebuild>>
tickVars == <<pc, dead, cur, todo, acct, processed, view, target, old>>
vars == <<registryVars, workerVars, lockVars, tickVars, request, faults>>

Step == {"idle", "renew", "scan", "list", "hscan", "rebuild", "fetch", "strand",
         "next", "reload", "place", "move", "unbind", "unreg_worker", "unreg_hb", "unreg_load",
         "unreg_index"}
Seen == [worker : Worker, load : Nat]

TypeOK ==
    /\ RegistryTypeOK
    /\ registered \subseteq Worker
    /\ hb \in [Worker -> {"none", "fresh", "stale"}]
    /\ up \subseteq Worker
    /\ leader \in Master \cup {NoMaster}
    /\ isLeader \in [Master -> BOOLEAN]
    /\ rebuild \in [Worker -> Tick \cup {"free", "orphan"}]
    /\ pc \in [Tick -> Step]
    /\ dead \in [Tick -> SUBSET Worker]
    /\ cur \in [Tick -> Binding]
    /\ todo \in [Tick -> SUBSET Account]
    /\ acct \in [Tick -> Account \cup {NoAccount}]
    /\ processed \in [Tick -> Nat]
    /\ view \in [Tick -> Seq(Seen)]
    /\ target \in [Tick -> Binding]
    /\ old \in [Tick -> Binding]
    /\ request \in [Account -> Binding]
    /\ faults \in 0..MaxFaults

Init ==
    /\ RegistryInit
    /\ registered = Worker
    /\ hb = [w \in Worker |-> "fresh"]
    /\ up = Worker
    /\ leader = NoMaster
    /\ isLeader = [m \in Master |-> FALSE]
    /\ rebuild = [w \in Worker |-> "free"]
    /\ pc = [t \in Tick |-> "idle"]
    /\ dead = [t \in Tick |-> {}]
    /\ cur = [t \in Tick |-> NoWorker]
    /\ todo = [t \in Tick |-> {}]
    /\ acct = [t \in Tick |-> NoAccount]
    /\ processed = [t \in Tick |-> 0]
    /\ view = [t \in Tick |-> <<>>]
    /\ target = [t \in Tick |-> NoWorker]
    /\ old = [t \in Tick |-> NoWorker]
    /\ request = [a \in Account |-> NoWorker]
    /\ faults = 0

Busy(m) == \E t \in Tick : MasterOf[t] = m /\ pc[t] # "idle"
Goto(t, step) == pc' = [pc EXCEPT ![t] = step]

(* On to the next account of the dead worker. *)
Done(t) ==
    /\ Goto(t, "next")
    /\ acct' = [acct EXCEPT ![t] = NoAccount]
    /\ target' = [target EXCEPT ![t] = NoWorker]
    /\ old' = [old EXCEPT ![t] = NoWorker]

Fault == faults < MaxFaults /\ faults' = faults + 1

-----------------------------------------------------------------------------
(* Leadership: SET NX PX 15000, or a token-checked extension of it.        *)

Acquire(t) ==
    LET m == MasterOf[t]
    IN  /\ pc[t] = "idle"
        /\ Overlap \/ ~Busy(m)
        /\ \/ /\ leader = NoMaster
              /\ leader' = m
              /\ isLeader' = [isLeader EXCEPT ![m] = TRUE]
              /\ Goto(t, "scan")
           \/ /\ leader # NoMaster
              /\ isLeader[m]
              /\ Goto(t, "renew")
              /\ UNCHANGED <<leader, isLeader>>
        /\ UNCHANGED <<registryVars, workerVars, rebuild, dead, cur, todo, acct, processed,
                       view, target, old, request, faults>>

(* Variant with a bug: the extension does not compare the token. *)
RenewAnyToken(t) ==
    /\ pc[t] = "renew"
    /\ Goto(t, "scan")
    /\ UNCHANGED <<registryVars, workerVars, lockVars, dead, cur, todo, acct,
                   processed, view, target, old, request, faults>>

Renew(t) ==
    LET m == MasterOf[t]
    IN  /\ pc[t] = "renew"
        /\ IF leader = m
           THEN Goto(t, "scan") /\ UNCHANGED isLeader
           ELSE Goto(t, "idle") /\ isLeader' = [isLeader EXCEPT ![m] = FALSE]
        /\ UNCHANGED <<registryVars, workerVars, leader, rebuild, dead, cur, todo,
                       acct, processed, view, target, old, request, faults>>

LeaderExpires ==
    /\ leader # NoMaster
    /\ Overlap \/ ~Busy(leader)
    /\ leader' = NoMaster
    /\ UNCHANGED <<registryVars, workerVars, isLeader, rebuild, tickVars, request, faults>>

(* Master.stop: no further tick, but one in progress is not waited for. *)
Stop(m) ==
    /\ isLeader[m]
    /\ Overlap \/ ~Busy(m)
    /\ leader' = IF leader = m THEN NoMaster ELSE leader
    /\ isLeader' = [isLeader EXCEPT ![m] = FALSE]
    /\ UNCHANGED <<registryVars, workerVars, rebuild, tickVars, request, faults>>

-----------------------------------------------------------------------------
(* Variant with a bug: only registered workers can be dead. *)
ScanRegistered(t) ==
    /\ pc[t] = "scan"
    /\ dead' = [dead EXCEPT ![t] = {w \in registered : hb[w] = "stale"}]
    /\ Goto(t, IF dead'[t] = {} THEN "idle" ELSE "list")
    /\ UNCHANGED <<registryVars, workerVars, lockVars, cur, todo, acct, processed,
                   view, target, old, request, faults>>

(* getDeadWorkers looks at the heartbeats only. *)
Scan(t) ==
    /\ pc[t] = "scan"
    /\ dead' = [dead EXCEPT ![t] = {w \in Worker : hb[w] = "stale"}]
    /\ Goto(t, IF dead'[t] = {} THEN "idle" ELSE "list")
    /\ UNCHANGED <<registryVars, workerVars, lockVars, cur, todo, acct, processed,
                   view, target, old, request, faults>>

(* listAccountsOnWorker: what the index holds.  If that is nothing, the    *)
(* index is rebuilt, unless another caller holds the lock for doing so.    *)
List(t) ==
    /\ pc[t] = "list"
    /\ \E w \in dead[t] :
          /\ cur' = [cur EXCEPT ![t] = w]
          /\ todo' = [todo EXCEPT ![t] = members[w]]
          /\ \/ /\ members[w] # {}
                /\ Goto(t, "fetch")
                /\ UNCHANGED rebuild
             \/ /\ members[w] = {} /\ rebuild[w] # "free"
                /\ Goto(t, "unreg_worker")
                /\ UNCHANGED rebuild
             \/ /\ members[w] = {} /\ rebuild[w] = "free"
                /\ rebuild' = [rebuild EXCEPT ![w] = t]
                /\ Goto(t, "hscan")
    /\ UNCHANGED <<registryVars, workerVars, leader, isLeader, dead, acct, processed,
                   view, target, old, request, faults>>

(* Variant with a bug: the scan of the hash does not filter by worker. *)
BoundAnywhere(w) == {a \in Account : assign[a] # NoWorker}

(* hscanFilter over both hashes *)
Bound(w) == {a \in Account : assign[a] = w \/ Legacy[a] = w}

HScan(t) ==
    /\ pc[t] = "hscan"
    /\ todo' = [todo EXCEPT ![t] = Bound(cur[t])]
    /\ Goto(t, "rebuild")
    /\ UNCHANGED <<registryVars, workerVars, lockVars, dead, cur, acct, processed,
                   view, target, old, request, faults>>

(* The rebuild lock is deleted if it still holds this tick's token. *)
ReleaseRebuild(t) ==
    rebuild' = [w \in Worker |-> IF rebuild[w] = t THEN "free" ELSE rebuild[w]]

(* What the scan found is written back to hash and index, as it was read. *)
Rebuild(t) ==
    /\ pc[t] = "rebuild"
    /\ assign' = [a \in Account |-> IF a \in todo[t] THEN cur[t] ELSE assign[a]]
    /\ members' = [members EXCEPT ![cur[t]] = @ \cup todo[t]]
    /\ ReleaseRebuild(t)
    /\ Goto(t, IF todo[t] = {} THEN "unreg_worker" ELSE "fetch")
    /\ UNCHANGED <<load, workerVars, leader, isLeader, dead, cur, todo, acct,
                   processed, view, target, old, request, faults>>

(* 120 s have passed. *)
RebuildExpires(w) ==
    /\ rebuild[w] # "free"
    /\ Overlap \/ rebuild[w] = "orphan"
    /\ rebuild' = [rebuild EXCEPT ![w] = "free"]
    /\ UNCHANGED <<registryVars, workerVars, leader, isLeader, tickVars, request, faults>>

Live(w) == {v \in registered \ {w} : hb[v] = "fresh"}

(* fetchLiveWorkers: most free capacity first, ties in the hash's order. *)
Snapshots(w) ==
    LET Free(s) == Capacity[s.worker] - s.load
        n == Cardinality(Live(w))
    IN  {s \in [1..n -> [worker : Live(w), load : {load[v] : v \in Live(w)}]] :
            /\ \A i \in 1..n : s[i].load = load[s[i].worker]
            /\ \A i, j \in 1..n : i < j => /\ s[i].worker # s[j].worker
                                          /\ Free(s[i]) >= Free(s[j])}

Fetch(t) ==
    /\ pc[t] = "fetch"
    /\ \E s \in Snapshots(cur[t]) : view' = [view EXCEPT ![t] = s]
    /\ Goto(t, IF view'[t] = <<>> THEN "strand" ELSE "next")
    /\ UNCHANGED <<registryVars, workerVars, lockVars, dead, cur, todo, acct,
                   processed, target, old, request, faults>>

(* No live worker at all: unassign the accounts, one after the other. *)
Strand(t) ==
    /\ pc[t] = "strand"
    /\ \E a \in todo[t] :
          /\ AtomicUnassign(a, cur[t], TRUE)
          /\ todo' = [todo EXCEPT ![t] = @ \ {a}]
    /\ Goto(t, IF todo'[t] = {} THEN "unreg_worker" ELSE "strand")
    /\ UNCHANGED <<workerVars, lockVars, dead, cur, acct, processed, view, target,
                   old, request, faults>>

(* The snapshot is read again before every ReloadEvery-th account but the  *)
(* first.  In an empty one no target is found, as in one without capacity. *)
ReloadDue(n) == n % ReloadEvery = 1 /\ n > 1

NextAccount(t) ==
    /\ pc[t] = "next"
    /\ \/ \E a \in todo[t] :
             /\ acct' = [acct EXCEPT ![t] = a]
             /\ todo' = [todo EXCEPT ![t] = @ \ {a}]
             /\ processed' = [processed EXCEPT ![t] = @ + 1]
             /\ Goto(t, IF ReloadDue(processed'[t]) THEN "reload" ELSE "place")
       \/ /\ todo[t] = {}
          /\ Goto(t, "unreg_worker")
          /\ UNCHANGED <<acct, todo, processed>>
    /\ UNCHANGED <<registryVars, workerVars, lockVars, dead, cur, view, target, old,
                   request, faults>>

Reload(t) ==
    /\ pc[t] = "reload"
    /\ \E s \in Snapshots(cur[t]) : view' = [view EXCEPT ![t] = s]
    /\ Goto(t, "place")
    /\ UNCHANGED <<registryVars, workerVars, lockVars, dead, cur, todo, acct,
                   processed, target, old, request, faults>>

(* pickWorkerWithCapacity: the first of the snapshot that is not full *)
Roomy(s) == {i \in DOMAIN s : s[i].load < Capacity[s[i].worker]}
First(s) == CHOOSE i \in Roomy(s) : \A j \in Roomy(s) : i <= j

(* Failover's own count of what it has placed, until the next reload. *)
Placed(s) == [s EXCEPT ![First(s)].load = @ + 1]

(* What lookup returns. *)
Owner(a) == IF assign[a] # NoWorker THEN assign[a] ELSE Legacy[a]

(* Pick a target; reassign then looks the owner up. *)
Place(t) ==
    LET s == view[t]
        a == acct[t]
        w == s[First(s)].worker
        owner == Owner(a)
    IN  /\ pc[t] = "place"
        /\ \/ /\ Roomy(s) = {}
              /\ Goto(t, "unbind")
              /\ UNCHANGED <<registryVars, view, acct, target, old>>
           \/ /\ Roomy(s) # {}
              /\ IF assign[a] = owner
                 THEN UNCHANGED registryVars
                 ELSE BackfillAssignment(a, owner)
              /\ \/ /\ owner = w
                    /\ view' = [view EXCEPT ![t] = Placed(s)]
                    /\ Done(t)
                 \/ /\ owner # w
                    /\ target' = [target EXCEPT ![t] = w]
                    /\ old' = [old EXCEPT ![t] = owner]
                    /\ Goto(t, "move")
                    /\ UNCHANGED <<view, acct>>
        /\ UNCHANGED <<workerVars, lockVars, dead, cur, todo, processed, request, faults>>

Move(t) ==
    /\ pc[t] = "move"
    /\ AtomicReassign(acct[t], target[t], old[t])
    /\ view' = IF ReassignCode(acct[t], target[t], old[t]) = -1
               THEN view
               ELSE [view EXCEPT ![t] = Placed(@)]
    /\ Done(t)
    /\ UNCHANGED <<workerVars, lockVars, dead, cur, todo, processed, request, faults>>

(* reassign throws, at its lookup or at the script, executed or not:       *)
(* migrateWorker unassigns instead.                                        *)
ReassignThrows(t) ==
    /\ Fault
    /\ \/ pc[t] = "move" /\ AtomicReassign(acct[t], target[t], old[t])
       \/ pc[t] = "move" /\ UNCHANGED registryVars
       \/ pc[t] = "place" /\ Roomy(view[t]) # {} /\ UNCHANGED registryVars
    /\ target' = [target EXCEPT ![t] = NoWorker]
    /\ old' = [old EXCEPT ![t] = NoWorker]
    /\ Goto(t, "unbind")
    /\ UNCHANGED <<workerVars, lockVars, dead, cur, todo, acct, processed, view, request>>

(* Variant with a bug: whoever owns the account now loses it. *)
UnbindAnyOwner(t) ==
    /\ pc[t] = "unbind"
    /\ AtomicUnassign(acct[t], assign[acct[t]], TRUE)
    /\ Done(t)
    /\ UNCHANGED <<workerVars, lockVars, dead, cur, todo, processed, view, request, faults>>

(* unassignIfStillOwned: only if the dead worker is still the owner *)
Unbind(t) ==
    /\ pc[t] = "unbind"
    /\ AtomicUnassign(acct[t], cur[t], TRUE)
    /\ Done(t)
    /\ UNCHANGED <<workerVars, lockVars, dead, cur, todo, processed, view, request, faults>>

-----------------------------------------------------------------------------
(* unregisterWorker: four commands. *)

UnregisterWorker(t) ==
    /\ pc[t] = "unreg_worker"
    /\ registered' = registered \ {cur[t]}
    /\ Goto(t, "unreg_hb")
    /\ UNCHANGED <<registryVars, hb, up, lockVars, dead, cur, todo, acct, processed,
                   view, target, old, request, faults>>

UnregisterHb(t) ==
    /\ pc[t] = "unreg_hb"
    /\ hb' = [hb EXCEPT ![cur[t]] = "none"]
    /\ Goto(t, "unreg_load")
    /\ UNCHANGED <<registryVars, registered, up, lockVars, dead, cur, todo, acct,
                   processed, view, target, old, request, faults>>

UnregisterLoad(t) ==
    /\ pc[t] = "unreg_load"
    /\ load' = [load EXCEPT ![cur[t]] = 0]
    /\ Goto(t, "unreg_index")
    /\ UNCHANGED <<assign, members, workerVars, lockVars, dead, cur, todo, acct,
                   processed, view, target, old, request, faults>>

(* The last of them, and on to the next dead worker or the end of the tick *)
UnregisterIndex(t) ==
    /\ pc[t] = "unreg_index"
    /\ members' = [members EXCEPT ![cur[t]] = {}]
    /\ dead' = [dead EXCEPT ![t] = @ \ {cur[t]}]
    /\ Goto(t, IF dead'[t] = {} THEN "idle" ELSE "list")
    /\ cur' = [cur EXCEPT ![t] = NoWorker]
    /\ processed' = [processed EXCEPT ![t] = 0]
    /\ view' = [view EXCEPT ![t] = <<>>]
    /\ UNCHANGED <<assign, load, workerVars, lockVars, todo, acct, target, old,
                   request, faults>>

(* The ticks in T end where they are: their locals are gone. *)
Abort(T) ==
    LET Reset(f, v) == [t \in Tick |-> IF t \in T THEN v ELSE f[t]]
    IN  /\ pc' = Reset(pc, "idle")
        /\ dead' = Reset(dead, {})
        /\ cur' = Reset(cur, NoWorker)
        /\ todo' = Reset(todo, {})
        /\ acct' = Reset(acct, NoAccount)
        /\ processed' = Reset(processed, 0)
        /\ view' = Reset(view, <<>>)
        /\ target' = Reset(target, NoWorker)
        /\ old' = Reset(old, NoWorker)

(* A command outside migrateWorker's try throws: the tick is logged and over. *)
TickThrows(t) ==
    /\ pc[t] # "idle"
    /\ Fault
    /\ Abort({t})
    /\ ReleaseRebuild(t)
    /\ UNCHANGED <<registryVars, workerVars, leader, isLeader, request>>

(* A master dies and is restarted under the same nodeId; what it had       *)
(* locked stays locked until it expires.                                   *)
MasterCrash(m) ==
    /\ Fault
    /\ rebuild' = [w \in Worker |->
                      IF \E t \in Tick : MasterOf[t] = m /\ rebuild[w] = t
                      THEN "orphan" ELSE rebuild[w]]
    /\ Abort({t \in Tick : MasterOf[t] = m})
    /\ isLeader' = [isLeader EXCEPT ![m] = FALSE]
    /\ UNCHANGED <<registryVars, workerVars, leader, request>>

-----------------------------------------------------------------------------
(* The workers.  Running or not, one whose last heartbeat is 60 s old is   *)
(* dead to the master; one that runs may beat again at any time.           *)

Heartbeat(w) ==
    /\ w \in up
    /\ hb' = [hb EXCEPT ![w] = "fresh"]
    /\ \E n \in Reports, force \in BOOLEAN : AtomicSyncLoad(w, n, force)
    /\ UNCHANGED <<registered, up, lockVars, tickVars, request, faults>>

Silent(w) ==
    /\ hb[w] = "fresh"
    /\ hb' = [hb EXCEPT ![w] = "stale"]
    /\ UNCHANGED <<registryVars, registered, up, lockVars, tickVars, request, faults>>

Crash(w) ==
    /\ w \in up
    /\ Fault
    /\ up' = up \ {w}
    /\ UNCHANGED <<registryVars, registered, hb, lockVars, tickVars, request>>

(* registerWorker: the load is kept if the counter is still there. *)
Start(w) ==
    /\ w \notin up
    /\ up' = up \cup {w}
    /\ registered' = registered \cup {w}
    /\ hb' = [hb EXCEPT ![w] = "fresh"]
    /\ UNCHANGED <<registryVars, lockVars, tickVars, request, faults>>

(* SIGTERM: unregisterWorker and exit; the heartbeat timer is not stopped  *)
(* and may fire once more in between.                                      *)
ShutDown(w) ==
    /\ w \in up
    /\ Fault
    /\ up' = up \ {w}
    /\ registered' = registered \ {w}
    /\ \/ /\ hb' = [hb EXCEPT ![w] = "none"]
          /\ load' = [load EXCEPT ![w] = 0]
       \/ /\ hb' = [hb EXCEPT ![w] = "fresh"]
          /\ \E n \in Reports : load' = [load EXCEPT ![w] = n]
    /\ members' = [members EXCEPT ![w] = {}]
    /\ UNCHANGED <<assign, lockVars, tickVars, request>>

-----------------------------------------------------------------------------
(* The API: an assign call is between listWorkers and its script, or not.  *)

ApiPick(a) ==
    /\ request[a] = NoWorker
    /\ Owner(a) = NoWorker
    /\ \E w \in registered :
          /\ hb[w] = "fresh"
          /\ load[w] < Capacity[w]
          /\ request' = [request EXCEPT ![a] = w]
    /\ UNCHANGED <<registryVars, workerVars, lockVars, tickVars, faults>>

ApiAssign(a) ==
    /\ request[a] # NoWorker
    /\ AtomicAssign(a, request[a])
    /\ request' = [request EXCEPT ![a] = NoWorker]
    /\ UNCHANGED <<workerVars, lockVars, tickVars, faults>>

(* An unassign of the current owner, by an operator or a logout. *)
ApiUnassign(a) ==
    /\ a \in Unassignable
    /\ Fault
    /\ assign[a] # NoWorker
    /\ AtomicUnassign(a, assign[a], TRUE)
    /\ UNCHANGED <<workerVars, lockVars, tickVars, request>>

-----------------------------------------------------------------------------
TickStep(t) ==
    \/ Renew(t) \/ Scan(t) \/ List(t) \/ HScan(t) \/ Rebuild(t) \/ Fetch(t)
    \/ Strand(t) \/ NextAccount(t) \/ Reload(t) \/ Place(t) \/ Move(t) \/ Unbind(t)
    \/ UnregisterWorker(t) \/ UnregisterHb(t) \/ UnregisterLoad(t) \/ UnregisterIndex(t)

Next ==
    \/ \E t \in Tick : Acquire(t) \/ TickStep(t) \/ ReassignThrows(t) \/ TickThrows(t)
    \/ \E m \in Master : Stop(m) \/ MasterCrash(m)
    \/ LeaderExpires
    \/ \E w \in Worker : RebuildExpires(w)
    \/ \E w \in Worker : Heartbeat(w) \/ Silent(w) \/ Crash(w) \/ Start(w) \/ ShutDown(w)
    \/ \E a \in Account : ApiPick(a) \/ ApiAssign(a) \/ ApiUnassign(a)

Spec == Init /\ [][Next]_vars

(* The timer of every master keeps firing, commands are answered, locks    *)
(* run out and the heartbeat of a process that is gone grows old.          *)
Fairness ==
    /\ \A t \in Tick : WF_vars(Acquire(t)) /\ WF_vars(TickStep(t))
    /\ WF_vars(LeaderExpires)
    /\ \A w \in Worker : WF_vars(RebuildExpires(w)) /\ WF_vars(w \notin up /\ Silent(w))

FairSpec == Spec /\ Fairness

-----------------------------------------------------------------------------
Acting(t) == pc'[t] # pc[t] \/ todo'[t] # todo[t]
Migrating(t) == pc[t] \notin {"idle", "renew"}

(* At most one tick of the cluster is past the leader lock: a master that  *)
(* was leader once, crashed or was overtaken does not act on its old flag. *)
OneMigrator == \A t, u \in Tick : Migrating(t) /\ Migrating(u) => t = u

(* An account goes from one worker to another only in the migration of the *)
(* worker it leaves: failover never takes an account from anyone else.     *)
TakesOnlyFromDead ==
    [][\A a \in Account :
         assign[a] # NoWorker /\ assign'[a] \notin {NoWorker, assign[a]}
           => \E t \in Tick : Acting(t) /\ cur[t] = assign[a]]_vars

(* However ticks overlap and whatever they read before, a tick unbinds an  *)
(* account only from the worker it is migrating.                           *)
UnbindsOnlyFromDead ==
    [][\A a \in Account, t \in Tick :
         Acting(t) /\ assign[a] # NoWorker /\ assign'[a] = NoWorker
           => cur[t] = assign[a]]_vars

(* In the index of w without being bound to w: w would adopt it as well. *)
Ghosts(w) == {a \in members[w] : assign[a] # w}
NoGhosts == \A w \in Worker : Ghosts(w) = {}

Covered(w) == load[w] >= Cardinality(Owned(w))

(* The slot counter of a worker falls below the number of its accounts     *)
(* only when the worker itself reports or goes, is unregistered, or when a *)
(* rebuild of its index restores a binding undone since it was read.       *)
SlotsStayCovered ==
    [][\A w \in Worker :
         Covered(w) /\ ~Covered(w)'
           => \/ hb'[w] # hb[w] \/ up' # up
              \/ assign' = assign /\ \E t \in Tick : Acting(t) /\ cur[t] = w
              \/ assign' = assign /\ tickVars' = tickVars
              \/ \E t \in Tick : pc[t] = "rebuild" /\ Acting(t) /\ cur[t] = w]_vars

(* w is dead, the master will find out, and neither an assign call nor a   *)
(* migration of w is under way.                                            *)
Settled(w) ==
    /\ w \notin up /\ hb[w] = "stale"
    /\ \A b \in Account : request[b] # w
    /\ \A t \in Tick : cur[t] # w

(* Whatever fails or crashes on the way, an account in the index of a      *)
(* worker that stays dead is off that worker sooner or later.              *)
DeadWorkerDrains ==
    \A a \in Account, w \in Worker :
        assign[a] = w /\ a \in members[w] /\ Settled(w)
            ~> assign[a] # w \/ w \in up

(* So is every account bound to it, in the index or not.                   *)
DeadWorkerDrainsUnindexed ==
    \A a \in Account, w \in Worker :
        assign[a] = w /\ Settled(w) ~> assign[a] # w \/ w \in up
=============================================================================
