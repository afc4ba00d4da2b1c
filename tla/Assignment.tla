----------------------------- MODULE Assignment -----------------------------
(***************************************************************************)
(* Registry.assign and Registry.unassign as concurrent callers run them:   *)
(* HTTP handlers of any process of the cluster, each suspended at every    *)
(* await.  Between two awaits another caller, a heartbeat or the expiry of *)
(* a lock may run.                                                         *)
(*                                                                         *)
(*   assign    lookup -> lock -> (list -> eval)* -> unlock                 *)
(*                    \-> [contended] wait, recheck                        *)
(*   unassign  lookup -> delete | clean                                    *)
(*                                                                         *)
(* listWorkers sends its three HGETALLs together on one connection: they   *)
(* are one read here.  The attempt counter is the number of targets that   *)
(* rejected the caller, which are all different.                           *)
(***************************************************************************)
EXTENDS Registry

CONSTANTS
    Caller,     \* concurrent calls
    Unlocked,   \* the assign lock of an account is free
    Orphan,     \* ... or held by the token of a process that died
    RegionOf,   \* WorkerInfo.region
    Preferred,  \* what callers pass for preferredRegion: the region of their
                \* own process or the country of a proxy, served or not
    RetryMax,   \* retryMax of assign (5 in the code)
    Reports     \* the activeSize values a worker may report

ASSUME CallerAssumption == Unlocked \notin Caller /\ Orphan \notin Caller /\ Unlocked # Orphan
ASSUME AnyCallAssumption == Account # {} /\ Preferred # {}
ASSUME RetryAssumption == RetryMax \in Nat \ {0}
ASSUME ReportsAssumption == Reports \subseteq Nat

VARIABLES
    live,       \* workers listWorkers returns: registered, heartbeat < 60 s old
    lock,       \* registry:lock:assign:<accountId>
    pc,         \* the await each call is suspended at
    call,       \* its arguments
    target,     \* the worker it is about to try, or unbind from
    tried,      \* triedFull
    reply       \* what the call returns or throws

callVars == <<pc, call, target, tried, reply>>
vars == <<registryVars, live, lock, callVars>>

Step == {"idle", "lookup", "backfill", "lock", "recheck", "list", "eval",
         "unlock", "delete", "clean"}
Refusal == {"contended", "no_workers", "all_full", "exhausted", "nothing"}
Call == [op : {"assign", "unassign"}, account : Account,
         region : Preferred, release : BOOLEAN]
Answer(k, w) == [kind |-> k, worker |-> w]
NoAnswer == Answer("none", NoWorker)

TypeOK ==
    /\ RegistryTypeOK
    /\ live \subseteq Worker
    /\ lock \in [Account -> Caller \cup {Unlocked, Orphan}]
    /\ pc \in [Caller -> Step]
    /\ call \in [Caller -> Call]
    /\ target \in [Caller -> Binding]
    /\ tried \in [Caller -> SUBSET Worker]
    /\ reply \in [Caller -> [kind : Refusal \cup {"none", "new", "existing", "unbound"},
                             worker : Binding]]

NoCall == [op |-> "assign", account |-> CHOOSE a \in Account : TRUE,
           region |-> CHOOSE r \in Preferred : TRUE, release |-> TRUE]

Init ==
    /\ RegistryInit
    /\ live = Worker
    /\ lock = [a \in Account |-> Unlocked]
    /\ pc = [c \in Caller |-> "idle"]
    /\ call = [c \in Caller |-> NoCall]
    /\ target = [c \in Caller |-> NoWorker]
    /\ tried = [c \in Caller |-> {}]
    /\ reply = [c \in Caller |-> NoAnswer]

Goto(c, step) == pc' = [pc EXCEPT ![c] = step]
Locals == <<call, target, tried>>

(* The function returns or throws and its locals are gone. *)
Return(c) ==
    /\ Goto(c, "idle")
    /\ call' = [call EXCEPT ![c] = NoCall]
    /\ target' = [target EXCEPT ![c] = NoWorker]
    /\ tried' = [tried EXCEPT ![c] = {}]

Reply(c, k, w) == reply' = [reply EXCEPT ![c] = Answer(k, w)]
Acct(c) == call[c].account

-----------------------------------------------------------------------------
Begin(c, req) ==
    /\ pc[c] = "idle"
    /\ Goto(c, "lookup")
    /\ call' = [call EXCEPT ![c] = req]
    /\ reply' = [reply EXCEPT ![c] = NoAnswer]
    /\ UNCHANGED <<registryVars, live, lock, target, tried>>

BeginAssign(c) ==
    \E a \in Account, r \in Preferred :
        Begin(c, [op |-> "assign", account |-> a, region |-> r, release |-> TRUE])

BeginUnassign(c) ==
    \E a \in Account, b \in BOOLEAN :
        Begin(c, [op |-> "unassign", account |-> a, region |-> NoCall.region, release |-> b])

(* lookup has answered w: assign returns it, unassign goes on to the script *)
Found(c, w) ==
    \/ /\ call[c].op = "assign"
       /\ Return(c)
       /\ Reply(c, "existing", w)
    \/ /\ call[c].op = "unassign"
       /\ Goto(c, "delete")
       /\ target' = [target EXCEPT ![c] = w]
       /\ UNCHANGED <<call, tried, reply>>

(* lookup has answered null; the second lookup of assign gives up *)
NotFound(c) ==
    \/ /\ pc[c] = "lookup"
       /\ Goto(c, IF call[c].op = "assign" THEN "lock" ELSE "clean")
       /\ UNCHANGED <<Locals, reply>>
    \/ /\ pc[c] = "recheck"
       /\ Return(c)
       /\ Reply(c, "contended", NoWorker)

Lookup(c) ==
    /\ pc[c] \in {"lookup", "recheck"}
    /\ \/ /\ assign[Acct(c)] # NoWorker
          /\ Found(c, assign[Acct(c)])
       \/ /\ assign[Acct(c)] = NoWorker
          /\ Legacy[Acct(c)] # NoWorker
          /\ Goto(c, "backfill")
          /\ UNCHANGED <<Locals, reply>>
       \/ /\ assign[Acct(c)] = NoWorker
          /\ Legacy[Acct(c)] = NoWorker
          /\ NotFound(c)
    /\ UNCHANGED <<registryVars, live, lock>>

Backfill(c) ==
    /\ pc[c] = "backfill"
    /\ BackfillAssignment(Acct(c), Legacy[Acct(c)])
    /\ Found(c, Legacy[Acct(c)])
    /\ UNCHANGED <<live, lock>>

(* SET NX PX 5000.  A caller that finds the lock taken sleeps 50 ms first. *)
Lock(c) ==
    /\ pc[c] = "lock"
    /\ IF lock[Acct(c)] = Unlocked
       THEN lock' = [lock EXCEPT ![Acct(c)] = c] /\ Goto(c, "list")
       ELSE UNCHANGED lock /\ Goto(c, "recheck")
    /\ UNCHANGED <<registryVars, live, call, target, tried, reply>>

(* The workers of the preferred region, or all of them if it has none. *)
Pool(c) ==
    LET near == {w \in live : RegionOf[w] = call[c].region}
    IN  IF near = {} THEN live ELSE near

Available(c) == {w \in Pool(c) \ tried[c] : load[w] < Capacity[w]}

(* Lowest load / capacity; the sort leaves ties in the order of the hash. *)
Lightest(S) ==
    {w \in S : \A v \in S : load[w] * Capacity[v] <= load[v] * Capacity[w]}

List(c) ==
    /\ pc[c] = "list"
    /\ \/ /\ \E w \in Lightest(Available(c)) : target' = [target EXCEPT ![c] = w]
          /\ Goto(c, "eval")
          /\ UNCHANGED reply
       \/ /\ Available(c) = {}
          /\ Reply(c, IF live = {} THEN "no_workers" ELSE "all_full", NoWorker)
          /\ Goto(c, "unlock")
          /\ UNCHANGED target
    /\ UNCHANGED <<registryVars, live, lock, call, tried>>

(* Variant with a bug: rejected target and attempt are both forgotten.    *)
RejectedForgotten(c) ==
    /\ Goto(c, "list")
    /\ UNCHANGED <<tried, reply>>

(* FULL: leave this target out and list again, while attempts are left *)
Rejected(c) ==
    LET failed == tried[c] \cup {target[c]}
    IN  /\ tried' = [tried EXCEPT ![c] = failed]
        /\ \/ /\ Cardinality(failed) < RetryMax
              /\ Goto(c, "list")
              /\ UNCHANGED reply
           \/ /\ Cardinality(failed) >= RetryMax
              /\ Goto(c, "unlock")
              /\ Reply(c, "exhausted", NoWorker)

Eval(c) ==
    LET code == AssignCode(Acct(c), target[c])
    IN  /\ pc[c] = "eval"
        /\ AtomicAssign(Acct(c), target[c])
        /\ \/ /\ code = 1
              /\ Reply(c, "new", target[c])
              /\ Goto(c, "unlock")
              /\ UNCHANGED tried
           \/ /\ code = 0
              /\ Reply(c, "existing", assign[Acct(c)])
              /\ Goto(c, "unlock")
              /\ UNCHANGED tried
           \/ /\ code = -1
              /\ Rejected(c)
        /\ target' = [target EXCEPT ![c] = NoWorker]
        /\ UNCHANGED <<live, lock, call>>

(* Variant with a bug: the lock is deleted without comparing tokens. *)
UnlockAnyToken(c) ==
    /\ pc[c] = "unlock"
    /\ lock' = [lock EXCEPT ![Acct(c)] = Unlocked]
    /\ Return(c)
    /\ UNCHANGED <<registryVars, live, reply>>

(* finally: delete the lock if it still holds this call's token *)
Unlock(c) ==
    /\ pc[c] = "unlock"
    /\ lock' = IF lock[Acct(c)] = c THEN [lock EXCEPT ![Acct(c)] = Unlocked] ELSE lock
    /\ Return(c)
    /\ UNCHANGED <<registryVars, live, reply>>

Delete(c) ==
    /\ pc[c] = "delete"
    /\ AtomicUnassign(Acct(c), target[c], call[c].release)
    /\ IF UnassignCode(Acct(c), target[c]) = 1
       THEN Reply(c, "unbound", target[c])
       ELSE Reply(c, "nothing", NoWorker)
    /\ Return(c)
    /\ UNCHANGED <<live, lock>>

(* The lookup found no binding: HDEL the account all the same. *)
Clean(c) ==
    /\ pc[c] = "clean"
    /\ assign' = [assign EXCEPT ![Acct(c)] = NoWorker]
    /\ Reply(c, "nothing", NoWorker)
    /\ Return(c)
    /\ UNCHANGED <<load, members, live, lock>>

-----------------------------------------------------------------------------
(* The process running the call dies; its lock waits for the TTL. *)
Crash(c) ==
    /\ pc[c] # "idle"
    /\ lock' = [a \in Account |-> IF lock[a] = c THEN Orphan ELSE lock[a]]
    /\ Return(c)
    /\ UNCHANGED <<registryVars, live, reply>>

(* 5 s have passed: the lock goes, whatever its holder is doing. *)
LockExpires(a) ==
    /\ lock[a] # Unlocked
    /\ lock' = [lock EXCEPT ![a] = Unlocked]
    /\ UNCHANGED <<registryVars, live, callVars>>

(* A worker reports its activeSize.  That is neither the number of         *)
(* accounts assigned to it nor bounded by it: an assigned account may not  *)
(* be active yet, or no longer, and an unassigned one may still be.        *)
Heartbeat(w, force) ==
    /\ \E n \in Reports : AtomicSyncLoad(w, n, force)
    /\ live' = live \cup {w}
    /\ UNCHANGED <<lock, callVars>>

WorkerSilent(w) ==
    /\ w \in live
    /\ live' = live \ {w}
    /\ UNCHANGED <<registryVars, lock, callVars>>

CallStep(c) ==
    \/ Lookup(c) \/ Backfill(c) \/ Lock(c) \/ List(c) \/ Eval(c)
    \/ Unlock(c) \/ Delete(c) \/ Clean(c)

(* Everything but the forced load synchronisation. *)
GentleNext ==
    \/ \E c \in Caller : BeginAssign(c) \/ BeginUnassign(c) \/ CallStep(c) \/ Crash(c)
    \/ \E a \in Account : LockExpires(a)
    \/ \E w \in Worker : Heartbeat(w, FALSE) \/ WorkerSilent(w)

Next == GentleNext \/ \E w \in Worker : Heartbeat(w, TRUE)

Spec == Init /\ [][Next]_vars
GentleSpec == Init /\ [][GentleNext]_vars

(* Node runs every promise that settles, and Redis answers or throws.      *)
GentleFairSpec == GentleSpec /\ \A c \in Caller : WF_vars(CallStep(c))

-----------------------------------------------------------------------------
(* Every bound account is in the reverse index of its owner: the index is  *)
(* all that failover and the reconciler of the owner look at, so an        *)
(* account missing from it is neither adopted nor migrated.                *)
IndexComplete == \A a \in Account : assign[a] # NoWorker => a \in members[assign[a]]

(* In the index of w without being bound to w: w will adopt it all the same *)
Ghosts(w) == {a \in members[w] : assign[a] # w}

(* A call that binds an account, or that reports having unbound it, leaves *)
(* no ghost behind: the scripts change hash and index together, and a call *)
(* whose lookup has gone stale changes neither.                            *)
AnsweredCallsLeaveNoGhost ==
    [][\A c \in Caller :
         reply'[c] # reply[c] /\ reply'[c].kind \in {"new", "unbound"}
           => \A w \in Worker : Ghosts(w)' \subseteq Ghosts(w)]_vars

Covered(w) == load[w] >= Cardinality(Owned(w))
BackfillsTo(w) == \E a \in Account : assign[a] # w /\ Legacy[a] = w /\ assign'[a] = w

(* The slot counter of a worker falls below the number of accounts bound   *)
(* to it only when the worker forces its own figure on it or a legacy      *)
(* binding is restored: no interleaving of assign, unassign and plain      *)
(* heartbeats loses an increment or gives a slot back twice.               *)
SlotsStayCovered ==
    [][\A w \in Worker :
         Covered(w) /\ ~Covered(w)' => assign' = assign \/ BackfillsTo(w)]_vars

(* However many calls race for the last slot, a worker is bound more       *)
(* accounts than its capacity only once its counter has been set below the *)
(* number of accounts it already had, or a legacy binding is restored.     *)
OverbindsOnlyUncounted ==
    [][\A w \in Worker :
         /\ Cardinality(Owned(w)) <= Capacity[w]
         /\ Cardinality(Owned(w)') > Capacity[w]
         => ~Covered(w) \/ BackfillsTo(w)]_vars

(* A lock that some call holds is released by that call or by its expiry,  *)
(* never by another call whose own lock had expired under it.              *)
HolderReleases ==
    [][\A a \in Account, c \in Caller :
         lock[a] = c /\ lock'[a] # c /\ pc' # pc => pc'[c] # pc[c]]_vars

(* The calls implement the service their callers count on.                 *)
Service == INSTANCE BindingService WITH binding <- assign
ImplementsService == Service!Spec

(* Every call returns or throws, whatever the others do.                   *)
CallsReturn == \A c \in Caller : pc[c] # "idle" ~> pc[c] = "idle"

(* Per-worker bounds that hold as long as nobody forces a load.            *)
LoadCoversOwned == \A w \in Worker : Covered(w)
CapacityRespected == \A w \in Worker : Cardinality(Owned(w)) <= Capacity[w]
=============================================================================
