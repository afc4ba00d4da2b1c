------------------------------ MODULE Hosting ------------------------------
(***************************************************************************)
(* Which worker hosts an account, followed for one account over all the    *)
(* workers: the binding in the registry, the reconciler that adopts what   *)
(* is bound to its worker (worker/assignment-reconciler.ts), the accounts  *)
(* map and the socket of each worker (worker/account-manager.ts), the      *)
(* runtime record they share (store/account-runtime-store.ts) and the      *)
(* credentials every opening reads and writes back (CredsStore,            *)
(* store/auth-state.ts).                                                   *)
(*                                                                         *)
(* A process is the reconciler tick of a worker, or one other call that    *)
(* is in progress: an API request, a reconnect, the end of a socket.       *)
(* Between two of its steps it waits for a command.                        *)
(*                                                                         *)
(*   tick       listed -> read -> clear -> open..                          *)
(*   online     online -> read -> clear -> open..                          *)
(*   reconnect  open..                                                     *)
(*   read       (redis -> (mysql ->)?)?         CredsStore.load            *)
(*   open..     read -> save -> open            openSocket                 *)
(*   offline    offline -> mark -> drop                                    *)
(*   logout     logout -> leave -> mark -> wipe -> forget -> unbind        *)
(*   close      leave -> mark -> drop           WhatsApp ends the session  *)
(*   import     clearImport -> saveImport -> (online ..)?                  *)
(*                                                                         *)
(* What two openings do to the sockets of one worker is the subject of     *)
(* Session; here a worker has a socket or has none.  The list of the       *)
(* assignments, the loads and the failover tick are those of Assignment    *)
(* and Failover, of which this module keeps what they do to one binding.   *)
(***************************************************************************)
EXTENDS CredsStore, FiniteSets

CONSTANTS
    NoWorker,
    Job,           \* calls in progress besides the ticks, a bound
    Calls,         \* what a job may be
    MaxFailures,   \* store commands and openings that fail, a bound
    Moves          \* "mistaken": a failover from a worker that runs;
                   \* "admin": POST /v1/admin/unassign

ASSUME HostingAssumption ==
    /\ NoWorker \notin Worker
    /\ Job \cap (Worker \cup {NoWorker}) = {}
    /\ Calls \subseteq {"online", "import", "reconnect", "offline", "logout", "close"}
    /\ MaxFailures \in Nat
    /\ Moves \subseteq {"mistaken", "admin"}

VARIABLES
    assign,      \* registry:assign of the account
    released,    \* slotReleased in the runtime record
    up,          \* the workers that run
    inMap,       \* the workers that have the account in their accounts map
    held,        \* the credentials of the socket of each worker, None if it
                 \* has no socket
    proc,        \* where each process is
    newest,      \* the last change made to the credentials
    live,        \* has the account credentials? (not after a logout)
    failures,
    raced,       \* workers where two calls for the account have overlapped
    drifted,     \* workers that lost the account while they dealt with it
    behind,      \* workers that a change to the credentials has passed by
    spoilt       \* one of them has written, a write has failed, or MySQL may
                 \* bring back what a logout has removed

bindingVars == <<assign, released>>
workerVars == <<up, inMap, held>>
credVars == <<newest, live>>
historyVars == <<raced, drifted, behind, spoilt>>
vars == <<tiers, bindingVars, workerVars, proc, credVars, failures, historyVars>>

Proc == Worker \cup Job
Pc == {"idle", "listed", "redis", "mysql", "online", "clear", "save", "open",
       "offline", "logout", "leave", "mark", "drop", "wipe", "forget", "unbind",
       "clearImport", "saveImport"}
Use == {"skip", "adopt", "online", "reopen"}   \* what a read is for

HasSocket(w) == held[w] # None

Rest(p) == [at |-> IF p \in Worker THEN p ELSE NoWorker, pc |-> "idle",
            next |-> "idle", got |-> None]

TypeOK ==
    /\ TiersTypeOK
    /\ assign \in Worker \cup {NoWorker}
    /\ released \in BOOLEAN
    /\ up \subseteq Worker
    /\ inMap \subseteq up
    /\ held \in [Worker -> Copy]
    /\ proc \in [Proc -> [at : Worker \cup {NoWorker}, pc : Pc, next : Pc \cup Use, got : Copy]]
    /\ \A p \in Proc : proc[p].pc = "idle" => proc[p] = Rest(p)
    /\ \A p \in Proc : proc[p].pc # "idle" => proc[p].at \in up
    /\ \A w \in Worker \ up : held[w] = None /\ l1[w] = None
    /\ newest \in Version
    /\ live \in BOOLEAN
    /\ failures \in 0..MaxFailures
    /\ raced \subseteq Worker /\ drifted \subseteq Worker /\ behind \subseteq Worker
    /\ spoilt \in BOOLEAN

Init ==
    /\ TiersInit
    /\ assign = NoWorker
    /\ released = FALSE
    /\ up = Worker
    /\ inMap = {}
    /\ held = [w \in Worker |-> None]
    /\ proc = [p \in Proc |-> Rest(p)]
    /\ newest = 1
    /\ live = TRUE
    /\ failures = 0
    /\ raced = {} /\ drifted = {} /\ behind = {}
    /\ spoilt = FALSE

-----------------------------------------------------------------------------
(* Processes.                                                              *)

At(p, w, pc) == proc[p].at = w /\ proc[p].pc = pc
Active(w) == {p \in Proc : proc[p].at = w /\ proc[p].pc # "idle"}
Busy(w) == {p \in Active(w) : proc[p].pc \notin {"listed", "offline", "logout"}}

Move(p, w, pc, next, v) ==
    proc' = [proc EXCEPT ![p] = IF pc = "idle" THEN Rest(p)
                                ELSE [at |-> w, pc |-> pc, next |-> next, got |-> v]]
Carry(p, pc, v) == Move(p, proc[p].at, pc, proc[p].next, v)
Go(p, pc) == Move(p, proc[p].at, pc, "idle", proc[p].got)
Begin(j, w, pc, next) == proc[j].pc = "idle" /\ w \in up /\ Move(j, w, pc, next, None)

Fail == failures < MaxFailures /\ failures' = failures + 1

(* The history: what others than p have read and not used yet, or work     *)
(* with, is overtaken when the credentials change on w; and so is what an  *)
(* owner remembers, if that is not w.                                      *)
HasRead(q) == proc[q].got # None \/ proc[q].pc \in {"redis", "mysql", "save"}
Carriers(p) == {proc[q].at : q \in {x \in Proc \ {p} : HasRead(x)}}
PassBy(p, w) ==
    behind' = behind \cup Carriers(p)
                     \cup {x \in Worker : HasSocket(x) /\ (x = w => p # NoWorker)}
                     \cup IF assign = w THEN {} ELSE {w, assign} \cap up

(* The history: w has written credentials that are not new.                *)
Wrote(w) == spoilt' = (spoilt \/ w \in behind)

(* The history: p starts to deal with the account on w.                    *)
Overlap(p, w) == raced' = IF Busy(w) \ {p} = {} THEN raced ELSE raced \cup {w}

(* The history: the binding becomes w, by process p or from outside.       *)
Dealing(p, x) == x \in inMap \/ HasSocket(x) \/ Active(x) \ {p} # {}
Rebind(p, w) ==
    LET old == {assign} \cap (up \ {w}) IN
    /\ assign' = w
    /\ drifted' = drifted \cup {x \in old : Dealing(p, x)}
    /\ behind' = behind \cup {x \in old : Dealing(p, x) \/ l1[x] # None}

-----------------------------------------------------------------------------
(* CredsStore.load: memory answers at once; otherwise p waits for Redis.   *)

(* The read of p has given v.  AccountManager.online makes a context and   *)
(* keeps v for it; one that exists has to read again.                      *)
Deliver(p, w, use, v) ==
    LET new == use = "online" \/ (use = "adopt" /\ v # None /\ w \notin inMap)
        old == use = "adopt" /\ v # None /\ w \in inMap
    IN  /\ inMap' = IF new THEN inMap \cup {w} ELSE inMap
        /\ IF use = "reopen" THEN Move(p, w, "save", "idle", v)
           ELSE IF new THEN Move(p, w, "clear", "idle", v)
           ELSE IF old THEN Move(p, w, "clear", "idle", None)
           ELSE Move(p, w, "idle", "idle", None)

ReadFails(p, w, use) ==
    /\ Fail
    /\ l1[w] = None
    /\ Move(p, w, "redis", use, None)
    /\ behind' = behind \cup {w}
    /\ UNCHANGED inMap

Read(p, w, use) ==
    \/ /\ IF l1[w] # None THEN Deliver(p, w, use, l1[w])
          ELSE Move(p, w, "redis", use, l2) /\ UNCHANGED inMap
       /\ UNCHANGED <<failures, behind>>
    \/ ReadFails(p, w, use)

(* Redis has answered.                                                     *)
Redis(p, w) ==
    /\ At(p, w, "redis")
    /\ LET v == proc[p].got IN
       IF v # None THEN FillFromRedis(w, v) /\ Deliver(p, w, proc[p].next, v)
       ELSE /\ UNCHANGED tiers
            /\ IF Durable THEN Carry(p, "mysql", l3) /\ UNCHANGED inMap
                          ELSE Deliver(p, w, proc[p].next, None)
    /\ UNCHANGED <<bindingVars, up, held, credVars, failures, historyVars>>

(* MySQL has answered.                                                     *)
MySql(p, w) ==
    /\ At(p, w, "mysql")
    /\ Deliver(p, w, proc[p].next, proc[p].got)
    /\ IF proc[p].got # None
       THEN FillFromMySql(w, proc[p].got) /\ Wrote(w)
       ELSE UNCHANGED <<tiers, spoilt>>
    /\ UNCHANGED <<bindingVars, up, held, credVars, failures, raced, drifted, behind>>

-----------------------------------------------------------------------------
(* The reconciler of w (tick).                                             *)

(* It lists the accounts bound to w and takes those not in its map.        *)
(* Variant with a bug: those bound to any worker.                          *)
ListAll(w) ==
    /\ w \in up
    /\ proc[w].pc = "idle"
    /\ assign # NoWorker
    /\ w \notin inMap
    /\ Go(w, "listed")
    /\ UNCHANGED <<tiers, bindingVars, workerVars, credVars, failures, historyVars>>

List(w) ==
    /\ w \in up
    /\ proc[w].pc = "idle"
    /\ assign = w
    /\ w \notin inMap
    /\ Go(w, "listed")
    /\ UNCHANGED <<tiers, bindingVars, workerVars, credVars, failures, historyVars>>

(* Its turn in the list has come: credentials and runtime record are read; *)
(* an account whose slot is released, or without credentials, is skipped.  *)
Look(w) ==
    /\ proc[w].pc = "listed"
    /\ Read(w, w, IF released THEN "skip" ELSE "adopt")
    /\ Overlap(w, w)
    /\ UNCHANGED <<tiers, bindingVars, up, held, credVars, drifted, spoilt>>

-----------------------------------------------------------------------------
(* Opening (the rest of online, openSocket, buildAuthState).               *)

(* openSocket drops the old socket and builds the proxy agents, which may  *)
(* throw and leaves the context in the map without a socket; then the      *)
(* credentials that online() has read are used, or the store is read.      *)
Reopen(p, w, got) ==
    /\ held' = [held EXCEPT ![w] = None]
    /\ \/ IF got # None
          THEN Move(p, w, "save", "idle", got) /\ UNCHANGED <<inMap, failures, behind>>
          ELSE Read(p, w, "reopen")
       \/ Fail /\ Move(p, w, "idle", "idle", None) /\ UNCHANGED <<inMap, behind>>

Clear(p, w) ==
    /\ At(p, w, "clear")
    /\ released' = FALSE
    /\ Reopen(p, w, proc[p].got)
    /\ UNCHANGED <<tiers, assign, up, credVars, raced, drifted, spoilt>>

(* buildAuthState writes back what was read, or the fresh identity; what   *)
(* the store holds by now, which it reads once more, is overridden.        *)
WriteBack(p, w) ==
    /\ At(p, w, "save")
    /\ LET v == IF proc[p].got = None THEN Fresh ELSE proc[p].got IN
       /\ Carry(p, "open", v)
       /\ \/ Save(w, v) /\ UNCHANGED failures
          \/ SaveFails(w, v) /\ Fail
    /\ Wrote(w)
    /\ UNCHANGED <<bindingVars, workerVars, credVars, raced, drifted, behind>>

Open(p, w) ==
    /\ At(p, w, "open")
    /\ held' = [held EXCEPT ![w] = proc[p].got]
    /\ Go(p, "idle")
    /\ UNCHANGED <<tiers, bindingVars, up, inMap, credVars, failures, historyVars>>

-----------------------------------------------------------------------------
(* A session.                                                              *)

(* creds.update: a session that holds the newest credentials makes the     *)
(* next version of them; one that does not writes back the older ones.     *)
Update(w) ==
    /\ HasSocket(w)
    /\ IF live /\ held[w] = newest
       THEN /\ newest < MaxVersion
            /\ newest' = newest + 1
            /\ held' = [held EXCEPT ![w] = newest']
            /\ PassBy(NoWorker, w)
       ELSE UNCHANGED <<newest, held, behind>>
    /\ \/ Save(w, held'[w]) /\ Wrote(w) /\ UNCHANGED failures
       \/ SaveFails(w, held'[w]) /\ Fail /\ spoilt' = TRUE
    /\ UNCHANGED <<bindingVars, up, inMap, proc, live, raced, drifted>>

(* A reconnect: by its timer, by a stale session or by the API.            *)
Reconnect(j, w) ==
    /\ w \in up
    /\ w \in inMap
    /\ proc[j].pc = "idle"
    /\ Reopen(j, w, None)
    /\ Overlap(j, w)
    /\ UNCHANGED <<tiers, bindingVars, up, credVars, drifted, spoilt>>

-----------------------------------------------------------------------------
(* API requests.                                                           *)

(* requireLocalOwner: nothing is refused while nobody is bound.            *)
Guarded(w) == assign \in {w, NoWorker}

(* Registry.assign keeps a binding there is; only the owner goes on.       *)
ToOnline(j, w) ==
    /\ \E o \in IF assign = NoWorker THEN up ELSE {assign} :
        /\ Rebind(j, o)
        /\ IF o = w THEN Begin(j, w, "online", "idle") /\ Overlap(j, w)
                    ELSE UNCHANGED <<proc, raced>>

PostOnline(j, w) ==
    /\ w \in up
    /\ proc[j].pc = "idle"
    /\ Guarded(w)
    /\ ToOnline(j, w)
    /\ UNCHANGED <<tiers, released, workerVars, credVars, failures, spoilt>>

(* The gates have let the request through.                                 *)
Online(j, w) ==
    /\ At(j, w, "online")
    /\ IF w \in inMap
       THEN Go(j, "clear") /\ UNCHANGED <<inMap, failures, behind>>
       ELSE Read(j, w, "online")
    /\ UNCHANGED <<tiers, bindingVars, up, held, credVars, raced, drifted, spoilt>>

(* Or they refuse it (429), and the binding stays; what waits here for an  *)
(* import passes no gate, and stops as one that was not to go online does. *)
(* Variant with a bug: the context is made before the gates are asked.     *)
LimitedKnown(j, w) ==
    /\ At(j, w, "online")
    /\ Go(j, "idle")
    /\ inMap' = inMap \cup {w}
    /\ UNCHANGED <<tiers, bindingVars, up, held, credVars, failures, historyVars>>

Limited(j, w) ==
    /\ At(j, w, "online")
    /\ Go(j, "idle")
    /\ UNCHANGED <<tiers, bindingVars, workerVars, credVars, failures, historyVars>>

(* The owner guard has let an offline or a logout through.                 *)
Ask(j, w, call) ==
    /\ Guarded(w)
    /\ Begin(j, w, call, "idle")
    /\ UNCHANGED <<tiers, bindingVars, workerVars, credVars, failures, historyVars>>

(* The session is over; what remains of it is dealt with from pc on.  A    *)
(* variant with a bug leaves the socket to garbage collection.             *)
StopOnlyMarks(j, w, pc, next) ==
    /\ Move(j, w, pc, next, None)
    /\ Overlap(j, w)
    /\ UNCHANGED <<tiers, bindingVars, workerVars, credVars, failures, drifted, behind, spoilt>>

Stop(j, w, pc, next) ==
    /\ held' = [held EXCEPT ![w] = None]
    /\ Move(j, w, pc, next, None)
    /\ Overlap(j, w)
    /\ UNCHANGED <<tiers, bindingVars, up, inMap, credVars, failures,
                   drifted, behind, spoilt>>

(* requireCtx throws if the account is not in the map (any more).          *)
NotFound(j, w) ==
    /\ w \notin inMap
    /\ Go(j, "idle")
    /\ UNCHANGED <<tiers, bindingVars, workerVars, credVars, failures, historyVars>>

Offline(j, w) ==
    /\ At(j, w, "offline")
    /\ NotFound(j, w) \/ (w \in inMap /\ Stop(j, w, "mark", "drop"))

(* sock.logout() is awaited with the context in the map.                   *)
Logout(j, w) ==
    /\ At(j, w, "logout")
    /\ NotFound(j, w) \/ (w \in inMap /\ Stop(j, w, "leave", "wipe"))

(* WhatsApp ends a session for good: logged out, replaced by another, ...  *)
(* The publication of that is awaited.                                     *)
CloseForGood(j, w) ==
    /\ HasSocket(w)
    /\ proc[j].pc = "idle"
    /\ Stop(j, w, "leave", "drop")

(* cleanupSocket drops the socket that the same context has by now.        *)
Leave(j, w) ==
    /\ At(j, w, "leave")
    /\ held' \in {held, [held EXCEPT ![w] = None]}
    /\ Carry(j, "mark", None)
    /\ UNCHANGED <<tiers, bindingVars, up, inMap, credVars, failures, historyVars>>

Mark(j, w) ==
    /\ At(j, w, "mark")
    /\ released' = TRUE
    /\ Go(j, proc[j].next)
    /\ UNCHANGED <<tiers, assign, workerVars, credVars, failures, historyVars>>

(* accounts.delete, whatever context the map has by now.                   *)
Drop(j, w) ==
    /\ At(j, w, "drop")
    /\ inMap' = inMap \ {w}
    /\ Go(j, "idle")
    /\ UNCHANGED <<tiers, bindingVars, up, held, credVars, failures, historyVars>>

Wipe(j, w) ==
    /\ At(j, w, "wipe")
    /\ DeleteRedis(w)
    /\ live' = FALSE
    /\ PassBy(j, w)
    /\ spoilt' = (spoilt \/ Durable)
    /\ Go(j, "forget")
    /\ UNCHANGED <<bindingVars, workerVars, newest, failures, raced, drifted>>

ForgetAccount(j, w) ==
    /\ At(j, w, "forget")
    /\ DeleteMySql
    /\ inMap' = inMap \ {w}
    /\ Go(j, "unbind")
    /\ UNCHANGED <<bindingVars, up, held, credVars, failures, historyVars>>

Unbind(j, w) ==
    /\ At(j, w, "unbind")
    /\ Go(j, "idle")
    /\ Rebind(j, NoWorker)
    /\ UNCHANGED <<tiers, released, workerVars, credVars, failures, raced, spoilt>>

(* persistAndMaybeOnline: any worker takes an import; one that is not the  *)
(* owner, or is told autoOnline = false, leaves the rest to the owner.     *)
Import(j, w) ==
    /\ newest < MaxVersion
    /\ \E o \in IF assign = NoWorker THEN up ELSE {assign} :
        /\ Rebind(j, o)
        /\ \E next \in {"idle"} \cup IF o = w THEN {"online"} ELSE {} :
              Begin(j, w, "clearImport", next)
    /\ Overlap(j, w)
    /\ UNCHANGED <<tiers, released, workerVars, credVars, failures, spoilt>>

ClearImport(j, w) ==
    /\ At(j, w, "clearImport")
    /\ released' = FALSE
    /\ Carry(j, "saveImport", None)
    /\ UNCHANGED <<tiers, assign, workerVars, credVars, failures, historyVars>>

SaveImport(j, w) ==
    /\ At(j, w, "saveImport")
    /\ newest < MaxVersion
    /\ newest' = newest + 1
    /\ live' = TRUE
    /\ Save(w, newest')
    /\ PassBy(j, w)
    /\ Go(j, proc[j].next)
    /\ UNCHANGED <<bindingVars, workerVars, failures, raced, drifted, spoilt>>

-----------------------------------------------------------------------------
(* The cluster.                                                            *)

(* The failover tick moves the account from a worker it takes for dead.    *)
Reassign ==
    /\ assign # NoWorker
    /\ assign \in up => "mistaken" \in Moves
    /\ \E w \in up \ {assign} : Rebind(NoWorker, w)
    /\ UNCHANGED <<tiers, released, workerVars, proc, credVars, failures, raced, spoilt>>

AdminUnassign ==
    /\ "admin" \in Moves
    /\ assign # NoWorker
    /\ Rebind(NoWorker, NoWorker)
    /\ UNCHANGED <<tiers, released, workerVars, proc, credVars, failures, raced, spoilt>>

Crash(w) ==
    /\ w \in up
    /\ up' = up \ {w}
    /\ Forget(w)
    /\ inMap' = inMap \ {w}
    /\ held' = [held EXCEPT ![w] = None]
    /\ proc' = [p \in Proc |-> IF proc[p].at = w THEN Rest(p) ELSE proc[p]]
    /\ raced' = raced \ {w} /\ drifted' = drifted \ {w} /\ behind' = behind \ {w}
    /\ UNCHANGED <<bindingVars, credVars, failures, spoilt>>

Start(w) ==
    /\ w \in Worker \ up
    /\ up' = up \cup {w}
    /\ UNCHANGED <<tiers, bindingVars, inMap, held, proc, credVars,
                   failures, historyVars>>

LateWrite ==
    /\ Land
    /\ UNCHANGED <<bindingVars, workerVars, proc, credVars, failures, historyVars>>

-----------------------------------------------------------------------------
OpenStep(p, w) == Redis(p, w) \/ MySql(p, w) \/ Clear(p, w) \/ WriteBack(p, w) \/ Open(p, w)

TickStep(w) == List(w) \/ Look(w) \/ OpenStep(w, w)

JobStep(j, w) ==
    \/ OpenStep(j, w) \/ Online(j, w) \/ Limited(j, w) \/ ClearImport(j, w) \/ SaveImport(j, w)
    \/ Offline(j, w) \/ Logout(j, w) \/ Leave(j, w)
    \/ Mark(j, w) \/ Drop(j, w) \/ Wipe(j, w) \/ ForgetAccount(j, w) \/ Unbind(j, w)

Request(j, w) ==
    \/ "online" \in Calls /\ PostOnline(j, w)
    \/ "import" \in Calls /\ Import(j, w)
    \/ "reconnect" \in Calls /\ Reconnect(j, w)
    \/ "offline" \in Calls /\ Ask(j, w, "offline")
    \/ "logout" \in Calls /\ Ask(j, w, "logout")
    \/ "close" \in Calls /\ CloseForGood(j, w)

WorkerStep(w) ==
    \/ TickStep(w)
    \/ Update(w)
    \/ \E j \in Job : JobStep(j, w) \/ Request(j, w)

Next ==
    \/ \E w \in Worker : WorkerStep(w) \/ Crash(w) \/ Start(w)
    \/ Reassign \/ AdminUnassign \/ LateWrite

Spec == Init /\ [][Next]_vars

(* The reconciler's interval keeps firing, and a command is answered or    *)
(* times out.                                                              *)
Fairness ==
    /\ \A w \in Worker : WF_vars(TickStep(w))
    /\ \A j \in Job : WF_vars(\E w \in Worker : JobStep(j, w))

FairSpec == Spec /\ Fairness

-----------------------------------------------------------------------------
(* Properties.                                                             *)

(* Two workers have a socket of the account at the same time only if the   *)
(* registry took the account from one of them while that one was still     *)
(* dealing with it.                                                        *)
OneHost ==
    \A v, w \in Worker : HasSocket(v) /\ HasSocket(w) /\ v # w => {v, w} \cap drifted # {}

(* A socket whose worker has forgotten the account is left only by two     *)
(* overlapping calls for it on that worker.                                *)
NoZombies == \A w \in Worker : HasSocket(w) /\ w \notin inMap => w \in raced

(* The credentials Redis should hold.                                      *)
Valid == IF live THEN {newest} ELSE {None, Fresh}

(* Redis holds the newest credentials through failovers, restarts, imports *)
(* and logouts until a worker that a change has passed by writes its own.  *)
NewestStored == spoilt \/ l2 \in Valid

(* An account that is bound to a running worker and has credentials gets a *)
(* socket, unless it is moved, released or logged out first.               *)
AssignedIsTakenUp ==
    \A w \in Worker :
        (assign = w /\ w \in up /\ live /\ ~released)
            ~> (HasSocket(w) \/ assign # w \/ w \notin up \/ ~live \/ released \/ failures > 0)

(* creds-store.ts:106: the credentials in Redis may not be lost.           *)
CredsNeverLost == live => l2 = newest
=============================================================================
