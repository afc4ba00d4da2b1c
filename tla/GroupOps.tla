------------------------------ MODULE GroupOps ------------------------------
(***************************************************************************)
(* The gate in front of the group operations of one account                *)
(* (rate-limit/operation-gate.ts, runGroup, as routes/groups.ts calls it): *)
(* a lock of the account in Redis, the token bucket of the worker, then    *)
(* the request to WhatsApp.  A refusal is published, and runGroup waits    *)
(* for publish() to return (Publisher), in the second case with the lock   *)
(* in its hand.                                                            *)
(*                                                                         *)
(*   idle -> take -> call -> waiting -> release -> done                    *)
(*        -> tellAccountBusy -> done                                       *)
(*           take -> tellWorkerBusy -> release                             *)
(*                           waiting -> done       timed out: lock is kept *)
(*                                                                         *)
(* The other accounts of the worker only empty the bucket before.          *)
(***************************************************************************)
EXTENDS TokenBucket

CONSTANTS
    Call,            \* calls of the account, each made once
    NoCall,
    MaxCallFaults    \* failures and timeouts of calls, a bound

ASSUME GroupOpsAssumption == NoCall \notin Call /\ MaxCallFaults \in Nat

VARIABLES
    pc,
    lock,          \* the lockValue in Redis, NoCall if there is none
    atWhatsApp,    \* the calls whose request WhatsApp may still carry out
    skew,          \* of the clock of this worker
    callFaults,
    expired,       \* calls that have lost the lock to its TTL
    kept,          \* calls that have left the lock to its TTL
    threw          \* calls that ended with an error after sending

gateVars == <<pc, lock, atWhatsApp, callFaults, expired, kept, threw>>
vars == <<gateVars, skew, bucketVars>>

Inside == {"take", "tellWorkerBusy", "call", "waiting", "release"}

TypeOK ==
    /\ BucketTypeOK
    /\ pc \in [Call -> {"idle", "tellAccountBusy", "done"} \cup Inside]
    /\ lock \in Call \cup {NoCall}
    /\ atWhatsApp \subseteq Call
    /\ skew \in 0..MaxSkew
    /\ callFaults \in 0..MaxCallFaults
    /\ expired \subseteq Call /\ kept \subseteq Call /\ threw \subseteq Call

Init ==
    /\ BucketInit
    /\ pc = [c \in Call |-> "idle"]
    /\ lock = NoCall
    /\ atWhatsApp = {}
    /\ skew = 0
    /\ callFaults = 0
    /\ expired = {} /\ kept = {} /\ threw = {}

-----------------------------------------------------------------------------
Goto(c, l) == pc' = [pc EXCEPT ![c] = l]
CallFault == callFaults < MaxCallFaults /\ callFaults' = callFaults + 1

(* SET NX PX.                                                              *)
Lock(c) ==
    /\ pc[c] = "idle"
    /\ IF lock = NoCall
       THEN lock' = c /\ Goto(c, "take")
       ELSE Goto(c, "tellAccountBusy") /\ UNCHANGED lock
    /\ UNCHANGED <<atWhatsApp, callFaults, expired, kept, threw, skew, bucketVars>>

(* A command of Redis whose answer does not come: the call ends, in the    *)
(* first case before there is anybody to release the lock.                 *)
LockFails(c) ==
    /\ pc[c] = "idle"
    /\ CallFault
    /\ lock' \in {lock, IF lock = NoCall THEN c ELSE lock}
    /\ kept' = kept \cup {c}
    /\ Goto(c, "done")
    /\ UNCHANGED <<atWhatsApp, expired, threw, skew, bucketVars>>

TakeFails(c) ==
    /\ pc[c] = "take"
    /\ CallFault
    /\ Goto(c, "release")
    /\ UNCHANGED <<lock, atWhatsApp, expired, kept, threw, skew, bucketVars>>

TakeToken(c) ==
    /\ pc[c] = "take"
    /\ Take(clock + skew)
    /\ IF Allowed(clock + skew)
       THEN Goto(c, "call")
       ELSE Goto(c, "tellWorkerBusy")
    /\ UNCHANGED <<lock, atWhatsApp, callFaults, expired, kept, threw, skew>>

(* publish() has returned: runGroup throws.  Variant with a bug: only the  *)
(* inner finally releases the lock.                                        *)
ToldOnly(c) ==
    /\ pc[c] \in {"tellAccountBusy", "tellWorkerBusy"}
    /\ Goto(c, "done")
    /\ UNCHANGED <<lock, atWhatsApp, callFaults, expired, kept, threw, skew, bucketVars>>

Told(c) ==
    /\ \/ pc[c] = "tellAccountBusy" /\ Goto(c, "done")
       \/ pc[c] = "tellWorkerBusy" /\ Goto(c, "release")
    /\ UNCHANGED <<lock, atWhatsApp, callFaults, expired, kept, threw, skew, bucketVars>>

(* fn(): getSocket throws, or the request is sent.                         *)
Request(c) ==
    /\ pc[c] = "call"
    /\ \/ Goto(c, "release") /\ UNCHANGED atWhatsApp
       \/ Goto(c, "waiting") /\ atWhatsApp' = atWhatsApp \cup {c}
    /\ UNCHANGED <<lock, callFaults, expired, kept, threw, skew, bucketVars>>

(* WhatsApp has carried out the request of c; the answer may find nobody   *)
(* waiting any more.                                                       *)
Answer(c) ==
    /\ c \in atWhatsApp
    /\ atWhatsApp' = atWhatsApp \ {c}
    /\ IF pc[c] = "waiting" THEN Goto(c, "release") ELSE UNCHANGED pc
    /\ UNCHANGED <<lock, callFaults, expired, kept, threw, skew, bucketVars>>

(* The socket is closed or the query times out: fn() throws.               *)
Throws(c) ==
    /\ pc[c] = "waiting"
    /\ CallFault
    /\ Goto(c, "release")
    /\ threw' = threw \cup {c}
    /\ UNCHANGED <<lock, atWhatsApp, expired, kept, skew, bucketVars>>

(* withParticipantTimeout gives up: holdLockUntilTtl.  Variant with a bug: *)
(* the lock is released as after an answer.                                *)
TimedOutReleases(c) ==
    /\ pc[c] = "waiting"
    /\ CallFault
    /\ Goto(c, "release")
    /\ UNCHANGED <<lock, atWhatsApp, expired, kept, threw, skew, bucketVars>>

TimedOut(c) ==
    /\ pc[c] = "waiting"
    /\ CallFault
    /\ Goto(c, "done")
    /\ kept' = kept \cup {c}
    /\ UNCHANGED <<lock, atWhatsApp, expired, threw, skew, bucketVars>>

(* RELEASE_LOCK_LUA.  Variant with a bug: a plain DEL.                     *)
ReleaseAny(c) ==
    /\ pc[c] = "release"
    /\ lock' = NoCall
    /\ Goto(c, "done")
    /\ UNCHANGED <<atWhatsApp, callFaults, expired, kept, threw, skew, bucketVars>>

Release(c) ==
    /\ pc[c] = "release"
    /\ lock' = IF lock = c THEN NoCall ELSE lock
    /\ Goto(c, "done")
    /\ UNCHANGED <<atWhatsApp, callFaults, expired, kept, threw, skew, bucketVars>>

(* The script gets no answer, which is only logged.                        *)
ReleaseFails(c) ==
    /\ pc[c] = "release"
    /\ CallFault
    /\ lock' \in {lock, IF lock = c THEN NoCall ELSE lock}
    /\ kept' = kept \cup {c}
    /\ Goto(c, "done")
    /\ UNCHANGED <<atWhatsApp, expired, threw, skew, bucketVars>>

(* The TTL of the lock has passed.  timeoutMs may be longer than it, and   *)
(* nothing bounds the time the commands and publications take.             *)
Expire ==
    /\ lock # NoCall
    /\ expired' = expired \cup {lock}
    /\ lock' = NoCall
    /\ UNCHANGED <<pc, atWhatsApp, callFaults, kept, threw, skew, bucketVars>>

(* The clock of the worker is adjusted.                                    *)
Adjust ==
    /\ skew' \in (0..MaxSkew) \ {skew}
    /\ UNCHANGED <<gateVars, bucketVars>>

-----------------------------------------------------------------------------
CallStep(c) ==
    \/ Lock(c) \/ LockFails(c) \/ TakeToken(c) \/ TakeFails(c) \/ Told(c)
    \/ Request(c) \/ Answer(c) \/ Throws(c) \/ TimedOut(c) \/ Release(c) \/ ReleaseFails(c)

BucketStep == (ForgetBucket \/ Tick) /\ UNCHANGED <<gateVars, skew>>

Next ==
    \/ \E c \in Call : CallStep(c)
    \/ Expire \/ Adjust \/ BucketStep

Spec == Init /\ [][Next]_vars

-----------------------------------------------------------------------------
(* Two calls are past the lock of the account at the same time only if the *)
(* TTL has taken it from one of them; in particular, a call that comes     *)
(* back late does not release the lock of the next one.                    *)
OneGroupOp ==
    \A c, d \in Call : c # d /\ pc[c] \in Inside /\ pc[d] \in Inside => {c, d} \cap expired # {}

(* A lock whose call has ended was left to its TTL on purpose, or because  *)
(* Redis did not answer: no refusal and no error of the operation keeps it. *)
NoOrphanLock == lock # NoCall /\ pc[lock] = "done" => lock \in kept

(* WhatsApp has two requests of the account at the same time only if the   *)
(* TTL has passed or a call has ended in an error: a call that gives up    *)
(* waiting keeps the next one away (operation-gate.ts:118).                *)
RequestsApart ==
    \A c, d \in atWhatsApp : c # d => {c, d} \cap (expired \cup threw) # {}
=============================================================================
