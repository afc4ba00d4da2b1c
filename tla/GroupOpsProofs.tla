--------------------------- MODULE GroupOpsProofs ---------------------------
(***************************************************************************)
(* Proofs about GroupOps, for any number of calls, faults and any bucket.  *)
(***************************************************************************)
EXTENDS GroupOps, TokenBucketProofs

USE GroupOpsAssumption, BucketAssumption

(* A call that has passed the lock and not lost it to the TTL holds it.    *)
HoldersLocked == \A c \in Call : pc[c] \in Inside /\ c \notin expired => lock = c

(* Whoever is named in the lock is inside, or has left it there.           *)
LockHeld == lock # NoCall => pc[lock] \in Inside \/ (pc[lock] = "done" /\ lock \in kept)

(* A request is at WhatsApp only while its call waits for it or after the  *)
(* call has given up.                                                      *)
RequestSent ==
    \A c \in atWhatsApp :
        \/ pc[c] \in {"waiting", "done"}
        \/ pc[c] = "release" /\ c \in threw

(* A request that is at WhatsApp is under the lock of its call, unless the *)
(* call has lost it or ended in an error.                                  *)
RequestLocked == \A c \in atWhatsApp : c \in expired \cup threw \/ lock = c

GateInv == TypeOK /\ HoldersLocked /\ LockHeld /\ RequestSent /\ RequestLocked

-----------------------------------------------------------------------------
(* The bucket of the gate is a TokenBucket.                                *)

LEMMA StepOfBucket == TypeOK /\ [Next]_vars => [BucketNext]_bucketVars
<1> SUFFICES ASSUME TypeOK, [Next]_vars PROVE [BucketNext]_bucketVars
  OBVIOUS
<1>1. ASSUME NEW c \in Call, CallStep(c) PROVE [BucketNext]_bucketVars
  <2>1. CASE TakeToken(c)
    BY <2>1 DEF TakeToken, TypeOK, BucketNext
  <2> QED
    BY <1>1, <2>1 DEF CallStep, Lock, LockFails, TakeFails, Told, Request, Answer, Throws,
                      TimedOut, Release, ReleaseFails
<1>2. CASE Expire \/ Adjust \/ UNCHANGED vars
  BY <1>2 DEF Expire, Adjust, vars
<1>3. CASE BucketStep
  BY <1>3 DEF BucketStep, BucketNext
<1> QED
  BY <1>1, <1>2, <1>3 DEF Next

LEMMA StepKeepsBucketType ==
    ASSUME BucketInv, TypeOK, [Next]_vars
    PROVE  BucketInv'
BY StepOfBucket, BucketStepInv

-----------------------------------------------------------------------------
LEMMA GateInitInv == Init => GateInv /\ BucketInv
<1> SUFFICES ASSUME Init PROVE GateInv /\ BucketInv
  OBVIOUS
<1>1. BucketInv
  BY BucketInitInv DEF Init
<1> QED
  BY <1>1 DEF Init, GateInv, TypeOK, HoldersLocked, LockHeld, RequestSent, RequestLocked,
              Inside, BucketInv

(* The steps of a call change pc only where the call is.                   *)
LEMMA CallKeepsInv ==
    ASSUME GateInv, NEW c \in Call, CallStep(c), BucketTypeOK'
    PROVE  GateInv'
<1> USE DEF GateInv, TypeOK, HoldersLocked, LockHeld, RequestSent, RequestLocked, Inside
<1>1. CASE Lock(c)
  BY <1>1 DEF Lock, Goto
<1>2. CASE LockFails(c)
  BY <1>2 DEF LockFails, Goto, CallFault
<1>3. CASE TakeToken(c)
  BY <1>3 DEF TakeToken, Goto
<1>4. CASE TakeFails(c)
  BY <1>4 DEF TakeFails, Goto, CallFault
<1>5. CASE Told(c)
  BY <1>5 DEF Told, Goto
<1>6. CASE Request(c)
  BY <1>6 DEF Request, Goto
<1>7. CASE Answer(c)
  BY <1>7 DEF Answer, Goto
<1>8. CASE Throws(c)
  BY <1>8 DEF Throws, Goto, CallFault
<1>9. CASE TimedOut(c)
  BY <1>9 DEF TimedOut, Goto, CallFault
<1>10. CASE Release(c)
  BY <1>10 DEF Release, Goto
<1>11. CASE ReleaseFails(c)
  BY <1>11 DEF ReleaseFails, Goto, CallFault
<1> QED
  BY <1>1, <1>2, <1>3, <1>4, <1>5, <1>6, <1>7, <1>8, <1>9, <1>10, <1>11 DEF CallStep

LEMMA GateStepInv == GateInv /\ BucketInv /\ [Next]_vars => GateInv' /\ BucketInv'
<1> SUFFICES ASSUME GateInv, BucketInv, [Next]_vars PROVE GateInv' /\ BucketInv'
  OBVIOUS
<1>1. BucketInv' /\ BucketTypeOK'
  BY StepKeepsBucketType DEF GateInv, BucketInv
<1> USE DEF GateInv, TypeOK, HoldersLocked, LockHeld, RequestSent, RequestLocked, Inside
<1>2. ASSUME NEW c \in Call, CallStep(c) PROVE GateInv'
  BY <1>1, <1>2, CallKeepsInv
<1>3. CASE Expire
  BY <1>1, <1>3 DEF Expire
<1>4. CASE Adjust
  BY <1>1, <1>4 DEF Adjust, gateVars
<1>5. CASE BucketStep
  BY <1>1, <1>5 DEF BucketStep, gateVars
<1>6. CASE UNCHANGED vars
  BY <1>1, <1>6 DEF vars, gateVars
<1> QED
  BY <1>1, <1>2, <1>3, <1>4, <1>5, <1>6 DEF Next

LEMMA GateAlwaysInv == Spec => [](GateInv /\ BucketInv)
BY GateInitInv, GateStepInv, PTL DEF Spec

-----------------------------------------------------------------------------
(* Every variable of the gate and of its bucket keeps its type.            *)
THEOREM GateTypeCorrect == Spec => []TypeOK
<1>1. GateInv => TypeOK
  BY DEF GateInv
<1> QED
  BY <1>1, GateAlwaysInv, PTL

(* runGroup lets a second operation of an account past its lock only if    *)
(* the TTL has taken it from the first: no late release, refusal or error  *)
(* opens it.                                                               *)
THEOREM OneGroupOpAtATime == Spec => []OneGroupOp
<1>1. GateInv => OneGroupOp
  BY DEF GateInv, HoldersLocked, OneGroupOp
<1> QED
  BY <1>1, GateAlwaysInv, PTL

(* A lock outlives its call only by holdLockUntilTtl or an unanswered      *)
(* command of Redis.                                                       *)
THEOREM NoOrphanLocks == Spec => []NoOrphanLock
<1>1. GateInv => NoOrphanLock
  BY DEF GateInv, LockHeld, NoOrphanLock, Inside
<1> QED
  BY <1>1, GateAlwaysInv, PTL

(* WhatsApp is asked for one thing at a time by an account, timeouts       *)
(* included, as long as no TTL has passed and no call has failed.          *)
THEOREM RequestsKeptApart == Spec => []RequestsApart
<1>1. GateInv => RequestsApart
  BY DEF GateInv, RequestLocked, RequestsApart
<1> QED
  BY <1>1, GateAlwaysInv, PTL

(* The gate uses its bucket as a bucket is meant to be used.               *)
THEOREM GateUsesBucket == Spec => BucketSpec
<1>1. Init => BucketInit
  BY DEF Init
<1>2. GateInv /\ [Next]_vars => [BucketNext]_bucketVars
  BY StepOfBucket DEF GateInv
<1> QED
  BY <1>1, <1>2, GateAlwaysInv, PTL DEF Spec, BucketSpec

(* So the group operations of a worker stay within its rate.               *)
THEOREM GroupOpsWithinRate == Spec => []GrantsBounded
BY GateUsesBucket, GrantsAlwaysBounded, PTL
=============================================================================
