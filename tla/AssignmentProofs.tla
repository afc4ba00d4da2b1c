-------------------------- MODULE AssignmentProofs --------------------------
(***************************************************************************)
(* Proofs about Assignment, for any number of accounts, workers and        *)
(* concurrent calls, any capacities and any legacy bindings.               *)
(***************************************************************************)
EXTENDS Assignment, RegistryProofs

USE AccountAssumption, WorkerAssumption, CapacityAssumption, LegacyAssumption,
    CallerAssumption, AnyCallAssumption, RetryAssumption, ReportsAssumption

(* What a suspended call has learnt: a call about to run the assign script *)
(* has a worker to try, and one about to restore a legacy binding has one. *)
TargetsKnown ==
    \A c \in Caller :
        /\ pc[c] = "eval" => target[c] \in Worker
        /\ pc[c] = "backfill" => Legacy[Acct(c)] # NoWorker

CallInv == TypeOK /\ TargetsKnown

LEMMA NoCallTyped == NoCall \in Call
BY DEF NoCall, Call

-----------------------------------------------------------------------------
LEMMA InitTyped == Init => CallInv
<1>1. SUFFICES ASSUME Init PROVE CallInv
  OBVIOUS
<1>2. RegistryTypeOK
  BY <1>1 DEF Init, RegistryInit, RegistryTypeOK, Binding
<1>3. TypeOK
  BY <1>1, <1>2, NoCallTyped DEF Init, TypeOK, Step, NoAnswer, Answer, Binding
<1>4. TargetsKnown
  BY <1>1 DEF Init, TargetsKnown
<1>5. QED
  BY <1>3, <1>4 DEF CallInv

(* Ending a call leaves its locals typed. *)
LEMMA ReturnTyped ==
    ASSUME CallInv, NEW c \in Caller, Return(c)
    PROVE  /\ pc' \in [Caller -> Step]
           /\ call' \in [Caller -> Call]
           /\ target' \in [Caller -> Binding]
           /\ tried' \in [Caller -> SUBSET Worker]
           /\ TargetsKnown'
BY NoCallTyped DEF CallInv, TypeOK, TargetsKnown, Return, Goto, Step, Binding, Acct

LEMMA BeginTyped ==
    ASSUME CallInv, NEW c \in Caller, BeginAssign(c) \/ BeginUnassign(c)
    PROVE  CallInv'
<1>1. PICK req \in Call : Begin(c, req)
  BY NoCallTyped DEF BeginAssign, BeginUnassign, Call, NoCall
<1>2. RegistryTypeOK'
  BY <1>1 DEF CallInv, TypeOK, RegistryTypeOK, Begin, registryVars
<1>3. TypeOK'
  BY <1>1, <1>2 DEF CallInv, TypeOK, Begin, Goto, Step, NoAnswer, Answer, Binding
<1>4. TargetsKnown'
  BY <1>1 DEF CallInv, TypeOK, TargetsKnown, Begin, Goto, Acct
<1>5. QED
  BY <1>3, <1>4 DEF CallInv

(* Answering with a worker, or going on to unbind from it. *)
LEMMA FoundTyped ==
    ASSUME CallInv, NEW c \in Caller, NEW w \in Binding, Found(c, w),
           pc[c] \in {"lookup", "recheck", "backfill"}
    PROVE  /\ pc' \in [Caller -> Step]
           /\ call' \in [Caller -> Call]
           /\ target' \in [Caller -> Binding]
           /\ tried' \in [Caller -> SUBSET Worker]
           /\ reply' \in [Caller -> [kind : Refusal \cup {"none", "new", "existing", "unbound"},
                                     worker : Binding]]
           /\ TargetsKnown'
<1>1. CASE Return(c) /\ Reply(c, "existing", w)
  BY <1>1, ReturnTyped DEF CallInv, TypeOK, Reply, Answer
<1>2. CASE /\ Goto(c, "delete")
           /\ target' = [target EXCEPT ![c] = w]
           /\ UNCHANGED <<call, tried, reply>>
  BY <1>2 DEF CallInv, TypeOK, TargetsKnown, Goto, Step, Acct
<1>3. QED
  BY <1>1, <1>2 DEF Found

LEMMA LookupTyped ==
    ASSUME CallInv, NEW c \in Caller, Lookup(c)
    PROVE  CallInv'
<1>1. RegistryTypeOK' /\ UNCHANGED <<live, lock>>
  BY DEF CallInv, TypeOK, RegistryTypeOK, Lookup, registryVars
<1>2. Acct(c) \in Account /\ assign[Acct(c)] \in Binding
  BY DEF CallInv, TypeOK, RegistryTypeOK, Acct, Call
<1>3. CASE Found(c, assign[Acct(c)])
  BY <1>1, <1>2, <1>3, FoundTyped DEF CallInv, TypeOK, Lookup
<1>4. CASE /\ Legacy[Acct(c)] # NoWorker
           /\ Goto(c, "backfill")
           /\ UNCHANGED <<Locals, reply>>
  BY <1>1, <1>4 DEF CallInv, TypeOK, TargetsKnown, Goto, Step, Locals, Acct
<1>5. CASE NotFound(c)
  <2>1. CASE /\ Goto(c, IF call[c].op = "assign" THEN "lock" ELSE "clean")
             /\ UNCHANGED <<Locals, reply>>
    BY <1>1, <2>1 DEF CallInv, TypeOK, TargetsKnown, Goto, Step, Locals, Acct
  <2>2. CASE Return(c) /\ Reply(c, "contended", NoWorker)
    BY <1>1, <2>2, ReturnTyped DEF CallInv, TypeOK, Reply, Answer, Refusal, Binding
  <2>3. QED
    BY <1>5, <2>1, <2>2 DEF NotFound
<1>6. QED
  BY <1>3, <1>4, <1>5 DEF Lookup

LEMMA ListTyped ==
    ASSUME CallInv, NEW c \in Caller, List(c)
    PROVE  CallInv'
<1>1. RegistryTypeOK' /\ UNCHANGED <<live, lock, call, tried>>
  BY DEF CallInv, TypeOK, RegistryTypeOK, List, registryVars
<1>2. Lightest(Available(c)) \subseteq Worker
  BY DEF CallInv, TypeOK, Lightest, Available, Pool
<1>3. CASE /\ \E w \in Lightest(Available(c)) : target' = [target EXCEPT ![c] = w]
           /\ Goto(c, "eval")
           /\ UNCHANGED reply
  <2>1. PICK w \in Worker : target' = [target EXCEPT ![c] = w]
    BY <1>2, <1>3
  <2>2. QED
    BY <1>1, <1>3, <2>1 DEF CallInv, TypeOK, TargetsKnown, Goto, Step, Acct, Binding
<1>4. CASE /\ Reply(c, IF live = {} THEN "no_workers" ELSE "all_full", NoWorker)
           /\ Goto(c, "unlock")
           /\ UNCHANGED target
  BY <1>1, <1>4 DEF CallInv, TypeOK, TargetsKnown, Goto, Step, Acct, Binding, Reply,
                    Answer, Refusal
<1>5. QED
  BY <1>3, <1>4 DEF List

LEMMA EvalTyped ==
    ASSUME CallInv, NEW c \in Caller, Eval(c)
    PROVE  CallInv'
<1>1. target[c] \in Worker /\ Acct(c) \in Account
  BY DEF CallInv, TypeOK, TargetsKnown, Eval, Acct, Call
<1>2. RegistryTypeOK'
  BY <1>1, AssignTyped DEF CallInv, TypeOK, Eval
<1>3. PICK step \in {"list", "unlock"} : Goto(c, step)
  BY DEF Eval, Rejected
<1>4. tried' \in [Caller -> SUBSET Worker]
  BY <1>1 DEF CallInv, TypeOK, Eval, Rejected
<1>5. reply' = reply \/ \E k \in {"new", "existing", "exhausted"}, w \in Binding : Reply(c, k, w)
  BY <1>1 DEF CallInv, TypeOK, RegistryTypeOK, Eval, Rejected, Binding
<1>6. reply' \in [Caller -> [kind : Refusal \cup {"none", "new", "existing", "unbound"},
                             worker : Binding]]
  BY <1>5 DEF CallInv, TypeOK, Reply, Answer, Refusal
<1>7. TypeOK'
  BY <1>2, <1>3, <1>4, <1>6 DEF CallInv, TypeOK, Eval, Goto, Step, Binding
<1>8. TargetsKnown'
  BY <1>3 DEF CallInv, TypeOK, TargetsKnown, Eval, Goto, Acct
<1>9. QED
  BY <1>7, <1>8 DEF CallInv

(* The steps of a call that end it, and those of the world around it. *)
LEMMA LastStepTyped ==
    ASSUME CallInv, NEW c \in Caller,
           Unlock(c) \/ Delete(c) \/ Clean(c) \/ Crash(c)
    PROVE  CallInv'
<1>1. Return(c) /\ live' = live
  BY DEF Unlock, Delete, Clean, Crash
<1>2. lock' \in [Account -> Caller \cup {Unlocked, Orphan}]
  BY DEF CallInv, TypeOK, Unlock, Delete, Clean, Crash
<1>3. Acct(c) \in Account /\ target[c] \in Binding /\ call[c].release \in BOOLEAN
  BY DEF CallInv, TypeOK, Acct, Call
<1>4. RegistryTypeOK'
  <2>1. CASE Unlock(c) \/ Crash(c)
    BY <2>1 DEF CallInv, TypeOK, RegistryTypeOK, Unlock, Crash, registryVars
  <2>2. CASE Delete(c)
    BY <1>3, <2>2, UnassignTyped DEF CallInv, TypeOK, Delete
  <2>3. CASE Clean(c)
    BY <1>3, <2>3 DEF CallInv, TypeOK, RegistryTypeOK, Clean, Binding
  <2>4. QED
    BY <2>1, <2>2, <2>3
<1>5. reply' = reply \/ \E k \in {"unbound", "nothing"}, w \in Binding : Reply(c, k, w)
  BY <1>3 DEF Unlock, Delete, Clean, Crash, Binding
<1>6. reply' \in [Caller -> [kind : Refusal \cup {"none", "new", "existing", "unbound"},
                             worker : Binding]]
  BY <1>5 DEF CallInv, TypeOK, Reply, Answer, Refusal
<1>7. QED
  BY <1>1, <1>2, <1>4, <1>6, ReturnTyped DEF CallInv, TypeOK

LEMMA WorldTyped ==
    ASSUME CallInv,
           \/ \E a \in Account : LockExpires(a)
           \/ \E w \in Worker, f \in BOOLEAN : Heartbeat(w, f)
           \/ \E w \in Worker : WorkerSilent(w)
           \/ UNCHANGED vars
    PROVE  CallInv'
<1>1. UNCHANGED callVars
  BY DEF LockExpires, Heartbeat, WorkerSilent, vars
<1>2. RegistryTypeOK'
  BY SyncTyped DEF CallInv, TypeOK, RegistryTypeOK, LockExpires, Heartbeat, WorkerSilent,
                   vars, registryVars
<1>3. live' \subseteq Worker /\ lock' \in [Account -> Caller \cup {Unlocked, Orphan}]
  BY DEF CallInv, TypeOK, LockExpires, Heartbeat, WorkerSilent, vars
<1>4. QED
  BY <1>1, <1>2, <1>3 DEF CallInv, TypeOK, TargetsKnown, callVars, Acct

LEMMA BackfillStepTyped ==
    ASSUME CallInv, NEW c \in Caller, Backfill(c)
    PROVE  CallInv'
<1>1. Acct(c) \in Account /\ Legacy[Acct(c)] \in Binding
  BY DEF CallInv, TypeOK, Acct, Call, Binding
<1>2. RegistryTypeOK'
  BY <1>1, BackfillTyped DEF CallInv, TypeOK, Backfill
<1>3. QED
  BY <1>1, <1>2, FoundTyped DEF CallInv, TypeOK, Backfill

LEMMA LockTyped ==
    ASSUME CallInv, NEW c \in Caller, Lock(c)
    PROVE  CallInv'
<1>1. RegistryTypeOK'
  BY DEF CallInv, TypeOK, RegistryTypeOK, Lock, registryVars
<1>2. TypeOK'
  <2>1. lock' \in [Account -> Caller \cup {Unlocked, Orphan}]
    BY DEF CallInv, TypeOK, Lock
  <2>2. pc' \in [Caller -> Step]
    BY DEF CallInv, TypeOK, Lock, Goto, Step
  <2>3. QED
    BY <1>1, <2>1, <2>2 DEF CallInv, TypeOK, Lock
<1>3. TargetsKnown'
  BY DEF CallInv, TypeOK, TargetsKnown, Lock, Goto, Acct
<1>4. QED
  BY <1>2, <1>3 DEF CallInv

LEMMA CallInvKept == CallInv /\ [Next]_vars => CallInv'
<1>1. SUFFICES ASSUME CallInv, [Next]_vars PROVE CallInv'
  OBVIOUS
<1>2. ASSUME NEW c \in Caller, BeginAssign(c) \/ BeginUnassign(c) PROVE CallInv'
  BY <1>1, <1>2, BeginTyped
<1>3. ASSUME NEW c \in Caller, CallStep(c) PROVE CallInv'
  BY <1>1, <1>3, LookupTyped, BackfillStepTyped, LockTyped, ListTyped, EvalTyped,
     LastStepTyped DEF CallStep
<1>4. ASSUME NEW c \in Caller, Crash(c) PROVE CallInv'
  BY <1>1, <1>4, LastStepTyped
<1>5. ASSUME \/ \E a \in Account : LockExpires(a)
             \/ \E w \in Worker, f \in BOOLEAN : Heartbeat(w, f)
             \/ \E w \in Worker : WorkerSilent(w)
             \/ UNCHANGED vars
      PROVE  CallInv'
  BY <1>1, <1>5, WorldTyped
<1>6. QED
  BY <1>1, <1>2, <1>3, <1>4, <1>5 DEF Next, GentleNext

(* Every variable keeps its type: the counters stay natural numbers, no    *)
(* script ever runs with a worker the caller does not have.                *)
THEOREM TypeCorrect == Spec => []TypeOK
<1>1. CallInv => TypeOK
  BY DEF CallInv
<1>2. QED
  BY <1>1, InitTyped, CallInvKept, PTL DEF Spec

(* The same of the step lemma's stronger invariant, for the theorems below *)
LEMMA CallInvAlways == Spec => []CallInv
BY InitTyped, CallInvKept, PTL DEF Spec

-----------------------------------------------------------------------------
(* The reverse index. *)

LEMMA IndexKept == CallInv /\ IndexComplete /\ [Next]_vars => IndexComplete'
<1>1. SUFFICES ASSUME CallInv, IndexComplete, [Next]_vars PROVE IndexComplete'
  OBVIOUS
<1>2. CASE UNCHANGED <<assign, members>>
  BY <1>1, <1>2 DEF IndexComplete
<1>3. ASSUME NEW c \in Caller, Backfill(c) PROVE IndexComplete'
  BY <1>1, <1>3 DEF CallInv, TypeOK, RegistryTypeOK, IndexComplete, Backfill,
                    BackfillAssignment, Acct, Call, Binding
<1>4. ASSUME NEW c \in Caller, Eval(c) PROVE IndexComplete'
  <2>1. target[c] \in Worker /\ Acct(c) \in Account
    BY <1>1, <1>4 DEF CallInv, TypeOK, TargetsKnown, Eval, Acct, Call
  <2>2. QED
    BY <1>1, <1>4, <2>1 DEF CallInv, TypeOK, RegistryTypeOK, IndexComplete, Eval,
                            AtomicAssign, registryVars, Binding
<1>5. ASSUME NEW c \in Caller, Delete(c) PROVE IndexComplete'
  BY <1>1, <1>5 DEF CallInv, TypeOK, RegistryTypeOK, IndexComplete, Delete,
                    AtomicUnassign, UnassignCode, registryVars, Binding, Acct, Call
<1>6. ASSUME NEW c \in Caller, Clean(c) PROVE IndexComplete'
  BY <1>1, <1>6 DEF CallInv, TypeOK, RegistryTypeOK, IndexComplete, Clean, Binding,
                    Acct, Call
<1>7. QED
  <2>1. ASSUME NEW c \in Caller,
               \/ BeginAssign(c) \/ BeginUnassign(c) \/ Lookup(c) \/ Lock(c)
               \/ List(c) \/ Unlock(c) \/ Crash(c)
        PROVE  UNCHANGED <<assign, members>>
    BY <2>1 DEF BeginAssign, BeginUnassign, Begin, Lookup, Lock, List, Unlock, Crash,
                registryVars
  <2>2. ASSUME \/ \E a \in Account : LockExpires(a)
               \/ \E w \in Worker, f \in BOOLEAN : Heartbeat(w, f)
               \/ \E w \in Worker : WorkerSilent(w)
               \/ UNCHANGED vars
        PROVE  UNCHANGED <<assign, members>>
    BY <2>2 DEF LockExpires, Heartbeat, AtomicSyncLoad, WorkerSilent, vars, registryVars
  <2>3. QED
    BY <1>1, <1>2, <1>3, <1>4, <1>5, <1>6, <2>1, <2>2 DEF Next, GentleNext, CallStep

(* Failover and reconciler read the reverse index only.  However calls,    *)
(* crashes and expiring locks interleave, an account that is bound is in   *)
(* the index of its owner.                                                 *)
THEOREM IndexAlwaysComplete == Spec => []IndexComplete
<1>1. Init => IndexComplete
  BY DEF Init, RegistryInit, IndexComplete
<1>2. QED
  BY <1>1, CallInvAlways, IndexKept, PTL DEF Spec

(* A call that binds an account or reports having unbound it leaves no     *)
(* account behind in the index of a worker it is not bound to.             *)
THEOREM NoGhostFromAnsweredCalls == Spec => AnsweredCallsLeaveNoGhost
<1> DEFINE Told(c) == reply'[c] # reply[c] /\ reply'[c].kind \in {"new", "unbound"}
           Clear == \A w \in Worker : Ghosts(w)' \subseteq Ghosts(w)
<1>1. ASSUME CallInv, [Next]_vars, NEW c \in Caller, Told(c) PROVE Clear
  <2>1. ASSUME NEW d \in Caller, Eval(d) PROVE Clear
    <3>1. target[d] \in Worker /\ Acct(d) \in Account
      BY <1>1, <2>1 DEF CallInv, TypeOK, TargetsKnown, Eval, Acct, Call
    <3>2. CASE UNCHANGED registryVars
      BY <3>2 DEF registryVars, Ghosts
    <3>3. CASE AssignCode(Acct(d), target[d]) = 1
      <4>1. /\ assign[Acct(d)] = NoWorker
            /\ assign' = [assign EXCEPT ![Acct(d)] = target[d]]
            /\ members' = [members EXCEPT ![target[d]] = @ \cup {Acct(d)}]
        BY <2>1, <3>3 DEF Eval, AtomicAssign, AssignCode
      <4>2. QED
        BY <1>1, <3>1, <4>1 DEF CallInv, TypeOK, RegistryTypeOK, Ghosts, Binding
    <3>4. QED
      BY <2>1, <3>2, <3>3 DEF Eval, AtomicAssign
  <2>2. ASSUME NEW d \in Caller, Delete(d) PROVE Clear
    BY <1>1, <2>2 DEF CallInv, TypeOK, RegistryTypeOK, Delete, AtomicUnassign,
                      UnassignCode, registryVars, Ghosts, Binding, Acct, Call
  <2>3. ASSUME NEW d \in Caller,
               \/ BeginAssign(d) \/ BeginUnassign(d) \/ Lookup(d) \/ Backfill(d) \/ Lock(d)
               \/ List(d) \/ Unlock(d) \/ Clean(d) \/ Crash(d)
        PROVE  ~Told(c)
    BY <1>1, <2>3 DEF CallInv, TypeOK, BeginAssign, BeginUnassign, Begin, Lookup, Backfill,
         Found, NotFound, Lock, List, Unlock, Clean, Crash, Reply, Answer, NoAnswer
  <2>4. ASSUME \/ \E a \in Account : LockExpires(a)
               \/ \E w \in Worker, f \in BOOLEAN : Heartbeat(w, f)
               \/ \E w \in Worker : WorkerSilent(w)
               \/ UNCHANGED vars
        PROVE  ~Told(c)
    BY <2>4 DEF LockExpires, Heartbeat, WorkerSilent, vars, callVars
  <2>5. QED
    BY <1>1, <2>1, <2>2, <2>3, <2>4 DEF Next, GentleNext, CallStep
<1>2. CallInv /\ [Next]_vars =>
        [\A c \in Caller : Told(c) => Clear]_vars
  BY <1>1
<1>3. QED
  BY <1>2, CallInvAlways, PTL DEF Spec, AnsweredCallsLeaveNoGhost

-----------------------------------------------------------------------------
(* The assign lock. *)

(* A lock is given up by the call that holds it or by its expiry, never by *)
(* a call whose own lock had expired and gone to another.                  *)
THEOREM OnlyHolderReleases == Spec => HolderReleases
<1> DEFINE Held == \A a \in Account, c \in Caller :
                      lock[a] = c /\ lock'[a] # c /\ pc' # pc => pc'[c] # pc[c]
<1>1. ASSUME CallInv, [Next]_vars PROVE Held
  <2>1. CASE lock' = lock \/ pc' = pc
    BY <2>1
  <2>2. ASSUME NEW d \in Caller, Lock(d) PROVE Held
    BY <1>1, <2>2 DEF CallInv, TypeOK, Lock, Goto
  <2>3. ASSUME NEW d \in Caller, Unlock(d) PROVE Held
    BY <1>1, <2>3 DEF CallInv, TypeOK, Unlock, Return, Goto
  <2>4. ASSUME NEW d \in Caller, Crash(d) PROVE Held
    BY <1>1, <2>4 DEF CallInv, TypeOK, Crash, Return, Goto
  <2>5. ASSUME NEW d \in Caller,
               \/ BeginAssign(d) \/ BeginUnassign(d) \/ Lookup(d) \/ Backfill(d)
               \/ List(d) \/ Eval(d) \/ Delete(d) \/ Clean(d)
        PROVE  lock' = lock
    BY <2>5 DEF BeginAssign, BeginUnassign, Begin, Lookup, Backfill, List, Eval, Delete, Clean
  <2>6. ASSUME \/ \E a \in Account : LockExpires(a)
               \/ \E w \in Worker, f \in BOOLEAN : Heartbeat(w, f)
               \/ \E w \in Worker : WorkerSilent(w)
               \/ UNCHANGED vars
        PROVE  lock' = lock \/ pc' = pc
    BY <2>6 DEF LockExpires, Heartbeat, WorkerSilent, vars, callVars
  <2>7. QED
    BY <1>1, <2>1, <2>2, <2>3, <2>4, <2>5, <2>6 DEF Next, GentleNext, CallStep
<1>2. CallInv /\ [Next]_vars => [Held]_vars
  BY <1>1
<1>3. QED
  BY <1>2, CallInvAlways, PTL DEF Spec, HolderReleases

-----------------------------------------------------------------------------
(* The slot counters. *)

LEMMA SlotStep ==
    ASSUME CallInv, [Next]_vars, NEW w \in Worker
    PROVE  assign' = assign \/ BackfillsTo(w) \/ Fewer(w) \/ OneMoreFits(w) \/ OneLess(w)
<1> USE DEF CallInv
<1>1. ASSUME NEW c \in Caller, Backfill(c) PROVE BackfillsTo(w) \/ Fewer(w)
  <2>1. /\ Acct(c) \in Account /\ Legacy[Acct(c)] \in Binding
        /\ assign' = [assign EXCEPT ![Acct(c)] = Legacy[Acct(c)]]
        /\ load' = load
    BY <1>1 DEF TypeOK, Acct, Call, Binding, Backfill, BackfillAssignment
  <2>2. CASE Legacy[Acct(c)] = w /\ assign[Acct(c)] # w
    BY <2>1, <2>2 DEF BackfillsTo, TypeOK, RegistryTypeOK
  <2>3. CASE Legacy[Acct(c)] # w \/ assign[Acct(c)] = w
    BY <2>1, <2>3 DEF Fewer, Owned, TypeOK, RegistryTypeOK
  <2>4. QED
    BY <2>2, <2>3
<1>2. ASSUME NEW c \in Caller, Eval(c) PROVE Fewer(w) \/ OneMoreFits(w)
  BY <1>2, AssignSlots DEF TypeOK, TargetsKnown, Eval, Acct, Call
<1>3. ASSUME NEW c \in Caller, Delete(c) PROVE Fewer(w) \/ OneLess(w)
  BY <1>3, UnassignSlots DEF TypeOK, Delete, Acct, Call
<1>4. ASSUME NEW c \in Caller, Clean(c) PROVE Fewer(w)
  BY <1>4 DEF TypeOK, RegistryTypeOK, Clean, Fewer, Owned, Acct, Call
<1>5. ASSUME NEW c \in Caller,
             \/ BeginAssign(c) \/ BeginUnassign(c) \/ Lookup(c) \/ Lock(c) \/ List(c)
             \/ Unlock(c) \/ Crash(c)
      PROVE  assign' = assign
  BY <1>5 DEF BeginAssign, BeginUnassign, Begin, Lookup, Lock, List, Unlock, Crash,
              registryVars
<1>6. ASSUME \/ \E a \in Account : LockExpires(a)
             \/ \E v \in Worker, f \in BOOLEAN : Heartbeat(v, f)
             \/ \E v \in Worker : WorkerSilent(v)
             \/ UNCHANGED vars
      PROVE  assign' = assign
  BY <1>6 DEF LockExpires, Heartbeat, AtomicSyncLoad, WorkerSilent, vars, registryVars
<1>7. QED
  BY <1>1, <1>2, <1>3, <1>4, <1>5, <1>6 DEF Next, GentleNext, CallStep

(* No interleaving of assign, unassign and plain heartbeats takes the      *)
(* counter of a worker below the number of accounts bound to it: only a    *)
(* heartbeat that forces its own figure or a restored legacy binding does. *)
THEOREM SlotsAlwaysCovered == Spec => SlotsStayCovered
<1> DEFINE Slot(w) == Covered(w) /\ ~Covered(w)' => assign' = assign \/ BackfillsTo(w)
<1>1. ASSUME CallInv, [Next]_vars, NEW w \in Worker PROVE Slot(w)
  <2>1. load[w] \in Nat
    BY <1>1 DEF CallInv, TypeOK, RegistryTypeOK
  <2>2. Fewer(w) => Slot(w)
    BY <1>1, <2>1, CountStep DEF Covered
  <2>3. OneMoreFits(w) => Slot(w)
    BY <1>1, <2>1, CountStep DEF Covered, OneMoreFits
  <2>4. load'[w] \in Nat
    BY <1>1, CallInvKept DEF CallInv, TypeOK, RegistryTypeOK
  <2>5. OneLess(w) => Slot(w)
    BY <1>1, <2>1, <2>4, CountStep DEF Covered
  <2>6. QED
    BY <1>1, <2>2, <2>3, <2>5, SlotStep
<1>2. CallInv /\ [Next]_vars => [\A w \in Worker : Slot(w)]_vars
  BY <1>1
<1>3. QED
  BY <1>2, CallInvAlways, PTL DEF Spec, SlotsStayCovered

(* However many calls race for the last slot of a worker, it is bound more *)
(* accounts than it has capacity for only if its counter was below their   *)
(* number already, or by a restored legacy binding.                        *)
THEOREM OverbindingNeedsUncounted == Spec => OverbindsOnlyUncounted
<1> DEFINE Bounded(w) ==
             /\ Cardinality(Owned(w)) <= Capacity[w]
             /\ Cardinality(Owned(w)') > Capacity[w]
             => ~Covered(w) \/ BackfillsTo(w)
<1>1. ASSUME CallInv, [Next]_vars, NEW w \in Worker PROVE Bounded(w)
  <2>1. load[w] \in Nat /\ Capacity[w] \in Nat
    BY <1>1 DEF CallInv, TypeOK, RegistryTypeOK
  <2>2. OneMoreFits(w) => Bounded(w)
    BY <1>1, <2>1, CountStep DEF Covered, OneMoreFits
  <2>3. assign' = assign \/ Fewer(w) \/ OneLess(w) => Bounded(w)
    BY <1>1, <2>1, CountStep
  <2>4. QED
    BY <1>1, <2>2, <2>3, SlotStep
<1>2. CallInv /\ [Next]_vars => [\A w \in Worker : Bounded(w)]_vars
  BY <1>1
<1>3. QED
  BY <1>2, CallInvAlways, PTL DEF Spec, OverbindsOnlyUncounted

-----------------------------------------------------------------------------
(* Without forced synchronisation and legacy bindings capacity is a bound. *)

GentleInv == CallInv /\ LoadCoversOwned /\ CapacityRespected

LEMMA GentleInit == Init => GentleInv
<1>1. SUFFICES ASSUME Init PROVE GentleInv
  OBVIOUS
<1>2. ASSUME NEW w \in Worker PROVE Cardinality(Owned(w)) = 0 /\ load[w] = 0
  <2>1. Owned(w) = {}
    BY <1>1, <1>2 DEF Init, RegistryInit, Owned
  <2>2. QED
    BY <1>1, <2>1, FS_EmptySet DEF Init, RegistryInit
<1>3. QED
  BY <1>1, <1>2, InitTyped DEF GentleInv, LoadCoversOwned, CapacityRespected, Covered

LEMMA GentleKept ==
    ASSUME NoLegacy, GentleInv, [GentleNext]_vars
    PROVE  GentleInv'
<1>1. CallInv /\ [Next]_vars /\ CallInv'
  BY CallInvKept DEF GentleInv, Next
<1>2. ASSUME NEW w \in Worker PROVE Covered(w)' /\ Cardinality(Owned(w)') <= Capacity[w]
  <2>1. load[w] \in Nat /\ load'[w] \in Nat /\ Capacity[w] \in Nat
    BY <1>1 DEF CallInv, TypeOK, RegistryTypeOK
  <2>2. Covered(w) /\ Cardinality(Owned(w)) <= Capacity[w]
    BY DEF GentleInv, LoadCoversOwned, CapacityRespected
  <2>3. ~BackfillsTo(w)
    BY DEF BackfillsTo, NoLegacy
  <2>4. ASSUME assign' = assign PROVE load'[w] >= load[w]
    <3>1. ASSUME NEW v \in Worker, Heartbeat(v, FALSE) PROVE load'[w] >= load[w]
      BY <1>1, <3>1 DEF CallInv, TypeOK, RegistryTypeOK, Heartbeat, AtomicSyncLoad
    <3>2. ASSUME NEW c \in Caller, Eval(c) PROVE load'[w] >= load[w]
      <4>1. Acct(c) \in Account /\ target[c] \in Worker
        BY <1>1, <3>2 DEF CallInv, TypeOK, TargetsKnown, Eval, Acct, Call
      <4>2. Fewer(w) \/ OneMoreFits(w)
        BY <1>1, <3>2, <4>1, AssignSlots DEF CallInv, TypeOK, Eval
      <4>3. QED
        BY <2>1, <4>2 DEF Fewer, OneMoreFits, OneMore
    <3>3. ASSUME NEW c \in Caller, Delete(c) PROVE load'[w] >= load[w]
      BY <1>1, <2>4, <3>3 DEF CallInv, TypeOK, RegistryTypeOK, Delete, AtomicUnassign,
                        UnassignCode, registryVars, Acct, Call
    <3>4. ASSUME NEW c \in Caller,
                 \/ BeginAssign(c) \/ BeginUnassign(c) \/ Lookup(c) \/ Backfill(c)
                 \/ Lock(c) \/ List(c) \/ Unlock(c) \/ Clean(c) \/ Crash(c)
          PROVE  load' = load
      BY <3>4 DEF BeginAssign, BeginUnassign, Begin, Lookup, Backfill, BackfillAssignment,
                  Lock, List, Unlock, Clean, Crash, registryVars
    <3>5. ASSUME \/ \E a \in Account : LockExpires(a)
                 \/ \E v \in Worker : WorkerSilent(v)
                 \/ UNCHANGED vars
          PROVE  load' = load
      BY <3>5 DEF LockExpires, WorkerSilent, vars, registryVars
    <3>6. load' = load => load'[w] >= load[w]
      BY <2>1
    <3>7. QED
      BY <3>1, <3>2, <3>3, <3>4, <3>5, <3>6 DEF GentleNext, CallStep
  <2>5. assign' = assign \/ Fewer(w) \/ OneMoreFits(w) \/ OneLess(w)
    BY <1>1, <2>3, SlotStep
  <2>6. CASE assign' = assign
    BY <1>1, <2>1, <2>2, <2>4, <2>6, CountStep DEF Covered
  <2>7. CASE Fewer(w)
    BY <1>1, <2>1, <2>2, <2>7, CountStep DEF Covered
  <2>8. CASE OneMoreFits(w)
    BY <1>1, <2>1, <2>2, <2>8, CountStep DEF Covered, OneMoreFits
  <2>9. CASE OneLess(w)
    BY <1>1, <2>1, <2>2, <2>9, CountStep DEF Covered
  <2>10. QED
    BY <2>5, <2>6, <2>7, <2>8, <2>9
<1>3. QED
  BY <1>1, <1>2 DEF GentleInv, LoadCoversOwned, CapacityRespected, Covered

LEMMA AlwaysGentle == ASSUME NoLegacy PROVE GentleSpec => []GentleInv
<1>1. GentleInv /\ [GentleNext]_vars => GentleInv'
  BY GentleKept
<1>2. QED
  BY <1>1, GentleInit, PTL DEF GentleSpec

(* As long as no worker forces its load on the registry and no legacy      *)
(* binding is left, the counter of a worker never lags behind the accounts *)
(* bound to it (registry/registry.ts, assign, unassign and heartbeat).     *)
THEOREM CounterAlwaysCovers == ASSUME NoLegacy PROVE GentleSpec => []LoadCoversOwned
<1>1. GentleInv => LoadCoversOwned
  BY DEF GentleInv
<1>2. QED
  BY <1>1, AlwaysGentle, PTL

(* Under the same conditions no worker is ever bound more accounts than it *)
(* has capacity for, however many calls race for its last slot.            *)
THEOREM CapacityIsABound == ASSUME NoLegacy PROVE GentleSpec => []CapacityRespected
<1>1. GentleInv => CapacityRespected
  BY DEF GentleInv
<1>2. QED
  BY <1>1, AlwaysGentle, PTL

-----------------------------------------------------------------------------
(* The calls implement the binding service. *)

LEMMA InitImplements == Init => Service!Init
BY DEF Init, RegistryInit, Service!Init, NoAnswer, Answer, Service!NoAnswer, Service!Answer

LEMMA StepImplements == CallInv /\ [Next]_vars => [Service!Next]_(Service!bindingVars)
<1> USE DEF CallInv, Answer, Service!Answer
<1>1. SUFFICES ASSUME CallInv, [Next]_vars
               PROVE  Service!Next \/ UNCHANGED <<assign, reply>>
  BY DEF Service!bindingVars
<1>2. ASSUME NEW c \in Caller, BeginAssign(c) \/ BeginUnassign(c) PROVE Service!Begin(c)
  BY <1>2 DEF BeginAssign, BeginUnassign, Begin, registryVars, NoAnswer, Service!Begin,
              Service!NoAnswer
<1>3. ASSUME NEW c \in Caller, Lookup(c)
      PROVE  \/ UNCHANGED <<assign, reply>>
             \/ Service!Refuse(c)
             \/ \E a \in Account : Service!Find(c, a)
  BY <1>1, <1>3 DEF TypeOK, Acct, Call, Lookup, Found, NotFound, Reply, registryVars,
                    Refusal, Service!Refuse, Service!Find
<1>4. ASSUME NEW c \in Caller, Backfill(c)
      PROVE  \E a \in Account : Service!Restore(c, a)
  BY <1>1, <1>4 DEF TypeOK, TargetsKnown, Acct, Call, Backfill, BackfillAssignment, Found,
                    Reply, Service!Restore
<1>5. ASSUME NEW c \in Caller, List(c)
      PROVE  Service!Refuse(c) \/ UNCHANGED <<assign, reply>>
  BY <1>5 DEF List, Reply, Refusal, registryVars, Service!Refuse
<1>6. ASSUME NEW c \in Caller, Eval(c)
      PROVE  \/ UNCHANGED <<assign, reply>>
             \/ Service!Refuse(c)
             \/ \E a \in Account : Service!Find(c, a) \/ \E w \in Worker : Service!Bind(c, a, w)
  <2>1. Acct(c) \in Account /\ target[c] \in Worker
    BY <1>1, <1>6 DEF TypeOK, TargetsKnown, Eval, Acct, Call
  <2>2. CASE AssignCode(Acct(c), target[c]) = 1
    BY <1>6, <2>1, <2>2 DEF Eval, AtomicAssign, AssignCode, Reply, Service!Bind
  <2>3. CASE AssignCode(Acct(c), target[c]) = 0
    BY <1>6, <2>1, <2>3 DEF Eval, AtomicAssign, AssignCode, Reply, registryVars, Service!Find
  <2>4. CASE AssignCode(Acct(c), target[c]) = -1
    BY <1>6, <2>1, <2>4 DEF Eval, AtomicAssign, Rejected, Reply, Refusal, registryVars,
                            Service!Refuse
  <2>5. QED
    BY <2>2, <2>3, <2>4 DEF AssignCode
<1>7. ASSUME NEW c \in Caller, Delete(c)
      PROVE  Service!Refuse(c) \/ \E a \in Account : Service!Unbind(c, a)
  BY <1>1, <1>7 DEF TypeOK, Acct, Call, Delete, AtomicUnassign, UnassignCode, Reply, Refusal,
                    registryVars, Service!Refuse, Service!Unbind
<1>8. ASSUME NEW c \in Caller, Clean(c) PROVE \E a \in Account : Service!Erase(c, a)
  BY <1>1, <1>8 DEF TypeOK, Acct, Call, Clean, Reply, Service!Erase
<1>9. ASSUME NEW c \in Caller, Lock(c) \/ Unlock(c) \/ Crash(c)
      PROVE  UNCHANGED <<assign, reply>>
  BY <1>9 DEF Lock, Unlock, Crash, registryVars
<1>10. ASSUME \/ \E a \in Account : LockExpires(a)
              \/ \E w \in Worker, f \in BOOLEAN : Heartbeat(w, f)
              \/ \E w \in Worker : WorkerSilent(w)
              \/ UNCHANGED vars
       PROVE  UNCHANGED <<assign, reply>>
  BY <1>10 DEF LockExpires, Heartbeat, AtomicSyncLoad, WorkerSilent, vars, registryVars, callVars
<1>11. QED
  BY <1>1, <1>2, <1>3, <1>4, <1>5, <1>6, <1>7, <1>8, <1>9, <1>10
     DEF Next, GentleNext, CallStep, Service!Next

(* Behind locks, retries and counters, callers see the binding service: a  *)
(* "new" binding is of an unbound account, an "existing" one is current,   *)
(* and nothing but a restored legacy binding replaces a binding.           *)
THEOREM CallsImplementService == Spec => ImplementsService
BY InitImplements, StepImplements, CallInvAlways, PTL DEF Spec, ImplementsService, Service!Spec
=============================================================================
