--------------------------- MODULE SessionProofs ---------------------------
(***************************************************************************)
(* Proofs about Session, for any number of contexts, sockets and suspended *)
(* invocations, and any length of the reconnect ladder.                    *)
(***************************************************************************)
EXTENDS Session, TLAPS

USE ObjectsAssumption, LadderAssumption

(* What TypeOK says of the controller and of the tasks. *)
RetryTypeOK ==
    /\ inFlight \in BOOLEAN
    /\ timer \in {"off", "A", "B"}
    /\ pc \in [Task -> Await]
    /\ kind \in [Task -> {"none", "call", "A", "B"}]
    /\ held \subseteq Task

(* A task holds the entry as long as it waits for tokens or opens a socket. *)
HoldersRetry == \A t \in held : pc[t] \in {"gate", "auth"} /\ kind[t] # "call"

(* A task waits for tokens or opens a socket for a retry or for a call. *)
KindsKnown ==
    \A t \in Task :
        /\ pc[t] = "gate" => kind[t] \in {"A", "B"}
        /\ pc[t] = "auth" => kind[t] \in {"A", "B", "call"}

BusyInv == RetryTypeOK /\ HoldersRetry /\ KindsKnown /\ (inFlight => held # {})

-----------------------------------------------------------------------------
(* What the pieces of the actions do to the invariant.                     *)

LEMMA EndKeeps ==
    ASSUME BusyInv, NEW t \in Task, End(t), inFlight' \in BOOLEAN,
           timer' \in {"off", "A", "B"}, inFlight' => inFlight /\ t \notin held
    PROVE  BusyInv'
BY DEF BusyInv, RetryTypeOK, HoldersRetry, KindsKnown, End, Suspend, Await

LEMMA SuspendKeeps ==
    ASSUME BusyInv, NEW t \in Task \ held, NEW s \in Await, NEW c,
           NEW k \in {"none", "call"}, Suspend(t, s, c, k),
           s # "gate", s = "auth" => k = "call",
           UNCHANGED held, inFlight' \in BOOLEAN, timer' \in {"off", "A", "B"},
           inFlight' => inFlight
    PROVE  BusyInv'
BY DEF BusyInv, RetryTypeOK, HoldersRetry, KindsKnown, Suspend

LEMMA ReleaseKeeps ==
    ASSUME BusyInv, NEW t \in Task, NEW c, Release(t, c)
    PROVE  BusyInv'
BY DEF BusyInv, RetryTypeOK, HoldersRetry, KindsKnown, Release, Suspend, Await

LEMMA ScheduleKeeps ==
    ASSUME BusyInv, NEW type \in {"A", "B"}, NEW n, NEW busy \in BOOLEAN,
           Schedule(type, n, busy)
    PROVE  inFlight' = busy /\ timer' \in {"off", "A", "B"}
BY DEF BusyInv, RetryTypeOK, Schedule

LEMMA FrameKeeps ==
    ASSUME BusyInv, UNCHANGED <<pc, kind, held>>, inFlight' \in BOOLEAN,
           timer' \in {"off", "A", "B"}, inFlight' => inFlight
    PROVE  BusyInv'
BY DEF BusyInv, RetryTypeOK, HoldersRetry, KindsKnown

LEMMA RetryKeeps ==
    ASSUME BusyInv, NEW t \in Task, kind[t] \in {"A", "B"}, Retry(t)
    PROVE  BusyInv'
<1>1. Released(t) \in BOOLEAN /\ (Released(t) => inFlight /\ t \notin held)
  BY DEF Released, BusyInv, RetryTypeOK
<1>2. CASE Release(t, current)
  BY <1>2, ReleaseKeeps
<1>3. CASE Schedule(kind[t], attempt, Released(t)) /\ End(t)
  <2>1. inFlight' = Released(t) /\ timer' \in {"off", "A", "B"}
    BY <1>1, <1>3, ScheduleKeeps
  <2>2. QED
    BY <1>1, <1>3, <2>1, EndKeeps
<1>4. QED
  BY <1>2, <1>3 DEF Retry

-----------------------------------------------------------------------------
LEMMA InitBusy == Init => BusyInv
BY DEF Init, BusyInv, RetryTypeOK, HoldersRetry, KindsKnown, Await

LEMMA StepBusy == BusyInv /\ [Next]_vars => BusyInv'
<1> SUFFICES ASSUME BusyInv, [Next]_vars PROVE BusyInv'
  OBVIOUS
<1> USE DEF BusyInv
<1>0. ASSUME NEW t \in Task, pc[t] \notin {"gate", "auth"} PROVE t \in Task \ held
  BY <1>0 DEF HoldersRetry
<1>1. ASSUME NEW t \in Task, TaskStep(t) PROVE BusyInv'
  <2>1. CASE Loaded(t)
    BY <1>0, <2>1, SuspendKeeps DEF Loaded, Await, RetryTypeOK, retryVars
  <2>2. CASE Cleared(t)
    BY <1>0, <2>2, SuspendKeeps DEF Cleared, OpenStart, Await, RetryTypeOK, retryVars
  <2>3. CASE Opened(t)
    <3>1. CASE kind[t] = "call"
      <4>1. t \notin held
        BY <3>1 DEF HoldersRetry
      <4>2. QED
        BY <2>3, <3>1, <4>1, EndKeeps DEF Opened, RetryTypeOK, retryVars
    <3>2. CASE kind[t] # "call"
      BY <2>3, <3>2, EndKeeps DEF Opened, Success
    <3>3. QED
      BY <3>1, <3>2
  <2>4. CASE Granted(t)
    <3>1. pc[t] = "gate" /\ kind[t] \in {"A", "B"}
      BY <2>4 DEF Granted, KindsKnown
    <3>2. pc' = [pc EXCEPT ![t] = "auth"] /\ kind' = [kind EXCEPT ![t] = kind[t]]
      BY <2>4 DEF Granted, OpenStart, Suspend
    <3>3. UNCHANGED <<inFlight, timer, held>>
      BY <2>4 DEF Granted, retryVars
    <3>4. QED
      BY <3>1, <3>2, <3>3 DEF RetryTypeOK, HoldersRetry, KindsKnown, Await
  <2>5. CASE Orphaned(t)
    BY <2>5, RetryKeeps DEF Orphaned, KindsKnown
  <2>6. CASE Detected(t)
    BY <1>0, <2>6, SuspendKeeps DEF Detected, Await, RetryTypeOK, retryVars
  <2>7. CASE Told(t)
    BY <2>7, EndKeeps DEF Told, Success
  <2>8. CASE Published(t)
    BY <2>8, ReleaseKeeps DEF Published
  <2>9. CASE Marked(t)
    BY <1>0, <2>9, EndKeeps DEF Marked, RetryTypeOK, retryVars
  <2>10. CASE LoggedOut(t)
    BY <2>10, ReleaseKeeps DEF LoggedOut
  <2>11. QED
    BY <1>1, <2>1, <2>2, <2>3, <2>4, <2>5, <2>6, <2>7, <2>8, <2>9, <2>10 DEF TaskStep
<1>2. ASSUME NEW t \in Task, Fire(t) PROVE BusyInv'
  BY <1>2 DEF Fire, Suspend, RetryTypeOK, HoldersRetry, KindsKnown, Await
<1>3. ASSUME NEW t \in Task, Refused(t) PROVE BusyInv'
  <2>1. kind[t] \in {"A", "B"}
    BY <1>3 DEF Refused, KindsKnown
  <2>2. Released(t) \in BOOLEAN /\ (Released(t) => inFlight /\ t \notin held)
    BY DEF Released, RetryTypeOK
  <2>3. inFlight' = Released(t) /\ timer' \in {"off", "A", "B"}
    BY <1>3, <2>1, <2>2, ScheduleKeeps DEF Refused
  <2>4. QED
    BY <1>3, <2>2, <2>3, EndKeeps DEF Refused
<1>4. ASSUME NEW t \in Task, OpenFails(t) PROVE BusyInv'
  <2>1. CASE kind[t] # "call"
    <3>1. kind[t] \in {"A", "B"}
      BY <1>4, <2>1 DEF OpenFails, KindsKnown
    <3>2. QED
      BY <1>4, <2>1, <3>1, RetryKeeps DEF OpenFails
  <2>2. CASE kind[t] = "call"
    <3>1. t \notin held
      BY <2>2 DEF HoldersRetry
    <3>2. QED
      BY <1>4, <2>2, <3>1, EndKeeps DEF OpenFails, RetryTypeOK, retryVars
  <2>3. QED
    BY <2>1, <2>2
<1>5. ASSUME NEW t \in Task, Online(t) PROVE BusyInv'
  BY <1>0, <1>5, SuspendKeeps DEF Online, Idle, Await, RetryTypeOK, retryVars
<1>6. ASSUME NEW t \in Task, Reconnect(t) PROVE BusyInv'
  BY <1>0, <1>6, SuspendKeeps DEF Reconnect, OpenStart, Idle, Await, RetryTypeOK, retryVars
<1>7. ASSUME NEW t \in Task, Offline(t) PROVE BusyInv'
  BY <1>7, ReleaseKeeps DEF Offline
<1>8. ASSUME NEW t \in Task, Logout(t) PROVE BusyInv'
  <2>1. CASE Release(t, current)
    BY <2>1, ReleaseKeeps
  <2>2. CASE Suspend(t, "logout", current, "none") /\ UNCHANGED <<retryVars, held>>
    BY <1>0, <1>8, <2>2, SuspendKeeps DEF Logout, Idle, Await, RetryTypeOK, retryVars
  <2>3. QED
    BY <1>8, <2>1, <2>2 DEF Logout
<1>9. ASSUME NEW s \in Sock, Event(s) PROVE BusyInv'
  <2>1. CASE OpenEvent(s)
    <3>1. CASE UNCHANGED taskVars
      BY <2>1, <3>1, FrameKeeps DEF OpenEvent, taskVars, retryVars, RetryTypeOK
    <3>2. ASSUME NEW t \in Task, Idle(t), Suspend(t, "detect", hears[s], "none"), UNCHANGED held
          PROVE BusyInv'
      BY <1>0, <2>1, <3>2, SuspendKeeps DEF OpenEvent, Idle, Await, RetryTypeOK, retryVars
    <3>3. QED
      BY <2>1, <3>1, <3>2 DEF OpenEvent
  <2>2. CASE CloseUnheard(s)
    BY <2>2, FrameKeeps DEF CloseUnheard, taskVars, retryVars, RetryTypeOK
  <2>3. CASE CloseA(s)
    <3>1. inFlight' = inFlight /\ timer' \in {"off", "A", "B"}
      BY <2>3, ScheduleKeeps DEF CloseA, RetryTypeOK
    <3>2. QED
      BY <2>3, <3>1, FrameKeeps DEF CloseA, taskVars, RetryTypeOK
  <2>4. CASE CloseB(s)
    <3>1. CASE Schedule("B", attempt, inFlight) /\ UNCHANGED taskVars
      <4>1. inFlight' = inFlight /\ timer' \in {"off", "A", "B"}
        BY <3>1, ScheduleKeeps DEF RetryTypeOK
      <4>2. QED
        BY <3>1, <4>1, FrameKeeps DEF taskVars, RetryTypeOK
    <3>2. ASSUME NEW t \in Task, Release(t, hears[s]) PROVE BusyInv'
      BY <3>2, ReleaseKeeps
    <3>3. QED
      BY <2>4, <3>1, <3>2 DEF CloseB
  <2>5. CASE CloseC(s)
    <3>1. PICK t \in Task : Idle(t) /\ Suspend(t, "publish", hears[s], "none")
      BY <2>5 DEF CloseC
    <3>2. QED
      BY <1>0, <2>5, <3>1, SuspendKeeps DEF CloseC, Idle, Await, RetryTypeOK, retryVars
  <2>6. QED
    BY <1>9, <2>1, <2>2, <2>3, <2>4, <2>5 DEF Event
<1>10. ASSUME MarkStale PROVE BusyInv'
  <2>1. inFlight' = inFlight /\ timer' \in {"off", "A", "B"}
    BY <1>10, ScheduleKeeps DEF MarkStale, RetryTypeOK
  <2>2. QED
    BY <1>10, <2>1, FrameKeeps DEF MarkStale, taskVars, RetryTypeOK
<1>11. ASSUME Rebind PROVE BusyInv'
  BY <1>11, FrameKeeps DEF Rebind, taskVars, retryVars, RetryTypeOK
<1>12. ASSUME UNCHANGED vars PROVE BusyInv'
  BY <1>12, FrameKeeps DEF vars, taskVars, retryVars, RetryTypeOK
<1>13. QED
  BY <1>1, <1>2, <1>3, <1>4, <1>5, <1>6, <1>7, <1>8, <1>9, <1>10, <1>11, <1>12 DEF Next

-----------------------------------------------------------------------------
(* The mark on the entry of the reconnect controller never outlives the    *)
(* retry that will take it off, so a close is never ignored for good:      *)
(* executeNow and schedule in worker/reconnect.ts.                         *)
THEOREM BusyCorrect == Spec => []BusyMeansRetrying
<1>1. Init => BusyInv
  BY InitBusy
<1>2. BusyInv /\ [Next]_vars => BusyInv'
  BY StepBusy
<1>3. BusyInv => BusyMeansRetrying
  BY DEF BusyInv, HoldersRetry, BusyMeansRetrying
<1>4. QED
  BY <1>1, <1>2, <1>3, PTL DEF Spec

-----------------------------------------------------------------------------
(* Contexts and sockets.                                                   *)

ObjectsTyped ==
    /\ current \in Ctx \cup {NoCtx}
    /\ state \in [Ctx -> State]
    /\ sock \in [Ctx -> Sock \cup {NoSock}]
    /\ terminating \in [Ctx -> BOOLEAN]
    /\ wire \in [Sock -> {"closed", "connecting", "open", "ending"}]
    /\ hears \in [Sock -> Ctx \cup {NoCtx}]
    /\ attempt \in 0..Ladder
    /\ ctx \in [Task -> Ctx \cup {NoCtx}]
    /\ raced \subseteq Ctx

(* Every task but these three works for a context. *)
CtxKnown == \A t \in Task : pc[t] \notin {"idle", "load", "gate"} => ctx[t] \in Ctx

Opening(t, c) == pc[t] = "auth" /\ ctx[t] = c

(* A context on which no two opens have overlapped has at most one open    *)
(* under way and is heard only through the socket it has, none while one   *)
(* is under way.                                                           *)
OpensApart ==
    \A c \in Ctx \ raced :
        /\ \A t, u \in Task : Opening(t, c) /\ Opening(u, c) => t = u
        /\ \A s \in Sock : hears[s] = c => sock[c] = s /\ \A t \in Task : ~Opening(t, c)

ObjectsInv == ObjectsTyped /\ CtxKnown /\ OpensApart

LEMMA TurnTyped ==
    ASSUME ObjectsTyped, NEW c \in Ctx, NEW target \in State, Turn(c, target)
    PROVE  state' \in [Ctx -> State]
BY DEF ObjectsTyped, Turn

LEMMA CleanupTyped ==
    ASSUME ObjectsTyped, NEW c \in Ctx, Cleanup(c)
    PROVE  /\ sock' \in [Ctx -> Sock \cup {NoSock}]
           /\ hears' \in [Sock -> Ctx \cup {NoCtx}]
           /\ \A s \in Sock : hears'[s] \in {hears[s], NoCtx} \ {c}
           /\ \A d \in Ctx \ {c} : sock'[d] = sock[d]
BY DEF ObjectsTyped, Cleanup

LEMMA ScheduleTyped ==
    ASSUME ObjectsTyped, NEW type \in {"A", "B"}, NEW busy \in BOOLEAN,
           Schedule(type, attempt, busy)
    PROVE  attempt' \in 0..Ladder
BY DEF ObjectsTyped, Schedule, WillRetry

(* A step that opens nothing keeps the opens apart if it takes a socket    *)
(* away, or forgets an overlap, only where nobody is heard or opening.     *)
LEMMA ApartKept ==
    ASSUME OpensApart, raced' \subseteq raced,
           \A s \in Sock : hears'[s] \in {hears[s], NoCtx},
           \A t \in Task, c \in Ctx : Opening(t, c)' => Opening(t, c),
           \A c \in Ctx : \/ sock'[c] = sock[c] /\ (c \in raced => c \in raced')
                          \/ /\ \A s \in Sock : hears'[s] # c
                             /\ c \in raced => c \in raced' \/ \A t \in Task : ~Opening(t, c)
    PROVE  OpensApart'
<1> SUFFICES ASSUME NEW c \in Ctx, c \notin raced'
             PROVE  /\ \A t, u \in Task : Opening(t, c)' /\ Opening(u, c)' => t = u
                    /\ \A s \in Sock : hears'[s] = c
                          => sock'[c] = s /\ \A t \in Task : ~Opening(t, c)'
  BY DEF OpensApart
<1>1. CASE c \in raced
  BY <1>1
<1>2. CASE c \notin raced
  BY <1>2, ObjectsAssumption DEF OpensApart
<1> QED
  BY <1>1, <1>2

LEMMA OpenStartKeeps ==
    ASSUME ObjectsInv, pc \in [Task -> Await], NEW t \in Task, NEW c \in Ctx, NEW k,
           OpenStart(t, c, k), state' \in [Ctx -> State], UNCHANGED <<current, wire, attempt>>
    PROVE  ObjectsInv'
<1> DEFINE rivals == {u \in Task \ {t} : pc[u] = "auth" /\ ctx[u] = c}
<1>1. /\ pc' = [pc EXCEPT ![t] = "auth"] /\ ctx' = [ctx EXCEPT ![t] = c]
      /\ terminating' = [terminating EXCEPT ![c] = FALSE]
      /\ raced' = IF rivals = {} THEN raced \ {c} ELSE raced \cup {c}
  BY DEF OpenStart, Suspend
<1>2. /\ sock' \in [Ctx -> Sock \cup {NoSock}]
      /\ hears' \in [Sock -> Ctx \cup {NoCtx}]
      /\ \A s \in Sock : hears'[s] \in {hears[s], NoCtx} \ {c}
      /\ \A d \in Ctx \ {c} : sock'[d] = sock[d]
  BY CleanupTyped DEF OpenStart, ObjectsInv
<1>3. ObjectsTyped'
  BY <1>1, <1>2 DEF ObjectsInv, ObjectsTyped
<1>4. CtxKnown'
  BY <1>1 DEF ObjectsInv, ObjectsTyped, CtxKnown
<1>5. \A u \in Task : u # t => \A d \in Ctx : Opening(u, d)' <=> Opening(u, d)
  BY <1>1 DEF ObjectsInv, ObjectsTyped, Opening
<1>6. \A d \in Ctx : Opening(t, d)' => d = c
  BY <1>1 DEF ObjectsInv, ObjectsTyped, Opening
<1>7. c \notin raced' => \A u \in Task : u # t => ~Opening(u, c)
  BY <1>1 DEF Opening
<1>8. ASSUME NEW d \in Ctx, d \notin raced'
      PROVE  /\ \A u, v \in Task : Opening(u, d)' /\ Opening(v, d)' => u = v
             /\ \A s \in Sock : hears'[s] = d
                   => sock'[d] = s /\ \A u \in Task : ~Opening(u, d)'
  <2>1. CASE d = c
    BY <1>2, <1>5, <1>7, <1>8, <2>1
  <2>2. CASE d # c
    <3>1. d \notin raced
      BY <1>1, <1>8, <2>2
    <3>2. \A u \in Task : Opening(u, d)' => Opening(u, d)
      BY <1>5, <1>6, <2>2
    <3>3. \A s \in Sock : hears'[s] = d => hears[s] = d
      BY <1>2, ObjectsAssumption
    <3> QED
      BY <1>2, <2>2, <3>1, <3>2, <3>3 DEF ObjectsInv, OpensApart
  <2> QED
    BY <2>1, <2>2
<1> QED
  BY <1>3, <1>4, <1>8 DEF ObjectsInv, OpensApart

LEMMA OpenedKeeps ==
    ASSUME ObjectsInv, BusyInv, NEW t \in Task, Opened(t) PROVE ObjectsInv'
<1> DEFINE c == ctx[t]
<1>1. pc[t] = "auth" /\ c \in Ctx /\ pc \in [Task -> Await]
  BY DEF Opened, ObjectsInv, CtxKnown, BusyInv, RetryTypeOK
<1>2. PICK s \in Sock : /\ sock' = [sock EXCEPT ![c] = s]
                        /\ wire' = [wire EXCEPT ![s] = "connecting"]
                        /\ hears' = [hears EXCEPT ![s] = c]
  BY DEF Opened
<1>3. pc' = [pc EXCEPT ![t] = "idle"] /\ ctx' = [ctx EXCEPT ![t] = NoCtx]
  BY DEF Opened, End, Suspend
<1>4. state' \in [Ctx -> State] /\ attempt' \in 0..Ladder
  BY <1>1, TurnTyped DEF Opened, Success, retryVars, ObjectsInv, ObjectsTyped, State
<1>5. ObjectsTyped'
  BY <1>1, <1>2, <1>3, <1>4 DEF Opened, ObjectsInv, ObjectsTyped
<1>6. CtxKnown'
  BY <1>1, <1>3 DEF ObjectsInv, ObjectsTyped, CtxKnown
<1>7. \A u \in Task, d \in Ctx : Opening(u, d)' <=> Opening(u, d) /\ u # t
  BY <1>1, <1>3 DEF ObjectsInv, ObjectsTyped, Opening
<1>8. Opening(t, c) /\ raced' = raced
  BY <1>1 DEF Opening, Opened
<1>9. ASSUME NEW d \in Ctx, d \notin raced
      PROVE  /\ \A u, v \in Task : Opening(u, d)' /\ Opening(v, d)' => u = v
             /\ \A x \in Sock : hears'[x] = d
                   => sock'[d] = x /\ \A u \in Task : ~Opening(u, d)'
  <2>1. /\ \A u, v \in Task : Opening(u, d) /\ Opening(v, d) => u = v
        /\ \A x \in Sock : hears[x] = d => sock[d] = x /\ \A u \in Task : ~Opening(u, d)
    BY <1>9 DEF ObjectsInv, OpensApart
  <2>2. \A x \in Sock : hears'[x] = IF x = s THEN c ELSE hears[x]
    BY <1>2 DEF ObjectsInv, ObjectsTyped
  <2>3. sock'[d] = IF d = c THEN s ELSE sock[d]
    BY <1>2 DEF ObjectsInv, ObjectsTyped
  <2> HIDE DEF c
  <2> QED
    BY <1>7, <1>8, <2>1, <2>2, <2>3
<1> QED
  BY <1>5, <1>6, <1>8, <1>9 DEF ObjectsInv, OpensApart

(* The other steps of a task: it waits again, or is done. *)
LEMMA SuspendApart ==
    ASSUME ObjectsInv, pc \in [Task -> Await], NEW t \in Task, NEW s \in Await \ {"auth"},
           NEW c \in Ctx \cup {NoCtx}, NEW k, Suspend(t, s, c, k),
           s \notin {"idle", "load", "gate"} => c \in Ctx
    PROVE  /\ ctx' \in [Task -> Ctx \cup {NoCtx}]
           /\ CtxKnown'
           /\ \A u \in Task, d \in Ctx : Opening(u, d)' => Opening(u, d)
BY DEF ObjectsInv, ObjectsTyped, CtxKnown, Opening, Suspend, Await

LEMMA ReleaseObjects ==
    ASSUME ObjectsInv, pc \in [Task -> Await], NEW t \in Task, NEW c \in Ctx, Release(t, c),
           state' \in [Ctx -> State], terminating' \in [Ctx -> BOOLEAN],
           wire' \in [Sock -> {"closed", "connecting", "open", "ending"}],
           UNCHANGED <<current, raced>>
    PROVE  ObjectsInv'
<1>1. /\ sock' \in [Ctx -> Sock \cup {NoSock}]
      /\ hears' \in [Sock -> Ctx \cup {NoCtx}]
      /\ \A s \in Sock : hears'[s] \in {hears[s], NoCtx} \ {c}
      /\ \A d \in Ctx \ {c} : sock'[d] = sock[d]
  BY CleanupTyped DEF Release, ObjectsInv
<1>2. /\ ctx' \in [Task -> Ctx \cup {NoCtx}]
      /\ CtxKnown'
      /\ \A u \in Task, d \in Ctx : Opening(u, d)' => Opening(u, d)
  BY SuspendApart DEF Release, Await
<1>3. OpensApart'
  BY <1>1, <1>2, ApartKept DEF ObjectsInv
<1>4. attempt' \in 0..Ladder
  BY DEF Release
<1> QED
  BY <1>1, <1>2, <1>3, <1>4 DEF ObjectsInv, ObjectsTyped

(* A step that changes no socket a context has, and hears no more than     *)
(* before.                                                                 *)
LEMMA FrameObjects ==
    ASSUME ObjectsInv, ObjectsTyped', CtxKnown', UNCHANGED <<sock, raced>>,
           \A s \in Sock : hears'[s] \in {hears[s], NoCtx},
           \A u \in Task, d \in Ctx : Opening(u, d)' => Opening(u, d)
    PROVE  ObjectsInv'
BY ApartKept DEF ObjectsInv

LEMMA RetryObjects ==
    ASSUME ObjectsInv, BusyInv, NEW t \in Task, kind[t] \in {"A", "B"}, Retry(t),
           UNCHANGED <<current, state, terminating, wire, raced>>
    PROVE  ObjectsInv'
<1>1. pc \in [Task -> Await] /\ Released(t) \in BOOLEAN
  BY DEF BusyInv, RetryTypeOK, Released
<1>2. CASE current # NoCtx /\ Release(t, current)
  BY <1>1, <1>2, ReleaseObjects DEF ObjectsInv, ObjectsTyped
<1>3. CASE Schedule(kind[t], attempt, Released(t)) /\ End(t) /\ UNCHANGED <<hears, sock>>
  <2>1. attempt' \in 0..Ladder
    BY <1>1, <1>3, ScheduleTyped DEF ObjectsInv
  <2>2. /\ ctx' \in [Task -> Ctx \cup {NoCtx}]
        /\ CtxKnown'
        /\ \A u \in Task, d \in Ctx : Opening(u, d)' => Opening(u, d)
    BY <1>1, <1>3, SuspendApart DEF End, Await
  <2>3. ObjectsTyped'
    BY <1>3, <2>1, <2>2 DEF ObjectsInv, ObjectsTyped
  <2> QED
    BY <1>3, <2>2, <2>3, FrameObjects
<1> QED
  BY <1>2, <1>3 DEF Retry

LEMMA InitObjects == Init => ObjectsInv
BY DEF Init, ObjectsInv, ObjectsTyped, CtxKnown, OpensApart, Opening, State

LEMMA TaskObjects ==
    ASSUME ObjectsInv, BusyInv, NEW t \in Task, TaskStep(t) \/ Refused(t) \/ OpenFails(t)
    PROVE  ObjectsInv'
<1> USE DEF Await
<1>1. pc \in [Task -> Await]
  BY DEF BusyInv, RetryTypeOK
<1>2. CASE Loaded(t)
  <2>1. PICK c \in Ctx :
          /\ Unused(c)
          /\ current' = c
          /\ \E st \in {"OFFLINE", "IMPORTED"} : state' = [state EXCEPT ![c] = st]
          /\ sock' = [sock EXCEPT ![c] = NoSock]
          /\ terminating' = [terminating EXCEPT ![c] = FALSE]
          /\ raced' = raced \ {c}
          /\ Suspend(t, "clear", c, "call")
    BY <1>2 DEF Loaded
  <2>2. /\ ctx' \in [Task -> Ctx \cup {NoCtx}]
        /\ CtxKnown'
        /\ \A u \in Task, d \in Ctx : Opening(u, d)' => Opening(u, d)
    BY <1>1, <2>1, SuspendApart
  <2>3. UNCHANGED <<wire, hears, attempt>>
    BY <1>2 DEF Loaded, sockVars, retryVars
  <2>4. ObjectsTyped'
    BY <2>1, <2>2, <2>3 DEF ObjectsInv, ObjectsTyped, State
  <2>5. \A u \in Task : ~Opening(u, c)
    BY <2>1 DEF Unused, Opening
  <2>6. \A s \in Sock : hears'[s] # c
    BY <2>1, <2>3 DEF Unused
  <2>7. \A d \in Ctx \ {c} : sock'[d] = sock[d] /\ (d \in raced => d \in raced')
    BY <2>1 DEF ObjectsInv, ObjectsTyped
  <2>8. OpensApart'
    BY <2>1, <2>2, <2>3, <2>5, <2>6, <2>7, ApartKept DEF ObjectsInv
  <2> QED
    BY <2>2, <2>4, <2>8 DEF ObjectsInv
<1>3. CASE Cleared(t)
  <2>1. ctx[t] \in Ctx
    BY <1>3 DEF Cleared, ObjectsInv, CtxKnown
  <2> QED
    BY <1>1, <1>3, <2>1, OpenStartKeeps DEF Cleared, retryVars, ObjectsInv, ObjectsTyped
<1>4. CASE Opened(t)
  BY <1>4, OpenedKeeps
<1>5. CASE Granted(t)
  <2>1. current \in Ctx
    BY <1>5 DEF Granted, ObjectsInv, ObjectsTyped
  <2>2. state' \in [Ctx -> State]
    BY <1>5, <2>1, TurnTyped DEF Granted, ObjectsInv, State
  <2> QED
    BY <1>1, <1>5, <2>1, <2>2, OpenStartKeeps DEF Granted, retryVars
<1>6. CASE Orphaned(t)
  BY <1>6, RetryObjects DEF Orphaned, BusyInv, KindsKnown
<1>7. CASE Detected(t)
  <2>1. ctx[t] \in Ctx
    BY <1>7 DEF Detected, ObjectsInv, CtxKnown
  <2>2. state' \in [Ctx -> State]
    BY <1>7, <2>1, TurnTyped DEF Detected, ObjectsInv, State
  <2>3. /\ ctx' \in [Task -> Ctx \cup {NoCtx}]
        /\ CtxKnown'
        /\ \A u \in Task, d \in Ctx : Opening(u, d)' => Opening(u, d)
    BY <1>1, <1>7, <2>1, SuspendApart DEF Detected
  <2>4. ObjectsTyped'
    BY <1>7, <2>2, <2>3 DEF Detected, sockVars, retryVars, ObjectsInv, ObjectsTyped
  <2> QED
    BY <1>7, <2>3, <2>4, FrameObjects DEF Detected, sockVars
<1>8. CASE Told(t) \/ Marked(t) \/ Refused(t)
  <2>1. attempt' \in 0..Ladder
    <3>1. CASE Refused(t)
      <4>1. kind[t] \in {"A", "B"} /\ Released(t) \in BOOLEAN
        BY <3>1 DEF Refused, BusyInv, KindsKnown, RetryTypeOK, Released
      <4> QED
        BY <3>1, <4>1, ScheduleTyped DEF Refused, ObjectsInv
    <3>2. CASE Told(t) \/ Marked(t)
      BY <3>2 DEF Told, Marked, Success, retryVars, ObjectsInv, ObjectsTyped
    <3> QED
      BY <1>8, <3>1, <3>2
  <2>2. /\ ctx' \in [Task -> Ctx \cup {NoCtx}]
        /\ CtxKnown'
        /\ \A u \in Task, d \in Ctx : Opening(u, d)' => Opening(u, d)
    BY <1>1, <1>8, SuspendApart DEF Told, Marked, Refused, End
  <2>3. UNCHANGED <<state, sock, terminating, sockVars, raced>> /\ current' \in {current, NoCtx}
    BY <1>8 DEF Told, Marked, Refused, ctxVars
  <2>4. ObjectsTyped'
    BY <2>1, <2>2, <2>3 DEF ObjectsInv, ObjectsTyped, sockVars
  <2> QED
    BY <2>2, <2>3, <2>4, FrameObjects DEF sockVars
<1>9. CASE Published(t)
  <2>1. ctx[t] \in Ctx
    BY <1>9 DEF Published, ObjectsInv, CtxKnown
  <2> QED
    BY <1>1, <1>9, <2>1, ReleaseObjects DEF Published, ObjectsInv, ObjectsTyped
<1>10. CASE LoggedOut(t)
  <2>1. ctx[t] \in Ctx
    BY <1>10 DEF LoggedOut, ObjectsInv, CtxKnown
  <2>2. state' \in [Ctx -> State]
    BY <1>10, <2>1, TurnTyped DEF LoggedOut, ObjectsInv, State
  <2> QED
    BY <1>1, <1>10, <2>1, <2>2, ReleaseObjects DEF LoggedOut, ObjectsInv, ObjectsTyped
<1>11. CASE OpenFails(t)
  <2>1. CASE kind[t] # "call" /\ Retry(t)
    BY <1>11, <2>1, RetryObjects DEF OpenFails, BusyInv, KindsKnown
  <2>2. CASE End(t) /\ UNCHANGED <<retryVars, hears, sock>>
    <3>1. /\ ctx' \in [Task -> Ctx \cup {NoCtx}]
          /\ CtxKnown'
          /\ \A u \in Task, d \in Ctx : Opening(u, d)' => Opening(u, d)
      BY <1>1, <2>2, SuspendApart DEF End
    <3>2. ObjectsTyped'
      BY <1>11, <2>2, <3>1 DEF OpenFails, retryVars, ObjectsInv, ObjectsTyped
    <3> QED
      BY <1>11, <2>2, <3>1, <3>2, FrameObjects DEF OpenFails
  <2> QED
    BY <1>11, <2>1, <2>2 DEF OpenFails
<1> QED
  BY <1>2, <1>3, <1>4, <1>5, <1>6, <1>7, <1>8, <1>9, <1>10, <1>11 DEF TaskStep

LEMMA CallObjects ==
    ASSUME ObjectsInv, BusyInv, NEW t \in Task,
           Fire(t) \/ Online(t) \/ Reconnect(t) \/ Offline(t) \/ Logout(t)
    PROVE  ObjectsInv'
<1> USE DEF Await
<1>1. pc \in [Task -> Await]
  BY DEF BusyInv, RetryTypeOK
<1>2. CASE Fire(t) \/ Online(t)
  <2>1. /\ ctx' \in [Task -> Ctx \cup {NoCtx}]
        /\ CtxKnown'
        /\ \A u \in Task, d \in Ctx : Opening(u, d)' => Opening(u, d)
    <3>1. CASE Fire(t)
      BY <1>1, <3>1, SuspendApart DEF Fire
    <3>2. CASE Online(t)
      BY <1>1, <3>2, SuspendApart DEF Online, ObjectsInv, ObjectsTyped
    <3> QED
      BY <1>2, <3>1, <3>2
  <2>2. UNCHANGED <<ctxVars, sockVars, attempt, raced>>
    BY <1>2 DEF Fire, Online, retryVars
  <2>3. ObjectsTyped'
    BY <2>1, <2>2 DEF ObjectsInv, ObjectsTyped, ctxVars, sockVars
  <2> QED
    BY <2>1, <2>2, <2>3, FrameObjects DEF ctxVars, sockVars
<1>3. CASE Reconnect(t)
  <2>1. current \in Ctx
    BY <1>3 DEF Reconnect, ObjectsInv, ObjectsTyped
  <2>2. state' \in [Ctx -> State]
    BY <1>3, <2>1, TurnTyped DEF Reconnect, ObjectsInv, State
  <2> QED
    BY <1>1, <1>3, <2>1, <2>2, OpenStartKeeps DEF Reconnect, retryVars
<1>4. CASE Offline(t)
  <2>1. current \in Ctx
    BY <1>4 DEF Offline, ObjectsInv, ObjectsTyped
  <2>2. state' \in [Ctx -> State]
    BY <1>4, <2>1, TurnTyped DEF Offline, ObjectsInv, State
  <2>3. /\ terminating' \in [Ctx -> BOOLEAN]
        /\ wire' \in [Sock -> {"closed", "connecting", "open", "ending"}]
    BY <1>4 DEF Offline, Ended, ObjectsInv, ObjectsTyped
  <2> QED
    BY <1>1, <1>4, <2>1, <2>2, <2>3, ReleaseObjects DEF Offline
<1>5. CASE Logout(t)
  <2>1. current \in Ctx /\ terminating' \in [Ctx -> BOOLEAN]
    BY <1>5 DEF Logout, ObjectsInv, ObjectsTyped
  <2>2. CASE /\ Suspend(t, "logout", current, "none")
             /\ UNCHANGED <<state, sock, hears, retryVars, held>>
    <3>1. /\ ctx' \in [Task -> Ctx \cup {NoCtx}]
          /\ CtxKnown'
          /\ \A u \in Task, d \in Ctx : Opening(u, d)' => Opening(u, d)
      BY <1>1, <2>1, <2>2, SuspendApart
    <3>2. ObjectsTyped'
      BY <1>5, <2>1, <2>2, <3>1 DEF Logout, retryVars, ObjectsInv, ObjectsTyped
    <3> QED
      BY <1>5, <2>2, <3>1, <3>2, FrameObjects DEF Logout
  <2>3. CASE Turn(current, "LOGGED_OUT") /\ Release(t, current)
    <3>1. state' \in [Ctx -> State]
      BY <2>1, <2>3, TurnTyped DEF ObjectsInv, State
    <3> QED
      BY <1>1, <1>5, <2>1, <2>3, <3>1, ReleaseObjects DEF Logout, ObjectsInv, ObjectsTyped
  <2> QED
    BY <1>5, <2>2, <2>3 DEF Logout
<1> QED
  BY <1>2, <1>3, <1>4, <1>5

(* What a close that is heard does to the state of its context. *)
LEMMA HeardTyped ==
    ASSUME ObjectsInv, NEW s \in Sock, Listening(s)
    PROVE  hears[s] \in Ctx
BY DEF ObjectsInv, ObjectsTyped, Listening

LEMMA EventObjects ==
    ASSUME ObjectsInv, BusyInv, NEW s \in Sock, Event(s) PROVE ObjectsInv'
<1> USE DEF Await
<1>1. pc \in [Task -> Await] /\ inFlight \in BOOLEAN
  BY DEF BusyInv, RetryTypeOK
<1>2. wire' \in [Sock -> {"closed", "connecting", "open", "ending"}]
  BY DEF Event, OpenEvent, CloseUnheard, CloseA, CloseB, CloseC, Closing, ObjectsInv, ObjectsTyped
<1>3. ASSUME Forget(s)
      PROVE  /\ hears' \in [Sock -> Ctx \cup {NoCtx}]
             /\ \A x \in Sock : hears'[x] \in {hears[x], NoCtx}
  BY <1>3 DEF Forget, ObjectsInv, ObjectsTyped
<1>4. ASSUME UNCHANGED taskVars
      PROVE  /\ ctx' \in [Task -> Ctx \cup {NoCtx}]
             /\ CtxKnown'
             /\ \A u \in Task, d \in Ctx : Opening(u, d)' => Opening(u, d)
  BY <1>4 DEF taskVars, ObjectsInv, ObjectsTyped, CtxKnown, Opening
<1>5. CASE OpenEvent(s)
  <2>1. /\ ctx' \in [Task -> Ctx \cup {NoCtx}]
        /\ CtxKnown'
        /\ \A u \in Task, d \in Ctx : Opening(u, d)' => Opening(u, d)
    BY <1>1, <1>4, <1>5, HeardTyped, SuspendApart DEF OpenEvent
  <2>2. UNCHANGED <<ctxVars, hears, attempt, raced>>
    BY <1>5 DEF OpenEvent, retryVars
  <2>3. ObjectsTyped'
    BY <1>2, <2>1, <2>2 DEF ObjectsInv, ObjectsTyped, ctxVars
  <2> QED
    BY <2>1, <2>2, <2>3, FrameObjects DEF ctxVars
<1>6. CASE CloseUnheard(s)
  <2>1. ObjectsTyped'
    BY <1>2, <1>3, <1>4, <1>6 DEF CloseUnheard, ObjectsInv, ObjectsTyped, ctxVars, retryVars
  <2> QED
    BY <1>3, <1>4, <1>6, <2>1, FrameObjects DEF CloseUnheard, ctxVars
<1>7. CASE CloseA(s)
  <2>1. state' \in [Ctx -> State] /\ attempt' \in 0..Ladder
    BY <1>1, <1>7, HeardTyped, TurnTyped, ScheduleTyped DEF CloseA, ObjectsInv, State
  <2>2. ObjectsTyped'
    BY <1>2, <1>3, <1>4, <1>7, <2>1 DEF CloseA, ObjectsInv, ObjectsTyped
  <2> QED
    BY <1>3, <1>4, <1>7, <2>2, FrameObjects DEF CloseA
<1>8. CASE CloseB(s)
  <2>1. state' \in [Ctx -> State]
    BY <1>8, HeardTyped, TurnTyped DEF CloseB, ObjectsInv, State
  <2>2. CASE Schedule("B", attempt, inFlight) /\ Forget(s) /\ UNCHANGED <<sock, taskVars>>
    <3>1. attempt' \in 0..Ladder
      BY <1>1, <2>2, ScheduleTyped DEF ObjectsInv
    <3>2. UNCHANGED taskVars
      BY <2>2 DEF taskVars
    <3>3. ObjectsTyped'
      BY <1>2, <1>3, <1>4, <1>8, <2>1, <2>2, <3>1, <3>2 DEF CloseB, ObjectsInv, ObjectsTyped
    <3> QED
      BY <1>3, <1>4, <1>8, <2>2, <3>2, <3>3, FrameObjects DEF CloseB
  <2>3. ASSUME NEW t \in Task, Release(t, hears[s]) PROVE ObjectsInv'
    BY <1>1, <1>2, <1>8, <2>1, <2>3, HeardTyped, ReleaseObjects
       DEF CloseB, ObjectsInv, ObjectsTyped
  <2> QED
    BY <1>8, <2>2, <2>3 DEF CloseB
<1>9. CASE CloseC(s)
  <2>1. PICK t \in Task : Idle(t) /\ Suspend(t, "publish", hears[s], "none")
    BY <1>9 DEF CloseC
  <2>2. /\ ctx' \in [Task -> Ctx \cup {NoCtx}]
        /\ CtxKnown'
        /\ \A u \in Task, d \in Ctx : Opening(u, d)' => Opening(u, d)
    BY <1>1, <1>9, <2>1, HeardTyped, SuspendApart DEF CloseC
  <2>3. state' \in [Ctx -> State]
    BY <1>9, HeardTyped, TurnTyped DEF CloseC, ObjectsInv, State
  <2>4. ObjectsTyped'
    BY <1>2, <1>3, <1>9, <2>2, <2>3 DEF CloseC, ObjectsInv, ObjectsTyped, retryVars
  <2> QED
    BY <1>3, <1>9, <2>2, <2>4, FrameObjects DEF CloseC
<1> QED
  BY <1>5, <1>6, <1>7, <1>8, <1>9 DEF Event

LEMMA StepObjects == ObjectsInv /\ BusyInv /\ [Next]_vars => ObjectsInv'
<1> SUFFICES ASSUME ObjectsInv, BusyInv, [Next]_vars PROVE ObjectsInv'
  OBVIOUS
<1>1. ASSUME UNCHANGED <<taskVars, hears, sock, raced>>, ObjectsTyped' PROVE ObjectsInv'
  <2>1. CtxKnown' /\ \A u \in Task, d \in Ctx : Opening(u, d)' => Opening(u, d)
    BY <1>1 DEF taskVars, ObjectsInv, CtxKnown, Opening
  <2> QED
    BY <1>1, <2>1, FrameObjects
<1>2. CASE MarkStale
  <2>1. current \in Ctx /\ inFlight \in BOOLEAN
    BY <1>2 DEF MarkStale, ObjectsInv, ObjectsTyped, BusyInv, RetryTypeOK
  <2>2. state' \in [Ctx -> State] /\ attempt' \in 0..Ladder
    BY <1>2, <2>1, TurnTyped, ScheduleTyped DEF MarkStale, ObjectsInv, State
  <2>3. ObjectsTyped'
    BY <1>2, <2>2 DEF MarkStale, ObjectsInv, ObjectsTyped, taskVars
  <2> QED
    BY <1>1, <1>2, <2>3 DEF MarkStale
<1>3. CASE Rebind
  <2>1. ObjectsTyped'
    BY <1>3 DEF Rebind, ObjectsInv, ObjectsTyped, ctxVars, retryVars, taskVars
  <2> QED
    BY <1>1, <1>3, <2>1 DEF Rebind, ctxVars
<1>4. CASE UNCHANGED vars
  <2>1. ObjectsTyped'
    BY <1>4 DEF vars, ObjectsInv, ObjectsTyped, ctxVars, sockVars, retryVars, taskVars
  <2> QED
    BY <1>1, <1>4, <2>1 DEF vars, ctxVars, sockVars
<1> QED
  BY <1>2, <1>3, <1>4, TaskObjects, CallObjects, EventObjects DEF Next

LEMMA AlwaysObjects == Spec => [](ObjectsInv /\ BusyInv)
<1>1. Init => ObjectsInv /\ BusyInv
  BY InitObjects, InitBusy
<1>2. ObjectsInv /\ BusyInv /\ [Next]_vars => (ObjectsInv /\ BusyInv)'
  BY StepObjects, StepBusy
<1> QED
  BY <1>1, <1>2, PTL DEF Spec

(* Contexts, sockets, ladder and tasks keep their types: in particular the *)
(* attempt counter stays on the ladder, and no handler is left to work for *)
(* no context (requireCtx, worker/account-manager.ts).                     *)
THEOREM SessionTypeCorrect == Spec => []TypeOK
<1>1. ObjectsInv /\ BusyInv => TypeOK
  BY DEF ObjectsInv, ObjectsTyped, BusyInv, RetryTypeOK, TypeOK
<1> QED
  BY <1>1, AlwaysObjects, PTL

(* Whatever calls, retries, closes and failures interleave at the awaits,  *)
(* a socket is heard only as the socket its context has, except on a       *)
(* context on which two opens overlap (cleanupSocket and openSocket in     *)
(* worker/account-manager.ts).                                             *)
THEOREM DroppedAreSilent == Spec => []DroppedSocketsAreSilent
<1>1. ObjectsInv => DroppedSocketsAreSilent
  BY DEF ObjectsInv, ObjectsTyped, OpensApart, Listening, DroppedSocketsAreSilent
<1> QED
  BY <1>1, AlwaysObjects, PTL
=============================================================================
