------------------------------ MODULE Session ------------------------------
(***************************************************************************)
(* One account on one worker: the account manager                          *)
(* (worker/account-manager.ts) with its state machine, the reconnect       *)
(* controller (worker/reconnect.ts), the stale detector and the sockets.   *)
(*                                                                         *)
(* Node runs one piece of code at a time, up to its next await.  A task is *)
(* an invocation suspended at an await: of an API call, of a reconnect     *)
(* timer or of a socket's event handler.                                   *)
(*                                                                         *)
(*   online      (load ->)? clear -> auth                                  *)
(*   reconnect   auth                      (requestReconnect)              *)
(*   retry       gate -> auth              (executeNow)                    *)
(*   offline     mark        logout  logout -> mark                        *)
(*   handlers    open: detect -> told      401, 403, ...: publish -> mark  *)
(*                                                                         *)
(* A socket belongs to the context it was opened for, and its events are   *)
(* heard as long as that context has not run its detachers.  The pairing   *)
(* timeout and the metrics are not part of the model; the states PAIRING,  *)
(* PROXY_FAILED and RATE_LIMITED are not set by the code below.            *)
(***************************************************************************)
EXTENDS Naturals, FiniteSets

CONSTANTS
    Ctx, NoCtx,     \* AccountContext objects, a bound on those in use at once
    Sock, NoSock,   \* WASocket objects, likewise
    Task,           \* invocations suspended at an await, a bound: an event or
                    \* a call waits for one that is idle
    Ladder,         \* COOLDOWN_AFTER_ATTEMPTS (4 in the code)
    Calls,          \* API operations that are used
    Failures        \* "refuse": the gate gives no token; "throw": openSocket fails

ASSUME ObjectsAssumption == NoCtx \notin Ctx /\ NoSock \notin Sock
ASSUME LadderAssumption == Ladder \in Nat \ {0}
ASSUME CallsAssumption == Calls \subseteq {"online", "offline", "logout", "reconnect", "rebind"}
ASSUME FailuresAssumption == Failures \subseteq {"refuse", "throw"}

VARIABLES
    current,      \* the context in the accounts map
    state,        \* StateMachine.current of each context
    sock,         \* ctx.sock
    terminating,  \* ctx.terminating
    wire,         \* the WebSocket; "ending" from end() to the close event
    hears,        \* the context whose listeners are attached to a socket
    attempt, timer, inFlight,   \* the entry of the reconnect controller
    pc, ctx, kind,              \* each task: its await, context, operation
    held,         \* does a retry task hold the entry that is in the map?
    raced         \* contexts on which two opens have overlapped

ctxVars == <<current, state, sock, terminating>>
sockVars == <<wire, hears>>
retryVars == <<attempt, timer, inFlight>>
taskVars == <<pc, ctx, kind, held>>
vars == <<ctxVars, sockVars, retryVars, taskVars, raced>>

State == {"IMPORTED", "VERIFYING", "ONLINE", "STALE", "OFFLINE", "RECONNECTING",
          "NEED_REAUTH", "LOGGED_OUT"}
Terminal == {"NEED_REAUTH", "LOGGED_OUT"}
Await == {"idle", "load", "clear", "auth", "gate", "detect", "told", "publish",
          "logout", "mark"}

TypeOK ==
    /\ current \in Ctx \cup {NoCtx}
    /\ state \in [Ctx -> State]
    /\ sock \in [Ctx -> Sock \cup {NoSock}]
    /\ terminating \in [Ctx -> BOOLEAN]
    /\ wire \in [Sock -> {"closed", "connecting", "open", "ending"}]
    /\ hears \in [Sock -> Ctx \cup {NoCtx}]
    /\ attempt \in 0..Ladder
    /\ timer \in {"off", "A", "B"}
    /\ inFlight \in BOOLEAN
    /\ pc \in [Task -> Await]
    /\ ctx \in [Task -> Ctx \cup {NoCtx}]
    /\ kind \in [Task -> {"none", "call", "A", "B"}]
    /\ held \subseteq Task
    /\ raced \subseteq Ctx

Init ==
    /\ current = NoCtx
    /\ state = [c \in Ctx |-> "OFFLINE"]
    /\ sock = [c \in Ctx |-> NoSock]
    /\ terminating = [c \in Ctx |-> FALSE]
    /\ wire = [s \in Sock |-> "closed"]
    /\ hears = [s \in Sock |-> NoCtx]
    /\ attempt = 0 /\ timer = "off" /\ inFlight = FALSE
    /\ pc = [t \in Task |-> "idle"]
    /\ ctx = [t \in Task |-> NoCtx]
    /\ kind = [t \in Task |-> "none"]
    /\ held = {}
    /\ raced = {}

-----------------------------------------------------------------------------
(* VALID_TRANSITIONS, as far as these states go *)
Follows(from) ==
    CASE from = "IMPORTED"     -> {"VERIFYING", "OFFLINE", "NEED_REAUTH"}
      [] from = "VERIFYING"    -> {"ONLINE", "RECONNECTING", "OFFLINE", "NEED_REAUTH"}
      [] from = "ONLINE"       -> {"STALE", "RECONNECTING", "OFFLINE", "NEED_REAUTH", "LOGGED_OUT"}
      [] from = "STALE"        -> {"RECONNECTING"}
      [] from = "OFFLINE"      -> {"VERIFYING", "RECONNECTING", "LOGGED_OUT", "NEED_REAUTH"}
      [] from = "RECONNECTING" -> {"VERIFYING", "ONLINE", "OFFLINE", "NEED_REAUTH"}
      [] from = "NEED_REAUTH"  -> {"LOGGED_OUT"}
      [] from = "LOGGED_OUT"   -> {"IMPORTED"}

(* publishStateChange: a transition that is not in the table is logged.    *)
Turn(c, target) ==
    state' = [state EXCEPT ![c] = IF target \in Follows(@) THEN target ELSE @]

Idle(t) == pc[t] = "idle"

(* Task t goes on to the await s, on behalf of context c. *)
Suspend(t, s, c, k) ==
    /\ pc' = [pc EXCEPT ![t] = s]
    /\ ctx' = [ctx EXCEPT ![t] = c]
    /\ kind' = [kind EXCEPT ![t] = k]

End(t) == Suspend(t, "idle", NoCtx, "none") /\ held' = held \ {t}

(* Mutant: the socket is dropped with its listeners on. *)
CleanupKeepsListeners(c) ==
    /\ UNCHANGED hears
    /\ sock' = [sock EXCEPT ![c] = NoSock]

(* cleanupSocket: run the detachers, drop the socket. *)
Cleanup(c) ==
    /\ hears' = [s \in Sock |-> IF hears[s] = c THEN NoCtx ELSE hears[s]]
    /\ sock' = [sock EXCEPT ![c] = NoSock]

-----------------------------------------------------------------------------
(* The reconnect controller.                                               *)

(* Mutant: one more attempt than there are rungs. *)
WillRetryOnceMore(type, n, busy) == busy \/ type = "A" \/ n <= Ladder

(* schedule, on the given attempt count and flag *)
WillRetry(type, n, busy) == busy \/ type = "A" \/ n < Ladder

Schedule(type, n, busy) ==
    /\ inFlight' = busy
    /\ IF busy \/ ~WillRetry(type, n, busy)
       THEN attempt' = n /\ UNCHANGED timer
       ELSE /\ timer' = type
            /\ attempt' = IF type = "A" THEN 0 ELSE n + 1

(* onSuccess; cancel also lets go of the entry. *)
Success == attempt' = 0 /\ inFlight' = FALSE /\ timer' = "off"

(* Mutant: a retry that fails leaves the mark. *)
ReleasedNever(t) == inFlight

(* What a retry does with the entry it holds, if that is still in the map. *)
Released(t) == IF t \in held THEN FALSE ELSE inFlight

-----------------------------------------------------------------------------
(* openSocket up to its first await, by a task at the await it leaves.     *)

OpenStart(t, c, k) ==
    /\ Cleanup(c)
    /\ terminating' = [terminating EXCEPT ![c] = FALSE]
    /\ Suspend(t, "auth", c, k)
    /\ LET rivals == {u \in Task \ {t} : pc[u] = "auth" /\ ctx[u] = c}
       IN  raced' = IF rivals = {} THEN raced \ {c} ELSE raced \cup {c}

Online(t) ==
    /\ "online" \in Calls
    /\ Idle(t)
    /\ IF current = NoCtx
       THEN Suspend(t, "load", NoCtx, "call")
       ELSE Suspend(t, "clear", current, "call")
    /\ UNCHANGED <<ctxVars, sockVars, retryVars, held, raced>>

(* A context nothing refers to any more stands for a new one. *)
Unused(c) ==
    /\ current # c
    /\ \A t \in Task : ctx[t] # c
    /\ \A s \in Sock : hears[s] # c

(* createContext: whatever is in the map by now is replaced. *)
Loaded(t) ==
    /\ pc[t] = "load"
    /\ \E c \in Ctx :
          /\ Unused(c)
          /\ current' = c
          /\ \E st \in {"OFFLINE", "IMPORTED"} : state' = [state EXCEPT ![c] = st]
          /\ sock' = [sock EXCEPT ![c] = NoSock]
          /\ terminating' = [terminating EXCEPT ![c] = FALSE]
          /\ raced' = raced \ {c}
          /\ Suspend(t, "clear", c, "call")
    /\ UNCHANGED <<sockVars, retryVars, held>>

Cleared(t) ==
    /\ pc[t] = "clear"
    /\ OpenStart(t, ctx[t], "call")
    /\ UNCHANGED <<current, state, wire, retryVars, held>>

(* requestReconnect *)
Reconnect(t) ==
    /\ "reconnect" \in Calls
    /\ Idle(t)
    /\ current # NoCtx
    /\ state[current] \notin Terminal
    /\ Turn(current, "RECONNECTING")
    /\ OpenStart(t, current, "call")
    /\ UNCHANGED <<current, wire, retryVars, held>>

(* The rest of openSocket, once creds and keys are there. *)
Free(s) == wire[s] = "closed" /\ \A c \in Ctx : sock[c] # s

Opened(t) ==
    /\ pc[t] = "auth"
    /\ \E s \in Sock :
          /\ Free(s)
          /\ sock' = [sock EXCEPT ![ctx[t]] = s]
          /\ wire' = [wire EXCEPT ![s] = "connecting"]
          /\ hears' = [hears EXCEPT ![s] = ctx[t]]
    /\ Turn(ctx[t], "VERIFYING")
    /\ IF kind[t] = "call" THEN UNCHANGED retryVars ELSE Success
    /\ End(t)
    /\ UNCHANGED <<current, terminating, raced>>

-----------------------------------------------------------------------------
(* executeNow *)

Fire(t) ==
    /\ timer # "off"
    /\ Idle(t)
    /\ timer' = "off"
    /\ inFlight' = TRUE
    /\ Suspend(t, "gate", NoCtx, timer)
    /\ held' = held \cup {t}
    /\ UNCHANGED <<ctxVars, sockVars, attempt, raced>>

(* No token within the time allowed: schedule again, whatever comes of it. *)
Refused(t) ==
    /\ "refuse" \in Failures
    /\ pc[t] = "gate"
    /\ Schedule(kind[t], attempt, Released(t))
    /\ End(t)
    /\ UNCHANGED <<ctxVars, sockVars, raced>>

(* doReconnect *)
Granted(t) ==
    /\ pc[t] = "gate"
    /\ current # NoCtx
    /\ Turn(current, "RECONNECTING")
    /\ OpenStart(t, current, kind[t])
    /\ UNCHANGED <<current, wire, retryVars, held>>

(* releaseRuntimeSlot up to the await of mark *)
Release(t, c) ==
    /\ attempt' = 0 /\ inFlight' = FALSE /\ timer' = "off"
    /\ held' = {}
    /\ Cleanup(c)
    /\ Suspend(t, "mark", c, "none")

(* The executor has thrown: schedule again or release the account.         *)
Retry(t) ==
    LET type == kind[t]
        busy == Released(t)
    IN  \/ /\ WillRetry(type, attempt, busy) \/ current = NoCtx
           /\ Schedule(type, attempt, busy)
           /\ End(t)
           /\ UNCHANGED <<hears, sock>>
        \/ /\ ~WillRetry(type, attempt, busy) /\ current # NoCtx
           /\ Release(t, current)

(* doReconnect finds no context. *)
Orphaned(t) ==
    /\ pc[t] = "gate"
    /\ current = NoCtx
    /\ Retry(t)
    /\ UNCHANGED <<current, state, terminating, wire, raced>>

(* openSocket throws. *)
OpenFails(t) ==
    /\ pc[t] = "auth"
    /\ "throw" \in Failures
    /\ \/ kind[t] # "call" /\ Retry(t)
       \/ kind[t] = "call" /\ End(t) /\ UNCHANGED <<retryVars, hears, sock>>
    /\ UNCHANGED <<current, state, terminating, wire, raced>>

-----------------------------------------------------------------------------
(* Events of the sockets.                                                  *)

Listening(s) == hears[s] # NoCtx /\ wire[s] # "closed" /\ ~terminating[hears[s]]

(* connection: open.  The account type is looked up before anything else.  *)
OpenEvent(s) ==
    /\ wire[s] = "connecting"
    /\ wire' = [wire EXCEPT ![s] = "open"]
    /\ \/ /\ ~Listening(s)
          /\ UNCHANGED taskVars
       \/ /\ Listening(s)
          /\ \E t \in Task : Idle(t) /\ Suspend(t, "detect", hears[s], "none")
          /\ UNCHANGED held
    /\ UNCHANGED <<ctxVars, hears, retryVars, raced>>

Detected(t) ==
    /\ pc[t] = "detect"
    /\ Turn(ctx[t], "ONLINE")
    /\ Suspend(t, "told", ctx[t], "none")
    /\ UNCHANGED <<current, sock, terminating, sockVars, retryVars, held, raced>>

(* ... and onSuccess once the last event is published. *)
Told(t) ==
    /\ pc[t] = "told"
    /\ Success
    /\ End(t)
    /\ UNCHANGED <<ctxVars, sockVars, raced>>

Closing(s) == wire' = [wire EXCEPT ![s] = "closed"]

(* A closed socket has no more events. *)
Forget(s) == hears' = [hears EXCEPT ![s] = NoCtx]

(* connection: close, of a socket nobody listens to *)
CloseUnheard(s) ==
    /\ wire[s] # "closed"
    /\ ~Listening(s)
    /\ Closing(s)
    /\ Forget(s)
    /\ UNCHANGED <<ctxVars, retryVars, taskVars, raced>>

(* 515, 408, 500: reconnect at once *)
CloseA(s) ==
    /\ wire[s] # "closed"
    /\ Listening(s)
    /\ Closing(s)
    /\ Forget(s)
    /\ Turn(hears[s], "RECONNECTING")
    /\ Schedule("A", attempt, inFlight)
    /\ UNCHANGED <<current, sock, terminating, taskVars, raced>>

(* 428, 503 and the rest: climb the ladder, or release the account *)
CloseB(s) ==
    /\ wire[s] \in {"connecting", "open"}
    /\ Listening(s)
    /\ Closing(s)
    /\ Turn(hears[s], "OFFLINE")
    /\ \/ /\ WillRetry("B", attempt, inFlight)
          /\ Schedule("B", attempt, inFlight)
          /\ Forget(s)
          /\ UNCHANGED <<sock, taskVars>>
       \/ /\ ~WillRetry("B", attempt, inFlight)
          /\ \E t \in Task : Idle(t) /\ Release(t, hears[s])
    /\ UNCHANGED <<current, terminating, raced>>

(* 401, 403, 411, 440: the credentials are void *)
CloseC(s) ==
    /\ wire[s] \in {"connecting", "open"}
    /\ Listening(s)
    /\ Closing(s)
    /\ Forget(s)
    /\ Turn(hears[s], "NEED_REAUTH")
    /\ \E t \in Task : Idle(t) /\ Suspend(t, "publish", hears[s], "none")
    /\ UNCHANGED <<current, sock, terminating, retryVars, held, raced>>

Published(t) ==
    /\ pc[t] = "publish"
    /\ Release(t, ctx[t])
    /\ UNCHANGED <<current, state, terminating, wire, raced>>

(* The runtime record is written: accounts.delete, whoever is there now. *)
Marked(t) ==
    /\ pc[t] = "mark"
    /\ current' = NoCtx
    /\ End(t)
    /\ UNCHANGED <<state, sock, terminating, sockVars, retryVars, raced>>

(* markStaleAndReconnect, for an account ONLINE that hears nothing *)
MarkStale ==
    /\ current # NoCtx
    /\ state[current] = "ONLINE"
    /\ Turn(current, "STALE")
    /\ wire' = [s \in Sock |-> IF s = sock[current] /\ wire[s] # "closed"
                               THEN "ending" ELSE wire[s]]
    /\ Schedule("A", attempt, inFlight)
    /\ UNCHANGED <<current, sock, terminating, hears, taskVars, raced>>

-----------------------------------------------------------------------------
(* end() of ctx.sock, whose close event nobody will hear *)
Ended(c) == wire' = [s \in Sock |-> IF s = sock[c] THEN "closed" ELSE wire[s]]

Offline(t) ==
    /\ "offline" \in Calls
    /\ Idle(t)
    /\ current # NoCtx
    /\ terminating' = [terminating EXCEPT ![current] = TRUE]
    /\ Ended(current)
    /\ Turn(current, "OFFLINE")
    /\ Release(t, current)
    /\ UNCHANGED <<current, raced>>

Logout(t) ==
    /\ "logout" \in Calls
    /\ Idle(t)
    /\ current # NoCtx
    /\ terminating' = [terminating EXCEPT ![current] = TRUE]
    /\ \/ /\ sock[current] # NoSock
          /\ Suspend(t, "logout", current, "none")
          /\ UNCHANGED <<state, sock, hears, retryVars, held>>
       \/ /\ sock[current] = NoSock
          /\ Turn(current, "LOGGED_OUT")
          /\ Release(t, current)
    /\ UNCHANGED <<current, wire, raced>>

(* sock.logout() has answered; it ends the socket, which nobody hears. *)
LoggedOut(t) ==
    /\ pc[t] = "logout"
    /\ Turn(ctx[t], "LOGGED_OUT")
    /\ Release(t, ctx[t])
    /\ UNCHANGED <<current, terminating, wire, raced>>

(* rebindProxy: the close event will bring the reconnect. *)
Rebind ==
    /\ "rebind" \in Calls
    /\ current # NoCtx
    /\ sock[current] # NoSock
    /\ wire[sock[current]] \in {"connecting", "open"}
    /\ wire' = [wire EXCEPT ![sock[current]] = "ending"]
    /\ UNCHANGED <<ctxVars, hears, retryVars, taskVars, raced>>

-----------------------------------------------------------------------------
TaskStep(t) ==
    \/ Loaded(t) \/ Cleared(t) \/ Opened(t) \/ Granted(t) \/ Orphaned(t)
    \/ Detected(t) \/ Told(t) \/ Published(t) \/ Marked(t) \/ LoggedOut(t)

Event(s) == OpenEvent(s) \/ CloseUnheard(s) \/ CloseA(s) \/ CloseB(s) \/ CloseC(s)

Next ==
    \/ \E t \in Task :
          \/ TaskStep(t) \/ Fire(t) \/ Refused(t) \/ OpenFails(t)
          \/ Online(t) \/ Reconnect(t) \/ Offline(t) \/ Logout(t)
    \/ \E s \in Sock : Event(s)
    \/ MarkStale \/ Rebind

Spec == Init /\ [][Next]_vars

(* The account has no socket of its own, or one that has closed. *)
Lost ==
    /\ current # NoCtx
    /\ sock[current] # NoSock => wire[sock[current]] = "closed"

(* Awaits end, timers fire, a socket that was ended says so, one that has  *)
(* been dropped is closed in the end, and the stale detector finds an      *)
(* account that hears nothing.                                             *)
Fairness ==
    /\ \A t \in Task : WF_vars(TaskStep(t))
    /\ WF_vars(\E t \in Task : Fire(t))
    /\ \A s \in Sock :
          /\ WF_vars(CloseUnheard(s))
          /\ WF_vars(wire[s] = "ending" /\ CloseA(s))
    /\ WF_vars(Lost /\ MarkStale)

FairSpec == Spec /\ Fairness

-----------------------------------------------------------------------------
(* A socket that its context has dropped is never heard again: neither a   *)
(* reconnect nor an offline leaves listeners behind that would drive the   *)
(* state or the retries from an old socket, unless two opens overlapped.   *)
DroppedSocketsAreSilent ==
    \A s \in Sock : Listening(s) => sock[hears[s]] = s \/ hears[s] \in raced

(* The entry of the reconnect controller is marked busy only while a retry  *)
(* that will free it is under way: schedule ignores every close it is told  *)
(* of while the mark stands.                                                *)
BusyMeansRetrying ==
    inFlight => \E t \in held : pc[t] \in {"gate", "auth"} /\ kind[t] # "call"

(* An account that has lost its connection is connected again or released. *)
NobodyIsStranded == Lost ~> ~Lost
=============================================================================
