--------------------------- MODULE BindingService ---------------------------
(***************************************************************************)
(* What Registry.assign and Registry.unassign promise their callers, with  *)
(* no lock, no counter and no retry in sight: an account changes worker    *)
(* only by being unbound first, unless an older release left a binding     *)
(* behind, which any call may restore; the call that bound it is the only  *)
(* one told "new"; and a call told "existing" is told the worker the       *)
(* account is bound to at that moment.                                     *)
(***************************************************************************)
CONSTANTS Account, Worker, Caller, NoWorker, Refusal,
          Legacy    \* the binding an older release left behind, if any

VARIABLES binding, reply

bindingVars == <<binding, reply>>

Answer(k, w) == [kind |-> k, worker |-> w]
NoAnswer == Answer("none", NoWorker)

Init ==
    /\ binding = [a \in Account |-> NoWorker]
    /\ reply = [c \in Caller |-> NoAnswer]

(* A caller starts a call and forgets the answer of its previous one. *)
Begin(c) ==
    /\ reply' = [reply EXCEPT ![c] = NoAnswer]
    /\ UNCHANGED binding

Bind(c, a, w) ==
    /\ binding[a] = NoWorker
    /\ binding' = [binding EXCEPT ![a] = w]
    /\ reply' = [reply EXCEPT ![c] = Answer("new", w)]

Find(c, a) ==
    /\ binding[a] # NoWorker
    /\ reply' = [reply EXCEPT ![c] = Answer("existing", binding[a])]
    /\ UNCHANGED binding

Unbind(c, a) ==
    /\ binding[a] # NoWorker
    /\ binding' = [binding EXCEPT ![a] = NoWorker]
    /\ reply' = [reply EXCEPT ![c] = Answer("unbound", binding[a])]

Restore(c, a) ==
    /\ Legacy[a] # NoWorker
    /\ binding' = [binding EXCEPT ![a] = Legacy[a]]
    /\ \/ reply' = [reply EXCEPT ![c] = Answer("existing", Legacy[a])]
       \/ UNCHANGED reply

(* The call is turned down and changes nothing. *)
Refuse(c) ==
    /\ \E k \in Refusal : reply' = [reply EXCEPT ![c] = Answer(k, NoWorker)]
    /\ UNCHANGED binding

(* An unassign that found nothing still erases the binding, if one has     *)
(* appeared since, and says that there was none.                           *)
Erase(c, a) ==
    /\ binding' = [binding EXCEPT ![a] = NoWorker]
    /\ reply' = [reply EXCEPT ![c] = Answer("nothing", NoWorker)]

Next ==
    \E c \in Caller :
        \/ Begin(c)
        \/ Refuse(c)
        \/ \E a \in Account :
              \/ \E w \in Worker : Bind(c, a, w)
              \/ Find(c, a)
              \/ Unbind(c, a)
              \/ Erase(c, a)
              \/ Restore(c, a)

Spec == Init /\ [][Next]_bindingVars
=============================================================================
