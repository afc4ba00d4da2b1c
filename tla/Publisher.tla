----------------------------- MODULE Publisher -----------------------------
(***************************************************************************)
(* The event publisher of a worker (events/publisher.ts): publish() of one *)
(* account's events on one topic, one publication for each element of Pub. *)
(*                                                                         *)
(*   none -> (connect ->)? sent -> (wait -> ..)? -> done                   *)
(*                                 (wait -> dlq -> done) after Attempts    *)
(*   none -> spill -> done         at the limit of publications in flight  *)
(*                                                                         *)
(* connectKafka() makes a new producer and assigns it to the shared        *)
(* variable before it is connected.  A producer has one request in flight, *)
(* so the broker gets what one producer sends in the order of its queue.   *)
(***************************************************************************)
EXTENDS Naturals, FiniteSets, Sequences

CONSTANTS
    Pub,
    Attempts,       \* 3 in the code
    MaxInflight,    \* kafka.maxInflightMessages
    MaxFaults       \* failures of Kafka and of the DLQ file, a bound

ASSUME PublisherAssumption ==
    Attempts \in Nat \ {0} /\ MaxInflight \in Nat \ {0} /\ MaxFaults \in Nat

VARIABLES
    pub,         \* where each publication is
    inflight,    \* inflightCount
    producer,    \* the number of the producer assigned last, 0 for none
    ready,       \* the producers that have connected
    connected,   \* the flag publish() goes by
    queue,       \* of each producer: what it was sent and has no answer for
    log,         \* the partition of the account
    dlq,         \* the DLQ file
    dropped,     \* publications whose DLQ write failed (counted, logged)
    begun,       \* publications in the order of the calls
    faults

kafka == <<producer, ready, connected, queue, log>>
pubVars == <<pub, inflight, kafka, dlq, dropped, begun, faults>>

Counted == {"connect", "sent", "wait", "dlq"}
Idle == [st |-> "none", try |-> 0, via |-> 0]

PubTypeOK ==
    /\ pub \in [Pub -> [st : {"none", "spill", "done"} \cup Counted,
                        try : 0..Attempts, via : 0..producer]]
    /\ producer \in Nat
    /\ ready \subseteq 1..producer
    /\ connected \in BOOLEAN
    /\ DOMAIN queue = 1..producer
    /\ \A i \in 1..producer : queue[i] \in Seq(Pub)
    /\ \A i \in 1..producer : \A j \in DOMAIN queue[i] :
          pub[queue[i][j]].st = "sent" /\ pub[queue[i][j]].via = i
    /\ dlq \cup dropped \subseteq {p \in Pub : pub[p].st = "done"}
    /\ faults \in 0..MaxFaults

PubInit ==
    /\ pub = [p \in Pub |-> Idle]
    /\ inflight = 0
    /\ connected \in BOOLEAN     \* the first connect may have failed
    /\ producer = 1
    /\ ready = IF connected THEN {1} ELSE {}
    /\ queue = << <<>> >>
    /\ log = <<>>
    /\ dlq = {} /\ dropped = {}
    /\ begun = <<>>
    /\ faults = 0

-----------------------------------------------------------------------------
Fault == faults < MaxFaults /\ faults' = faults + 1

Put(p, st, try, via) == pub' = [pub EXCEPT ![p] = [st |-> st, try |-> try, via |-> via]]

(* An attempt of p has failed: it waits for its timer.                     *)
Failed(p, try) ==
    /\ Put(p, "wait", try, 0)
    /\ connected' = FALSE

(* send() on a producer that has not connected fails at once.              *)
Send(p, try, on) ==
    IF producer \in on
    THEN /\ Put(p, "sent", try, producer)
         /\ queue' = [queue EXCEPT ![producer] = Append(@, p)]
    ELSE Put(p, "wait", try, 0) /\ UNCHANGED queue

(* publishOnce: ensureConnected, then send.                                *)
Attempt(p, try) ==
    IF connected
    THEN /\ Send(p, try, ready)
         /\ connected' = (producer \in ready)
         /\ UNCHANGED producer
    ELSE /\ producer' = producer + 1
         /\ queue' = Append(queue, <<>>)
         /\ Put(p, "connect", try, producer + 1)
         /\ UNCHANGED connected

Publish(p) ==
    /\ pub[p].st = "none"
    /\ begun' = Append(begun, p)
    /\ IF inflight >= MaxInflight
       THEN /\ Put(p, "spill", 0, 0)
            /\ UNCHANGED <<inflight, producer, connected, queue>>
       ELSE Attempt(p, 1) /\ inflight' = inflight + 1
    /\ UNCHANGED <<ready, log, dlq, dropped, faults>>

(* connect() of its own producer has ended; the send uses the producer     *)
(* that is assigned by then, which may be a later one.  Variant with a     *)
(* bug: a producer that has been replaced is not waited for any more.      *)
ConnectLatest(p) ==
    /\ pub[p].st = "connect"
    /\ pub[p].via = producer
    /\ ready' = ready \cup {producer}
    /\ Send(p, pub[p].try, ready')
    /\ connected' = TRUE
    /\ UNCHANGED <<inflight, producer, log, dlq, dropped, begun, faults>>

Connect(p) ==
    /\ pub[p].st = "connect"
    /\ ready' = ready \cup {pub[p].via}
    /\ Send(p, pub[p].try, ready')
    /\ connected' = (producer \in ready')
    /\ UNCHANGED <<inflight, producer, log, dlq, dropped, begun, faults>>

ConnectFails(p) ==
    /\ pub[p].st = "connect"
    /\ Fault
    /\ Failed(p, pub[p].try)
    /\ UNCHANGED <<inflight, producer, ready, queue, log, dlq, dropped, begun>>

-----------------------------------------------------------------------------
(* The broker.  Variant with a bug: several requests of a producer are in  *)
(* flight at once.                                                         *)
AnyTurn(p) == pub[p].st = "sent"

Turn(p) ==
    /\ pub[p].st = "sent"
    /\ Head(queue[pub[p].via]) = p

(* Variant with a bug: what is answered stays in the queue.                *)
Requeue(p) == queue' = [queue EXCEPT ![pub[p].via] = Append(Tail(@), p)]

Unqueue(p) == queue' = [queue EXCEPT ![pub[p].via] = Tail(@)]

(* The answer of the broker arrives.  Variant with a bug: the count goes   *)
(* down where the attempts are exhausted, and not here.                    *)
AckUncounted(p) ==
    /\ Turn(p)
    /\ log' = Append(log, p)
    /\ Unqueue(p)
    /\ Put(p, "done", pub[p].try, 0)
    /\ UNCHANGED <<inflight, producer, ready, connected, dlq, dropped, begun, faults>>

Ack(p) ==
    /\ Turn(p)
    /\ log' = Append(log, p)
    /\ Unqueue(p)
    /\ Put(p, "done", pub[p].try, 0)
    /\ inflight' = inflight - 1
    /\ UNCHANGED <<producer, ready, connected, dlq, dropped, begun, faults>>

(* The send fails: before the broker has written the event, or after.      *)
SendFails(p) ==
    /\ Turn(p)
    /\ Fault
    /\ log' \in {log, Append(log, p)}
    /\ Unqueue(p)
    /\ Failed(p, pub[p].try)
    /\ UNCHANGED <<inflight, producer, ready, dlq, dropped, begun>>

-----------------------------------------------------------------------------
(* The timer of p has fired.  Variant with a bug: after the last attempt   *)
(* publish() returns.                                                      *)
RetryOnly(p) ==
    /\ pub[p].st = "wait"
    /\ IF pub[p].try < Attempts
       THEN Attempt(p, pub[p].try + 1) /\ UNCHANGED inflight
       ELSE /\ Put(p, "done", pub[p].try, 0)
            /\ inflight' = inflight - 1
            /\ UNCHANGED <<producer, connected, queue>>
    /\ UNCHANGED <<ready, log, dlq, dropped, begun, faults>>

Retry(p) ==
    /\ pub[p].st = "wait"
    /\ IF pub[p].try < Attempts
       THEN Attempt(p, pub[p].try + 1)
       ELSE /\ Put(p, "dlq", pub[p].try, 0)
            /\ UNCHANGED <<producer, connected, queue>>
    /\ UNCHANGED <<inflight, ready, log, dlq, dropped, begun, faults>>

(* The line is in the file, or it is not and that is only counted.         *)
WriteDlq(p) ==
    /\ pub[p].st \in {"spill", "dlq"}
    /\ \/ dlq' = dlq \cup {p} /\ UNCHANGED <<dropped, faults>>
       \/ dropped' = dropped \cup {p} /\ Fault /\ UNCHANGED dlq
    /\ Put(p, "done", pub[p].try, 0)
    /\ inflight' = IF pub[p].st = "dlq" THEN inflight - 1 ELSE inflight
    /\ UNCHANGED <<kafka, begun>>

PubStep(p) ==
    \/ Connect(p) \/ ConnectFails(p) \/ Ack(p) \/ SendFails(p) \/ Retry(p) \/ WriteDlq(p)

PubNext == \E p \in Pub : Publish(p) \/ PubStep(p)

(* A connect and a send end or time out, timers fire and files are written. *)
PubFairness ==
    \A p \in Pub : WF_pubVars(Connect(p) \/ Ack(p) \/ Retry(p) \/ WriteDlq(p))

PubSpec == PubInit /\ [][PubNext]_pubVars /\ PubFairness

-----------------------------------------------------------------------------
Logged == {log[i] : i \in DOMAIN log}

(* publish() of p was called before publish() of q.                        *)
Before(p, q) == \E i, j \in DOMAIN begun : i < j /\ begun[i] = p /\ begun[j] = q

(* publish() returns only when the event is in Kafka or in the DLQ file,   *)
(* or the loss is counted (publisher.ts:7 and the handling of its limit).  *)
NothingVanishes == \A p \in Pub : pub[p].st = "done" => p \in Logged \cup dlq \cup dropped

(* inflightCount is the number of publications under way and never above   *)
(* its limit, whatever has failed.                                         *)
InflightCounted ==
    /\ inflight = Cardinality({p \in Pub : pub[p].st \in Counted})
    /\ inflight =< MaxInflight

(* Events of an account are in its partition in the order of the calls     *)
(* (publisher.ts:5), once each, as long as no attempt has failed so that a *)
(* second producer was made.                                               *)
InOrder ==
    producer = 1 => \A i, j \in DOMAIN log : i < j => Before(log[i], log[j])

(* No publication is stuck, whichever producer its event was sent on: the  *)
(* handlers and the busy answers that wait for publish() go on.            *)
EveryPublishReturns == \A p \in Pub : pub[p].st # "none" ~> pub[p].st = "done"
=============================================================================
