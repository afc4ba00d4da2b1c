-------------------------- MODULE PublisherProofs --------------------------
(***************************************************************************)
(* Proofs about Publisher, for any number of publications (finite or not), *)
(* attempts and faults, and any limit.                                     *)
(***************************************************************************)
EXTENDS Publisher, FiniteSetTheorems, TLAPS

USE PublisherAssumption

Stage == {"none", "spill", "done"} \cup Counted

PubsTyped ==
    /\ pub \in [Pub -> [st : Stage, try : 0..Attempts, via : 0..producer]]
    /\ \A p \in Pub : pub[p].st = "connect" => pub[p].via # 0

RestTyped ==
    /\ producer \in Nat \ {0}
    /\ ready \subseteq 1..producer
    /\ connected \in BOOLEAN
    /\ log \in Seq(Pub)
    /\ begun \in Seq(Pub)
    /\ faults \in 0..MaxFaults

(* With the publications in state f, s may be the queue of producer i: it  *)
(* holds publications sent on it, each once.                               *)
Fits(f, s, i) ==
    /\ s \in Seq(Pub)
    /\ \A j \in DOMAIN s : f[s[j]].st = "sent" /\ f[s[j]].via = i
    /\ \A j, k \in DOMAIN s : j # k => s[j] # s[k]

Holds(s, p) == \E j \in DOMAIN s : s[j] = p

(* The queues of the producers hold what is sent and not answered.         *)
QueueOK ==
    /\ queue \in Seq(Seq(Pub)) /\ Len(queue) = producer
    /\ \A i \in 1..producer : Fits(pub, queue[i], i)
    /\ \A p \in Pub : pub[p].st = "sent" =>
          pub[p].via \in 1..producer /\ Holds(queue[pub[p].via], p)

DeadLettersDone == dlq \cup dropped \subseteq {p \in Pub : pub[p].st = "done"}

PubInv == PubsTyped /\ QueueOK /\ RestTyped /\ DeadLettersDone

LEMMA InvTyped == PubInv => PubTypeOK
BY DEF PubInv, PubsTyped, QueueOK, Fits, RestTyped, DeadLettersDone, PubTypeOK, Stage

-----------------------------------------------------------------------------
(* What the helpers do to the publications.                                *)

LEMMA PutChanges ==
    ASSUME PubsTyped, NEW p \in Pub, NEW st, NEW try, NEW via, Put(p, st, try, via)
    PROVE  /\ pub'[p].st = st /\ pub'[p].try = try /\ pub'[p].via = via
           /\ \A q \in Pub \ {p} : pub'[q] = pub[q]
BY DEF Put, PubsTyped

LEMMA PutTyped ==
    ASSUME PubsTyped, RestTyped, NEW p \in Pub, NEW st \in Stage, NEW try \in 0..Attempts,
           producer' \in Nat, producer' >= producer, NEW via \in 0..producer',
           st = "connect" => via # 0, Put(p, st, try, via)
    PROVE  PubsTyped'
<1>1. 0..producer \subseteq 0..producer'
  BY DEF RestTyped
<1>2. pub' \in [Pub -> [st : Stage, try : 0..Attempts, via : 0..producer']]
  BY <1>1 DEF Put, PubsTyped
<1>3. pub'[p].st = st /\ pub'[p].via = via /\ \A q \in Pub \ {p} : pub'[q] = pub[q]
  BY PutChanges
<1> QED
  BY <1>2, <1>3 DEF PubsTyped

-----------------------------------------------------------------------------
(* What happens to a queue when p changes and the others stay as they are. *)

LEMMA FitsStays ==
    ASSUME NEW f, NEW g, NEW s, NEW i, NEW p, Fits(f, s, i),
           f[p].st # "sent" \/ f[p].via # i, \A q \in Pub \ {p} : g[q] = f[q]
    PROVE  Fits(g, s, i)
BY DEF Fits

LEMMA FitsAppend ==
    ASSUME NEW f, NEW g, NEW s, NEW i, NEW p \in Pub, Fits(f, s, i), f[p].st # "sent",
           \A q \in Pub \ {p} : g[q] = f[q], g[p].st = "sent", g[p].via = i
    PROVE  /\ Fits(g, Append(s, p), i)
           /\ Holds(Append(s, p), p)
           /\ \A q \in Pub \ {p} : Holds(s, q) => Holds(Append(s, p), q)
<1> DEFINE t == Append(s, p)
<1>1. /\ s \in Seq(Pub) /\ t \in Seq(Pub) /\ Len(t) = Len(s) + 1
      /\ \A j \in 1..Len(s) : t[j] = s[j] /\ s[j] \in Pub \ {p}
      /\ t[Len(s) + 1] = p
  BY DEF Fits
<1>2. \A j \in DOMAIN t : j \in 1..Len(s) \/ j = Len(s) + 1
  BY <1>1
<1>3. \A j \in DOMAIN t : g[t[j]].st = "sent" /\ g[t[j]].via = i
  BY <1>1, <1>2 DEF Fits
<1>4. \A j, k \in DOMAIN t : j # k => t[j] # t[k]
  BY <1>1, <1>2 DEF Fits
<1>5. Holds(t, p) /\ \A q \in Pub \ {p} : Holds(s, q) => Holds(t, q)
  BY <1>1 DEF Holds
<1> HIDE DEF t
<1> QED
  BY <1>1, <1>3, <1>4, <1>5 DEF Fits, t

LEMMA FitsTail ==
    ASSUME NEW f, NEW g, NEW s, NEW i, NEW p \in Pub, Fits(f, s, i), s # <<>>, Head(s) = p,
           \A q \in Pub \ {p} : g[q] = f[q]
    PROVE  /\ Fits(g, Tail(s), i)
           /\ \A q \in Pub \ {p} : Holds(s, q) => Holds(Tail(s), q)
<1> DEFINE t == Tail(s)
<1>1. /\ s \in Seq(Pub) /\ t \in Seq(Pub) /\ Len(t) = Len(s) - 1 /\ s[1] = p
      /\ DOMAIN s = 1..Len(s) /\ DOMAIN t = 1..Len(t)
      /\ \A j \in 1..Len(t) : t[j] = s[j + 1] /\ j + 1 \in 1..Len(s)
  BY DEF Fits
<1>2. \A j \in 1..Len(s) : j # 1 => s[j] # p
  BY <1>1 DEF Fits
<1>3. \A j \in 1..Len(t) : t[j] \in Pub \ {p}
  BY <1>1, <1>2
<1>4. \A j \in DOMAIN t : g[t[j]].st = "sent" /\ g[t[j]].via = i
  BY <1>1, <1>3 DEF Fits
<1>5. \A j, k \in DOMAIN t : j # k => t[j] # t[k]
  BY <1>1 DEF Fits
<1>6. \A q \in Pub \ {p} : Holds(s, q) => Holds(t, q)
  <2> SUFFICES ASSUME NEW q \in Pub \ {p}, NEW j \in 1..Len(s), s[j] = q
               PROVE  Holds(t, q)
    BY <1>1 DEF Holds
  <2>1. j - 1 \in 1..Len(t) /\ t[j - 1] = q
    BY <1>1
  <2> QED
    BY <1>1, <2>1 DEF Holds
<1> HIDE DEF t
<1> QED
  BY <1>1, <1>4, <1>5, <1>6 DEF Fits, t

-----------------------------------------------------------------------------
(* What the pieces of the actions do to the queues.                        *)

(* The publication moves between stages other than sent.                   *)
LEMMA QueueStays ==
    ASSUME PubInv, NEW p \in Pub, pub[p].st # "sent", UNCHANGED <<queue, producer>>,
           NEW st \in Stage \ {"sent"}, NEW try, NEW via, Put(p, st, try, via)
    PROVE  QueueOK'
<1>1. pub'[p].st # "sent" /\ \A q \in Pub \ {p} : pub'[q] = pub[q]
  BY PutChanges DEF PubInv
<1>2. \A i \in 1..producer : Fits(pub', queue[i], i)
  BY <1>1, FitsStays DEF PubInv, QueueOK
<1> QED
  BY <1>1, <1>2 DEF PubInv, QueueOK

LEMMA QueueGrows ==
    ASSUME PubInv, NEW p \in Pub, pub[p].st # "sent", queue' = Append(queue, <<>>),
           producer' = producer + 1, NEW try, NEW via, Put(p, "connect", try, via)
    PROVE  QueueOK'
<1>1. pub'[p].st # "sent" /\ \A q \in Pub \ {p} : pub'[q] = pub[q]
  BY PutChanges DEF PubInv
<1>2. /\ queue' \in Seq(Seq(Pub)) /\ Len(queue') = producer'
      /\ queue'[producer'] = <<>>
      /\ \A i \in 1..producer : queue'[i] = queue[i]
  BY DEF PubInv, QueueOK, RestTyped
<1>3. \A i \in 1..producer : Fits(pub', queue'[i], i)
  <2>1. \A i \in 1..producer : Fits(pub', queue[i], i)
    BY <1>1, FitsStays DEF PubInv, QueueOK
  <2> QED
    BY <1>2, <2>1
<1>4. Fits(pub', queue'[producer'], producer')
  BY <1>2 DEF Fits
<1>5. \A i \in 1..producer' : i \in 1..producer \/ i = producer'
  BY DEF PubInv, RestTyped
<1>6. 1..producer \subseteq 1..producer'
  BY DEF PubInv, RestTyped
<1> QED
  BY <1>1, <1>2, <1>3, <1>4, <1>5, <1>6 DEF PubInv, QueueOK

LEMMA Enqueued ==
    ASSUME PubInv, NEW p \in Pub, pub[p].st # "sent", UNCHANGED producer, NEW try,
           Put(p, "sent", try, producer),
           queue' = [queue EXCEPT ![producer] = Append(@, p)]
    PROVE  QueueOK'
<1>1. pub'[p].st = "sent" /\ pub'[p].via = producer /\ \A q \in Pub \ {p} : pub'[q] = pub[q]
  BY PutChanges DEF PubInv
<1>2. producer \in 1..producer
  BY DEF PubInv, RestTyped
<1>3. /\ Fits(pub', Append(queue[producer], p), producer)
      /\ Holds(Append(queue[producer], p), p)
      /\ \A q \in Pub \ {p} :
            Holds(queue[producer], q) => Holds(Append(queue[producer], p), q)
  <2>1. Fits(pub, queue[producer], producer)
    BY <1>2 DEF PubInv, QueueOK
  <2> QED
    BY <1>1, <2>1, FitsAppend
<1>4. /\ queue' \in Seq(Seq(Pub)) /\ Len(queue') = producer
      /\ queue'[producer] = Append(queue[producer], p)
      /\ \A i \in 1..producer : i # producer => queue'[i] = queue[i]
  BY <1>2 DEF PubInv, QueueOK, RestTyped
<1>5. \A i \in 1..producer : i # producer => Fits(pub', queue[i], i)
  BY <1>1, FitsStays DEF PubInv, QueueOK
<1>6. \A i \in 1..producer : Fits(pub', queue'[i], i)
  BY <1>3, <1>4, <1>5
<1>7. \A q \in Pub : pub'[q].st = "sent" =>
         pub'[q].via \in 1..producer /\ Holds(queue'[pub'[q].via], q)
  BY <1>1, <1>2, <1>3, <1>4 DEF PubInv, QueueOK
<1> QED
  BY <1>4, <1>6, <1>7 DEF QueueOK

LEMMA Dequeued ==
    ASSUME PubInv, NEW p \in Pub, Turn(p), Unqueue(p), UNCHANGED producer,
           NEW st \in Stage \ {"sent"}, NEW try, NEW via, Put(p, st, try, via)
    PROVE  QueueOK'
<1> DEFINE w == pub[p].via
<1>1. pub'[p].st # "sent" /\ \A q \in Pub \ {p} : pub'[q] = pub[q]
  BY PutChanges DEF PubInv
<1>2. w \in 1..producer /\ queue[w] # <<>> /\ Head(queue[w]) = p /\ pub[p].st = "sent"
  BY DEF PubInv, QueueOK, Turn, Holds
<1>3. /\ Fits(pub', Tail(queue[w]), w)
      /\ \A q \in Pub \ {p} : Holds(queue[w], q) => Holds(Tail(queue[w]), q)
  BY <1>1, <1>2, FitsTail DEF PubInv, QueueOK
<1>4. /\ queue' \in Seq(Seq(Pub)) /\ Len(queue') = producer
      /\ queue'[w] = Tail(queue[w])
      /\ \A i \in 1..producer : i # w => queue'[i] = queue[i]
  BY <1>2 DEF PubInv, QueueOK, RestTyped, Unqueue
<1>5. \A i \in 1..producer : i # w => Fits(pub', queue[i], i)
  BY <1>1, FitsStays DEF PubInv, QueueOK
<1>6. \A i \in 1..producer : Fits(pub', queue'[i], i)
  BY <1>3, <1>4, <1>5
<1>7. \A q \in Pub : pub'[q].st = "sent" =>
         pub'[q].via \in 1..producer /\ Holds(queue'[pub'[q].via], q)
  BY <1>1, <1>3, <1>4 DEF PubInv, QueueOK
<1> QED
  BY <1>4, <1>6, <1>7 DEF QueueOK

-----------------------------------------------------------------------------
(* Every action changes one publication, which was not done.               *)

Others(p) == \A q \in Pub \ {p} : pub'[q] = pub[q]

LEMMA AttemptKeeps ==
    ASSUME PubInv, NEW p \in Pub, pub[p].st # "sent", NEW try \in 0..Attempts, Attempt(p, try)
    PROVE  /\ PubsTyped' /\ QueueOK' /\ Others(p)
           /\ pub'[p].st \in {"sent", "wait", "connect"}
           /\ producer' \in Nat /\ producer' >= producer
           /\ connected' \in BOOLEAN
<1> USE DEF Stage, Counted, Others
<1>1. producer \in Nat /\ 0 \in 0..producer /\ producer \in 0..producer
  BY DEF PubInv, RestTyped
<1>5. connected' \in BOOLEAN
  <2>1. CASE connected
    <3>1. connected' = (producer \in ready)
      BY <2>1 DEF Attempt
    <3> QED
      BY <3>1
  <2>2. CASE ~connected
    BY <2>2 DEF Attempt, PubInv, RestTyped
  <2> QED
    BY <2>1, <2>2
<1>2. CASE connected /\ producer \in ready
  <2>1. Put(p, "sent", try, producer) /\ producer' = producer
    BY <1>2 DEF Attempt, Send
  <2>2. queue' = [queue EXCEPT ![producer] = Append(@, p)]
    BY <1>2 DEF Attempt, Send
  <2>3. QueueOK'
    BY <2>1, <2>2, Enqueued
  <2>4. PubsTyped'
    BY <1>1, <2>1, PutTyped DEF PubInv
  <2> QED
    BY <1>1, <1>5, <2>1, <2>3, <2>4, PutChanges DEF PubInv
<1>3. CASE connected /\ producer \notin ready
  <2>1. Put(p, "wait", try, 0) /\ producer' = producer /\ queue' = queue
    BY <1>3 DEF Attempt, Send
  <2>3. QueueOK'
    BY <2>1, QueueStays
  <2>4. PubsTyped'
    BY <1>1, <2>1, PutTyped DEF PubInv
  <2> QED
    BY <1>1, <1>5, <2>1, <2>3, <2>4, PutChanges DEF PubInv
<1>4. CASE ~connected
  <2>1. /\ Put(p, "connect", try, producer + 1) /\ producer' = producer + 1
        /\ queue' = Append(queue, <<>>) /\ UNCHANGED connected
    BY <1>4 DEF Attempt
  <2>3. QueueOK'
    BY <2>1, QueueGrows
  <2>4. PubsTyped'
    BY <1>1, <2>1, PutTyped DEF PubInv
  <2> QED
    BY <1>1, <1>5, <2>1, <2>3, <2>4, PutChanges DEF PubInv
<1> QED
  BY <1>2, <1>3, <1>4

LEMMA SendKeeps ==
    ASSUME PubInv, NEW p \in Pub, pub[p].st # "sent", NEW try \in 0..Attempts, NEW on,
           Send(p, try, on), UNCHANGED producer
    PROVE  /\ PubsTyped' /\ QueueOK' /\ Others(p)
           /\ pub'[p].st \in {"sent", "wait"}
<1> USE DEF Stage, Counted, Others
<1>1. producer \in Nat
  BY DEF PubInv, RestTyped
<1>2. CASE producer \in on
  BY <1>1, <1>2, PutChanges, PutTyped, Enqueued DEF PubInv, Send
<1>3. CASE producer \notin on
  BY <1>1, <1>3, PutChanges, PutTyped, QueueStays DEF PubInv, Send
<1> QED
  BY <1>2, <1>3

(* The dead letters do not change where nothing becomes undone.            *)
LEMMA DeadStay ==
    ASSUME PubInv, NEW p \in Pub, pub[p].st # "done", Others(p),
           dlq' \cup dropped' \subseteq dlq \cup dropped
    PROVE  DeadLettersDone'
BY DEF PubInv, DeadLettersDone, Others

LEMMA PubTried == ASSUME PubInv, NEW p \in Pub PROVE pub[p].try \in 0..Attempts
BY DEF PubInv, PubsTyped

LEMMA PublishKeeps ==
    ASSUME PubInv, NEW p \in Pub, Publish(p)
    PROVE  PubInv' /\ Others(p)
           /\ pub'[p].st \in IF inflight >= MaxInflight THEN {"spill"} ELSE {"sent", "wait", "connect"}
<1>1. pub[p].st = "none" /\ begun' = Append(begun, p)
      /\ UNCHANGED <<ready, log, dlq, dropped, faults>>
  BY DEF Publish
<1>2. begun' \in Seq(Pub)
  BY <1>1 DEF PubInv, RestTyped
<1>3. CASE inflight >= MaxInflight
  <2>1. Put(p, "spill", 0, 0) /\ UNCHANGED <<inflight, producer, connected, queue>>
    BY <1>3 DEF Publish
  <2>2. PubsTyped' /\ QueueOK' /\ Others(p) /\ pub'[p].st = "spill"
    BY <1>1, <2>1, PutChanges, PutTyped, QueueStays DEF PubInv, RestTyped, Stage, Others
  <2>3. DeadLettersDone'
    BY <1>1, <2>2, DeadStay
  <2> QED
    BY <1>1, <1>2, <1>3, <2>1, <2>2, <2>3 DEF PubInv, RestTyped
<1>4. CASE ~(inflight >= MaxInflight)
  <2>1. Attempt(p, 1)
    BY <1>4 DEF Publish
  <2>2. /\ PubsTyped' /\ QueueOK' /\ Others(p) /\ pub'[p].st \in {"sent", "wait", "connect"}
        /\ producer' \in Nat /\ producer' >= producer /\ connected' \in BOOLEAN
    BY <1>1, <2>1, AttemptKeeps
  <2>3. DeadLettersDone'
    BY <1>1, <2>2, DeadStay
  <2> QED
    BY <1>1, <1>2, <1>4, <2>2, <2>3 DEF PubInv, RestTyped
<1> QED
  BY <1>3, <1>4

LEMMA ConnectKeeps ==
    ASSUME PubInv, NEW p \in Pub, Connect(p)
    PROVE  PubInv' /\ Others(p) /\ pub[p].st = "connect" /\ pub'[p].st \in {"sent", "wait"}
<1>1. /\ pub[p].st = "connect" /\ ready' = ready \cup {pub[p].via}
      /\ Send(p, pub[p].try, ready') /\ connected' = (producer \in ready')
      /\ UNCHANGED <<inflight, producer, log, dlq, dropped, begun, faults>>
  BY DEF Connect
<1>2. PubsTyped' /\ QueueOK' /\ Others(p) /\ pub'[p].st \in {"sent", "wait"}
  BY <1>1, PubTried, SendKeeps
<1>3. DeadLettersDone'
  BY <1>1, <1>2, DeadStay
<1>4. pub[p].via \in 1..producer
  BY <1>1 DEF PubInv, PubsTyped, RestTyped
<1>5. connected' \in BOOLEAN
  BY <1>1
<1>6. ready' \subseteq 1..producer'
  BY <1>1, <1>4 DEF PubInv, RestTyped
<1> QED
  BY <1>1, <1>2, <1>3, <1>5, <1>6 DEF PubInv, RestTyped

LEMMA ConnectFailsKeeps ==
    ASSUME PubInv, NEW p \in Pub, ConnectFails(p)
    PROVE  PubInv' /\ Others(p) /\ pub[p].st = "connect" /\ pub'[p].st = "wait"
<1>1. /\ pub[p].st = "connect" /\ Put(p, "wait", pub[p].try, 0) /\ connected' = FALSE
      /\ faults < MaxFaults /\ faults' = faults + 1
      /\ UNCHANGED <<inflight, producer, ready, queue, log, dlq, dropped, begun>>
  BY DEF ConnectFails, Fault, Failed
<1>2. producer' \in Nat /\ producer' >= producer /\ 0 \in 0..producer'
  BY <1>1 DEF PubInv, RestTyped
<1>3. PubsTyped'
  BY <1>1, <1>2, PubTried, PutTyped DEF PubInv, Stage, Counted
<1>4. QueueOK'
  BY <1>1, QueueStays DEF Stage, Counted
<1>5. Others(p) /\ pub'[p].st = "wait"
  BY <1>1, PutChanges DEF PubInv, Others
<1>6. DeadLettersDone'
  BY <1>1, <1>5, DeadStay
<1>8. faults' \in 0..MaxFaults
  BY <1>1, PublisherAssumption DEF PubInv, RestTyped, PublisherAssumption
<1>10. connected' \in BOOLEAN
  BY <1>1 DEF PubInv, RestTyped
<1>9. RestTyped'
  BY <1>1, <1>8, <1>10 DEF PubInv, RestTyped
<1> QED
  BY <1>1, <1>3, <1>4, <1>5, <1>6, <1>9 DEF PubInv

LEMMA AckKeeps ==
    ASSUME PubInv, NEW p \in Pub, Ack(p)
    PROVE  PubInv' /\ Others(p) /\ pub[p].st = "sent" /\ pub'[p].st = "done"
<1>1. /\ Turn(p) /\ pub[p].st = "sent" /\ Unqueue(p) /\ Put(p, "done", pub[p].try, 0)
      /\ log' = Append(log, p)
      /\ UNCHANGED <<producer, ready, connected, dlq, dropped, begun, faults>>
  BY DEF Ack, Turn
<1>2. producer' \in Nat /\ producer' >= producer /\ 0 \in 0..producer'
  BY <1>1 DEF PubInv, RestTyped
<1>3. PubsTyped'
  BY <1>1, <1>2, PubTried, PutTyped DEF PubInv, Stage, Counted
<1>4. QueueOK'
  BY <1>1, Dequeued DEF Stage, Counted
<1>5. Others(p) /\ pub'[p].st = "done"
  BY <1>1, PutChanges DEF PubInv, Others
<1>6. DeadLettersDone'
  BY <1>1, <1>5, DeadStay
<1> QED
  BY <1>1, <1>3, <1>4, <1>5, <1>6 DEF PubInv, RestTyped

LEMMA SendFailsKeeps ==
    ASSUME PubInv, NEW p \in Pub, SendFails(p)
    PROVE  PubInv' /\ Others(p) /\ pub[p].st = "sent" /\ pub'[p].st = "wait"
<1>1. /\ Turn(p) /\ pub[p].st = "sent" /\ Unqueue(p) /\ Put(p, "wait", pub[p].try, 0)
      /\ log' \in {log, Append(log, p)} /\ connected' = FALSE
      /\ faults < MaxFaults /\ faults' = faults + 1
      /\ UNCHANGED <<inflight, producer, ready, dlq, dropped, begun>>
  BY DEF SendFails, Turn, Fault, Failed
<1>2. producer' \in Nat /\ producer' >= producer /\ 0 \in 0..producer'
  BY <1>1 DEF PubInv, RestTyped
<1>3. PubsTyped'
  BY <1>1, <1>2, PubTried, PutTyped DEF PubInv, Stage, Counted
<1>4. QueueOK'
  BY <1>1, Dequeued DEF Stage, Counted
<1>5. Others(p) /\ pub'[p].st = "wait"
  BY <1>1, PutChanges DEF PubInv, Others
<1>6. DeadLettersDone'
  BY <1>1, <1>5, DeadStay
<1>7. log' \in Seq(Pub)
  BY <1>1 DEF PubInv, RestTyped
<1>8. faults' \in 0..MaxFaults
  BY <1>1, PublisherAssumption DEF PubInv, RestTyped, PublisherAssumption
<1>10. connected' \in BOOLEAN
  BY <1>1 DEF PubInv, RestTyped
<1>9. RestTyped'
  BY <1>1, <1>8, <1>10, <1>7 DEF PubInv, RestTyped
<1> QED
  BY <1>1, <1>3, <1>4, <1>5, <1>6, <1>9 DEF PubInv

LEMMA RetryKeeps ==
    ASSUME PubInv, NEW p \in Pub, Retry(p)
    PROVE  /\ PubInv' /\ Others(p) /\ pub[p].st = "wait"
           /\ pub'[p].st \in {"sent", "wait", "connect", "dlq"}
<1>1. /\ pub[p].st = "wait"
      /\ UNCHANGED <<inflight, ready, log, dlq, dropped, begun, faults>>
  BY DEF Retry
<1>2. pub[p].try \in 0..Attempts
  BY PubTried
<1>3. CASE pub[p].try < Attempts
  <2>1. Attempt(p, pub[p].try + 1) /\ pub[p].try + 1 \in 0..Attempts
    BY <1>2, <1>3 DEF Retry
  <2>2. /\ PubsTyped' /\ QueueOK' /\ Others(p) /\ pub'[p].st \in {"sent", "wait", "connect"}
        /\ producer' \in Nat /\ producer' >= producer /\ connected' \in BOOLEAN
    BY <1>1, <2>1, AttemptKeeps
  <2>3. DeadLettersDone'
    BY <1>1, <2>2, DeadStay
  <2> QED
    BY <1>1, <2>2, <2>3 DEF PubInv, RestTyped
<1>4. CASE ~(pub[p].try < Attempts)
  <2>1. Put(p, "dlq", pub[p].try, 0) /\ UNCHANGED <<producer, connected, queue>>
    BY <1>4 DEF Retry
  <2>2. producer' \in Nat /\ producer' >= producer /\ 0 \in 0..producer'
    BY <2>1 DEF PubInv, RestTyped
  <2>3. PubsTyped'
    BY <2>1, <2>2, <1>2, PutTyped DEF PubInv, Stage, Counted
  <2>4. QueueOK'
    BY <1>1, <2>1, QueueStays DEF Stage, Counted
  <2>5. Others(p) /\ pub'[p].st = "dlq"
    BY <2>1, PutChanges DEF PubInv, Others
  <2>6. DeadLettersDone'
    BY <1>1, <2>5, DeadStay
  <2> QED
    BY <1>1, <2>1, <2>3, <2>4, <2>5, <2>6 DEF PubInv, RestTyped
<1> QED
  BY <1>3, <1>4

LEMMA WriteDlqKeeps ==
    ASSUME PubInv, NEW p \in Pub, WriteDlq(p)
    PROVE  /\ PubInv' /\ Others(p) /\ pub[p].st \in {"spill", "dlq"}
           /\ pub'[p].st = "done"
<1>1. /\ pub[p].st \in {"spill", "dlq"} /\ Put(p, "done", pub[p].try, 0)
      /\ dlq' \cup dropped' = dlq \cup dropped \cup {p}
      /\ faults' \in {faults, faults + 1} /\ (faults' # faults => faults < MaxFaults)
      /\ UNCHANGED <<producer, ready, connected, queue, log, begun>>
  BY DEF WriteDlq, kafka, Fault
<1>2. producer' \in Nat /\ producer' >= producer /\ 0 \in 0..producer'
  BY <1>1 DEF PubInv, RestTyped
<1>3. PubsTyped'
  BY <1>1, <1>2, PubTried, PutTyped DEF PubInv, Stage, Counted
<1>4. QueueOK'
  BY <1>1, QueueStays DEF Stage, Counted
<1>5. Others(p) /\ pub'[p].st = "done"
  BY <1>1, PutChanges DEF PubInv, Others
<1>6. DeadLettersDone'
  BY <1>1, <1>5 DEF PubInv, DeadLettersDone, Others
<1> QED
  BY <1>1, <1>3, <1>4, <1>5, <1>6 DEF PubInv, RestTyped

LEMMA PubInitInv == PubInit => PubInv
<1> SUFFICES ASSUME PubInit PROVE PubInv
  OBVIOUS
<1> USE DEF PubInit, Idle
<1>1. PubsTyped
  BY DEF PubsTyped, Stage, Counted
<1>2. queue \in Seq(Seq(Pub)) /\ Len(queue) = producer /\ queue[1] = <<>> /\ producer = 1
  OBVIOUS
<1>3. QueueOK
  BY <1>2 DEF QueueOK, Fits
<1>4. RestTyped
  BY DEF RestTyped
<1>5. DeadLettersDone
  BY DEF DeadLettersDone
<1> QED
  BY <1>1, <1>3, <1>4, <1>5 DEF PubInv

LEMMA PubStutters == PubInv /\ UNCHANGED pubVars => PubInv'
BY DEF PubInv, PubsTyped, QueueOK, Fits, Holds, RestTyped, DeadLettersDone, pubVars, kafka

LEMMA PubStepInv == PubInv /\ [PubNext]_pubVars => PubInv'
<1> SUFFICES ASSUME PubInv, PubNext PROVE PubInv'
  BY PubStutters
<1>1. PICK p \in Pub : Publish(p) \/ PubStep(p)
  BY DEF PubNext
<1> QED
  BY <1>1, PublishKeeps, ConnectKeeps, ConnectFailsKeeps, AckKeeps, SendFailsKeeps, RetryKeeps,
     WriteDlqKeeps DEF PubStep

LEMMA PubInvariant == PubSpec => []PubInv
BY PubInitInv, PubStepInv, PTL DEF PubSpec

(* In every state the variables have their types, each queue of a producer *)
(* holds publications sent on it, and only what publish() has returned for *)
(* is in the DLQ file or counted as lost.                                  *)
THEOREM PublisherTypeCorrect == PubSpec => []PubTypeOK
BY PubInvariant, InvTyped, PTL

-----------------------------------------------------------------------------
(* publish() never returns without the event in Kafka, in the DLQ file or  *)
(* counted as lost (publisher.ts:7), whatever fails.                       *)
THEOREM NothingEverVanishes == PubSpec => []NothingVanishes
<1>1. PubInit => NothingVanishes
  BY DEF PubInit, Idle, NothingVanishes
<1>2. PubInv /\ NothingVanishes /\ [PubNext]_pubVars => NothingVanishes'
  <2> SUFFICES ASSUME PubInv, NothingVanishes, PubNext PROVE NothingVanishes'
    BY DEF NothingVanishes, Logged, pubVars, kafka
  <2>1. PICK p \in Pub : Publish(p) \/ PubStep(p)
    BY DEF PubNext
  <2>2. log \in Seq(Pub)
    BY DEF PubInv, RestTyped
  <2>3. ASSUME NEW q \in Pub, log' = Append(log, q) PROVE Logged' = Logged \cup {q}
    BY <2>2, <2>3 DEF Logged
  <2>4. log' = log => Logged' = Logged
    BY DEF Logged
  <2>5. Others(p) /\ Logged \subseteq Logged' /\ dlq \subseteq dlq' /\ dropped \subseteq dropped'
    <3>1. CASE Publish(p)
      BY <3>1, <2>4, PublishKeeps DEF Publish
    <3>2. CASE Connect(p)
      BY <3>2, <2>4, ConnectKeeps DEF Connect
    <3>3. CASE ConnectFails(p)
      BY <3>3, <2>4, ConnectFailsKeeps DEF ConnectFails
    <3>4. CASE Ack(p)
      BY <3>4, <2>3, AckKeeps DEF Ack
    <3>5. CASE SendFails(p)
      BY <3>5, <2>3, <2>4, SendFailsKeeps DEF SendFails
    <3>6. CASE Retry(p)
      BY <3>6, <2>4, RetryKeeps DEF Retry
    <3>7. CASE WriteDlq(p)
      BY <3>7, <2>4, WriteDlqKeeps DEF WriteDlq, kafka
    <3> QED
      BY <2>1, <3>1, <3>2, <3>3, <3>4, <3>5, <3>6, <3>7 DEF PubStep
  <2>6. pub'[p].st = "done" => p \in (Logged \cup dlq \cup dropped)'
    <3>1. CASE Publish(p)
      BY <3>1, PublishKeeps
    <3>2. CASE Ack(p)
      BY <3>2, <2>3 DEF Ack
    <3>3. CASE WriteDlq(p)
      BY <3>3 DEF WriteDlq
    <3> QED
      BY <2>1, <3>1, <3>2, <3>3, ConnectKeeps, ConnectFailsKeeps, SendFailsKeeps, RetryKeeps
      DEF PubStep
  <2> QED
    BY <2>5, <2>6 DEF NothingVanishes, Others
<1> QED
  BY PubInvariant, <1>1, <1>2, PTL DEF PubSpec

-----------------------------------------------------------------------------
(* The publications under way.                                             *)
UnderWay == {p \in Pub : pub[p].st \in Counted}

CountInv ==
    /\ IsFiniteSet(UnderWay)
    /\ inflight = Cardinality(UnderWay)
    /\ inflight =< MaxInflight

LEMMA SameCount ==
    ASSUME CountInv, NEW p \in Pub, Others(p), UNCHANGED inflight,
           pub[p].st \in Counted <=> pub'[p].st \in Counted
    PROVE  CountInv'
<1>1. UnderWay' = UnderWay
  BY DEF UnderWay, Others
<1> QED
  BY <1>1 DEF CountInv

LEMMA OneMore ==
    ASSUME CountInv, NEW p \in Pub, Others(p), ~(inflight >= MaxInflight),
           inflight' = inflight + 1, pub[p].st \notin Counted, pub'[p].st \in Counted
    PROVE  CountInv'
<1>1. UnderWay' = UnderWay \cup {p} /\ p \notin UnderWay
  BY DEF UnderWay, Others
<1>2. IsFiniteSet(UnderWay') /\ Cardinality(UnderWay') = Cardinality(UnderWay) + 1
  BY <1>1, FS_AddElement DEF CountInv
<1>3. Cardinality(UnderWay) \in Nat
  BY FS_CardinalityType DEF CountInv
<1> QED
  BY <1>2, <1>3, PublisherAssumption DEF CountInv, PublisherAssumption

LEMMA OneLess ==
    ASSUME CountInv, NEW p \in Pub, Others(p), inflight' = inflight - 1,
           pub[p].st \in Counted, pub'[p].st \notin Counted
    PROVE  CountInv'
<1>1. UnderWay' = UnderWay \ {p} /\ p \in UnderWay
  BY DEF UnderWay, Others
<1>2. IsFiniteSet(UnderWay') /\ Cardinality(UnderWay') = Cardinality(UnderWay) - 1
  BY <1>1, FS_RemoveElement DEF CountInv
<1>3. Cardinality(UnderWay) \in Nat
  BY FS_CardinalityType DEF CountInv
<1> QED
  BY <1>2, <1>3, PublisherAssumption DEF CountInv, PublisherAssumption

(* The count goes up once and down once for each publication, whichever    *)
(* way it takes, and its limit holds for any number of callers.            *)
THEOREM InflightAlwaysCounted == PubSpec => []InflightCounted
<1>1. PubInit => CountInv
  <2> SUFFICES ASSUME PubInit PROVE CountInv
    OBVIOUS
  <2>1. UnderWay = {}
    BY DEF PubInit, Idle, UnderWay, Counted
  <2> QED
    BY <2>1, FS_EmptySet, PublisherAssumption DEF CountInv, PubInit, PublisherAssumption
<1>2. PubInv /\ CountInv /\ [PubNext]_pubVars => CountInv'
  <2> SUFFICES ASSUME PubInv, CountInv, PubNext PROVE CountInv'
    BY DEF CountInv, UnderWay, pubVars
  <2>1. PICK p \in Pub : Publish(p) \/ PubStep(p)
    BY DEF PubNext
  <2> USE DEF Counted
  <2>2. CASE Publish(p)
    <3>1. PubInv' /\ Others(p) /\ pub[p].st = "none"
      BY <2>2, PublishKeeps DEF Publish
    <3>2. CASE inflight >= MaxInflight
      BY <2>2, <3>1, <3>2, PublishKeeps, SameCount DEF Publish
    <3>3. CASE ~(inflight >= MaxInflight)
      BY <2>2, <3>1, <3>3, PublishKeeps, OneMore DEF Publish
    <3> QED
      BY <3>2, <3>3
  <2>3. CASE Connect(p)
    BY <2>3, ConnectKeeps, SameCount DEF Connect
  <2>4. CASE ConnectFails(p)
    BY <2>4, ConnectFailsKeeps, SameCount DEF ConnectFails
  <2>5. CASE Ack(p)
    BY <2>5, AckKeeps, OneLess DEF Ack
  <2>6. CASE SendFails(p)
    BY <2>6, SendFailsKeeps, SameCount DEF SendFails
  <2>7. CASE Retry(p)
    BY <2>7, RetryKeeps, SameCount DEF Retry
  <2>8. CASE WriteDlq(p)
    <3>1. CASE pub[p].st = "dlq"
      BY <2>8, <3>1, WriteDlqKeeps, OneLess DEF WriteDlq
    <3>2. CASE pub[p].st # "dlq"
      BY <2>8, <3>2, WriteDlqKeeps, SameCount DEF WriteDlq
    <3> QED
      BY <3>1, <3>2
  <2> QED
    BY <2>1, <2>2, <2>3, <2>4, <2>5, <2>6, <2>7, <2>8 DEF PubStep
<1>3. CountInv => InflightCounted
  BY DEF CountInv, InflightCounted, UnderWay
<1> QED
  BY PubInvariant, <1>1, <1>2, <1>3, PTL DEF PubSpec

-----------------------------------------------------------------------------
(* The order of one producer's events, in terms of the calls b.            *)
Prior(b, p, q) == \E i, j \in DOMAIN b : i < j /\ b[i] = p /\ b[j] = q
Sorted(b, s) == \A i, j \in DOMAIN s : i < j => Prior(b, s[i], s[j])
Ahead(b, s, t) == \A i \in DOMAIN s, j \in DOMAIN t : Prior(b, s[i], t[j])
Called(b, s) == \A i \in DOMAIN s : Holds(b, s[i])

LinedUp(b, s, t) ==
    Sorted(b, s) /\ Sorted(b, t) /\ Ahead(b, s, t) /\ Called(b, s) /\ Called(b, t)

(* Until a second producer is made, what has failed waits, and nothing is  *)
(* sent any more after the first failure.                                  *)
OrderInv ==
    producer = 1 =>
       /\ LinedUp(begun, log, queue[1])
       /\ \A p \in Pub : pub[p].st # "connect"
       /\ \A p \in Pub : pub[p].st = "wait" => ~connected

LEMMA OneMoreCall ==
    ASSUME NEW b \in Seq(Pub), NEW p \in Pub
    PROVE  /\ \A q, r \in Pub : Prior(b, q, r) => Prior(Append(b, p), q, r)
           /\ \A q \in Pub : Holds(b, q) => Prior(Append(b, p), q, p) /\ Holds(Append(b, p), q)
           /\ Holds(Append(b, p), p)
<1> DEFINE c == Append(b, p)
<1>1. /\ DOMAIN b = 1..Len(b) /\ DOMAIN c = 1..(Len(b) + 1) /\ Len(b) \in Nat
      /\ \A i \in 1..Len(b) : c[i] = b[i]
      /\ c[Len(b) + 1] = p
  OBVIOUS
<1> HIDE DEF c
<1>2. \A q, r \in Pub : Prior(b, q, r) => Prior(c, q, r)
  <2> SUFFICES ASSUME NEW q \in Pub, NEW r \in Pub, NEW i \in DOMAIN b,
                      NEW j \in DOMAIN b, i < j, b[i] = q, b[j] = r
               PROVE  Prior(c, q, r)
    BY DEF Prior
  <2>1. i \in DOMAIN c /\ j \in DOMAIN c /\ c[i] = q /\ c[j] = r
    BY <1>1
  <2> QED
    BY <2>1 DEF Prior
<1>3. ASSUME NEW q \in Pub, Holds(b, q) PROVE Prior(c, q, p) /\ Holds(c, q)
  <2>1. PICK i \in 1..Len(b) : b[i] = q
    BY <1>1, <1>3 DEF Holds
  <2>2. /\ i \in DOMAIN c /\ Len(b) + 1 \in DOMAIN c /\ i < Len(b) + 1
        /\ c[i] = q
    BY <1>1, <2>1
  <2> QED
    BY <1>1, <2>2 DEF Prior, Holds
<1>4. Holds(c, p)
  BY <1>1 DEF Holds
<1> QED
  BY <1>2, <1>3, <1>4 DEF c

LEMMA CallKeepsLine ==
    ASSUME NEW b \in Seq(Pub), NEW p \in Pub, NEW s \in Seq(Pub), NEW t \in Seq(Pub),
           LinedUp(b, s, t)
    PROVE  LinedUp(Append(b, p), s, t)
<1>1. /\ \A i \in DOMAIN s : s[i] \in Pub
      /\ \A i \in DOMAIN t : t[i] \in Pub
  OBVIOUS
<1> QED
  BY <1>1, OneMoreCall DEF LinedUp, Sorted, Ahead, Called

LEMMA SentKeepsLine ==
    ASSUME NEW b \in Seq(Pub), NEW p \in Pub, NEW s \in Seq(Pub), NEW t \in Seq(Pub),
           LinedUp(b, s, t)
    PROVE  LinedUp(Append(b, p), s, Append(t, p))
<1> DEFINE c == Append(b, p)
           u == Append(t, p)
<1>1. /\ \A i \in DOMAIN s : s[i] \in Pub
      /\ \A i \in DOMAIN t : t[i] \in Pub
      /\ DOMAIN t = 1..Len(t) /\ DOMAIN u = 1..(Len(t) + 1) /\ Len(t) \in Nat
      /\ \A i \in DOMAIN t : u[i] = t[i]
      /\ u[Len(t) + 1] = p
  OBVIOUS
<1>2. /\ \A q, r \in Pub : Prior(b, q, r) => Prior(c, q, r)
      /\ \A q \in Pub : Holds(b, q) => Prior(c, q, p)
      /\ Holds(c, p)
  BY OneMoreCall
<1>3. LinedUp(c, s, t)
  BY CallKeepsLine
<1> HIDE DEF c, u
<1>4. \A j \in DOMAIN u : j \in DOMAIN t \/ j = Len(t) + 1
  BY <1>1
<1>5. Called(c, u)
  BY <1>1, <1>2, <1>3, <1>4 DEF LinedUp, Called
<1>6. Ahead(c, s, u)
  BY <1>1, <1>2, <1>3, <1>4 DEF LinedUp, Ahead, Called
<1>7. Sorted(c, u)
  <2> SUFFICES ASSUME NEW i \in DOMAIN u, NEW j \in DOMAIN u, i < j
               PROVE  Prior(c, u[i], u[j])
    BY DEF Sorted
  <2>1. i \in DOMAIN t
    BY <1>1, <1>4
  <2> QED
    BY <1>1, <1>2, <1>3, <1>4, <2>1 DEF LinedUp, Sorted, Called
<1> QED
  BY <1>3, <1>5, <1>6, <1>7 DEF LinedUp, c, u

LEMMA TakenKeepsLine ==
    ASSUME NEW b \in Seq(Pub), NEW s \in Seq(Pub), NEW t \in Seq(Pub), t # <<>>,
           LinedUp(b, s, t)
    PROVE  /\ LinedUp(b, s, Tail(t))
           /\ LinedUp(b, Append(s, Head(t)), Tail(t))
<1> DEFINE u == Tail(t)
           v == Append(s, Head(t))
<1>1. /\ DOMAIN t = 1..Len(t) /\ DOMAIN u = 1..Len(u) /\ Len(u) = Len(t) - 1 /\ Len(t) \in Nat
      /\ \A i \in DOMAIN u : u[i] = t[i + 1] /\ i + 1 \in DOMAIN t
      /\ 1 \in DOMAIN t
      /\ DOMAIN s = 1..Len(s) /\ DOMAIN v = 1..(Len(s) + 1) /\ Len(s) \in Nat
      /\ \A i \in DOMAIN s : v[i] = s[i]
      /\ v[Len(s) + 1] = t[1]
  <2>1. /\ t \in Seq(Pub) /\ t # <<>> => Len(t) \in Nat /\ Len(t) >= 1
        /\ DOMAIN t = 1..Len(t)
    OBVIOUS
  <2>2. u \in Seq(Pub) /\ Len(u) = Len(t) - 1 /\ \A i \in 1..Len(u) : u[i] = t[i + 1]
    BY <2>1
  <2>3. /\ DOMAIN s = 1..Len(s) /\ DOMAIN v = 1..(Len(s) + 1) /\ Len(s) \in Nat
        /\ \A i \in DOMAIN s : v[i] = s[i]
        /\ v[Len(s) + 1] = Head(t)
    BY <2>1
  <2> HIDE DEF u, v
  <2>4. DOMAIN u = 1..Len(u) /\ 1 \in DOMAIN t /\ \A i \in DOMAIN u : i + 1 \in DOMAIN t
    BY <2>1, <2>2
  <2> QED
    BY <2>1, <2>2, <2>3, <2>4
<1> HIDE DEF u, v
<1>2. \A j \in DOMAIN v : j \in DOMAIN s \/ j = Len(s) + 1
  BY <1>1
<1>0. \A i, j \in DOMAIN t : i < j => Prior(b, t[i], t[j])
  BY DEF LinedUp, Sorted
<1>3. ASSUME NEW i \in DOMAIN u PROVE Prior(b, t[1], u[i])
  <2>1. 1 < i + 1 /\ i + 1 \in DOMAIN t /\ u[i] = t[i + 1]
    BY <1>1
  <2> QED
    BY <1>0, <1>1, <2>1
<1>4. Sorted(b, u)
  <2> SUFFICES ASSUME NEW i \in DOMAIN u, NEW j \in DOMAIN u, i < j
               PROVE  Prior(b, u[i], u[j])
    BY DEF Sorted
  <2>1. i + 1 < j + 1 /\ i + 1 \in DOMAIN t /\ j + 1 \in DOMAIN t
    BY <1>1
  <2> QED
    BY <1>0, <1>1, <2>1
<1>5. Called(b, u) /\ Ahead(b, s, u)
  BY <1>1 DEF LinedUp, Called, Ahead
<1>6. Called(b, v) /\ Ahead(b, v, u)
  BY <1>1, <1>2, <1>3, <1>5 DEF LinedUp, Called, Ahead
<1>7. Sorted(b, v)
  <2> SUFFICES ASSUME NEW i \in DOMAIN v, NEW j \in DOMAIN v, i < j
               PROVE  Prior(b, v[i], v[j])
    BY DEF Sorted
  <2>1. i \in DOMAIN s
    BY <1>1, <1>2
  <2> QED
    BY <1>1, <1>2, <2>1 DEF LinedUp, Sorted, Ahead
<1> QED
  BY <1>4, <1>5, <1>6, <1>7 DEF LinedUp, u, v

(* As long as no second producer has been made, the partition of the       *)
(* account has its events in the order of the publish() calls, each once.  *)
THEOREM InOrderUntilReplaced == PubSpec => []InOrder
<1>1. PubInit => OrderInv
  BY DEF PubInit, Idle, OrderInv, LinedUp, Sorted, Ahead, Called
<1>2. PubInv /\ OrderInv /\ [PubNext]_pubVars => OrderInv'
  <2>1. ASSUME OrderInv, UNCHANGED pubVars PROVE OrderInv'
    BY <2>1 DEF OrderInv, pubVars, kafka
  <2> SUFFICES ASSUME PubInv, OrderInv, PubNext, producer' = 1 PROVE OrderInv'
    BY <2>1 DEF OrderInv
  <2>2. PICK p \in Pub : Publish(p) \/ PubStep(p)
    BY DEF PubNext
  <2>3. /\ begun \in Seq(Pub) /\ log \in Seq(Pub) /\ producer \in Nat \ {0}
        /\ producer = 1 => queue[1] \in Seq(Pub) /\ queue[1] = queue[producer]
    BY DEF PubInv, RestTyped, QueueOK, Fits
  <2>4. ASSUME producer = 1
        PROVE  /\ LinedUp(begun, log, queue[1])
               /\ \A q \in Pub : pub[q].st # "connect"
               /\ \A q \in Pub : pub[q].st = "wait" => ~connected
    BY <2>4 DEF OrderInv
  <2>5. CASE Publish(p)
    <3>1. Others(p) /\ begun' = Append(begun, p) /\ log' = log
      BY <2>5, PublishKeeps DEF Publish
    <3>2. CASE inflight >= MaxInflight
      <4>1. UNCHANGED <<producer, connected, queue>> /\ pub'[p].st = "spill"
        BY <2>5, <3>2, PublishKeeps DEF Publish
      <4>2. LinedUp(begun', log', queue'[1])
        BY <2>3, <2>4, <3>1, <4>1, CallKeepsLine
      <4> QED
        BY <2>4, <3>1, <4>1, <4>2 DEF OrderInv, Others
    <3>3. CASE ~(inflight >= MaxInflight)
      <4>1. Attempt(p, 1)
        BY <2>5, <3>3 DEF Publish
      <4>2. connected /\ producer = 1
        BY <2>3, <4>1 DEF Attempt
      <4>3. CASE producer \in ready
        <5>1. /\ Put(p, "sent", 1, producer)
              /\ queue' = [queue EXCEPT ![producer] = Append(@, p)]
          BY <4>1, <4>2, <4>3 DEF Attempt, Send
        <5>2. pub'[p].st = "sent"
          BY <5>1, PutChanges DEF PubInv
        <5>3. queue'[1] = Append(queue[1], p)
          BY <4>2, <5>1 DEF PubInv, QueueOK
        <5>4. LinedUp(begun', log', queue'[1])
          BY <2>3, <2>4, <3>1, <4>2, <5>3, SentKeepsLine
        <5> QED
          BY <2>4, <3>1, <4>2, <5>2, <5>4 DEF OrderInv, Others
      <4>4. CASE producer \notin ready
        <5>1. Put(p, "wait", 1, 0) /\ queue' = queue /\ ~connected'
          BY <4>1, <4>2, <4>4 DEF Attempt, Send
        <5>2. pub'[p].st = "wait"
          BY <5>1, PutChanges DEF PubInv
        <5>3. LinedUp(begun', log', queue'[1])
          BY <2>3, <2>4, <3>1, <4>2, <5>1, CallKeepsLine
        <5> QED
          BY <2>4, <3>1, <4>2, <5>1, <5>2, <5>3 DEF OrderInv, Others
      <4> QED
        BY <4>3, <4>4
    <3> QED
      BY <3>2, <3>3
  <2>6. CASE Connect(p) \/ ConnectFails(p)
    BY <2>4, <2>6 DEF Connect, ConnectFails
  <2>7. ASSUME Turn(p), Unqueue(p), producer = 1
        PROVE  /\ LinedUp(begun, log, queue'[1])
               /\ LinedUp(begun, Append(log, p), queue'[1])
    <3>1. pub[p].via = 1 /\ queue[1] # <<>> /\ Head(queue[1]) = p
      BY <2>7 DEF PubInv, QueueOK, Turn, Holds
    <3>2. queue'[1] = Tail(queue[1])
      BY <2>7, <3>1 DEF PubInv, QueueOK, Unqueue
    <3> QED
      BY <2>3, <2>4, <2>7, <3>1, <3>2, TakenKeepsLine
  <2>8. CASE Ack(p)
    <3>1. /\ Turn(p) /\ Unqueue(p) /\ producer = 1 /\ log' = Append(log, p)
          /\ UNCHANGED <<connected, begun>> /\ Others(p) /\ pub'[p].st = "done"
      BY <2>8, AckKeeps DEF Ack
    <3> QED
      BY <2>4, <2>7, <3>1 DEF OrderInv, Others
  <2>9. CASE SendFails(p)
    <3>1. /\ Turn(p) /\ Unqueue(p) /\ producer = 1 /\ log' \in {log, Append(log, p)}
          /\ begun' = begun /\ ~connected' /\ Others(p) /\ pub'[p].st = "wait"
      BY <2>9, SendFailsKeeps DEF SendFails, Failed
    <3> QED
      BY <2>4, <2>7, <3>1 DEF OrderInv, Others
  <2>10. CASE Retry(p)
    <3>1. pub[p].st = "wait" /\ Others(p) /\ UNCHANGED <<log, begun>>
      BY <2>10, RetryKeeps DEF Retry
    <3>2. producer = 1 => ~connected
      BY <2>4, <3>1
    <3>3. ~(pub[p].try < Attempts)
      BY <2>3, <2>10, <3>2 DEF Retry, Attempt
    <3>4. Put(p, "dlq", pub[p].try, 0) /\ UNCHANGED <<producer, connected, queue>>
      BY <2>10, <3>3 DEF Retry
    <3>5. pub'[p].st = "dlq"
      BY <3>4, PutChanges DEF PubInv
    <3> QED
      BY <2>4, <3>1, <3>4, <3>5 DEF OrderInv, Others
  <2>11. CASE WriteDlq(p)
    <3>1. /\ Others(p) /\ pub'[p].st = "done"
          /\ UNCHANGED <<producer, connected, queue, log, begun>>
      BY <2>11, WriteDlqKeeps DEF WriteDlq, kafka
    <3> QED
      BY <2>4, <3>1 DEF OrderInv, Others
  <2> QED
    BY <2>2, <2>5, <2>6, <2>8, <2>9, <2>10, <2>11 DEF PubStep
<1>3. OrderInv => InOrder
  BY DEF OrderInv, InOrder, LinedUp, Sorted, Prior, Before
<1> QED
  BY PubInvariant, <1>1, <1>2, <1>3, PTL DEF PubSpec

=============================================================================
