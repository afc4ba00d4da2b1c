--------------------------- MODULE HostingProofs ---------------------------
(***************************************************************************)
(* Proofs about Hosting, for any set of workers and of calls, any number   *)
(* of failures and changes, with or without MySQL and failovers of workers *)
(* that run: who has a socket and who ought to have one, and whether the   *)
(* credentials in Redis are the newest.                                    *)
(***************************************************************************)
EXTENDS Hosting, TLAPS

(* A record that a process may be in.                                      *)
Place == [at : Worker \cup {NoWorker}, pc : Pc, next : Pc \cup Use, got : Copy]

Follows(pc, next) ==
    /\ pc \in {"leave", "mark"} => next \in {"drop", "wipe"}
    /\ pc \in {"clearImport", "saveImport"} => next \in {"idle", "online"}

ProcsTyped ==
    /\ proc \in [Proc -> Place]
    /\ \A p \in Proc : proc[p].pc = "idle" => proc[p] = Rest(p)
    /\ \A p \in Proc : proc[p].pc # "idle" => proc[p].at \in up
    /\ \A p \in Proc : Follows(proc[p].pc, proc[p].next)
    /\ \A w \in Worker : proc[w].at = w

HostTyped ==
    /\ assign \in Worker \cup {NoWorker}
    /\ released \in BOOLEAN
    /\ up \subseteq Worker
    /\ inMap \subseteq up
    /\ held \in [Worker -> Copy]
    /\ \A w \in Worker \ up : held[w] = None /\ l1[w] = None

HistoryTyped ==
    /\ newest \in Version
    /\ live \in BOOLEAN
    /\ failures \in 0..MaxFailures
    /\ raced \subseteq Worker /\ drifted \subseteq Worker /\ behind \subseteq Worker
    /\ spoilt \in BOOLEAN

HostingTyped == ProcsTyped /\ TiersTypeOK /\ HostTyped /\ HistoryTyped

LEMMA HostingTypedOK == HostingTyped => TypeOK
BY DEF HostingTyped, ProcsTyped, HostTyped, HistoryTyped, TypeOK, Place

LEMMA Copies == None \in Copy /\ Fresh \in Copy /\ Version \subseteq Copy /\ None \notin Version
BY MaxVersionAssumption DEF None, Fresh, Copy, Version, MaxVersionAssumption

LEMMA NamesApart == NoWorker \notin Proc /\ NoWorker \notin Worker /\ Worker \cap Job = {}
BY HostingAssumption DEF HostingAssumption, Proc

-----------------------------------------------------------------------------
(* What the tiers hold stays credentials.                                  *)

LEMMA SaveTyped ==
    ASSUME TiersTypeOK, NEW w \in Worker, NEW v \in Copy, NEW r \in Copy, SaveRedis(w, v, r)
    PROVE  TiersTypeOK' /\ \A x \in Worker \ {w} : l1'[x] = l1[x]
<1>1. /\ l1' = [l1 EXCEPT ![w] = v] /\ l2' = r /\ l3' = l3
      /\ late' = IF Durable THEN late \cup {<<w, v>>} ELSE late
  BY DEF SaveRedis
<1>2. late' \subseteq Worker \X Copy /\ (~Durable => late' = {})
  BY <1>1 DEF TiersTypeOK
<1> QED
  BY <1>1, <1>2 DEF TiersTypeOK

LEMMA FillTyped ==
    ASSUME TiersTypeOK, NEW w \in Worker, NEW v \in Copy,
           FillFromRedis(w, v) \/ FillFromMySql(w, v)
    PROVE  TiersTypeOK' /\ \A x \in Worker \ {w} : l1'[x] = l1[x]
BY DEF FillFromRedis, FillFromMySql, TiersTypeOK

LEMMA DeleteTyped ==
    ASSUME TiersTypeOK, NEW w \in Worker, DeleteRedis(w) \/ Forget(w)
    PROVE  TiersTypeOK' /\ l1'[w] = None /\ \A x \in Worker \ {w} : l1'[x] = l1[x]
BY Copies DEF DeleteRedis, Forget, TiersTypeOK

LEMMA DeleteMySqlTyped == TiersTypeOK /\ DeleteMySql => TiersTypeOK' /\ l1' = l1
BY Copies DEF DeleteMySql, TiersTypeOK

LEMMA LandTyped == TiersTypeOK /\ Land => TiersTypeOK' /\ l1' = l1
<1> SUFFICES ASSUME TiersTypeOK, Land PROVE TiersTypeOK' /\ l1' = l1
  OBVIOUS
<1>1. PICK x \in late : l3' \in {x[2], l3} /\ late' = late \ {x} /\ UNCHANGED <<l1, l2>>
  BY DEF Land
<1>2. x[2] \in Copy /\ (~Durable => FALSE)
  BY <1>1 DEF TiersTypeOK
<1> QED
  BY <1>1, <1>2 DEF TiersTypeOK

-----------------------------------------------------------------------------
(* What the helpers do.                                                    *)

(* p is the only process that has moved, and if it goes on it is on w.     *)
Moved(p, w) ==
    /\ \A q \in Proc \ {p} : proc'[q] = proc[q]
    /\ proc'[p].pc = "idle" \/ proc'[p].at = w

LEMMA MoveTyped ==
    ASSUME ProcsTyped, UNCHANGED up, NEW p \in Proc, NEW w \in Worker, w \in up,
           p \in Worker => p = w, NEW pc \in Pc, NEW next \in Pc \cup Use, NEW v \in Copy,
           Follows(pc, next), Move(p, w, pc, next, v)
    PROVE  /\ ProcsTyped' /\ Moved(p, w)
           /\ proc'[p].pc = pc
           /\ pc # "idle" => proc'[p].at = w /\ proc'[p].next = next
<1> DEFINE r == IF pc = "idle" THEN Rest(p) ELSE [at |-> w, pc |-> pc, next |-> next, got |-> v]
<1>1. Rest(p) \in Place
  BY Copies DEF Rest, Place, Pc
<1>2. r \in Place /\ r.pc = pc /\ (r.pc = "idle" => r = Rest(p)) /\ (r.pc # "idle" => r.at = w /\ r.next = next)
  BY <1>1 DEF Place, Rest
<1>3. Follows(r.pc, r.next) /\ (p \in Worker => r.at = p)
  BY <1>2 DEF Rest, Follows
<1>4. proc' = [proc EXCEPT ![p] = r]
  BY DEF Move
<1> HIDE DEF r
<1>5. proc'[p] = r /\ \A q \in Proc \ {p} : proc'[q] = proc[q]
  BY <1>4 DEF ProcsTyped
<1>6. proc' \in [Proc -> Place]
  BY <1>2, <1>4 DEF ProcsTyped
<1>7. Worker \subseteq Proc
  BY DEF Proc
<1>8. ProcsTyped'
  BY <1>2, <1>3, <1>5, <1>6, <1>7 DEF ProcsTyped
<1> QED
  BY <1>2, <1>5, <1>8 DEF Moved

(* A process that is on its way is on a worker that runs.                  *)
LEMMA Placed ==
    ASSUME HostingTyped, NEW p \in Proc, NEW w \in Worker, NEW pc, pc # "idle", At(p, w, pc)
    PROVE  /\ w \in up /\ (p \in Worker => p = w) /\ proc[p].at = w /\ proc[p].pc = pc
           /\ proc[p].got \in Copy /\ proc[p].next \in Pc \cup Use
           /\ Follows(pc, proc[p].next)
BY DEF HostingTyped, ProcsTyped, At, Place

LEMMA FailTyped == HistoryTyped /\ Fail => failures' \in 0..MaxFailures
BY HostingAssumption DEF HistoryTyped, Fail, HostingAssumption

LEMMA CarriersRun == ASSUME HostingTyped, NEW p PROVE Carriers(p) \subseteq Worker
BY DEF Carriers, HasRead, HostingTyped, ProcsTyped, HostTyped, Rest

LEMMA PassByTyped ==
    ASSUME HostingTyped, NEW p, NEW w \in Worker, PassBy(p, w) PROVE behind' \subseteq Worker
<1>1. {w, assign} \cap up \subseteq Worker
  BY DEF HostingTyped, HostTyped
<1> QED
  BY <1>1, CarriersRun DEF PassBy, HostingTyped, HistoryTyped

LEMMA RebindTyped ==
    ASSUME HostingTyped, NEW p, NEW w \in Worker \cup {NoWorker}, Rebind(p, w)
    PROVE  /\ assign' = w /\ drifted' \subseteq Worker /\ behind' \subseteq Worker
           /\ drifted \subseteq drifted'
BY DEF Rebind, HostingTyped, HostTyped, HistoryTyped

LEMMA OverlapTyped ==
    ASSUME HostingTyped, NEW p, NEW w \in Worker, Overlap(p, w) PROVE raced' \subseteq Worker
BY DEF Overlap, HostingTyped, HistoryTyped

LEMMA WroteTyped == ASSUME NEW w, Wrote(w) PROVE spoilt' \in BOOLEAN
BY DEF Wrote

-----------------------------------------------------------------------------
(* The steps of an opening.                                                *)

LEMMA DeliverTyped ==
    ASSUME HostingTyped, UNCHANGED up, NEW p \in Proc, NEW w \in Worker, w \in up,
           p \in Worker => p = w, NEW use, NEW v \in Copy, Deliver(p, w, use, v)
    PROVE  ProcsTyped' /\ Moved(p, w) /\ inMap' \subseteq inMap \cup {w}
<1>1. inMap' \subseteq inMap \cup {w}
  BY DEF Deliver
<1>2. PICK pc \in {"save", "clear", "idle"}, u \in {v, None} : Move(p, w, pc, "idle", u)
  BY DEF Deliver
<1>3. pc \in Pc /\ u \in Copy /\ Follows(pc, "idle") /\ "idle" \in Pc \cup Use
  BY <1>2, Copies DEF Pc, Follows
<1> QED
  BY <1>1, <1>2, <1>3, MoveTyped DEF HostingTyped

LEMMA ReadTyped ==
    ASSUME HostingTyped, UNCHANGED up, NEW p \in Proc, NEW w \in Worker, w \in up,
           p \in Worker => p = w, NEW use \in Use, Read(p, w, use)
    PROVE  /\ ProcsTyped' /\ Moved(p, w) /\ inMap' \subseteq inMap \cup {w}
           /\ failures' \in 0..MaxFailures /\ behind' \subseteq Worker
<1>1. /\ l1[w] \in Copy /\ l2 \in Copy /\ "redis" \in Pc /\ use \in Pc \cup Use
      /\ Follows("redis", use) /\ None \in Copy
  BY Copies DEF HostingTyped, TiersTypeOK, Pc, Follows
<1>2. failures \in 0..MaxFailures /\ behind \subseteq Worker
  BY DEF HostingTyped, HistoryTyped
<1>3. CASE ReadFails(p, w, use)
  <2>1. /\ Move(p, w, "redis", use, None) /\ Fail /\ behind' = behind \cup {w}
        /\ inMap' = inMap
    BY <1>3 DEF ReadFails
  <2> QED
    BY <1>1, <1>2, <2>1, MoveTyped, FailTyped DEF HostingTyped
<1>4. CASE l1[w] # None /\ Deliver(p, w, use, l1[w]) /\ UNCHANGED <<failures, behind>>
  BY <1>1, <1>2, <1>4, DeliverTyped
<1>5. CASE Move(p, w, "redis", use, l2) /\ UNCHANGED <<inMap, failures, behind>>
  BY <1>1, <1>2, <1>5, MoveTyped DEF HostingTyped
<1> QED
  BY <1>3, <1>4, <1>5 DEF Read

LEMMA ReopenTyped ==
    ASSUME HostingTyped, UNCHANGED up, NEW p \in Proc, NEW w \in Worker, w \in up,
           p \in Worker => p = w, NEW v \in Copy, Reopen(p, w, v)
    PROVE  /\ ProcsTyped' /\ Moved(p, w) /\ inMap' \subseteq inMap \cup {w}
           /\ failures' \in 0..MaxFailures /\ behind' \subseteq Worker
           /\ held' = [held EXCEPT ![w] = None]
<1>1. /\ "save" \in Pc /\ "idle" \in Pc /\ "idle" \in Pc \cup Use /\ None \in Copy
      /\ Follows("save", "idle") /\ Follows("idle", "idle") /\ "reopen" \in Use
  BY Copies DEF Pc, Use, Follows
<1>2. failures \in 0..MaxFailures /\ behind \subseteq Worker
  BY DEF HostingTyped, HistoryTyped
<1>3. held' = [held EXCEPT ![w] = None]
  BY DEF Reopen
<1>4. CASE Move(p, w, "save", "idle", v) /\ UNCHANGED <<inMap, failures, behind>>
  BY <1>1, <1>2, <1>3, <1>4, MoveTyped DEF HostingTyped
<1>5. CASE Read(p, w, "reopen")
  BY <1>1, <1>3, <1>5, ReadTyped
<1>6. CASE Fail /\ Move(p, w, "idle", "idle", None) /\ UNCHANGED <<inMap, behind>>
  BY <1>1, <1>2, <1>3, <1>6, MoveTyped, FailTyped DEF HostingTyped
<1> QED
  BY <1>4, <1>5, <1>6 DEF Reopen

(* What an action does to the places where the account is hosted: only w   *)
(* may begin to, by the process p.                                         *)
Widens(p, w) ==
    /\ Moved(p, w)
    /\ inMap' \subseteq inMap \cup {w}
    /\ \A x \in Worker \ {w} : held'[x] = held[x]
    /\ assign' = assign /\ drifted' = drifted /\ up' = up

(* Tiers, held and inMap of workers other than w stay what they were.      *)
LEMMA HostStays ==
    ASSUME HostingTyped, NEW w \in up, UNCHANGED up, assign' \in Worker \cup {NoWorker},
           released' \in BOOLEAN,
           inMap' \subseteq inMap \cup {w}, held' \in [Worker -> Copy],
           \A x \in Worker \ {w} : held'[x] = held[x],
           \A x \in Worker \ {w} : l1'[x] = l1[x]
    PROVE  HostTyped'
BY DEF HostingTyped, HostTyped

LEMMA RedisKeeps ==
    ASSUME HostingTyped, NEW p \in Proc, NEW w \in Worker, Redis(p, w)
    PROVE  HostingTyped' /\ Widens(p, w)
<1>1. /\ At(p, w, "redis")
      /\ UNCHANGED <<assign, released, up, held, newest, live, failures, raced, drifted, behind, spoilt>>
  BY DEF Redis, bindingVars, credVars, historyVars
<1>2. /\ w \in up /\ (p \in Worker => p = w) /\ proc[p].at = w
      /\ proc[p].got \in Copy /\ proc[p].next \in Pc \cup Use
  BY <1>1, Placed
<1>3. CASE proc[p].got # None
  <2>1. FillFromRedis(w, proc[p].got) /\ Deliver(p, w, proc[p].next, proc[p].got)
    BY <1>3 DEF Redis
  <2> QED
    BY <1>1, <1>2, <2>1, FillTyped, DeliverTyped, HostStays
    DEF HostingTyped, HostTyped, HistoryTyped, Widens
<1>4. CASE proc[p].got = None
  <2>1. UNCHANGED tiers /\ UNCHANGED l1
    BY <1>4 DEF Redis, tiers
  <2>2. TiersTypeOK'
    BY <2>1 DEF HostingTyped, TiersTypeOK, tiers
  <2>3. CASE Carry(p, "mysql", l3) /\ UNCHANGED inMap
    <3>1. Move(p, w, "mysql", proc[p].next, l3) /\ "mysql" \in Pc /\ l3 \in Copy
          /\ Follows("mysql", proc[p].next)
      BY <1>2, <2>3 DEF Carry, Pc, HostingTyped, TiersTypeOK, Follows
    <3> QED
      BY <1>1, <1>2, <2>1, <2>2, <2>3, <3>1, MoveTyped, HostStays
      DEF HostingTyped, HostTyped, HistoryTyped, Widens
  <2>4. CASE Deliver(p, w, proc[p].next, None)
    BY <1>1, <1>2, <2>1, <2>2, <2>4, Copies, DeliverTyped, HostStays
    DEF HostingTyped, HostTyped, HistoryTyped, Widens
  <2> QED
    BY <1>4, <2>3, <2>4 DEF Redis
<1> QED
  BY <1>3, <1>4

LEMMA MySqlKeeps ==
    ASSUME HostingTyped, NEW p \in Proc, NEW w \in Worker, MySql(p, w)
    PROVE  HostingTyped' /\ Widens(p, w)
<1>1. /\ At(p, w, "mysql") /\ Deliver(p, w, proc[p].next, proc[p].got)
      /\ UNCHANGED <<assign, released, up, held, newest, live, failures, raced, drifted, behind>>
  BY DEF MySql, bindingVars, credVars
<1>2. /\ w \in up /\ (p \in Worker => p = w) /\ proc[p].got \in Copy
  BY <1>1, Placed
<1>3. /\ TiersTypeOK' /\ \A x \in Worker \ {w} : l1'[x] = l1[x]
  <2>1. CASE FillFromMySql(w, proc[p].got)
    BY <1>2, <2>1, FillTyped DEF HostingTyped
  <2>2. CASE UNCHANGED tiers
    BY <2>2 DEF HostingTyped, TiersTypeOK, tiers
  <2> QED
    BY <2>1, <2>2 DEF MySql
<1>4. spoilt' \in BOOLEAN
  BY WroteTyped DEF MySql, HostingTyped, HistoryTyped
<1> QED
  BY <1>1, <1>2, <1>3, <1>4, DeliverTyped, HostStays
  DEF HostingTyped, HostTyped, HistoryTyped, Widens

LEMMA ListKeeps ==
    ASSUME HostingTyped, NEW w \in Worker, List(w)
    PROVE  HostingTyped' /\ Widens(w, w) /\ assign' = w
<1>1. /\ w \in up /\ Go(w, "listed") /\ assign = w /\ proc[w].pc = "idle"
      /\ UNCHANGED <<tiers, l1, assign, released, up, inMap, held, newest, live, failures,
                     raced, drifted, behind, spoilt>>
  BY DEF List, tiers, bindingVars, workerVars, credVars, historyVars
<1>2. w \in Proc /\ proc[w].at = w /\ proc[w].got \in Copy
  BY DEF HostingTyped, ProcsTyped, Proc, Place
<1>3. Move(w, w, "listed", "idle", proc[w].got) /\ "listed" \in Pc /\ "idle" \in Pc \cup Use
      /\ Follows("listed", "idle")
  BY <1>1, <1>2 DEF Go, Pc, Follows
<1>4. ProcsTyped' /\ Moved(w, w)
  BY <1>1, <1>2, <1>3, MoveTyped DEF HostingTyped
<1>5. TiersTypeOK'
  BY <1>1 DEF HostingTyped, TiersTypeOK, tiers
<1> QED
  BY <1>1, <1>4, <1>5 DEF HostingTyped, HostTyped, HistoryTyped, Widens

LEMMA LookKeeps ==
    ASSUME HostingTyped, NEW w \in Worker, Look(w)
    PROVE  HostingTyped' /\ Widens(w, w) /\ At(w, w, "listed")
<1>1. /\ proc[w].pc = "listed" /\ Read(w, w, IF released THEN "skip" ELSE "adopt")
      /\ Overlap(w, w)
      /\ UNCHANGED <<tiers, l1, assign, released, up, held, newest, live, drifted, spoilt>>
  BY DEF Look, tiers, bindingVars, credVars
<1>2. w \in Proc /\ At(w, w, "listed")
  BY <1>1 DEF HostingTyped, ProcsTyped, Proc, At
<1>3. w \in up
  BY <1>2, Placed
<1>4. (IF released THEN "skip" ELSE "adopt") \in Use
  BY DEF Use
<1>5. TiersTypeOK'
  BY <1>1 DEF HostingTyped, TiersTypeOK, tiers
<1>6. /\ ProcsTyped' /\ Moved(w, w) /\ inMap' \subseteq inMap \cup {w}
      /\ failures' \in 0..MaxFailures /\ behind' \subseteq Worker
  BY <1>1, <1>2, <1>3, <1>4, ReadTyped
<1>7. raced' \subseteq Worker
  BY <1>1, OverlapTyped
<1> QED
  BY <1>1, <1>2, <1>3, <1>5, <1>6, <1>7, HostStays DEF HostingTyped, HostTyped, HistoryTyped, Widens

LEMMA ClearKeeps ==
    ASSUME HostingTyped, NEW p \in Proc, NEW w \in Worker, Clear(p, w)
    PROVE  HostingTyped' /\ Widens(p, w)
<1>1. /\ At(p, w, "clear") /\ Reopen(p, w, proc[p].got) /\ released' = FALSE
      /\ UNCHANGED <<tiers, l1, assign, up, newest, live, raced, drifted, spoilt>>
  BY DEF Clear, tiers, credVars
<1>2. /\ w \in up /\ (p \in Worker => p = w) /\ proc[p].got \in Copy
  BY <1>1, Placed
<1>3. TiersTypeOK'
  BY <1>1 DEF HostingTyped, TiersTypeOK, tiers
<1>4. /\ ProcsTyped' /\ Moved(p, w) /\ inMap' \subseteq inMap \cup {w}
      /\ failures' \in 0..MaxFailures /\ behind' \subseteq Worker
      /\ held' = [held EXCEPT ![w] = None]
  BY <1>1, <1>2, ReopenTyped
<1>5. held' \in [Worker -> Copy] /\ \A x \in Worker \ {w} : held'[x] = held[x]
  BY <1>4, Copies DEF HostingTyped, HostTyped
<1> QED
  BY <1>1, <1>2, <1>3, <1>4, <1>5, HostStays DEF HostingTyped, HostTyped, HistoryTyped, Widens

LEMMA WriteBackKeeps ==
    ASSUME HostingTyped, NEW p \in Proc, NEW w \in Worker, WriteBack(p, w)
    PROVE  HostingTyped' /\ Widens(p, w)
<1>1. /\ At(p, w, "save")
      /\ UNCHANGED <<assign, released, up, inMap, held, newest, live, raced, drifted, behind>>
  BY DEF WriteBack, bindingVars, workerVars, credVars
<1>2. /\ w \in up /\ (p \in Worker => p = w) /\ proc[p].got \in Copy /\ proc[p].at = w
      /\ proc[p].next \in Pc \cup Use
  BY <1>1, Placed
<1>3. PICK v \in Copy :
        /\ Carry(p, "open", v)
        /\ \/ Save(w, v) /\ UNCHANGED failures
           \/ SaveFails(w, v) /\ Fail
  BY <1>2, Copies DEF WriteBack
<1>4. Move(p, w, "open", proc[p].next, v) /\ "open" \in Pc /\ Follows("open", proc[p].next)
  BY <1>2, <1>3 DEF Carry, Pc, Follows
<1>5. ProcsTyped' /\ Moved(p, w)
  BY <1>1, <1>2, <1>4, MoveTyped DEF HostingTyped
<1>6. /\ TiersTypeOK' /\ \A x \in Worker \ {w} : l1'[x] = l1[x]
  BY <1>3, SaveTyped DEF Save, SaveFails, HostingTyped, TiersTypeOK
<1>7. failures' \in 0..MaxFailures
  BY <1>3, FailTyped DEF HostingTyped, HistoryTyped
<1>8. spoilt' \in BOOLEAN
  BY WroteTyped DEF WriteBack
<1> QED
  BY <1>1, <1>2, <1>5, <1>6, <1>7, <1>8, HostStays DEF HostingTyped, HostTyped, HistoryTyped, Widens

LEMMA OpenKeeps ==
    ASSUME HostingTyped, NEW p \in Proc, NEW w \in Worker, Open(p, w)
    PROVE  HostingTyped' /\ Widens(p, w)
<1>1. /\ At(p, w, "open") /\ held' = [held EXCEPT ![w] = proc[p].got] /\ Go(p, "idle")
      /\ UNCHANGED <<tiers, l1, assign, released, up, inMap, newest, live, failures,
                     raced, drifted, behind, spoilt>>
  BY DEF Open, tiers, bindingVars, credVars, historyVars
<1>2. /\ w \in up /\ (p \in Worker => p = w) /\ proc[p].got \in Copy /\ proc[p].at = w
  BY <1>1, Placed
<1>3. Move(p, w, "idle", "idle", proc[p].got) /\ "idle" \in Pc /\ Follows("idle", "idle")
      /\ "idle" \in Pc \cup Use
  BY <1>1, <1>2 DEF Go, Pc, Follows
<1>4. ProcsTyped' /\ Moved(p, w)
  BY <1>1, <1>2, <1>3, MoveTyped DEF HostingTyped
<1>5. TiersTypeOK'
  BY <1>1 DEF HostingTyped, TiersTypeOK, tiers
<1>6. held' \in [Worker -> Copy] /\ \A x \in Worker \ {w} : held'[x] = held[x]
  BY <1>1, <1>2 DEF HostingTyped, HostTyped
<1> QED
  BY <1>1, <1>2, <1>4, <1>5, <1>6, HostStays DEF HostingTyped, HostTyped, HistoryTyped, Widens

-----------------------------------------------------------------------------
(* Sessions and calls.                                                     *)

LEMMA UpdateKeeps ==
    ASSUME HostingTyped, NEW w \in Worker, Update(w)
    PROVE  /\ HostingTyped' /\ HasSocket(w)
           /\ UNCHANGED <<proc, inMap, assign, drifted>>
           /\ \A x \in Worker \ {w} : held'[x] = held[x]
<1>1. /\ HasSocket(w)
      /\ UNCHANGED <<assign, released, up, inMap, proc, live, raced, drifted>>
  BY DEF Update, bindingVars
<1>2. w \in up
  BY <1>1 DEF HasSocket, HostingTyped, HostTyped
<1>3. /\ newest' \in Version /\ behind' \subseteq Worker
      /\ held' \in [Worker -> Copy] /\ \A x \in Worker \ {w} : held'[x] = held[x]
  <2>1. CASE live /\ held[w] = newest
    <3>1. /\ newest < MaxVersion /\ newest' = newest + 1
          /\ held' = [held EXCEPT ![w] = newest'] /\ PassBy(NoWorker, w)
      BY <2>1 DEF Update
    <3>2. newest' \in Version
      BY <3>1, MaxVersionAssumption DEF HostingTyped, HistoryTyped, Version, MaxVersionAssumption
    <3> QED
      BY <3>1, <3>2, Copies, PassByTyped DEF HostingTyped, HostTyped
  <2>2. CASE ~(live /\ held[w] = newest)
    BY <2>2 DEF Update, HostingTyped, HostTyped, HistoryTyped
  <2> QED
    BY <2>1, <2>2
<1>4. held'[w] \in Copy
  BY <1>3
<1>5. CASE Save(w, held'[w]) /\ Wrote(w) /\ UNCHANGED failures
  <2>1. /\ TiersTypeOK' /\ \A x \in Worker \ {w} : l1'[x] = l1[x]
    BY <1>4, <1>5, SaveTyped DEF Save, HostingTyped
  <2>2. spoilt' \in BOOLEAN
    BY <1>5, WroteTyped
  <2>3. ProcsTyped'
    BY <1>1 DEF HostingTyped, ProcsTyped
  <2> QED
    BY <1>1, <1>2, <1>3, <1>5, <2>1, <2>2, <2>3, HostStays DEF HostingTyped, HostTyped, HistoryTyped
<1>6. CASE SaveFails(w, held'[w]) /\ Fail /\ spoilt' = TRUE
  <2>1. /\ TiersTypeOK' /\ \A x \in Worker \ {w} : l1'[x] = l1[x]
    BY <1>4, <1>6, SaveTyped DEF SaveFails, HostingTyped, TiersTypeOK
  <2>2. failures' \in 0..MaxFailures
    BY <1>6, FailTyped DEF HostingTyped
  <2>3. ProcsTyped'
    BY <1>1 DEF HostingTyped, ProcsTyped
  <2> QED
    BY <1>1, <1>2, <1>3, <1>6, <2>1, <2>2, <2>3, HostStays DEF HostingTyped, HostTyped, HistoryTyped
<1> QED
  BY <1>1, <1>3, <1>5, <1>6 DEF Update

LEMMA ReconnectKeeps ==
    ASSUME HostingTyped, NEW j \in Job, NEW w \in Worker, Reconnect(j, w)
    PROVE  HostingTyped' /\ Widens(j, w) /\ w \in inMap
<1>1. /\ w \in up /\ w \in inMap /\ Reopen(j, w, None) /\ Overlap(j, w)
      /\ UNCHANGED <<tiers, l1, assign, released, up, newest, live, drifted, spoilt>>
  BY DEF Reconnect, tiers, bindingVars, credVars
<1>2. j \in Proc /\ j \notin Worker
  BY NamesApart DEF Proc
<1>3. TiersTypeOK'
  BY <1>1 DEF HostingTyped, TiersTypeOK, tiers
<1>4. /\ ProcsTyped' /\ Moved(j, w) /\ inMap' \subseteq inMap \cup {w}
      /\ failures' \in 0..MaxFailures /\ behind' \subseteq Worker
      /\ held' = [held EXCEPT ![w] = None]
  BY <1>1, <1>2, Copies, ReopenTyped
<1>5. held' \in [Worker -> Copy] /\ \A x \in Worker \ {w} : held'[x] = held[x]
  BY <1>4, Copies DEF HostingTyped, HostTyped
<1>6. raced' \subseteq Worker
  BY <1>1, OverlapTyped
<1> QED
  BY <1>1, <1>3, <1>4, <1>5, <1>6, HostStays DEF HostingTyped, HostTyped, HistoryTyped, Widens

(* A job begins, or ends a step, without a socket or a new place.          *)
LEMMA BeginTyped ==
    ASSUME HostingTyped, UNCHANGED up, NEW j \in Job, NEW w \in Worker, NEW pc \in Pc,
           NEW next \in Pc \cup Use, Follows(pc, next), Begin(j, w, pc, next)
    PROVE  /\ ProcsTyped' /\ Moved(j, w) /\ proc[j].pc = "idle" /\ w \in up
           /\ proc'[j].pc = pc /\ (pc # "idle" => proc'[j].next = next)
<1>1. j \in Proc /\ j \notin Worker
  BY NamesApart DEF Proc
<1>2. proc[j].pc = "idle" /\ w \in up /\ Move(j, w, pc, next, None)
  BY DEF Begin
<1> QED
  BY <1>1, <1>2, Copies, MoveTyped DEF HostingTyped

LEMMA GoTyped ==
    ASSUME HostingTyped, UNCHANGED up, NEW j \in Job, NEW w \in Worker, NEW pc, pc # "idle",
           At(j, w, pc), NEW to \in Pc, Follows(to, "idle"), Go(j, to)
    PROVE  ProcsTyped' /\ Moved(j, w) /\ proc'[j].pc = to
<1>1. j \in Proc /\ j \notin Worker
  BY NamesApart DEF Proc
<1>2. w \in up /\ proc[j].at = w /\ proc[j].got \in Copy
  BY <1>1, Placed
<1>3. Move(j, w, to, "idle", proc[j].got) /\ "idle" \in Pc \cup Use
  BY <1>2 DEF Go, Pc
<1> QED
  BY <1>1, <1>2, <1>3, MoveTyped DEF HostingTyped

LEMMA PostOnlineKeeps ==
    ASSUME HostingTyped, NEW j \in Job, NEW w \in Worker, PostOnline(j, w)
    PROVE  /\ HostingTyped' /\ UNCHANGED <<inMap, held>>
           /\ proc[j].pc = "idle" /\ Moved(j, w)
           /\ \E o \in Worker : Rebind(j, o) /\ (proc'[j].pc # "idle" => o = w)
<1>1. /\ w \in up /\ proc[j].pc = "idle" /\ ToOnline(j, w)
      /\ UNCHANGED <<tiers, l1, released, up, inMap, held, newest, live, failures, spoilt>>
  BY DEF PostOnline, tiers, workerVars, credVars
<1>2. PICK o \in IF assign = NoWorker THEN up ELSE {assign} :
        /\ Rebind(j, o)
        /\ IF o = w THEN Begin(j, w, "online", "idle") /\ Overlap(j, w)
                    ELSE UNCHANGED <<proc, raced>>
  BY <1>1 DEF ToOnline
<1>3. o \in Worker
  BY DEF HostingTyped, HostTyped
<1>4. TiersTypeOK'
  BY <1>1 DEF HostingTyped, TiersTypeOK, tiers
<1>5. assign' = o /\ drifted' \subseteq Worker /\ behind' \subseteq Worker
  BY <1>2, <1>3, RebindTyped
<1>6. CASE o = w
  <2>1. Begin(j, w, "online", "idle") /\ Overlap(j, w) /\ "online" \in Pc /\ "idle" \in Pc \cup Use
        /\ Follows("online", "idle")
    BY <1>2, <1>6 DEF Pc, Follows
  <2>2. ProcsTyped' /\ Moved(j, w) /\ raced' \subseteq Worker
    BY <1>1, <2>1, BeginTyped, OverlapTyped
  <2>3. HostingTyped'
    BY <1>1, <1>3, <1>4, <1>5, <2>2 DEF HostingTyped, HostTyped, HistoryTyped
  <2> QED
    BY <1>1, <1>2, <1>3, <1>6, <2>2, <2>3
<1>7. CASE o # w
  <2>1. UNCHANGED <<proc, raced>>
    BY <1>2, <1>7
  <2>2. ProcsTyped'
    BY <1>1, <2>1 DEF HostingTyped, ProcsTyped
  <2>3. HostingTyped'
    BY <1>1, <1>3, <1>4, <1>5, <2>1, <2>2 DEF HostingTyped, HostTyped, HistoryTyped
  <2>4. Moved(j, w)
    BY <1>1, <2>1 DEF Moved
  <2> QED
    BY <1>1, <1>2, <1>3, <2>1, <2>3, <2>4
<1> QED
  BY <1>6, <1>7

LEMMA OnlineKeeps ==
    ASSUME HostingTyped, NEW j \in Job, NEW w \in Worker, Online(j, w)
    PROVE  HostingTyped' /\ Widens(j, w)
<1>1. /\ At(j, w, "online")
      /\ UNCHANGED <<tiers, l1, assign, released, up, held, newest, live, raced, drifted, spoilt>>
  BY DEF Online, tiers, bindingVars, credVars
<1>2. j \in Proc /\ j \notin Worker
  BY NamesApart DEF Proc
<1>3. w \in up
  BY <1>1, <1>2, Placed
<1>4. TiersTypeOK'
  BY <1>1 DEF HostingTyped, TiersTypeOK, tiers
<1>5. /\ ProcsTyped' /\ Moved(j, w) /\ inMap' \subseteq inMap \cup {w}
      /\ failures' \in 0..MaxFailures /\ behind' \subseteq Worker
  <2>1. CASE w \in inMap
    <3>1. Go(j, "clear") /\ UNCHANGED <<inMap, failures, behind>> /\ "clear" \in Pc
          /\ Follows("clear", "idle")
      BY <2>1 DEF Online, Pc, Follows
    <3> QED
      BY <1>1, <3>1, GoTyped DEF HostingTyped, HistoryTyped
  <2>2. CASE w \notin inMap
    <3>1. Read(j, w, "online") /\ "online" \in Use
      BY <2>2 DEF Online, Use
    <3> QED
      BY <1>1, <1>2, <1>3, <3>1, ReadTyped
  <2> QED
    BY <2>1, <2>2
<1> QED
  BY <1>1, <1>3, <1>4, <1>5, HostStays DEF HostingTyped, HostTyped, HistoryTyped, Widens

LEMMA AskKeeps ==
    ASSUME HostingTyped, NEW j \in Job, NEW w \in Worker, NEW call \in {"offline", "logout"},
           Ask(j, w, call)
    PROVE  HostingTyped' /\ Widens(j, w) /\ UNCHANGED <<inMap, held>> /\ proc'[j].pc = call
<1>1. /\ Begin(j, w, call, "idle") /\ call \in Pc /\ Follows(call, "idle") /\ "idle" \in Pc \cup Use
      /\ UNCHANGED <<tiers, l1, assign, released, up, inMap, held, newest, live, failures,
                     raced, drifted, behind, spoilt>>
  BY DEF Ask, tiers, bindingVars, workerVars, credVars, historyVars, Pc, Follows
<1>2. TiersTypeOK'
  BY <1>1 DEF HostingTyped, TiersTypeOK, tiers
<1>3. ProcsTyped' /\ Moved(j, w) /\ proc'[j].pc = call
  BY <1>1, BeginTyped
<1> QED
  BY <1>1, <1>2, <1>3 DEF HostingTyped, HostTyped, HistoryTyped, Widens

LEMMA NotFoundKeeps ==
    ASSUME HostingTyped, NEW j \in Job, NEW w \in Worker, NEW pc, pc # "idle", At(j, w, pc),
           NotFound(j, w)
    PROVE  HostingTyped' /\ Widens(j, w) /\ UNCHANGED <<inMap, held>> /\ proc'[j].pc = "idle"
<1>1. /\ Go(j, "idle") /\ "idle" \in Pc /\ Follows("idle", "idle")
      /\ UNCHANGED <<tiers, l1, assign, released, up, inMap, held, newest, live, failures,
                     raced, drifted, behind, spoilt>>
  BY DEF NotFound, tiers, bindingVars, workerVars, credVars, historyVars, Pc, Follows
<1>2. TiersTypeOK'
  BY <1>1 DEF HostingTyped, TiersTypeOK, tiers
<1>3. ProcsTyped' /\ Moved(j, w) /\ proc'[j].pc = "idle"
  BY <1>1, GoTyped
<1> QED
  BY <1>1, <1>2, <1>3 DEF HostingTyped, HostTyped, HistoryTyped, Widens

LEMMA StopKeeps ==
    ASSUME HostingTyped, NEW j \in Job, NEW w \in Worker, w \in up, NEW pc \in {"mark", "leave"},
           NEW next \in {"drop", "wipe"}, Stop(j, w, pc, next)
    PROVE  HostingTyped' /\ Widens(j, w)
<1>1. /\ held' = [held EXCEPT ![w] = None] /\ Move(j, w, pc, next, None) /\ Overlap(j, w)
      /\ UNCHANGED <<tiers, l1, assign, released, up, inMap, newest, live, failures,
                     drifted, behind, spoilt>>
  BY DEF Stop, tiers, bindingVars, credVars
<1>2. j \in Proc /\ j \notin Worker /\ pc \in Pc /\ next \in Pc \cup Use /\ Follows(pc, next)
  BY NamesApart DEF Proc, Pc, Follows
<1>3. ProcsTyped' /\ Moved(j, w)
  BY <1>1, <1>2, Copies, MoveTyped DEF HostingTyped
<1>4. TiersTypeOK'
  BY <1>1 DEF HostingTyped, TiersTypeOK, tiers
<1>5. held' \in [Worker -> Copy] /\ \A x \in Worker \ {w} : held'[x] = held[x]
  BY <1>1, Copies DEF HostingTyped, HostTyped
<1>6. raced' \subseteq Worker
  BY <1>1, OverlapTyped
<1> QED
  BY <1>1, <1>3, <1>4, <1>5, <1>6, HostStays DEF HostingTyped, HostTyped, HistoryTyped, Widens

LEMMA LeaveKeeps ==
    ASSUME HostingTyped, NEW j \in Job, NEW w \in Worker, Leave(j, w)
    PROVE  /\ HostingTyped' /\ Widens(j, w) /\ inMap' = inMap /\ proc'[j].pc = "mark"
           /\ held'[w] \in {held[w], None}
<1>1. /\ At(j, w, "leave") /\ held' \in {held, [held EXCEPT ![w] = None]} /\ Carry(j, "mark", None)
      /\ UNCHANGED <<tiers, l1, assign, released, up, inMap, newest, live, failures,
                     raced, drifted, behind, spoilt>>
  BY DEF Leave, tiers, bindingVars, credVars, historyVars
<1>2. j \in Proc /\ j \notin Worker
  BY NamesApart DEF Proc
<1>3. w \in up /\ proc[j].at = w /\ proc[j].next \in Pc \cup Use /\ Follows("leave", proc[j].next)
  BY <1>1, <1>2, Placed
<1>4. /\ Move(j, w, "mark", proc[j].next, None) /\ "mark" \in Pc /\ Follows("mark", proc[j].next)
  BY <1>1, <1>3 DEF Carry, Pc, Follows
<1>5. ProcsTyped' /\ Moved(j, w) /\ proc'[j].pc = "mark"
  BY <1>1, <1>2, <1>3, <1>4, Copies, MoveTyped DEF HostingTyped
<1>6. TiersTypeOK'
  BY <1>1 DEF HostingTyped, TiersTypeOK, tiers
<1>7. /\ held' \in [Worker -> Copy] /\ \A x \in Worker \ {w} : held'[x] = held[x]
      /\ held'[w] \in {held[w], None}
  BY <1>1, Copies DEF HostingTyped, HostTyped
<1> QED
  BY <1>1, <1>3, <1>5, <1>6, <1>7, HostStays DEF HostingTyped, HostTyped, HistoryTyped, Widens

LEMMA MarkKeeps ==
    ASSUME HostingTyped, NEW j \in Job, NEW w \in Worker, Mark(j, w)
    PROVE  /\ HostingTyped' /\ Widens(j, w) /\ UNCHANGED <<inMap, held>>
           /\ proc'[j].pc \in {"drop", "wipe"}
<1>1. /\ At(j, w, "mark") /\ Go(j, proc[j].next) /\ released' = TRUE
      /\ UNCHANGED <<tiers, l1, assign, up, inMap, held, newest, live, failures,
                     raced, drifted, behind, spoilt>>
  BY DEF Mark, tiers, workerVars, credVars, historyVars
<1>2. j \in Proc /\ j \notin Worker
  BY NamesApart DEF Proc
<1>3. Follows("mark", proc[j].next)
  BY <1>1, <1>2, Placed
<1>4. proc[j].next \in {"drop", "wipe"} /\ proc[j].next \in Pc /\ Follows(proc[j].next, "idle")
  BY <1>3 DEF Follows, Pc
<1>5. ProcsTyped' /\ Moved(j, w) /\ proc'[j].pc \in {"drop", "wipe"}
  BY <1>1, <1>4, GoTyped
<1>6. TiersTypeOK'
  BY <1>1 DEF HostingTyped, TiersTypeOK, tiers
<1> QED
  BY <1>1, <1>5, <1>6 DEF HostingTyped, HostTyped, HistoryTyped, Widens

LEMMA DropKeeps ==
    ASSUME HostingTyped, NEW j \in Job, NEW w \in Worker, Drop(j, w)
    PROVE  /\ HostingTyped' /\ Widens(j, w) /\ inMap' \subseteq inMap /\ held' = held
           /\ proc'[j].pc = "idle"
<1>1. /\ At(j, w, "drop") /\ Go(j, "idle") /\ "idle" \in Pc /\ Follows("idle", "idle")
      /\ inMap' = inMap \ {w}
      /\ UNCHANGED <<tiers, l1, assign, released, up, held, newest, live, failures,
                     raced, drifted, behind, spoilt>>
  BY DEF Drop, tiers, bindingVars, credVars, historyVars, Pc, Follows
<1>2. ProcsTyped' /\ Moved(j, w) /\ proc'[j].pc = "idle"
  BY <1>1, GoTyped
<1>3. TiersTypeOK'
  BY <1>1 DEF HostingTyped, TiersTypeOK, tiers
<1> QED
  BY <1>1, <1>2, <1>3 DEF HostingTyped, HostTyped, HistoryTyped, Widens

LEMMA WipeKeeps ==
    ASSUME HostingTyped, NEW j \in Job, NEW w \in Worker, Wipe(j, w)
    PROVE  HostingTyped' /\ Widens(j, w) /\ UNCHANGED <<inMap, held>> /\ proc'[j].pc = "forget"
<1>1. /\ At(j, w, "wipe") /\ DeleteRedis(w) /\ live' = FALSE /\ PassBy(j, w)
      /\ Go(j, "forget") /\ "forget" \in Pc /\ Follows("forget", "idle")
      /\ UNCHANGED <<assign, released, up, inMap, held, newest, failures, raced, drifted>>
  BY DEF Wipe, bindingVars, workerVars, Pc, Follows
<1>2. j \in Proc
  BY DEF Proc
<1>3. w \in up
  BY <1>1, <1>2, Placed
<1>4. ProcsTyped' /\ Moved(j, w) /\ proc'[j].pc = "forget"
  BY <1>1, GoTyped
<1>5. TiersTypeOK' /\ \A x \in Worker \ {w} : l1'[x] = l1[x]
  BY <1>1, DeleteTyped DEF HostingTyped
<1>6. behind' \subseteq Worker
  BY <1>1, PassByTyped
<1>7. spoilt' \in BOOLEAN
  <2>1. spoilt' = (spoilt \/ Durable)
    BY DEF Wipe
  <2> QED
    BY <2>1
<1> QED
  BY <1>1, <1>3, <1>4, <1>5, <1>6, <1>7, HostStays DEF HostingTyped, HostTyped, HistoryTyped, Widens

LEMMA ForgetAccountKeeps ==
    ASSUME HostingTyped, NEW j \in Job, NEW w \in Worker, ForgetAccount(j, w)
    PROVE  /\ HostingTyped' /\ Widens(j, w) /\ inMap' \subseteq inMap /\ held' = held
           /\ proc'[j].pc = "unbind"
<1>1. /\ At(j, w, "forget") /\ DeleteMySql /\ inMap' = inMap \ {w}
      /\ Go(j, "unbind") /\ "unbind" \in Pc /\ Follows("unbind", "idle")
      /\ UNCHANGED <<assign, released, up, held, newest, live, failures, raced, drifted, behind, spoilt>>
  BY DEF ForgetAccount, bindingVars, credVars, historyVars, Pc, Follows
<1>2. ProcsTyped' /\ Moved(j, w) /\ proc'[j].pc = "unbind"
  BY <1>1, GoTyped
<1>3. TiersTypeOK' /\ l1' = l1
  BY <1>1, DeleteMySqlTyped DEF HostingTyped
<1> QED
  BY <1>1, <1>2, <1>3 DEF HostingTyped, HostTyped, HistoryTyped, Widens

LEMMA UnbindKeeps ==
    ASSUME HostingTyped, NEW j \in Job, NEW w \in Worker, Unbind(j, w)
    PROVE  /\ HostingTyped' /\ UNCHANGED <<inMap, held>> /\ Moved(j, w)
           /\ proc[j].pc = "unbind" /\ proc'[j].pc = "idle" /\ Rebind(j, NoWorker)
<1>1. /\ At(j, w, "unbind") /\ Go(j, "idle") /\ "idle" \in Pc /\ Follows("idle", "idle")
      /\ Rebind(j, NoWorker)
      /\ UNCHANGED <<tiers, l1, released, up, inMap, held, newest, live, failures, raced, spoilt>>
  BY DEF Unbind, tiers, workerVars, credVars, Pc, Follows
<1>2. ProcsTyped' /\ Moved(j, w) /\ proc'[j].pc = "idle"
  BY <1>1, GoTyped
<1>3. TiersTypeOK'
  BY <1>1 DEF HostingTyped, TiersTypeOK, tiers
<1>4. assign' = NoWorker /\ drifted' \subseteq Worker /\ behind' \subseteq Worker
  BY <1>1, RebindTyped
<1> QED
  BY <1>1, <1>2, <1>3, <1>4 DEF HostingTyped, HostTyped, HistoryTyped, At

LEMMA ImportKeeps ==
    ASSUME HostingTyped, NEW j \in Job, NEW w \in Worker, Import(j, w)
    PROVE  /\ HostingTyped' /\ UNCHANGED <<inMap, held>> /\ Moved(j, w)
           /\ proc[j].pc = "idle" /\ proc'[j].pc = "clearImport"
           /\ \E o \in Worker : Rebind(j, o) /\ (proc'[j].next = "online" => o = w)
<1>1. /\ Overlap(j, w)
      /\ UNCHANGED <<tiers, l1, released, up, inMap, held, newest, live, failures, spoilt>>
  BY DEF Import, tiers, workerVars, credVars
<1>2. PICK o \in IF assign = NoWorker THEN up ELSE {assign} :
        /\ Rebind(j, o)
        /\ \E next \in {"idle"} \cup IF o = w THEN {"online"} ELSE {} :
              Begin(j, w, "clearImport", next)
  BY DEF Import
<1>3. PICK next \in {"idle"} \cup IF o = w THEN {"online"} ELSE {} :
        Begin(j, w, "clearImport", next)
  BY <1>2
<1>4. /\ "clearImport" \in Pc /\ next \in Pc \cup Use /\ Follows("clearImport", next)
      /\ (next = "online" => o = w)
  BY <1>3 DEF Pc, Follows
<1>5. o \in Worker
  BY DEF HostingTyped, HostTyped
<1>6. /\ ProcsTyped' /\ Moved(j, w) /\ proc[j].pc = "idle"
      /\ proc'[j].pc = "clearImport" /\ proc'[j].next = next
  BY <1>1, <1>3, <1>4, BeginTyped
<1>7. TiersTypeOK'
  BY <1>1 DEF HostingTyped, TiersTypeOK, tiers
<1>8. assign' = o /\ drifted' \subseteq Worker /\ behind' \subseteq Worker
  BY <1>2, <1>5, RebindTyped
<1>9. raced' \subseteq Worker
  BY <1>1, OverlapTyped
<1>10. HostingTyped'
  BY <1>1, <1>5, <1>6, <1>7, <1>8, <1>9 DEF HostingTyped, HostTyped, HistoryTyped
<1> QED
  BY <1>1, <1>2, <1>4, <1>5, <1>6, <1>10

LEMMA ClearImportKeeps ==
    ASSUME HostingTyped, NEW j \in Job, NEW w \in Worker, ClearImport(j, w)
    PROVE  /\ HostingTyped' /\ Widens(j, w) /\ UNCHANGED <<inMap, held>>
           /\ proc[j].at = w /\ proc[j].pc = "clearImport" /\ proc'[j].pc = "saveImport"
           /\ proc'[j].next = proc[j].next
<1>1. /\ At(j, w, "clearImport") /\ Carry(j, "saveImport", None) /\ released' = FALSE
      /\ UNCHANGED <<tiers, l1, assign, up, inMap, held, newest, live, failures,
                     raced, drifted, behind, spoilt>>
  BY DEF ClearImport, tiers, workerVars, credVars, historyVars
<1>2. j \in Proc /\ j \notin Worker
  BY NamesApart DEF Proc
<1>3. /\ w \in up /\ proc[j].at = w /\ proc[j].pc = "clearImport" /\ proc[j].next \in Pc \cup Use
      /\ Follows("clearImport", proc[j].next)
  BY <1>1, <1>2, Placed
<1>4. /\ Move(j, w, "saveImport", proc[j].next, None) /\ "saveImport" \in Pc
      /\ Follows("saveImport", proc[j].next)
  BY <1>1, <1>3 DEF Carry, Pc, Follows
<1>5. /\ ProcsTyped' /\ Moved(j, w) /\ proc'[j].pc = "saveImport"
      /\ proc'[j].next = proc[j].next
  BY <1>1, <1>2, <1>3, <1>4, Copies, MoveTyped DEF HostingTyped
<1>6. TiersTypeOK'
  BY <1>1 DEF HostingTyped, TiersTypeOK, tiers
<1> QED
  BY <1>1, <1>3, <1>5, <1>6 DEF HostingTyped, HostTyped, HistoryTyped, Widens

LEMMA SaveImportKeeps ==
    ASSUME HostingTyped, NEW j \in Job, NEW w \in Worker, SaveImport(j, w)
    PROVE  /\ HostingTyped' /\ Widens(j, w) /\ UNCHANGED <<inMap, held>>
           /\ proc[j].at = w /\ proc[j].pc = "saveImport" /\ proc'[j].pc = proc[j].next
           /\ proc'[j].pc \in {"idle", "online"}
<1>1. /\ At(j, w, "saveImport") /\ newest < MaxVersion /\ newest' = newest + 1 /\ live' = TRUE
      /\ Save(w, newest') /\ PassBy(j, w) /\ Go(j, proc[j].next)
      /\ UNCHANGED <<assign, released, up, inMap, held, failures, raced, drifted, spoilt>>
  BY DEF SaveImport, bindingVars, workerVars
<1>2. j \in Proc /\ j \notin Worker
  BY NamesApart DEF Proc
<1>3. /\ w \in up /\ proc[j].at = w /\ proc[j].pc = "saveImport"
      /\ Follows("saveImport", proc[j].next)
  BY <1>1, <1>2, Placed
<1>4. proc[j].next \in {"idle", "online"} /\ proc[j].next \in Pc /\ Follows(proc[j].next, "idle")
  BY <1>3 DEF Follows, Pc
<1>5. ProcsTyped' /\ Moved(j, w) /\ proc'[j].pc = proc[j].next
  BY <1>1, <1>4, GoTyped
<1>6. newest' \in Version
  BY <1>1, MaxVersionAssumption DEF HostingTyped, HistoryTyped, Version, MaxVersionAssumption
<1>7. /\ TiersTypeOK' /\ \A x \in Worker \ {w} : l1'[x] = l1[x]
  BY <1>1, <1>6, Copies, SaveTyped DEF Save, HostingTyped
<1>8. behind' \subseteq Worker
  BY <1>1, PassByTyped
<1> QED
  BY <1>1, <1>3, <1>4, <1>5, <1>6, <1>7, <1>8, HostStays
  DEF HostingTyped, HostTyped, HistoryTyped, Widens

-----------------------------------------------------------------------------
(* The cluster.                                                            *)

LEMMA TakenAway ==
    ASSUME HostingTyped, Reassign \/ AdminUnassign
    PROVE  /\ HostingTyped' /\ UNCHANGED <<inMap, held, proc>>
           /\ \E o \in Worker \cup {NoWorker} : Rebind(NoWorker, o)
<1>1. UNCHANGED <<tiers, l1, released, up, inMap, held, proc, newest, live, failures, raced, spoilt>>
  BY DEF Reassign, AdminUnassign, tiers, workerVars, credVars
<1>2. PICK o \in Worker \cup {NoWorker} : Rebind(NoWorker, o)
  BY DEF Reassign, AdminUnassign, HostingTyped, HostTyped
<1>3. assign' = o /\ drifted' \subseteq Worker /\ behind' \subseteq Worker
  BY <1>2, RebindTyped
<1>4. TiersTypeOK' /\ ProcsTyped'
  BY <1>1 DEF HostingTyped, TiersTypeOK, tiers, ProcsTyped
<1> QED
  BY <1>1, <1>2, <1>3, <1>4 DEF HostingTyped, HostTyped, HistoryTyped

LEMMA CrashKeeps ==
    ASSUME HostingTyped, NEW w \in Worker, Crash(w)
    PROVE  /\ HostingTyped' /\ assign' = assign /\ drifted' = drifted \ {w}
           /\ inMap' = inMap \ {w} /\ held'[w] = None
           /\ \A x \in Worker \ {w} : held'[x] = held[x]
           /\ \A p \in Proc : IF proc[p].at = w THEN proc'[p].pc = "idle" ELSE proc'[p] = proc[p]
<1>1. /\ w \in up /\ up' = up \ {w} /\ Forget(w) /\ inMap' = inMap \ {w}
      /\ held' = [held EXCEPT ![w] = None]
      /\ proc' = [p \in Proc |-> IF proc[p].at = w THEN Rest(p) ELSE proc[p]]
      /\ raced' = raced \ {w} /\ drifted' = drifted \ {w} /\ behind' = behind \ {w}
      /\ UNCHANGED <<assign, released, newest, live, failures, spoilt>>
  BY DEF Crash, bindingVars, credVars
<1>2. \A p \in Proc : /\ Rest(p) \in Place /\ Rest(p).pc = "idle" /\ Follows("idle", Rest(p).next)
                      /\ (p \in Worker => Rest(p).at = p)
  BY Copies DEF Rest, Place, Pc, Follows
<1>3. ProcsTyped'
  <2>1. proc' \in [Proc -> Place]
    BY <1>1, <1>2 DEF HostingTyped, ProcsTyped
  <2>2. \A p \in Proc : IF proc[p].at = w THEN proc'[p] = Rest(p) ELSE proc'[p] = proc[p]
    BY <1>1
  <2>3. Worker \subseteq Proc
    BY DEF Proc
  <2> QED
    BY <1>1, <1>2, <2>1, <2>2, <2>3 DEF HostingTyped, ProcsTyped
<1>4. TiersTypeOK' /\ l1'[w] = None /\ \A x \in Worker \ {w} : l1'[x] = l1[x]
  BY <1>1, DeleteTyped DEF HostingTyped
<1>5. held' \in [Worker -> Copy] /\ held'[w] = None /\ \A x \in Worker \ {w} : held'[x] = held[x]
  BY <1>1, Copies DEF HostingTyped, HostTyped
<1>6. HostTyped' /\ HistoryTyped'
  BY <1>1, <1>4, <1>5 DEF HostingTyped, HostTyped, HistoryTyped
<1>7. \A p \in Proc : IF proc[p].at = w THEN proc'[p].pc = "idle" ELSE proc'[p] = proc[p]
  BY <1>1, <1>2
<1> QED
  BY <1>1, <1>3, <1>4, <1>5, <1>6, <1>7 DEF HostingTyped

LEMMA StartKeeps ==
    ASSUME HostingTyped, NEW w \in Worker, Start(w)
    PROVE  HostingTyped' /\ UNCHANGED <<inMap, held, proc, assign, drifted>>
<1>1. /\ up' = up \cup {w}
      /\ UNCHANGED <<tiers, l1, assign, released, inMap, held, proc, newest, live, failures,
                     raced, drifted, behind, spoilt>>
  BY DEF Start, tiers, bindingVars, credVars, historyVars
<1>2. TiersTypeOK' /\ ProcsTyped'
  BY <1>1 DEF HostingTyped, TiersTypeOK, tiers, ProcsTyped
<1> QED
  BY <1>1, <1>2 DEF HostingTyped, HostTyped, HistoryTyped

LEMMA LateWriteKeeps ==
    ASSUME HostingTyped, LateWrite
    PROVE  HostingTyped' /\ UNCHANGED <<inMap, held, proc, assign, drifted>>
<1>1. /\ Land
      /\ UNCHANGED <<assign, released, up, inMap, held, proc, newest, live, failures,
                     raced, drifted, behind, spoilt>>
  BY DEF LateWrite, bindingVars, workerVars, credVars, historyVars
<1>2. TiersTypeOK' /\ l1' = l1 /\ ProcsTyped'
  BY <1>1, LandTyped DEF HostingTyped, ProcsTyped
<1> QED
  BY <1>1, <1>2 DEF HostingTyped, HostTyped, HistoryTyped

LEMMA HostingInitTyped == Init => HostingTyped
<1> SUFFICES ASSUME Init PROVE HostingTyped
  OBVIOUS
<1> USE DEF Init
<1>1. \A p \in Proc : /\ Rest(p) \in Place /\ Rest(p).pc = "idle" /\ Follows("idle", Rest(p).next)
                      /\ (p \in Worker => Rest(p).at = p)
  BY Copies DEF Rest, Place, Pc, Follows
<1>2. ProcsTyped
  BY <1>1 DEF ProcsTyped, Proc
<1>3. TiersTypeOK
  BY Copies, MaxVersionAssumption DEF TiersInit, TiersTypeOK, Version, MaxVersionAssumption
<1>4. HostTyped
  BY Copies DEF HostTyped, TiersInit
<1>5. HistoryTyped
  <2>1. MaxFailures \in Nat
    BY HostingAssumption DEF HostingAssumption
  <2>2. newest \in Version
    BY MaxVersionAssumption DEF Version, MaxVersionAssumption
  <2>3. failures \in 0..MaxFailures
    BY <2>1
  <2>4. live \in BOOLEAN /\ spoilt \in BOOLEAN
    OBVIOUS
  <2>5. raced \subseteq Worker /\ drifted \subseteq Worker /\ behind \subseteq Worker
    OBVIOUS
  <2> QED
    BY <2>2, <2>3, <2>4, <2>5 DEF HistoryTyped
<1> QED
  BY <1>2, <1>3, <1>4, <1>5 DEF HostingTyped

-----------------------------------------------------------------------------
(* A worker hosts the account from the moment it is about to take it up.   *)
Engages(r, w) ==
    /\ r.at = w
    /\ \/ r.pc \in {"listed", "redis", "mysql", "online", "clear", "save", "open"}
       \/ r.pc \in {"clearImport", "saveImport"} /\ r.next = "online"

Hosts(w) == HasSocket(w) \/ w \in inMap \/ \E p \in Proc : Engages(proc[p], w)

(* It is the one the account is bound to, unless the registry took the     *)
(* account away from it.                                                   *)
HostsBound == \A w \in Worker : Hosts(w) => assign = w \/ w \in drifted

LEMMA EngagedRuns ==
    ASSUME HostingTyped, NEW p \in Proc, NEW w \in Worker, Engages(proc[p], w)
    PROVE  proc[p].pc # "idle" /\ proc[p].at = w /\ w \in up
BY DEF Engages, HostingTyped, ProcsTyped

LEMMA HostsRuns ==
    ASSUME HostingTyped, NEW w \in Worker, Hosts(w) PROVE w \in up
BY EngagedRuns DEF Hosts, HasSocket, HostingTyped, HostTyped

(* The step of a process of a worker that hosts already.                   *)
LEMMA HostGoesOn ==
    ASSUME HostsBound, NEW p \in Proc, NEW w \in Worker, Widens(p, w), Hosts(w) \/ assign = w
    PROVE  HostsBound'
<1>1. \A x \in Worker \ {w} : Hosts(x)' => Hosts(x)
  BY DEF Widens, Moved, Hosts, HasSocket, Engages
<1> QED
  BY <1>1 DEF HostsBound, Widens

(* A step that does not lead to hosting.                                   *)
LEMMA NoNewHost ==
    ASSUME HostsBound, NEW p \in Proc, NEW w \in Worker, Widens(p, w), inMap' \subseteq inMap,
           held'[w] \in {held[w], None}, ~Engages(proc'[p], w)
    PROVE  HostsBound'
<1>1. \A x \in Worker : Hosts(x)' => Hosts(x)
  BY DEF Widens, Moved, Hosts, HasSocket, Engages
<1> QED
  BY <1>1 DEF HostsBound, Widens

(* When the binding changes, what the old owner deals with has drifted.    *)
LEMMA HostDrifts ==
    ASSUME HostingTyped, HostsBound, NEW p, p \in Proc => \A x : ~Engages(proc[p], x),
           NEW o \in Worker \cup {NoWorker}, Rebind(p, o),
           \A x \in Worker : Hosts(x)' => Hosts(x) \/ x = o
    PROVE  HostsBound'
<1>1. /\ assign' = o /\ drifted \subseteq drifted'
      /\ drifted' = drifted \cup {x \in {assign} \cap (up \ {o}) : Dealing(p, x)}
  BY RebindTyped DEF Rebind
<1> SUFFICES ASSUME NEW x \in Worker, Hosts(x)', x # o, x \notin drifted PROVE x \in drifted'
  BY <1>1 DEF HostsBound
<1>2. Hosts(x) /\ assign = x
  BY DEF HostsBound
<1>3. x \in up
  BY <1>2, HostsRuns
<1>4. ASSUME NEW q \in Proc, Engages(proc[q], x) PROVE Active(x) \ {p} # {}
  BY <1>4, EngagedRuns DEF Active
<1>5. Dealing(p, x)
  BY <1>2, <1>4 DEF Hosts, Dealing
<1> QED
  BY <1>1, <1>2, <1>3, <1>5

LEMMA OpeningHosts ==
    ASSUME HostingTyped, HostsBound, NEW p \in Proc, NEW w \in Worker, OpenStep(p, w)
    PROVE  HostingTyped' /\ HostsBound'
<1>1. HostingTyped' /\ Widens(p, w)
  BY RedisKeeps, MySqlKeeps, ClearKeeps, WriteBackKeeps, OpenKeeps DEF OpenStep
<1>2. Engages(proc[p], w)
  BY DEF OpenStep, Redis, MySql, Clear, WriteBack, Open, At, Engages
<1> QED
  BY <1>1, <1>2, HostGoesOn DEF Hosts

LEMMA TickHosts ==
    ASSUME HostingTyped, HostsBound, NEW w \in Worker, TickStep(w)
    PROVE  HostingTyped' /\ HostsBound'
<1>0. w \in Proc
  BY DEF Proc
<1>1. CASE List(w)
  <2>1. assign = w
    BY <1>1 DEF List
  <2> QED
    BY <1>0, <1>1, <2>1, ListKeeps, HostGoesOn
<1>2. CASE Look(w)
  <2>1. HostingTyped' /\ Widens(w, w) /\ Engages(proc[w], w)
    BY <1>2, LookKeeps DEF At, Engages
  <2> QED
    BY <1>0, <2>1, HostGoesOn DEF Hosts
<1>3. CASE OpenStep(w, w)
  BY <1>0, <1>3, OpeningHosts
<1> QED
  BY <1>1, <1>2, <1>3 DEF TickStep

LEMMA StopHosts ==
    ASSUME HostingTyped, HostsBound, NEW j \in Job, NEW w \in Worker, Hosts(w),
           NEW pc \in {"mark", "leave"}, NEW next \in {"drop", "wipe"}, Stop(j, w, pc, next)
    PROVE  HostingTyped' /\ HostsBound'
<1>1. w \in up /\ j \in Proc
  BY HostsRuns DEF Proc
<1> QED
  BY <1>1, StopKeeps, HostGoesOn

LEMMA LimitedKeeps ==
    ASSUME HostingTyped, NEW j \in Job, NEW w \in Worker, Limited(j, w)
    PROVE  HostingTyped' /\ Widens(j, w) /\ UNCHANGED <<inMap, held>> /\ proc'[j].pc = "idle"
<1>1. /\ At(j, w, "online") /\ Go(j, "idle") /\ "idle" \in Pc /\ Follows("idle", "idle")
      /\ UNCHANGED <<tiers, l1, assign, released, up, inMap, held, newest, live, failures,
                     raced, drifted, behind, spoilt>>
  BY DEF Limited, tiers, bindingVars, workerVars, credVars, historyVars, Pc, Follows
<1>2. TiersTypeOK'
  BY <1>1 DEF HostingTyped, TiersTypeOK, tiers
<1>3. ProcsTyped' /\ Moved(j, w) /\ proc'[j].pc = "idle"
  BY <1>1, GoTyped
<1> QED
  BY <1>1, <1>2, <1>3 DEF HostingTyped, HostTyped, HistoryTyped, Widens

LEMMA JobHosts ==
    ASSUME HostingTyped, HostsBound, NEW j \in Job, NEW w \in Worker, JobStep(j, w)
    PROVE  HostingTyped' /\ HostsBound'
<1>0. j \in Proc
  BY DEF Proc
<1> USE <1>0
<1>1. CASE OpenStep(j, w)
  BY <1>1, OpeningHosts
<1>2. CASE Online(j, w)
  <2>1. HostingTyped' /\ Widens(j, w) /\ Engages(proc[j], w)
    BY <1>2, OnlineKeeps DEF Online, At, Engages
  <2> QED
    BY <2>1, HostGoesOn DEF Hosts
<1>3. CASE ClearImport(j, w)
  <2>1. /\ HostingTyped' /\ Widens(j, w) /\ UNCHANGED <<inMap, held>>
        /\ Engages(proc'[j], w) => Engages(proc[j], w)
    BY <1>3, ClearImportKeeps DEF Engages
  <2> QED
    BY <2>1, HostGoesOn, NoNewHost DEF Hosts
<1>4. CASE SaveImport(j, w)
  <2>1. /\ HostingTyped' /\ Widens(j, w) /\ UNCHANGED <<inMap, held>>
        /\ Engages(proc'[j], w) => Engages(proc[j], w)
    BY <1>4, SaveImportKeeps DEF Engages
  <2> QED
    BY <2>1, HostGoesOn, NoNewHost DEF Hosts
<1>5. CASE Offline(j, w)
  <2>1. CASE w \in inMap /\ Stop(j, w, "mark", "drop")
    BY <2>1, StopHosts DEF Hosts
  <2>2. CASE NotFound(j, w)
    <3>1. HostingTyped' /\ Widens(j, w) /\ UNCHANGED <<inMap, held>> /\ ~Engages(proc'[j], w)
      BY <1>5, <2>2, NotFoundKeeps DEF Offline, Engages
    <3> QED
      BY <3>1, NoNewHost
  <2> QED
    BY <1>5, <2>1, <2>2 DEF Offline
<1>6. CASE Logout(j, w)
  <2>1. CASE w \in inMap /\ Stop(j, w, "leave", "wipe")
    BY <2>1, StopHosts DEF Hosts
  <2>2. CASE NotFound(j, w)
    <3>1. HostingTyped' /\ Widens(j, w) /\ UNCHANGED <<inMap, held>> /\ ~Engages(proc'[j], w)
      BY <1>6, <2>2, NotFoundKeeps DEF Logout, Engages
    <3> QED
      BY <3>1, NoNewHost
  <2> QED
    BY <1>6, <2>1, <2>2 DEF Logout
<1>7. CASE Leave(j, w)
  <2>1. /\ HostingTyped' /\ Widens(j, w) /\ inMap' \subseteq inMap /\ held'[w] \in {held[w], None}
        /\ ~Engages(proc'[j], w)
    BY <1>7, LeaveKeeps DEF Engages
  <2> QED
    BY <2>1, NoNewHost
<1>8. CASE Mark(j, w) \/ Drop(j, w) \/ Wipe(j, w) \/ ForgetAccount(j, w)
  <2>1. /\ HostingTyped' /\ Widens(j, w) /\ inMap' \subseteq inMap /\ held' = held
        /\ ~Engages(proc'[j], w)
    BY <1>8, MarkKeeps, DropKeeps, WipeKeeps, ForgetAccountKeeps DEF Engages
  <2> QED
    BY <2>1, NoNewHost
<1>9. CASE Unbind(j, w)
  <2>1. /\ HostingTyped' /\ UNCHANGED <<inMap, held>> /\ Moved(j, w) /\ Rebind(j, NoWorker)
        /\ (\A x : ~Engages(proc[j], x)) /\ (\A x : ~Engages(proc'[j], x))
    BY <1>9, UnbindKeeps DEF Engages
  <2>2. \A x \in Worker : Hosts(x)' => Hosts(x)
    BY <2>1 DEF Hosts, HasSocket, Moved
  <2> QED
    BY <2>1, <2>2, HostDrifts
<1>10. CASE Limited(j, w)
  <2>1. HostingTyped' /\ Widens(j, w) /\ UNCHANGED <<inMap, held>> /\ ~Engages(proc'[j], w)
    BY <1>10, LimitedKeeps DEF Engages
  <2> QED
    BY <2>1, NoNewHost
<1> QED
  BY <1>1, <1>2, <1>3, <1>4, <1>5, <1>6, <1>7, <1>8, <1>9, <1>10 DEF JobStep

LEMMA RequestHosts ==
    ASSUME HostingTyped, HostsBound, NEW j \in Job, NEW w \in Worker, Request(j, w)
    PROVE  HostingTyped' /\ HostsBound'
<1>0. j \in Proc
  BY DEF Proc
<1> USE <1>0
<1>1. CASE PostOnline(j, w)
  <2>1. /\ HostingTyped' /\ UNCHANGED <<inMap, held>> /\ Moved(j, w)
        /\ \A x : ~Engages(proc[j], x)
    BY <1>1, PostOnlineKeeps DEF Engages
  <2>2. PICK o \in Worker : Rebind(j, o) /\ (proc'[j].pc # "idle" => o = w)
    BY <1>1, PostOnlineKeeps
  <2>3. \A x \in Worker : Hosts(x)' => Hosts(x) \/ x = o
    BY <2>1, <2>2 DEF Hosts, HasSocket, Moved, Engages
  <2> QED
    BY <2>1, <2>2, <2>3, HostDrifts
<1>2. CASE Import(j, w)
  <2>1. /\ HostingTyped' /\ UNCHANGED <<inMap, held>> /\ Moved(j, w)
        /\ proc'[j].pc = "clearImport" /\ \A x : ~Engages(proc[j], x)
    BY <1>2, ImportKeeps DEF Engages
  <2>2. PICK o \in Worker : Rebind(j, o) /\ (proc'[j].next = "online" => o = w)
    BY <1>2, ImportKeeps
  <2>3. \A x \in Worker : Hosts(x)' => Hosts(x) \/ x = o
    BY <2>1, <2>2 DEF Hosts, HasSocket, Moved, Engages
  <2> QED
    BY <2>1, <2>2, <2>3, HostDrifts
<1>3. CASE Reconnect(j, w)
  <2>1. HostingTyped' /\ Widens(j, w) /\ Hosts(w)
    BY <1>3, ReconnectKeeps DEF Hosts
  <2> QED
    BY <2>1, HostGoesOn
<1>4. ASSUME NEW call \in {"offline", "logout"}, Ask(j, w, call) PROVE HostingTyped' /\ HostsBound'
  <2>1. HostingTyped' /\ Widens(j, w) /\ UNCHANGED <<inMap, held>> /\ ~Engages(proc'[j], w)
    BY <1>4, AskKeeps DEF Engages
  <2> QED
    BY <2>1, NoNewHost
<1>5. CASE CloseForGood(j, w)
  BY <1>5, StopHosts DEF CloseForGood, Hosts
<1> QED
  BY <1>1, <1>2, <1>3, <1>4, <1>5 DEF Request

LEMMA UpdateHosts ==
    ASSUME HostingTyped, HostsBound, NEW w \in Worker, Update(w)
    PROVE  HostingTyped' /\ HostsBound'
<1>1. /\ HostingTyped' /\ HasSocket(w) /\ UNCHANGED <<proc, inMap, assign, drifted>>
      /\ \A x \in Worker \ {w} : held'[x] = held[x]
  BY UpdateKeeps
<1>2. \A x \in Worker : Hosts(x)' => Hosts(x)
  BY <1>1 DEF Hosts, HasSocket
<1> QED
  BY <1>1, <1>2 DEF HostsBound

LEMMA CrashHosts ==
    ASSUME HostingTyped, HostsBound, NEW w \in Worker, Crash(w)
    PROVE  HostingTyped' /\ HostsBound'
<1>1. /\ HostingTyped' /\ assign' = assign /\ drifted' = drifted \ {w}
      /\ inMap' = inMap \ {w} /\ held'[w] = None
      /\ \A x \in Worker \ {w} : held'[x] = held[x]
      /\ \A p \in Proc : IF proc[p].at = w THEN proc'[p].pc = "idle" ELSE proc'[p] = proc[p]
  BY CrashKeeps
<1>2. \A x \in Worker \ {w} : Hosts(x)' => Hosts(x)
  BY <1>1 DEF Hosts, HasSocket, Engages
<1>3. ~Hosts(w)'
  BY <1>1 DEF Hosts, HasSocket, Engages
<1> QED
  BY <1>1, <1>2, <1>3 DEF HostsBound

LEMMA HostingInit == Init => HostingTyped /\ HostsBound
<1> SUFFICES ASSUME Init PROVE HostsBound
  BY HostingInitTyped
<1>1. /\ inMap = {} /\ \A w \in Worker : held[w] = None
      /\ \A p \in Proc : proc[p].pc = "idle"
  BY DEF Init, Rest
<1> QED
  BY <1>1 DEF HostsBound, Hosts, HasSocket, Engages

LEMMA HostingStutters ==
    ASSUME HostingTyped, HostsBound, UNCHANGED vars
    PROVE  HostingTyped' /\ HostsBound'
BY DEF HostingTyped, ProcsTyped, TiersTypeOK, HostTyped, HistoryTyped, HostsBound, Hosts,
       HasSocket, vars, tiers, bindingVars, workerVars, credVars, historyVars

LEMMA HostingStep ==
    HostingTyped /\ HostsBound /\ [Next]_vars => HostingTyped' /\ HostsBound'
<1> SUFFICES ASSUME HostingTyped, HostsBound, Next PROVE HostingTyped' /\ HostsBound'
  BY HostingStutters
<1>1. ASSUME NEW w \in Worker, WorkerStep(w) PROVE HostingTyped' /\ HostsBound'
  BY <1>1, TickHosts, UpdateHosts, JobHosts, RequestHosts DEF WorkerStep
<1>2. ASSUME NEW w \in Worker, Crash(w) PROVE HostingTyped' /\ HostsBound'
  BY <1>2, CrashHosts
<1>3. ASSUME HostingTyped', UNCHANGED <<inMap, held, proc, assign, drifted>> PROVE HostsBound'
  BY <1>3 DEF HostsBound, Hosts, HasSocket
<1>4. ASSUME NEW w \in Worker, Start(w) PROVE HostingTyped' /\ HostsBound'
  BY <1>3, <1>4, StartKeeps
<1>5. CASE LateWrite
  BY <1>3, <1>5, LateWriteKeeps
<1>6. CASE Reassign \/ AdminUnassign
  <2>1. HostingTyped' /\ UNCHANGED <<inMap, held, proc>>
    BY <1>6, TakenAway
  <2>2. PICK o \in Worker \cup {NoWorker} : Rebind(NoWorker, o)
    BY <1>6, TakenAway
  <2>3. \A x \in Worker : Hosts(x)' => Hosts(x)
    BY <2>1 DEF Hosts, HasSocket
  <2> QED
    BY <2>1, <2>2, <2>3, NamesApart, HostDrifts
<1> QED
  BY <1>1, <1>2, <1>4, <1>5, <1>6 DEF Next

LEMMA HostingInvariant == Spec => [](HostingTyped /\ HostsBound)
BY HostingInit, HostingStep, PTL DEF Spec

(* In every state, whatever fails or is moved, the variables have their    *)
(* types, only a worker that runs has the account in its map, a socket or  *)
(* a call in progress, and MySQL is not touched where it is not enabled.   *)
THEOREM HostingTypeCorrect == Spec => []TypeOK
<1>1. HostingTyped /\ HostsBound => TypeOK
  BY HostingTypedOK
<1> QED
  BY <1>1, HostingInvariant, PTL

(* Two workers have a socket of the account at once only if the registry   *)
(* took it from one of them while that one was dealing with it: for any    *)
(* number of workers, ticks and calls, and past the first write of old     *)
(* credentials, where the run of TLC ends.                                 *)
THEOREM OneHostAlways == Spec => []OneHost
<1>1. HostingTyped /\ HostsBound => OneHost
  BY DEF HostsBound, Hosts, OneHost
<1> QED
  BY <1>1, HostingInvariant, PTL

-----------------------------------------------------------------------------
(* What a process does while no other call for the account runs on w.      *)
Working(r, w) == r.at = w /\ r.pc \notin {"idle", "listed", "offline", "logout"}
Ending(r) == r.pc \in {"leave", "mark", "drop", "wipe", "forget", "unbind"}
Opening(r) ==
    r.pc \in {"clear", "save", "open"} \/ (r.pc \in {"redis", "mysql"} /\ r.next = "reopen")

(* p does not open a socket for a context that has been dropped, nor drop  *)
(* the context of a socket.                                                *)
Orderly(p, w) ==
    /\ Ending(proc[p]) => ~HasSocket(w)
    /\ Opening(proc[p]) => w \in inMap

Tidy(w) == HasSocket(w) => w \in inMap

CallsApart ==
    \A w \in Worker \ raced :
        /\ Tidy(w)
        /\ \A p \in Proc : Working(proc[p], w) => Orderly(p, w)
        /\ \A p, q \in Proc : Working(proc[p], w) /\ Working(proc[q], w) => p = q

LEMMA MoveDoes ==
    ASSUME ProcsTyped, NEW p \in Proc, NEW w, NEW pc, NEW next, NEW v, Move(p, w, pc, next, v)
    PROVE  /\ proc'[p].pc = pc /\ (pc # "idle" => proc'[p].next = next)
           /\ \A q \in Proc \ {p} : proc'[q] = proc[q]
BY DEF Move, ProcsTyped, Rest

(* What a step of p leaves alone on the other workers.                     *)
Local(p, w) ==
    /\ Moved(p, w)
    /\ \A x \in Worker \ {w} :
          held'[x] = held[x] /\ (x \in inMap' <=> x \in inMap) /\ (x \in raced' <=> x \in raced)

(* Is p the only one that works on w, unless w is in raced afterwards?     *)
Noticed(p, w) == Overlap(p, w) \/ (Working(proc[p], w) /\ raced' = raced)

LEMMA NoticedAlone ==
    ASSUME CallsApart, NEW p \in Proc, NEW w \in Worker, Noticed(p, w), w \notin raced'
    PROVE  w \notin raced /\ \A q \in Proc \ {p} : ~Working(proc[q], w)
BY DEF CallsApart, Noticed, Overlap, Busy, Active, Working

LEMMA WorkGoesOn ==
    ASSUME CallsApart, NEW p \in Proc, NEW w \in Worker, Local(p, w), Noticed(p, w),
           w \notin raced' => Tidy(w)' /\ (Working(proc'[p], w) => Orderly(p, w)')
    PROVE  CallsApart'
<1>1. ASSUME NEW x \in Worker \ {w}, x \notin raced'
      PROVE  /\ Tidy(x)'
             /\ \A q \in Proc : Working(proc'[q], x) => Working(proc[q], x) /\ Orderly(q, x)'
             /\ \A q, r \in Proc : Working(proc'[q], x) /\ Working(proc'[r], x) => q = r
  <2>1. \A q \in Proc : Working(proc'[q], x) => proc'[q] = proc[q]
    BY DEF Local, Moved, Working
  <2>2. x \notin raced /\ held'[x] = held[x] /\ (x \in inMap' <=> x \in inMap)
    BY <1>1 DEF Local
  <2> QED
    BY <2>1, <2>2 DEF CallsApart, Tidy, Orderly, HasSocket
<1>2. ASSUME w \notin raced'
      PROVE  /\ \A q \in Proc : Working(proc'[q], w) => q = p
  BY <1>2, NoticedAlone DEF Local, Moved
<1> QED
  BY <1>1, <1>2 DEF CallsApart

(* A step that leaves the sockets and the map alone and does not work.     *)
LEMMA QuietStep ==
    ASSUME CallsApart, NEW p \in Proc, UNCHANGED <<inMap, held, raced>>,
           \A q \in Proc \ {p} : proc'[q] = proc[q],
           \A x \in Worker : ~Working(proc'[p], x)
    PROVE  CallsApart'
<1>1. \A q \in Proc, x \in Worker : Working(proc'[q], x) => proc'[q] = proc[q]
  OBVIOUS
<1> QED
  BY <1>1 DEF CallsApart, Tidy, Orderly, HasSocket

LEMMA DeliverDoes ==
    ASSUME HostingTyped, NEW p \in Proc, NEW w \in Worker, NEW use, NEW v \in Copy,
           Deliver(p, w, use, v)
    PROVE  /\ inMap \subseteq inMap' /\ inMap' \subseteq inMap \cup {w}
           /\ proc'[p].pc \in {"save", "clear", "idle"}
           /\ (w \in inMap \/ use # "reopen") /\ proc'[p].pc # "idle" => w \in inMap'
<1>1. inMap \subseteq inMap' /\ inMap' \subseteq inMap \cup {w}
  BY DEF Deliver
<1>2. PICK pc \in {"save", "clear", "idle"}, u \in {v, None} :
         /\ Move(p, w, pc, "idle", u)
         /\ (w \in inMap \/ use # "reopen") /\ pc # "idle" => w \in inMap'
  BY DEF Deliver
<1>3. proc'[p].pc = pc
  BY <1>2, MoveDoes DEF HostingTyped
<1> QED
  BY <1>1, <1>2, <1>3

LEMMA ReadDoes ==
    ASSUME HostingTyped, NEW p \in Proc, NEW w \in Worker, NEW use, Read(p, w, use)
    PROVE  /\ inMap \subseteq inMap' /\ inMap' \subseteq inMap \cup {w}
           /\ proc'[p].pc \in {"save", "clear", "idle", "redis"}
           /\ (w \in inMap \/ use # "reopen") /\ Opening(proc'[p]) => w \in inMap'
<1>1. CASE Deliver(p, w, use, l1[w])
  <2>1. l1[w] \in Copy
    BY DEF HostingTyped, TiersTypeOK
  <2> QED
    BY <1>1, <2>1, DeliverDoes DEF Opening
<1>2. ASSUME NEW v, Move(p, w, "redis", use, v), inMap' = inMap
      PROVE  /\ inMap \subseteq inMap' /\ inMap' \subseteq inMap \cup {w}
             /\ proc'[p].pc \in {"save", "clear", "idle", "redis"}
             /\ (w \in inMap \/ use # "reopen") /\ Opening(proc'[p]) => w \in inMap'
  BY <1>2, MoveDoes DEF HostingTyped, Opening
<1> QED
  BY <1>1, <1>2 DEF Read, ReadFails

LEMMA ReopenDoes ==
    ASSUME HostingTyped, NEW p \in Proc, NEW w \in Worker, w \in inMap, NEW v, Reopen(p, w, v)
    PROVE  inMap' = inMap /\ proc'[p].pc \in {"save", "clear", "idle", "redis"}
<1>1. ASSUME NEW pc \in {"save", "idle"}, NEW u, Move(p, w, pc, "idle", u), inMap' = inMap
      PROVE  inMap' = inMap /\ proc'[p].pc \in {"save", "clear", "idle", "redis"}
  BY <1>1, MoveDoes DEF HostingTyped
<1>2. CASE Read(p, w, "reopen")
  BY <1>2, ReadDoes
<1> QED
  BY <1>1, <1>2 DEF Reopen

LEMMA OpeningApart ==
    ASSUME HostingTyped, CallsApart, NEW p \in Proc, NEW w \in Worker, OpenStep(p, w)
    PROVE  CallsApart'
<1>1. HostingTyped' /\ Widens(p, w)
  BY RedisKeeps, MySqlKeeps, ClearKeeps, WriteBackKeeps, OpenKeeps DEF OpenStep
<1>2. Working(proc[p], w) /\ raced' = raced
  BY DEF OpenStep, Redis, MySql, Clear, WriteBack, Open, At, Working, historyVars
<1>3. Noticed(p, w)
  BY <1>2 DEF Noticed
<1>4. proc[p].got \in Copy /\ None \in Copy
  BY Copies DEF HostingTyped, ProcsTyped, Place
<1>5. ASSUME w \notin raced
      PROVE  /\ Tidy(w) /\ Orderly(p, w)
             /\ \A q \in Proc : Working(proc[q], w) => q = p
  BY <1>2, <1>5 DEF CallsApart
<1>6. ASSUME inMap \subseteq inMap',
             w \notin raced => Tidy(w)' /\ Orderly(p, w)'
      PROVE  CallsApart'
  <2>1. Local(p, w)
    BY <1>1, <1>2, <1>6 DEF Widens, Local
  <2> QED
    BY <1>2, <1>3, <1>6, <2>1, WorkGoesOn
<1>7. CASE Redis(p, w)
  <2>1. proc[p].pc = "redis" /\ held' = held
    BY <1>7 DEF Redis, At
  <2>2. CASE Carry(p, "mysql", l3) /\ UNCHANGED inMap
    <3>1. proc'[p].pc = "mysql" /\ proc'[p].next = proc[p].next
      BY <2>2, MoveDoes DEF Carry, HostingTyped
    <3> QED
      BY <1>5, <1>6, <2>1, <2>2, <3>1 DEF Tidy, Orderly, Opening, Ending, HasSocket
  <2>3. ASSUME NEW v \in Copy, Deliver(p, w, proc[p].next, v) PROVE CallsApart'
    BY <1>5, <1>6, <2>1, <2>3, DeliverDoes DEF Tidy, Orderly, Opening, Ending, HasSocket
  <2> QED
    BY <1>4, <1>7, <2>2, <2>3 DEF Redis
<1>8. CASE MySql(p, w)
  <2>1. proc[p].pc = "mysql" /\ held' = held /\ Deliver(p, w, proc[p].next, proc[p].got)
    BY <1>8 DEF MySql, At
  <2> QED
    BY <1>4, <1>5, <1>6, <2>1, DeliverDoes DEF Tidy, Orderly, Opening, Ending, HasSocket
<1>9. CASE Clear(p, w)
  <2>1. proc[p].pc = "clear" /\ Reopen(p, w, proc[p].got) /\ held' = [held EXCEPT ![w] = None]
    BY <1>9 DEF Clear, At, Reopen
  <2>2. held'[w] = None
    BY <2>1 DEF HostingTyped, HostTyped
  <2>3. CASE w \in inMap
    BY <1>5, <1>6, <2>1, <2>2, <2>3, ReopenDoes DEF Tidy, Orderly, Opening, Ending, HasSocket
  <2>4. CASE w \notin inMap
    <3>1. w \in raced
      BY <1>5, <2>1, <2>4 DEF Orderly, Opening
    <3>2. inMap \subseteq inMap'
      BY <2>1, ReadDoes DEF Reopen
    <3> QED
      BY <1>6, <3>1, <3>2
  <2> QED
    BY <2>3, <2>4
<1>10. CASE WriteBack(p, w)
  <2>1. proc[p].pc = "save" /\ UNCHANGED <<inMap, held>> /\ \E v : Carry(p, "open", v)
    BY <1>10 DEF WriteBack, At, workerVars
  <2>2. proc'[p].pc = "open"
    BY <2>1, MoveDoes DEF Carry, HostingTyped
  <2> QED
    BY <1>5, <1>6, <2>1, <2>2 DEF Tidy, Orderly, Opening, Ending, HasSocket
<1>11. CASE Open(p, w)
  <2>1. proc[p].pc = "open" /\ inMap' = inMap /\ Go(p, "idle")
    BY <1>11 DEF Open, At
  <2>2. proc'[p].pc = "idle"
    BY <2>1, MoveDoes DEF Go, HostingTyped
  <2> QED
    BY <1>5, <1>6, <2>1, <2>2 DEF Tidy, Orderly, Opening, Ending, HasSocket
<1> QED
  BY <1>7, <1>8, <1>9, <1>10, <1>11 DEF OpenStep

LEMMA TickApart ==
    ASSUME HostingTyped, CallsApart, NEW w \in Worker, TickStep(w)
    PROVE  CallsApart'
<1>0. w \in Proc
  BY DEF Proc
<1> USE <1>0
<1>1. CASE List(w)
  <2>1. Go(w, "listed") /\ UNCHANGED <<inMap, held, raced>>
    BY <1>1 DEF List, workerVars, historyVars
  <2>2. proc'[w].pc = "listed" /\ \A q \in Proc \ {w} : proc'[q] = proc[q]
    BY <2>1, MoveDoes DEF Go, HostingTyped
  <2> QED
    BY <2>1, <2>2, QuietStep DEF Working
<1>2. CASE Look(w)
  <2>1. /\ Read(w, w, IF released THEN "skip" ELSE "adopt") /\ Overlap(w, w) /\ held' = held
        /\ Widens(w, w)
    BY <1>2, LookKeeps DEF Look
  <2>2. /\ inMap \subseteq inMap'
        /\ Opening(proc'[w]) => w \in inMap'
        /\ proc'[w].pc \in {"save", "clear", "idle", "redis"}
    BY <2>1, ReadDoes
  <2>3. Local(w, w) /\ Noticed(w, w)
    BY <2>1, <2>2 DEF Widens, Local, Noticed, Overlap
  <2>4. ASSUME w \notin raced' PROVE Tidy(w)
    BY <2>3, <2>4, NoticedAlone DEF CallsApart
  <2>5. w \notin raced' => Tidy(w)' /\ Orderly(w, w)'
    BY <2>1, <2>2, <2>4 DEF Tidy, Orderly, Ending, HasSocket
  <2> QED
    BY <2>3, <2>5, WorkGoesOn
<1>3. CASE OpenStep(w, w)
  BY <1>3, OpeningApart
<1> QED
  BY <1>1, <1>2, <1>3 DEF TickStep

LEMMA StopApart ==
    ASSUME HostingTyped, CallsApart, NEW j \in Job, NEW w \in Worker, w \in up,
           NEW pc \in {"mark", "leave"}, NEW next \in {"drop", "wipe"}, Stop(j, w, pc, next)
    PROVE  CallsApart'
<1>0. j \in Proc
  BY DEF Proc
<1>1. /\ held' = [held EXCEPT ![w] = None] /\ Move(j, w, pc, next, None) /\ Overlap(j, w)
      /\ inMap' = inMap /\ Widens(j, w)
  BY StopKeeps DEF Stop
<1>2. proc'[j].pc = pc /\ held'[w] = None
  BY <1>0, <1>1, MoveDoes DEF HostingTyped, HostTyped
<1>3. Local(j, w) /\ Noticed(j, w)
  BY <1>1 DEF Widens, Local, Noticed, Overlap
<1>4. Tidy(w)' /\ Orderly(j, w)'
  BY <1>2 DEF Tidy, Orderly, Opening, Ending, HasSocket
<1> QED
  BY <1>0, <1>3, <1>4, WorkGoesOn

LEMMA JobApart ==
    ASSUME HostingTyped, CallsApart, NEW j \in Job, NEW w \in Worker, JobStep(j, w)
    PROVE  CallsApart'
<1>0. j \in Proc /\ ProcsTyped
  BY DEF Proc, HostingTyped
<1> USE <1>0
<1>1. CASE OpenStep(j, w)
  BY <1>1, OpeningApart
<1>2. ASSUME Working(proc[j], w), raced' = raced, Moved(j, w),
             \A x \in Worker \ {w} : held'[x] = held[x] /\ (x \in inMap' <=> x \in inMap),
             w \notin raced => (Tidy(w) /\ Orderly(j, w) => Tidy(w)' /\ Orderly(j, w)')
      PROVE  CallsApart'
  <2>1. Local(j, w) /\ Noticed(j, w)
    BY <1>2 DEF Local, Noticed
  <2>2. w \notin raced' => Tidy(w)' /\ Orderly(j, w)'
    BY <1>2 DEF CallsApart
  <2> QED
    BY <2>1, <2>2, WorkGoesOn
<1>3. CASE Online(j, w)
  <2>1. /\ Working(proc[j], w) /\ UNCHANGED <<held, raced>> /\ Widens(j, w)
    BY <1>3, OnlineKeeps DEF Online, At, Working
  <2>2. CASE w \in inMap
    <3>1. Go(j, "clear") /\ inMap' = inMap
      BY <1>3, <2>2 DEF Online
    <3>2. proc'[j].pc = "clear"
      BY <3>1, MoveDoes DEF Go
    <3> QED
      BY <1>2, <2>1, <2>2, <3>1, <3>2 DEF Widens, Tidy, Orderly, Ending
  <2>3. CASE w \notin inMap
    <3>1. Read(j, w, "online")
      BY <1>3, <2>3 DEF Online
    <3>2. /\ inMap \subseteq inMap' /\ inMap' \subseteq inMap \cup {w}
          /\ Opening(proc'[j]) => w \in inMap'
          /\ proc'[j].pc \in {"save", "clear", "idle", "redis"}
      BY <3>1, ReadDoes
    <3> QED
      BY <1>2, <2>1, <3>2 DEF Widens, Tidy, Orderly, Ending, HasSocket
  <2> QED
    BY <2>2, <2>3
<1>4. CASE ClearImport(j, w)
  <2>1. /\ Working(proc[j], w) /\ UNCHANGED <<held, inMap, raced>> /\ Widens(j, w)
        /\ proc'[j].pc = "saveImport"
    BY <1>4, ClearImportKeeps DEF ClearImport, At, Working, historyVars
  <2> QED
    BY <1>2, <2>1 DEF Widens, Tidy, Orderly, Ending, Opening, HasSocket
<1>5. CASE SaveImport(j, w)
  <2>1. /\ Working(proc[j], w) /\ UNCHANGED <<held, inMap, raced>> /\ Widens(j, w)
        /\ proc'[j].pc \in {"idle", "online"}
    BY <1>5, SaveImportKeeps DEF SaveImport, At, Working
  <2> QED
    BY <1>2, <2>1 DEF Widens, Tidy, Orderly, Ending, Opening, HasSocket
<1>6. CASE Offline(j, w) \/ Logout(j, w)
  <2>1. CASE NotFound(j, w)
    <3>1. Go(j, "idle") /\ UNCHANGED <<inMap, held, raced>>
      BY <2>1 DEF NotFound, workerVars, historyVars
    <3>2. proc'[j].pc = "idle" /\ \A q \in Proc \ {j} : proc'[q] = proc[q]
      BY <3>1, MoveDoes DEF Go
    <3> QED
      BY <3>1, <3>2, QuietStep DEF Working
  <2>2. CASE w \in inMap /\ (Stop(j, w, "mark", "drop") \/ Stop(j, w, "leave", "wipe"))
    <3>1. w \in up
      BY <2>2 DEF HostingTyped, HostTyped
    <3> QED
      BY <2>2, <3>1, StopApart
  <2> QED
    BY <1>6, <2>1, <2>2 DEF Offline, Logout
<1>7. CASE Leave(j, w)
  <2>1. /\ Working(proc[j], w) /\ proc[j].pc = "leave" /\ raced' = raced /\ inMap' = inMap
        /\ Widens(j, w) /\ proc'[j].pc = "mark" /\ held'[w] \in {held[w], None}
    BY <1>7, LeaveKeeps DEF Leave, At, Working, historyVars
  <2> QED
    BY <1>2, <2>1 DEF Widens, Tidy, Orderly, Ending, Opening, HasSocket
<1>8. CASE Mark(j, w)
  <2>1. /\ Working(proc[j], w) /\ proc[j].pc = "mark" /\ UNCHANGED <<held, inMap, raced>>
        /\ Widens(j, w) /\ proc'[j].pc \in {"drop", "wipe"}
    BY <1>8, MarkKeeps DEF Mark, At, Working, workerVars, historyVars
  <2> QED
    BY <1>2, <2>1 DEF Widens, Tidy, Orderly, Ending, Opening, HasSocket
<1>9. CASE Drop(j, w)
  <2>1. /\ Working(proc[j], w) /\ proc[j].pc = "drop" /\ UNCHANGED <<held, raced>>
        /\ inMap' = inMap \ {w} /\ Widens(j, w) /\ proc'[j].pc = "idle"
    BY <1>9, DropKeeps DEF Drop, At, Working, historyVars
  <2> QED
    BY <1>2, <2>1 DEF Widens, Tidy, Orderly, Ending, Opening, HasSocket
<1>10. CASE Wipe(j, w)
  <2>1. /\ Working(proc[j], w) /\ proc[j].pc = "wipe" /\ UNCHANGED <<held, inMap, raced>>
        /\ Widens(j, w) /\ proc'[j].pc = "forget"
    BY <1>10, WipeKeeps DEF Wipe, At, Working
  <2> QED
    BY <1>2, <2>1 DEF Widens, Tidy, Orderly, Ending, Opening, HasSocket
<1>11. CASE ForgetAccount(j, w)
  <2>1. /\ Working(proc[j], w) /\ proc[j].pc = "forget" /\ UNCHANGED <<held, raced>>
        /\ inMap' = inMap \ {w} /\ Widens(j, w) /\ proc'[j].pc = "unbind"
    BY <1>11, ForgetAccountKeeps DEF ForgetAccount, At, Working, historyVars
  <2> QED
    BY <1>2, <2>1 DEF Widens, Tidy, Orderly, Ending, Opening, HasSocket
<1>12. CASE Unbind(j, w)
  <2>1. /\ UNCHANGED <<held, inMap, raced>> /\ Moved(j, w) /\ proc'[j].pc = "idle"
    BY <1>12, UnbindKeeps DEF Unbind
  <2> QED
    BY <2>1, QuietStep DEF Moved, Working
<1>13. CASE Limited(j, w)
  <2>1. Go(j, "idle") /\ UNCHANGED <<inMap, held, raced>>
    BY <1>13 DEF Limited, workerVars, historyVars
  <2>2. proc'[j].pc = "idle" /\ \A q \in Proc \ {j} : proc'[q] = proc[q]
    BY <2>1, MoveDoes DEF Go
  <2> QED
    BY <2>1, <2>2, QuietStep DEF Working
<1> QED
  BY <1>1, <1>3, <1>4, <1>5, <1>6, <1>7, <1>8, <1>9, <1>10, <1>11, <1>12, <1>13 DEF JobStep

(* A call that begins to work without a socket or a context of its own.    *)
LEMMA BeginsApart ==
    ASSUME CallsApart, NEW j \in Job, NEW w \in Worker, UNCHANGED <<inMap, held>>, Moved(j, w),
           Overlap(j, w), proc'[j].pc \in {"online", "clearImport"}
    PROVE  CallsApart'
<1>1. j \in Proc /\ Local(j, w) /\ Noticed(j, w)
  BY DEF Proc, Local, Noticed, Overlap
<1>2. ASSUME w \notin raced' PROVE Tidy(w)' /\ Orderly(j, w)'
  <2>1. Tidy(w)
    BY <1>1, <1>2, NoticedAlone DEF CallsApart
  <2> QED
    BY <2>1 DEF Tidy, Orderly, Ending, Opening, HasSocket
<1> QED
  BY <1>1, <1>2, WorkGoesOn

LEMMA RequestApart ==
    ASSUME HostingTyped, CallsApart, NEW j \in Job, NEW w \in Worker, Request(j, w)
    PROVE  CallsApart'
<1>0. j \in Proc /\ ProcsTyped
  BY DEF Proc, HostingTyped
<1> USE <1>0
<1>1. CASE PostOnline(j, w)
  <2>1. UNCHANGED <<inMap, held>> /\ Moved(j, w) /\ ToOnline(j, w)
    BY <1>1, PostOnlineKeeps DEF PostOnline
  <2>2. CASE Begin(j, w, "online", "idle") /\ Overlap(j, w)
    <3>1. proc'[j].pc = "online"
      BY <2>2, MoveDoes DEF Begin
    <3> QED
      BY <2>1, <2>2, <3>1, BeginsApart
  <2>3. CASE UNCHANGED <<proc, raced>>
    BY <2>1, <2>3 DEF CallsApart, Tidy, Orderly, HasSocket
  <2> QED
    BY <2>1, <2>2, <2>3 DEF ToOnline
<1>2. CASE Import(j, w)
  BY <1>2, ImportKeeps, BeginsApart DEF Import
<1>3. CASE Reconnect(j, w)
  <2>1. /\ w \in inMap /\ Reopen(j, w, None) /\ Overlap(j, w) /\ Widens(j, w)
        /\ held' = [held EXCEPT ![w] = None]
    BY <1>3, ReconnectKeeps DEF Reconnect, Reopen
  <2>2. inMap' = inMap /\ proc'[j].pc \in {"save", "clear", "idle", "redis"}
    BY <2>1, ReopenDoes
  <2>3. Local(j, w) /\ Noticed(j, w)
    BY <2>1, <2>2 DEF Widens, Local, Noticed, Overlap
  <2>4. Tidy(w)' /\ Orderly(j, w)'
    BY <2>1, <2>2 DEF Tidy, Orderly, Ending
  <2> QED
    BY <2>3, <2>4, WorkGoesOn
<1>4. ASSUME NEW call \in {"offline", "logout"}, Ask(j, w, call) PROVE CallsApart'
  <2>1. /\ UNCHANGED <<inMap, held, raced>> /\ Moved(j, w) /\ proc'[j].pc = call
    BY <1>4, AskKeeps DEF Ask, historyVars, Widens
  <2> QED
    BY <2>1, QuietStep DEF Moved, Working
<1>5. CASE CloseForGood(j, w)
  <2>1. HasSocket(w) /\ Stop(j, w, "leave", "drop")
    BY <1>5 DEF CloseForGood
  <2>2. w \in up
    BY <2>1 DEF HasSocket, HostingTyped, HostTyped
  <2> QED
    BY <2>1, <2>2, StopApart
<1> QED
  BY <1>1, <1>2, <1>3, <1>4, <1>5 DEF Request

LEMMA CrashApart ==
    ASSUME HostingTyped, CallsApart, NEW w \in Worker, Crash(w)
    PROVE  CallsApart'
<1>1. /\ inMap' = inMap \ {w} /\ held'[w] = None /\ raced' = raced \ {w}
      /\ \A x \in Worker \ {w} : held'[x] = held[x]
      /\ \A p \in Proc : IF proc[p].at = w THEN proc'[p].pc = "idle" ELSE proc'[p] = proc[p]
  BY CrashKeeps DEF Crash
<1>2. \A p \in Proc : ~Working(proc'[p], w)
  BY <1>1 DEF Working
<1>3. Tidy(w)'
  BY <1>1 DEF Tidy, HasSocket
<1>4. \A p \in Proc, x \in Worker : Working(proc'[p], x) => proc'[p] = proc[p]
  BY <1>1 DEF Working
<1> QED
  BY <1>1, <1>2, <1>3, <1>4 DEF CallsApart, Tidy, Orderly, HasSocket

LEMMA CallsApartStep ==
    HostingTyped /\ CallsApart /\ [Next]_vars => CallsApart'
<1> SUFFICES ASSUME HostingTyped, CallsApart, [Next]_vars PROVE CallsApart'
  OBVIOUS
<1>1. ASSUME UNCHANGED <<inMap, held, proc, raced>> PROVE CallsApart'
  BY <1>1 DEF CallsApart, Tidy, Orderly, HasSocket
<1>2. CASE UNCHANGED vars
  BY <1>1, <1>2 DEF vars, workerVars, historyVars
<1>3. ASSUME NEW w \in Worker, Update(w) PROVE CallsApart'
  <2>1. /\ HasSocket(w) /\ UNCHANGED <<proc, inMap, raced>>
        /\ \A x \in Worker \ {w} : held'[x] = held[x]
    BY <1>3, UpdateKeeps DEF Update
  <2>2. \A x \in Worker : HasSocket(x)' => HasSocket(x)
    BY <2>1 DEF HasSocket
  <2> QED
    BY <2>1, <2>2 DEF CallsApart, Tidy, Orderly
<1>4. ASSUME NEW w \in Worker, WorkerStep(w) PROVE CallsApart'
  BY <1>3, <1>4, TickApart, JobApart, RequestApart DEF WorkerStep
<1>5. ASSUME NEW w \in Worker, Crash(w) PROVE CallsApart'
  BY <1>5, CrashApart
<1>6. CASE \E w \in Worker : Start(w)
  BY <1>1, <1>6 DEF Start, historyVars
<1>7. CASE Reassign \/ AdminUnassign
  BY <1>1, <1>7 DEF Reassign, AdminUnassign, workerVars
<1>8. CASE LateWrite
  BY <1>1, <1>8 DEF LateWrite, workerVars, historyVars
<1> QED
  BY <1>2, <1>4, <1>5, <1>6, <1>7, <1>8 DEF Next

LEMMA CallsApartAlways == Spec => []CallsApart
<1>1. Init => CallsApart
  <2> SUFFICES ASSUME Init PROVE CallsApart
    OBVIOUS
  <2>1. /\ \A w \in Worker : held[w] = None
        /\ \A p \in Proc : proc[p].pc = "idle"
    BY DEF Init, Rest
  <2> QED
    BY <2>1 DEF CallsApart, Tidy, Working, HasSocket
<1> QED
  BY <1>1, HostingInvariant, CallsApartStep, PTL DEF Spec

(* A socket whose worker has dropped the account from its map, which no    *)
(* call can end any more, is left only where two calls for the account     *)
(* have overlapped on that worker (account-manager.ts:206).                *)
THEOREM NoZombiesAlone == Spec => []NoZombies
<1>1. CallsApart => NoZombies
  BY DEF CallsApart, Tidy, NoZombies
<1> QED
  BY <1>1, CallsApartAlways, PTL

-----------------------------------------------------------------------------
(* What a worker that no change has passed by has in its memory, in its    *)
(* socket and in the hands of its calls may be written to Redis.           *)
Blank(r) == r.got = None \/ r.pc \in {"redis", "mysql", "clear", "save", "open"}
Plain(r) == r.got = None /\ r.pc \notin {"redis", "mysql", "save"}
Current(r) ==
    /\ r.got \in Valid \cup {None}
    /\ r.pc \in {"redis", "save"} => r.got \in Valid
    /\ r.pc # "mysql"

UpToDate(w) ==
    /\ l1[w] \in Valid \cup {None}
    /\ held[w] \in Valid \cup {None}
    /\ \A p \in Proc : proc[p].at = w => Current(proc[p])

(* Of the workers that no change has passed by, only the owner remembers   *)
(* anything.                                                               *)
Remembers(w) == l1[w] # None => assign = w \/ w \in behind

Followed ==
    /\ drifted \subseteq behind
    /\ \A w \in Worker : Remembers(w)
    /\ \A p \in Proc : Blank(proc[p])
    /\ Durable /\ ~spoilt => live
    /\ ~spoilt => l2 \in Valid /\ \A w \in Worker \ behind : UpToDate(w)

LEMMA PlainIsCurrent == ASSUME NEW r, Plain(r) PROVE Blank(r) /\ Current(r)
BY DEF Plain, Blank, Current

LEMMA RestIsPlain ==
    ASSUME ProcsTyped, NEW p \in Proc, proc[p].pc = "idle" PROVE Plain(proc[p])
BY DEF ProcsTyped, Rest, Plain

LEMMA NewestIsSome == HistoryTyped => newest # None
BY Copies DEF HistoryTyped

(* A worker that hosts and that no change has passed by is the owner.      *)
LEMMA HostIsOwner ==
    ASSUME HostsBound, Followed, NEW w \in Worker, Hosts(w) PROVE assign = w \/ w \in behind
BY DEF HostsBound, Followed

(* A step of p on w that changes no credentials.                           *)
LEMMA FollowedOn ==
    ASSUME HostingTyped', Followed, NEW p \in Proc, NEW w \in Worker, Moved(p, w),
           UNCHANGED <<assign, drifted, newest, live>>, behind \subseteq behind',
           \A x \in Worker \ {w} : l1'[x] = l1[x] /\ held'[x] = held[x],
           l1'[w] = l1[w] \/ assign = w \/ w \in behind',
           Blank(proc[p])', spoilt => spoilt',
           ~spoilt' => l2' \in Valid,
           ~spoilt' /\ w \notin behind' =>
               /\ l1'[w] \in Valid \cup {None} /\ held'[w] \in Valid \cup {None}
               /\ Current(proc[p])'
    PROVE  Followed'
<1>1. drifted' \subseteq behind' /\ (Durable /\ ~spoilt' => live') /\ Valid' = Valid
  BY DEF Followed, Valid
<1>2. \A x \in Worker : Remembers(x)'
  BY DEF Followed, Remembers
<1>3. \A q \in Proc : Blank(proc[q])'
  BY DEF Followed, Moved, Blank
<1>4. ASSUME ~spoilt', NEW x \in Worker \ behind' PROVE UpToDate(x)'
  <2>1. ~spoilt /\ UpToDate(x)
    BY <1>4 DEF Followed
  <2>2. l1'[x] \in Valid \cup {None} /\ held'[x] \in Valid \cup {None}
    BY <1>4, <2>1 DEF UpToDate
  <2>3. ASSUME NEW q \in Proc \ {p}, proc'[q].at = x PROVE Current(proc[q])'
    BY <1>1, <2>1, <2>3 DEF Moved, UpToDate, Current
  <2>4. ASSUME proc'[p].at = x PROVE Current(proc[p])'
    <3>1. CASE x = w
      BY <1>4, <3>1
    <3>2. CASE proc'[p].pc = "idle"
      <4>1. proc'[p] = Rest(p)
        BY <3>2 DEF HostingTyped, ProcsTyped
      <4> QED
        BY <4>1 DEF Rest, Current
    <3> QED
      BY <2>4, <3>1, <3>2 DEF Moved
  <2> QED
    BY <1>1, <2>2, <2>3, <2>4 DEF UpToDate
<1> QED
  BY <1>1, <1>2, <1>3, <1>4 DEF Followed

(* A step of p after which it has nothing in hand.                         *)
LEMMA FollowedQuietly ==
    ASSUME HostingTyped, HostingTyped', Followed, NEW p \in Proc, NEW w \in Worker, Moved(p, w),
           UNCHANGED <<l1, l2, assign, newest, live, drifted, behind, spoilt>>,
           \A x \in Worker \ {w} : held'[x] = held[x], held'[w] \in {held[w], None},
           Plain(proc[p])'
    PROVE  Followed'
<1>1. Blank(proc[p])' /\ Current(proc[p])'
  BY DEF Plain, Blank, Current
<1>2. ~spoilt /\ w \notin behind => UpToDate(w)
  BY DEF Followed
<1>3. ~spoilt => l2 \in Valid
  BY DEF Followed
<1> QED
  BY <1>1, <1>2, <1>3, FollowedOn DEF UpToDate

(* The binding changes: an old owner that deals with the account, or       *)
(* remembers it, is passed by.                                             *)
LEMMA FollowedRebound ==
    ASSUME HostingTyped, Followed, NEW p, NEW o \in Worker \cup {NoWorker}, Rebind(p, o),
           UNCHANGED <<l1, l2, held, newest, live, spoilt>>,
           \A q \in Proc : proc'[q] = proc[q] \/ Plain(proc[q])'
    PROVE  Followed'
<1>1. /\ assign' = o /\ drifted' \subseteq behind' /\ behind \subseteq behind'
      /\ \A x \in {assign} \cap (up \ {o}) : l1[x] # None => x \in behind'
  BY DEF Rebind, Followed
<1>2. ASSUME NEW x \in Worker PROVE Remembers(x)'
  <2>1. l1[x] # None => x \in up
    BY DEF HostingTyped, HostTyped
  <2> QED
    BY <1>1, <2>1 DEF Followed, Remembers
<1>3. \A q \in Proc : Blank(proc[q])'
  BY DEF Followed, Blank, Plain
<1>4. Valid' = Valid
  BY DEF Valid
<1>5. ASSUME ~spoilt, NEW x \in Worker \ behind' PROVE UpToDate(x)'
  <2>1. UpToDate(x)
    BY <1>1, <1>5 DEF Followed
  <2>2. ASSUME NEW q \in Proc, proc'[q].at = x PROVE Current(proc[q])'
    BY <1>4, <2>1, <2>2 DEF UpToDate, Current, Plain
  <2> QED
    BY <1>4, <2>1, <2>2 DEF UpToDate
<1> QED
  BY <1>1, <1>2, <1>3, <1>4, <1>5 DEF Followed

(* The credentials change on w: whoever has others in hand is passed by.   *)
LEMMA FollowedChange ==
    ASSUME HostingTyped, HostingTyped', Followed, NEW p \in Job \cup {NoWorker},
           NEW w \in Worker, w \in up, PassBy(p, w), UNCHANGED <<assign, drifted>>,
           \A q \in Proc \ {p} : proc'[q] = proc[q], p \in Proc => Plain(proc[p])',
           \A x \in Worker \ {w} : l1'[x] = l1[x] /\ held'[x] = held[x],
           p # NoWorker => held'[w] = held[w],
           spoilt => spoilt', Durable /\ ~spoilt' => live',
           ~spoilt' => l2' \in Valid',
           ~spoilt' /\ w \notin behind' =>
               l1'[w] \in Valid' \cup {None} /\ (p = NoWorker => held'[w] \in Valid')
    PROVE  Followed'
<1>1. /\ Carriers(p) \subseteq behind' /\ behind \subseteq behind'
      /\ \A x \in Worker : HasSocket(x) /\ (x = w => p # NoWorker) => x \in behind'
      /\ assign # w => {w, assign} \cap up \subseteq behind'
  BY DEF PassBy
<1>2. drifted' \subseteq behind'
  BY <1>1 DEF Followed
<1>3. ASSUME NEW x \in Worker PROVE Remembers(x)'
  BY <1>1 DEF Followed, Remembers
<1>4. \A q \in Proc : Blank(proc[q])'
  BY DEF Followed, Blank, Plain
<1>5. ASSUME ~spoilt', NEW x \in Worker \ behind' PROVE UpToDate(x)'
  <2>1. l1'[x] \in Valid' \cup {None}
    <3>1. CASE x = w
      BY <1>5, <3>1
    <3>2. CASE x # w
      <4>1. l1[x] # None => assign = x /\ x \in up
        BY <1>1, <1>5 DEF Followed, Remembers, HostingTyped, HostTyped
      <4> QED
        BY <1>1, <1>5, <3>2, <4>1
    <3> QED
      BY <3>1, <3>2
  <2>2. held'[x] \in Valid' \cup {None}
    BY <1>1, <1>5 DEF HasSocket
  <2>3. ASSUME NEW q \in Proc, proc'[q].at = x PROVE Current(proc[q])'
    <3>1. CASE q = p
      BY <3>1 DEF Plain, Current
    <3>2. CASE q # p
      <4>1. proc'[q] = proc[q] /\ ~HasRead(q)
        BY <1>1, <1>5, <2>3, <3>2 DEF Carriers
      <4> QED
        BY <4>1 DEF HasRead, Current
    <3> QED
      BY <3>1, <3>2
  <2> QED
    BY <2>1, <2>2, <2>3 DEF UpToDate
<1> QED
  BY <1>2, <1>3, <1>4, <1>5 DEF Followed

(* What a process has in hand after its reads.                             *)
LEMMA MovesTo ==
    ASSUME ProcsTyped, NEW p \in Proc, NEW w, NEW pc, NEW next, NEW v, Move(p, w, pc, next, v)
    PROVE  proc'[p] = IF pc = "idle" THEN Rest(p)
                      ELSE [at |-> w, pc |-> pc, next |-> next, got |-> v]
BY DEF Move, ProcsTyped

LEMMA MovesCurrent ==
    ASSUME ProcsTyped, NEW p \in Proc, NEW w, NEW pc, NEW next, NEW v, Move(p, w, pc, next, v),
           pc \in {"idle", "redis", "mysql", "clear", "save", "open"} \/ v = None
    PROVE  /\ Blank(proc[p])'
           /\ pc # "mysql" /\ v \in Valid' => Current(proc[p])'
<1>1. proc'[p] = IF pc = "idle" THEN Rest(p) ELSE [at |-> w, pc |-> pc, next |-> next, got |-> v]
  BY MovesTo
<1> QED
  BY <1>1 DEF Rest, Blank, Current

LEMMA MovesPlain ==
    ASSUME ProcsTyped, NEW p \in Proc, NEW w, NEW pc, NEW next, Move(p, w, pc, next, None),
           pc \notin {"redis", "mysql", "save"}
    PROVE  Plain(proc[p])'
<1>1. proc'[p] = IF pc = "idle" THEN Rest(p) ELSE [at |-> w, pc |-> pc, next |-> next, got |-> None]
  BY MovesTo
<1> QED
  BY <1>1 DEF Rest, Plain

(* What a process that has nothing in hand does without reading.           *)
LEMMA GoesPlain ==
    ASSUME ProcsTyped, Followed, NEW p \in Proc, NEW pc, Go(p, pc),
           proc[p].pc \notin {"redis", "mysql", "clear", "save", "open"} \/ pc = "idle",
           pc \notin {"redis", "mysql", "save"}
    PROVE  Plain(proc[p])'
<1>1. CASE pc = "idle"
  <2>1. proc'[p] = Rest(p)
    BY <1>1 DEF Go, Move, ProcsTyped
  <2> QED
    BY <2>1 DEF Rest, Plain
<1>2. CASE pc # "idle"
  <2>1. Move(p, proc[p].at, pc, "idle", None)
    BY <1>2 DEF Followed, Blank, Go
  <2> QED
    BY <2>1, MovesPlain
<1> QED
  BY <1>1, <1>2

LEMMA DeliversCurrent ==
    ASSUME ProcsTyped, NEW p \in Proc, NEW w, NEW use, NEW v, Deliver(p, w, use, v)
    PROVE  Blank(proc[p])' /\ (v \in Valid' => Current(proc[p])')
<1>1. CASE Move(p, w, "save", "idle", v)
  BY <1>1, MovesCurrent
<1>2. CASE Move(p, w, "clear", "idle", v)
  BY <1>2, MovesCurrent
<1>3. CASE Move(p, w, "clear", "idle", None) \/ Move(p, w, "idle", "idle", None)
  BY <1>3, MovesPlain, PlainIsCurrent DEF Plain, Blank, Current
<1> QED
  BY <1>1, <1>2, <1>3 DEF Deliver

LEMMA ReadsCurrent ==
    ASSUME HostingTyped, Followed, NEW p \in Proc, NEW w \in Worker, NEW use, Read(p, w, use),
           UNCHANGED <<newest, live>>
    PROVE  /\ Blank(proc[p])' /\ behind \subseteq behind'
           /\ ~spoilt /\ w \notin behind' => Current(proc[p])'
<1>0. ProcsTyped /\ Valid' = Valid
  BY DEF HostingTyped, Valid
<1>1. ~spoilt => l2 \in Valid
  BY DEF Followed
<1>2. ~spoilt /\ w \notin behind => l1[w] \in Valid \cup {None}
  BY DEF Followed, UpToDate
<1>3. CASE ReadFails(p, w, use)
  <2>1. Move(p, w, "redis", use, None) /\ behind' = behind \cup {w}
    BY <1>3 DEF ReadFails
  <2> QED
    BY <1>0, <2>1, MovesCurrent
<1>4. CASE l1[w] # None /\ Deliver(p, w, use, l1[w]) /\ behind' = behind
  BY <1>0, <1>2, <1>4, DeliversCurrent
<1>5. CASE Move(p, w, "redis", use, l2) /\ behind' = behind
  BY <1>0, <1>1, <1>5, MovesCurrent
<1> QED
  BY <1>3, <1>4, <1>5 DEF Read

LEMMA ReopensCurrent ==
    ASSUME HostingTyped, Followed, NEW p \in Proc, NEW w \in Worker, NEW v, Reopen(p, w, v),
           UNCHANGED <<newest, live>>, ~spoilt /\ w \notin behind => v \in Valid \cup {None}
    PROVE  /\ Blank(proc[p])' /\ behind \subseteq behind'
           /\ ~spoilt /\ w \notin behind' => Current(proc[p])'
<1>0. ProcsTyped /\ Valid' = Valid
  BY DEF HostingTyped, Valid
<1>1. CASE v # None /\ Move(p, w, "save", "idle", v) /\ behind' = behind
  BY <1>0, <1>1, MovesCurrent
<1>2. CASE Read(p, w, "reopen")
  BY <1>2, ReadsCurrent
<1>3. CASE Move(p, w, "idle", "idle", None) /\ behind' = behind
  BY <1>0, <1>3, MovesPlain, PlainIsCurrent DEF Plain, Blank, Current
<1> QED
  BY <1>1, <1>2, <1>3 DEF Reopen

(* What a step that leaves the tiers alone has to show.                    *)
LEMMA FollowedReading ==
    ASSUME HostingTyped, HostingTyped', Followed, NEW p \in Proc, NEW w \in Worker, Moved(p, w),
           UNCHANGED <<l1, l2, assign, newest, live, drifted, spoilt>>, behind \subseteq behind',
           \A x \in Worker \ {w} : held'[x] = held[x], held'[w] \in {held[w], None},
           Blank(proc[p])', ~spoilt /\ w \notin behind' => Current(proc[p])'
    PROVE  Followed'
<1>1. ~spoilt /\ w \notin behind' => UpToDate(w)
  BY DEF Followed
<1>2. ~spoilt => l2 \in Valid
  BY DEF Followed
<1> QED
  BY <1>1, <1>2, FollowedOn DEF UpToDate

LEMMA SaveDoes ==
    ASSUME TiersTypeOK, NEW w \in Worker, NEW v, NEW r, SaveRedis(w, v, r)
    PROVE  l1'[w] = v /\ l2' = r /\ \A x \in Worker \ {w} : l1'[x] = l1[x]
BY DEF SaveRedis, TiersTypeOK

LEMMA FillDoes ==
    ASSUME TiersTypeOK, NEW w \in Worker, NEW v, FillFromRedis(w, v) \/ FillFromMySql(w, v)
    PROVE  l1'[w] = v /\ \A x \in Worker \ {w} : l1'[x] = l1[x]
BY DEF FillFromRedis, FillFromMySql, TiersTypeOK

(* What a process on a worker that no change has passed by has read.       *)
LEMMA InHand ==
    ASSUME Followed, NEW p \in Proc, NEW w \in Worker, NEW pc, At(p, w, pc),
           ~spoilt, w \notin behind
    PROVE  Current(proc[p]) /\ UpToDate(w)
BY DEF Followed, UpToDate, At

LEMMA RedisFollowed ==
    ASSUME HostingTyped, HostsBound, Followed, NEW p \in Proc, NEW w \in Worker, Redis(p, w)
    PROVE  Followed'
<1>0. HostingTyped' /\ Widens(p, w) /\ ProcsTyped
  BY RedisKeeps DEF HostingTyped
<1>1. /\ At(p, w, "redis")
      /\ UNCHANGED <<assign, held, newest, live, drifted, behind, spoilt>>
  BY DEF Redis, bindingVars, credVars, historyVars
<1>2. assign = w \/ w \in behind
  <2>1. Hosts(w)
    BY <1>1 DEF At, Hosts, Engages
  <2> QED
    BY <2>1, HostIsOwner
<1>3. /\ Valid' = Valid /\ (~spoilt => l2 \in Valid)
      /\ ~spoilt /\ w \notin behind => proc[p].got \in Valid /\ UpToDate(w)
  BY <1>1, InHand DEF Valid, Followed, Current, At
<1>4. CASE proc[p].got # None
  <2>1. FillFromRedis(w, proc[p].got) /\ Deliver(p, w, proc[p].next, proc[p].got)
    BY <1>4 DEF Redis
  <2>2. l2' = l2 /\ l1'[w] = proc[p].got /\ \A x \in Worker \ {w} : l1'[x] = l1[x]
    BY <2>1, FillDoes DEF FillFromRedis, HostingTyped
  <2>3. Blank(proc[p])' /\ (proc[p].got \in Valid' => Current(proc[p])')
    BY <1>0, <2>1, DeliversCurrent
  <2> QED
    BY <1>0, <1>1, <1>2, <1>3, <2>2, <2>3, FollowedOn DEF Widens, UpToDate
<1>5. CASE proc[p].got = None
  <2>1. UNCHANGED <<l1, l2>>
    BY <1>5 DEF Redis, tiers
  <2>2. CASE ~Durable /\ Deliver(p, w, proc[p].next, None)
    <3>1. Blank(proc[p])' /\ (None \in Valid' => Current(proc[p])')
      BY <1>0, <2>2, DeliversCurrent
    <3> QED
      BY <1>0, <1>1, <1>3, <1>5, <2>1, <3>1, FollowedReading DEF Widens
  <2>3. CASE Durable /\ Carry(p, "mysql", l3)
    <3>1. Blank(proc[p])'
      BY <1>0, <2>3, MovesCurrent DEF Carry
    <3>2. ~spoilt => w \in behind
      BY <1>3, <1>5, <2>3, NewestIsSome DEF Followed, Valid, HostingTyped
    <3> QED
      BY <1>0, <1>1, <2>1, <3>1, <3>2, FollowedReading DEF Widens
  <2> QED
    BY <1>5, <2>2, <2>3 DEF Redis
<1> QED
  BY <1>4, <1>5

(* MySQL is asked only where old credentials may be found anyway.          *)
LEMMA MySqlFollowed ==
    ASSUME HostingTyped, HostsBound, Followed, NEW p \in Proc, NEW w \in Worker, MySql(p, w)
    PROVE  Followed'
<1>0. HostingTyped' /\ Widens(p, w) /\ ProcsTyped
  BY MySqlKeeps DEF HostingTyped
<1>1. /\ At(p, w, "mysql") /\ Deliver(p, w, proc[p].next, proc[p].got)
      /\ UNCHANGED <<assign, held, newest, live, drifted, behind>>
  BY DEF MySql, bindingVars, credVars
<1>2. spoilt \/ w \in behind
  BY <1>1, InHand DEF Current, At
<1>3. Blank(proc[p])' /\ Valid' = Valid
  BY <1>0, <1>1, DeliversCurrent DEF Valid
<1>4. CASE proc[p].got # None
  <2>1. FillFromMySql(w, proc[p].got) /\ spoilt'
    BY <1>2, <1>4 DEF MySql, Wrote
  <2>2. \A x \in Worker \ {w} : l1'[x] = l1[x]
    BY <2>1, FillDoes DEF HostingTyped
  <2>3. assign = w \/ w \in behind
    <3>1. Hosts(w)
      BY <1>1 DEF At, Hosts, Engages
    <3> QED
      BY <3>1, HostIsOwner
  <2> QED
    BY <1>0, <1>1, <1>3, <2>1, <2>2, <2>3, FollowedOn DEF Widens
<1>5. CASE proc[p].got = None
  <2>1. UNCHANGED <<l1, l2, spoilt>>
    BY <1>5 DEF MySql, tiers
  <2> QED
    BY <1>0, <1>1, <1>2, <1>3, <2>1, FollowedReading DEF Widens
<1> QED
  BY <1>4, <1>5

LEMMA ClearFollowed ==
    ASSUME HostingTyped, Followed, NEW p \in Proc, NEW w \in Worker, Clear(p, w)
    PROVE  Followed'
<1>0. HostingTyped' /\ Widens(p, w)
  BY ClearKeeps
<1>1. /\ At(p, w, "clear") /\ Reopen(p, w, proc[p].got)
      /\ UNCHANGED <<l1, l2, assign, newest, live, drifted, spoilt>>
  BY DEF Clear, tiers, credVars
<1>2. ~spoilt /\ w \notin behind => proc[p].got \in Valid \cup {None}
  BY <1>1, InHand DEF Current
<1>3. /\ Blank(proc[p])' /\ behind \subseteq behind'
      /\ ~spoilt /\ w \notin behind' => Current(proc[p])'
  BY <1>1, <1>2, ReopensCurrent
<1>4. held'[w] = None
  BY <1>1 DEF Reopen, HostingTyped, HostTyped
<1> QED
  BY <1>0, <1>1, <1>3, <1>4, FollowedReading DEF Widens

LEMMA WriteBackFollowed ==
    ASSUME HostingTyped, HostsBound, Followed, NEW p \in Proc, NEW w \in Worker, WriteBack(p, w)
    PROVE  Followed'
<1> DEFINE v == IF proc[p].got = None THEN Fresh ELSE proc[p].got
<1>0. HostingTyped' /\ Widens(p, w) /\ ProcsTyped
  BY WriteBackKeeps DEF HostingTyped
<1>1. /\ At(p, w, "save") /\ Carry(p, "open", v)
      /\ Save(w, v) \/ SaveFails(w, v)
      /\ spoilt' = (spoilt \/ w \in behind)
      /\ UNCHANGED <<assign, held, newest, live, drifted, behind>>
  BY DEF WriteBack, Wrote, bindingVars, workerVars, credVars
<1>2. assign = w \/ w \in behind
  <2>1. Hosts(w)
    BY <1>1 DEF At, Hosts, Engages
  <2> QED
    BY <2>1, HostIsOwner
<1>3. ~spoilt' => v \in Valid /\ l2 \in Valid /\ UpToDate(w)
  <2>1. ASSUME ~spoilt' PROVE proc[p].got \in Valid /\ UpToDate(w)
    BY <1>1, <2>1, InHand DEF Current, At
  <2> QED
    BY <1>1, <2>1, NewestIsSome DEF Valid, Followed, HostingTyped
<1>4. l1'[w] = v /\ l2' \in {l2, v} /\ \A x \in Worker \ {w} : l1'[x] = l1[x]
  BY <1>1, SaveDoes DEF Save, SaveFails, HostingTyped
<1>5. Blank(proc[p])' /\ (v \in Valid' => Current(proc[p])') /\ Valid' = Valid
  BY <1>0, <1>1, MovesCurrent DEF Carry, Valid
<1> QED
  BY <1>0, <1>1, <1>2, <1>3, <1>4, <1>5, FollowedOn DEF Widens, UpToDate

LEMMA OpenFollowed ==
    ASSUME HostingTyped, Followed, NEW p \in Proc, NEW w \in Worker, Open(p, w)
    PROVE  Followed'
<1>0. HostingTyped' /\ Widens(p, w) /\ ProcsTyped
  BY OpenKeeps DEF HostingTyped
<1>1. /\ At(p, w, "open") /\ Go(p, "idle") /\ held' = [held EXCEPT ![w] = proc[p].got]
      /\ UNCHANGED <<l1, l2, assign, newest, live, drifted, behind, spoilt>>
  BY DEF Open, tiers, bindingVars, credVars, historyVars
<1>2. held'[w] = proc[p].got /\ Valid' = Valid
  BY <1>1 DEF HostingTyped, HostTyped, Valid
<1>3. ~spoilt /\ w \notin behind => proc[p].got \in Valid \cup {None} /\ UpToDate(w)
  BY <1>1, InHand DEF Current
<1>4. Blank(proc[p])' /\ Current(proc[p])'
  <2>1. Plain(proc[p])'
    BY <1>0, <1>1, GoesPlain DEF At
  <2> QED
    BY <2>1 DEF Plain, Blank, Current
<1>5. ~spoilt => l2 \in Valid
  BY DEF Followed
<1> QED
  BY <1>0, <1>1, <1>2, <1>3, <1>4, <1>5, FollowedOn DEF Widens, UpToDate

LEMMA OpeningFollowed ==
    ASSUME HostingTyped, HostsBound, Followed, NEW p \in Proc, NEW w \in Worker, OpenStep(p, w)
    PROVE  Followed'
BY RedisFollowed, MySqlFollowed, ClearFollowed, WriteBackFollowed, OpenFollowed DEF OpenStep

LEMMA TickFollowed ==
    ASSUME HostingTyped, HostsBound, Followed, NEW w \in Worker, TickStep(w)
    PROVE  Followed'
<1>0. w \in Proc /\ ProcsTyped
  BY DEF Proc, HostingTyped
<1>1. CASE List(w)
  <2>1. /\ proc[w].pc = "idle" /\ Go(w, "listed")
        /\ UNCHANGED <<l1, l2, assign, held, newest, live, drifted, behind, spoilt>>
    BY <1>1 DEF List, tiers, bindingVars, workerVars, credVars, historyVars
  <2>2. Plain(proc[w])'
    BY <1>0, <2>1, GoesPlain
  <2>3. HostingTyped' /\ Widens(w, w)
    BY <1>1, ListKeeps
  <2> QED
    BY <1>0, <2>1, <2>2, <2>3, FollowedQuietly DEF Widens
<1>2. CASE Look(w)
  <2>1. /\ Read(w, w, IF released THEN "skip" ELSE "adopt")
        /\ UNCHANGED <<l1, l2, assign, held, newest, live, drifted, spoilt>>
    BY <1>2 DEF Look, tiers, bindingVars, credVars
  <2>2. /\ Blank(proc[w])' /\ behind \subseteq behind'
        /\ ~spoilt /\ w \notin behind' => Current(proc[w])'
    BY <1>0, <2>1, ReadsCurrent
  <2>3. HostingTyped' /\ Widens(w, w)
    BY <1>2, LookKeeps
  <2> QED
    BY <1>0, <2>1, <2>2, <2>3, FollowedReading DEF Widens
<1>3. CASE OpenStep(w, w)
  BY <1>0, <1>3, OpeningFollowed
<1> QED
  BY <1>1, <1>2, <1>3 DEF TickStep

LEMMA OnlineFollowed ==
    ASSUME HostingTyped, Followed, NEW j \in Job, NEW w \in Worker, Online(j, w)
    PROVE  Followed'
<1>0. j \in Proc /\ HostingTyped' /\ Widens(j, w) /\ ProcsTyped
  BY OnlineKeeps DEF Proc, HostingTyped
<1>1. /\ At(j, w, "online")
      /\ UNCHANGED <<l1, l2, assign, held, newest, live, drifted, spoilt>>
  BY DEF Online, tiers, bindingVars, credVars
<1>2. CASE Go(j, "clear") /\ behind' = behind
  <2>1. Plain(proc[j])'
    BY <1>0, <1>1, <1>2, GoesPlain DEF At
  <2> QED
    BY <1>0, <1>1, <1>2, <2>1, FollowedQuietly DEF Widens
<1>3. CASE Read(j, w, "online")
  <2>1. /\ Blank(proc[j])' /\ behind \subseteq behind'
        /\ ~spoilt /\ w \notin behind' => Current(proc[j])'
    BY <1>0, <1>1, <1>3, ReadsCurrent
  <2> QED
    BY <1>0, <1>1, <2>1, FollowedReading DEF Widens
<1> QED
  BY <1>2, <1>3 DEF Online

LEMMA StopFollowed ==
    ASSUME HostingTyped, Followed, NEW j \in Job, NEW w \in Worker, w \in up,
           NEW pc \in {"mark", "leave"}, NEW next \in {"drop", "wipe"}, Stop(j, w, pc, next)
    PROVE  Followed'
<1>0. j \in Proc /\ HostingTyped' /\ Widens(j, w) /\ ProcsTyped
  BY StopKeeps DEF Proc, HostingTyped
<1>1. /\ held' = [held EXCEPT ![w] = None] /\ Move(j, w, pc, next, None)
      /\ UNCHANGED <<l1, l2, assign, newest, live, drifted, behind, spoilt>>
  BY DEF Stop, tiers, bindingVars, credVars
<1>2. Plain(proc[j])' /\ held'[w] = None
  BY <1>0, <1>1, MovesPlain DEF HostingTyped, HostTyped
<1> QED
  BY <1>0, <1>1, <1>2, FollowedQuietly DEF Widens

(* The change of an import reaches Redis.                                  *)
LEMMA SaveImportFollowed ==
    ASSUME HostingTyped, Followed, NEW j \in Job, NEW w \in Worker, SaveImport(j, w)
    PROVE  Followed'
<1>0. j \in Proc /\ HostingTyped' /\ Widens(j, w) /\ ProcsTyped
  BY SaveImportKeeps DEF Proc, HostingTyped
<1>1. /\ At(j, w, "saveImport") /\ live' = TRUE /\ Save(w, newest') /\ PassBy(j, w)
      /\ Go(j, proc[j].next) /\ UNCHANGED <<assign, held, drifted, spoilt>>
  BY DEF SaveImport, bindingVars, workerVars
<1>2. w \in up /\ proc[j].next \in {"idle", "online"}
  BY <1>0, <1>1, Placed DEF Follows
<1>3. Plain(proc[j])'
  BY <1>0, <1>1, <1>2, GoesPlain DEF At
<1>4. l1'[w] = newest' /\ l2' = newest' /\ \A x \in Worker \ {w} : l1'[x] = l1[x]
  BY <1>1, SaveDoes DEF Save, HostingTyped
<1>5. newest' \in Valid'
  BY <1>1 DEF Valid
<1>6. j # NoWorker
  BY <1>0, NamesApart
<1> QED
  BY <1>0, <1>1, <1>2, <1>3, <1>4, <1>5, <1>6, FollowedChange DEF Moved, Widens

(* After a logout Redis has nothing; MySQL may, which is spoilt.           *)
LEMMA WipeFollowed ==
    ASSUME HostingTyped, Followed, NEW j \in Job, NEW w \in Worker, Wipe(j, w)
    PROVE  Followed'
<1>0. j \in Proc /\ HostingTyped' /\ Widens(j, w) /\ ProcsTyped
  BY WipeKeeps DEF Proc, HostingTyped
<1>1. /\ At(j, w, "wipe") /\ DeleteRedis(w) /\ live' = FALSE /\ PassBy(j, w)
      /\ spoilt' = (spoilt \/ Durable) /\ Go(j, "forget")
      /\ UNCHANGED <<assign, held, drifted>>
  BY DEF Wipe, bindingVars, workerVars
<1>2. w \in up
  BY <1>0, <1>1, Placed
<1>3. Plain(proc[j])'
  BY <1>0, <1>1, GoesPlain DEF At
<1>4. l1'[w] = None /\ l2' = None /\ \A x \in Worker \ {w} : l1'[x] = l1[x]
  BY <1>1, DeleteTyped DEF DeleteRedis, HostingTyped
<1>5. None \in Valid'
  BY <1>1 DEF Valid
<1>6. j # NoWorker
  BY <1>0, NamesApart
<1> QED
  BY <1>0, <1>1, <1>2, <1>3, <1>4, <1>5, <1>6, FollowedChange DEF Moved, Widens

LEMMA JobFollowed ==
    ASSUME HostingTyped, HostsBound, Followed, NEW j \in Job, NEW w \in Worker, JobStep(j, w)
    PROVE  Followed'
<1>0. j \in Proc /\ ProcsTyped
  BY DEF Proc, HostingTyped
<1>1. CASE OpenStep(j, w)
  BY <1>0, <1>1, OpeningFollowed
<1>2. CASE Online(j, w)
  BY <1>2, OnlineFollowed
<1>3. CASE Limited(j, w)
  <2>1. /\ Go(j, "idle")
        /\ UNCHANGED <<l1, l2, assign, held, newest, live, drifted, behind, spoilt>>
    BY <1>3 DEF Limited, tiers, bindingVars, workerVars, credVars, historyVars
  <2>2. Plain(proc[j])' /\ HostingTyped' /\ Widens(j, w)
    BY <1>0, <1>3, <2>1, GoesPlain, LimitedKeeps
  <2> QED
    BY <1>0, <2>1, <2>2, FollowedQuietly DEF Widens
<1>4. CASE ClearImport(j, w)
  <2>1. /\ Carry(j, "saveImport", None)
        /\ UNCHANGED <<l1, l2, assign, held, newest, live, drifted, behind, spoilt>>
    BY <1>4 DEF ClearImport, tiers, workerVars, credVars, historyVars
  <2>2. Plain(proc[j])' /\ HostingTyped' /\ Widens(j, w)
    BY <1>0, <1>4, <2>1, MovesPlain, ClearImportKeeps DEF Carry
  <2> QED
    BY <1>0, <2>1, <2>2, FollowedQuietly DEF Widens
<1>5. CASE SaveImport(j, w)
  BY <1>5, SaveImportFollowed
<1>6. ASSUME NEW pc \in {"offline", "logout"}, At(j, w, pc), NotFound(j, w) PROVE Followed'
  <2>1. /\ Go(j, "idle")
        /\ UNCHANGED <<l1, l2, assign, held, newest, live, drifted, behind, spoilt>>
    BY <1>6 DEF NotFound, tiers, bindingVars, workerVars, credVars, historyVars
  <2>2. Plain(proc[j])' /\ HostingTyped' /\ Widens(j, w)
    BY <1>0, <1>6, <2>1, GoesPlain, NotFoundKeeps
  <2> QED
    BY <1>0, <2>1, <2>2, FollowedQuietly DEF Widens
<1>7. CASE Offline(j, w) \/ Logout(j, w)
  <2>1. w \in up
    BY <1>0, <1>7, Placed DEF Offline, Logout
  <2> QED
    BY <1>6, <1>7, <2>1, StopFollowed DEF Offline, Logout
<1>8. CASE Leave(j, w)
  <2>1. /\ Carry(j, "mark", None)
        /\ UNCHANGED <<l1, l2, assign, newest, live, drifted, behind, spoilt>>
    BY <1>8 DEF Leave, tiers, bindingVars, credVars, historyVars
  <2>2. Plain(proc[j])' /\ HostingTyped' /\ Widens(j, w) /\ held'[w] \in {held[w], None}
    BY <1>0, <1>8, <2>1, MovesPlain, LeaveKeeps DEF Carry
  <2> QED
    BY <1>0, <2>1, <2>2, FollowedQuietly DEF Widens
<1>9. CASE Mark(j, w)
  <2>1. /\ At(j, w, "mark") /\ Go(j, proc[j].next)
        /\ UNCHANGED <<l1, l2, assign, held, newest, live, drifted, behind, spoilt>>
    BY <1>9 DEF Mark, tiers, workerVars, credVars, historyVars
  <2>2. proc[j].next \in {"drop", "wipe"}
    BY <1>0, <2>1, Placed DEF Follows
  <2>3. Plain(proc[j])' /\ HostingTyped' /\ Widens(j, w)
    BY <1>0, <1>9, <2>1, <2>2, GoesPlain, MarkKeeps DEF At
  <2> QED
    BY <1>0, <2>1, <2>3, FollowedQuietly DEF Widens
<1>10. CASE Drop(j, w) \/ ForgetAccount(j, w)
  <2>1. /\ (At(j, w, "drop") /\ Go(j, "idle")) \/ (At(j, w, "forget") /\ Go(j, "unbind"))
        /\ UNCHANGED <<l1, l2, assign, held, newest, live, drifted, behind, spoilt>>
    BY <1>10 DEF Drop, ForgetAccount, DeleteMySql, tiers, bindingVars, credVars, historyVars
  <2>2. Plain(proc[j])' /\ HostingTyped' /\ Widens(j, w)
    BY <1>0, <1>10, <2>1, GoesPlain, DropKeeps, ForgetAccountKeeps DEF At
  <2> QED
    BY <1>0, <2>1, <2>2, FollowedQuietly DEF Widens
<1>11. CASE Wipe(j, w)
  BY <1>11, WipeFollowed
<1>12. CASE Unbind(j, w)
  <2>1. /\ Go(j, "idle") /\ Rebind(j, NoWorker) /\ HostingTyped' /\ Moved(j, w)
        /\ UNCHANGED <<l1, l2, held, newest, live, spoilt>>
    BY <1>12, UnbindKeeps DEF Unbind, tiers, workerVars, credVars
  <2>2. Plain(proc[j])'
    BY <1>0, <2>1, GoesPlain
  <2> QED
    BY <2>1, <2>2, FollowedRebound DEF Moved
<1> QED
  BY <1>1, <1>2, <1>3, <1>4, <1>5, <1>7, <1>8, <1>9, <1>10, <1>11, <1>12 DEF JobStep

LEMMA BeginsPlain ==
    ASSUME ProcsTyped, NEW j \in Job, NEW w, NEW pc, NEW next, Begin(j, w, pc, next),
           pc \notin {"redis", "mysql", "save"}
    PROVE  Plain(proc[j])'
BY MovesPlain DEF Begin, Proc

LEMMA RequestFollowed ==
    ASSUME HostingTyped, HostsBound, Followed, NEW j \in Job, NEW w \in Worker, Request(j, w)
    PROVE  Followed'
<1>0. j \in Proc /\ ProcsTyped
  BY DEF Proc, HostingTyped
<1>1. CASE PostOnline(j, w)
  <2>1. Moved(j, w) /\ UNCHANGED <<l1, l2, held, newest, live, spoilt>> /\ ToOnline(j, w)
    BY <1>1, PostOnlineKeeps DEF PostOnline, tiers, workerVars, credVars
  <2>2. PICK o \in Worker : Rebind(j, o)
    BY <1>1, PostOnlineKeeps
  <2>3. Plain(proc[j])' \/ proc' = proc
    BY <1>0, <2>1, BeginsPlain DEF ToOnline
  <2> QED
    BY <2>1, <2>2, <2>3, FollowedRebound DEF Moved
<1>2. CASE Import(j, w)
  <2>1. Moved(j, w) /\ UNCHANGED <<l1, l2, held, newest, live, spoilt>>
    BY <1>2, ImportKeeps DEF Import, tiers, workerVars, credVars
  <2>2. PICK o \in Worker : Rebind(j, o)
    BY <1>2, ImportKeeps
  <2>3. \E next : Begin(j, w, "clearImport", next)
    BY <1>2 DEF Import
  <2>4. Plain(proc[j])'
    BY <1>0, <2>3, BeginsPlain
  <2> QED
    BY <2>1, <2>2, <2>4, FollowedRebound DEF Moved
<1>3. CASE Reconnect(j, w)
  <2>1. /\ Reopen(j, w, None)
        /\ UNCHANGED <<l1, l2, assign, newest, live, drifted, spoilt>>
    BY <1>3 DEF Reconnect, tiers, bindingVars, credVars
  <2>2. /\ Blank(proc[j])' /\ behind \subseteq behind'
        /\ ~spoilt /\ w \notin behind' => Current(proc[j])'
    BY <1>0, <2>1, ReopensCurrent
  <2>3. held'[w] = None
    BY <2>1 DEF Reopen, HostingTyped, HostTyped
  <2>4. HostingTyped' /\ Widens(j, w)
    BY <1>3, ReconnectKeeps
  <2> QED
    BY <1>0, <2>1, <2>2, <2>3, <2>4, FollowedReading DEF Widens
<1>4. ASSUME NEW call \in {"offline", "logout"}, Ask(j, w, call) PROVE Followed'
  <2>1. /\ Begin(j, w, call, "idle")
        /\ UNCHANGED <<l1, l2, assign, held, newest, live, drifted, behind, spoilt>>
    BY <1>4 DEF Ask, tiers, bindingVars, workerVars, credVars, historyVars
  <2>2. Plain(proc[j])' /\ HostingTyped' /\ Widens(j, w)
    BY <1>0, <1>4, <2>1, BeginsPlain, AskKeeps
  <2> QED
    BY <1>0, <2>1, <2>2, FollowedQuietly DEF Widens
<1>5. CASE CloseForGood(j, w)
  <2>1. Stop(j, w, "leave", "drop") /\ w \in up
    BY <1>5 DEF CloseForGood, HasSocket, HostingTyped, HostTyped
  <2> QED
    BY <2>1, StopFollowed
<1> QED
  BY <1>1, <1>2, <1>3, <1>4, <1>5 DEF Request

(* A session that no change has passed by holds the newest credentials, or *)
(* the fresh identity of an account that has none.                         *)
LEMMA UpdateFollowed ==
    ASSUME HostingTyped, HostsBound, Followed, NEW w \in Worker, Update(w)
    PROVE  Followed'
<1>0. HostingTyped' /\ \A x \in Worker \ {w} : held'[x] = held[x]
  BY UpdateKeeps
<1>1. /\ HasSocket(w) /\ UNCHANGED <<assign, up, proc, live, drifted>>
      /\ \/ Save(w, held'[w]) /\ Wrote(w)
         \/ SaveFails(w, held'[w]) /\ spoilt' = TRUE
  BY DEF Update, bindingVars
<1>2. /\ l1'[w] = held'[w] /\ \A x \in Worker \ {w} : l1'[x] = l1[x]
      /\ (~spoilt' => l2' = held'[w] /\ ~spoilt /\ w \notin behind)
  BY <1>1, SaveDoes DEF Save, SaveFails, Wrote, HostingTyped
<1>3. spoilt => spoilt'
  BY <1>1 DEF Wrote
<1>4. w \in up /\ (assign = w \/ w \in behind) /\ w \in Proc
  BY <1>1, HostIsOwner DEF Hosts, HasSocket, HostingTyped, HostTyped, Proc
<1>5. CASE live /\ held[w] = newest
  <2>1. held' = [held EXCEPT ![w] = newest'] /\ PassBy(NoWorker, w)
    BY <1>5 DEF Update
  <2>2. held'[w] = newest' /\ newest' \in Valid'
    BY <1>1, <1>5, <2>1 DEF Valid, HostingTyped, HostTyped
  <2> QED
    <3>1. NoWorker \in Job \cup {NoWorker} /\ NoWorker \notin Proc
      BY NamesApart
    <3>2. \A q \in Proc \ {NoWorker} : proc'[q] = proc[q]
      BY <1>1
    <3>3. /\ ~spoilt' => l2' \in Valid'
          /\ ~spoilt' => l1'[w] \in Valid' \cup {None}
          /\ Durable /\ ~spoilt' => live'
      BY <1>1, <1>2, <1>5, <2>2
    <3> QED
      BY <1>0, <1>1, <1>2, <1>3, <1>4, <2>1, <2>2, <3>1, <3>2, <3>3, FollowedChange
<1>6. CASE ~(live /\ held[w] = newest)
  <2>1. UNCHANGED <<newest, held, behind>>
    BY <1>6 DEF Update
  <2>2. Blank(proc[w])' /\ Moved(w, w)
    BY <1>1, <1>4 DEF Followed, Moved, HostingTyped, ProcsTyped
  <2>3. ~spoilt' => UpToDate(w) /\ held[w] \in Valid /\ Current(proc[w])'
    <3>1. ASSUME ~spoilt' PROVE UpToDate(w)
      BY <1>2, <3>1 DEF Followed
    <3>2. ASSUME ~spoilt' PROVE held[w] \in Valid
      BY <1>1, <3>1, <3>2 DEF UpToDate, HasSocket
    <3>3. ASSUME ~spoilt' PROVE Current(proc[w])'
      <4>1. Current(proc[w])
        BY <1>4, <3>1, <3>3 DEF UpToDate, HostingTyped, ProcsTyped
      <4> QED
        BY <1>1, <2>1, <4>1 DEF Current, Valid
    <3> QED
      BY <3>1, <3>2, <3>3
  <2> QED
    BY <1>0, <1>1, <1>2, <1>3, <1>4, <2>1, <2>2, <2>3, FollowedOn
<1> QED
  BY <1>5, <1>6

LEMMA CrashFollowed ==
    ASSUME HostingTyped, Followed, NEW w \in Worker, Crash(w)
    PROVE  Followed'
<1>1. /\ HostingTyped' /\ assign' = assign /\ drifted' = drifted \ {w} /\ held'[w] = None
      /\ \A x \in Worker \ {w} : held'[x] = held[x]
      /\ \A p \in Proc : IF proc[p].at = w THEN proc'[p].pc = "idle" ELSE proc'[p] = proc[p]
  BY CrashKeeps
<1>2. /\ behind' = behind \ {w} /\ Forget(w) /\ UNCHANGED <<l2, newest, live, spoilt>>
  BY DEF Crash, Forget, credVars
<1>3. l1'[w] = None /\ \A x \in Worker \ {w} : l1'[x] = l1[x]
  BY <1>2, DeleteTyped DEF HostingTyped
<1>4. \A p \in Proc : IF proc[p].at = w THEN Plain(proc[p])' ELSE proc'[p] = proc[p]
  BY <1>1, RestIsPlain DEF HostingTyped, ProcsTyped, Rest, Plain
<1>5. Valid' = Valid
  BY <1>2 DEF Valid
<1>6. \A x \in Worker : Remembers(x)'
  BY <1>1, <1>2, <1>3 DEF Followed, Remembers
<1>7. \A p \in Proc : Blank(proc[p])'
  BY <1>4 DEF Followed, Plain, Blank
<1>8. ASSUME ~spoilt, NEW x \in Worker \ behind' PROVE UpToDate(x)'
  <2>1. CASE x = w
    <3>1. ASSUME NEW p \in Proc, proc'[p].at = w PROVE Current(proc[p])'
      BY <1>4, <3>1, PlainIsCurrent DEF Plain, Current
    <3> QED
      BY <1>1, <1>3, <2>1, <3>1 DEF UpToDate
  <2>2. CASE x # w
    <3>1. UpToDate(x)
      BY <1>2, <1>8, <2>2 DEF Followed
    <3>2. ASSUME NEW p \in Proc, proc'[p].at = x PROVE Current(proc[p])'
      BY <1>4, <1>5, <3>1, <3>2 DEF UpToDate, Current, Plain
    <3> QED
      BY <1>1, <1>3, <1>5, <2>2, <3>1, <3>2 DEF UpToDate
  <2> QED
    BY <2>1, <2>2
<1> QED
  BY <1>1, <1>2, <1>5, <1>6, <1>7, <1>8 DEF Followed

LEMMA FollowedStutters ==
    ASSUME Followed, UNCHANGED <<l1, l2, assign, held, proc, newest, live, drifted, behind, spoilt>>
    PROVE  Followed'
BY DEF Followed, Remembers, UpToDate, Valid, Current

LEMMA FollowedInit == Init => Followed
<1> SUFFICES ASSUME Init PROVE Followed
  OBVIOUS
<1>1. HostingTyped
  BY HostingInitTyped
<1>2. /\ \A w \in Worker : l1[w] = None /\ held[w] = None
      /\ \A p \in Proc : proc[p].pc = "idle"
      /\ l2 = 1 /\ newest = 1 /\ live /\ drifted = {}
  BY DEF Init, TiersInit, Rest
<1>3. \A p \in Proc : Blank(proc[p]) /\ Current(proc[p])
  BY <1>1, <1>2, RestIsPlain, PlainIsCurrent DEF HostingTyped
<1> QED
  BY <1>2, <1>3 DEF Followed, Remembers, UpToDate, Valid

LEMMA FollowedStep ==
    HostingTyped /\ HostsBound /\ Followed /\ [Next]_vars => Followed'
<1> SUFFICES ASSUME HostingTyped, HostsBound, Followed, [Next]_vars PROVE Followed'
  OBVIOUS
<1>1. ASSUME NEW w \in Worker, WorkerStep(w) PROVE Followed'
  BY <1>1, TickFollowed, UpdateFollowed, JobFollowed, RequestFollowed DEF WorkerStep
<1>2. ASSUME NEW w \in Worker, Crash(w) PROVE Followed'
  BY <1>2, CrashFollowed
<1>3. ASSUME NEW w \in Worker, Start(w) PROVE Followed'
  BY <1>3, FollowedStutters DEF Start, tiers, bindingVars, credVars, historyVars
<1>4. CASE LateWrite
  BY <1>4, FollowedStutters
  DEF LateWrite, Land, bindingVars, workerVars, credVars, historyVars
<1>5. CASE Reassign \/ AdminUnassign
  <2>1. UNCHANGED <<l1, l2, held, proc, newest, live, spoilt>>
    BY <1>5 DEF Reassign, AdminUnassign, tiers, workerVars, credVars
  <2>2. PICK o \in Worker \cup {NoWorker} : Rebind(NoWorker, o)
    BY <1>5, TakenAway
  <2> QED
    BY <2>1, <2>2, FollowedRebound
<1>6. CASE UNCHANGED vars
  BY <1>6, FollowedStutters DEF vars, tiers, bindingVars, workerVars, credVars, historyVars
<1> QED
  BY <1>1, <1>2, <1>3, <1>4, <1>5, <1>6 DEF Next

LEMMA FollowedAlways == Spec => []Followed
BY FollowedInit, FollowedStep, HostingInvariant, PTL DEF Spec

(* Redis holds the newest credentials of an account, or none it has logged *)
(* out from, through failovers, crashes, imports, logouts and reads that   *)
(* fail, until a worker that a change has passed by writes its own: for    *)
(* any number of workers, calls and changes, with and without MySQL        *)
(* (creds-store.ts:100, auth-state.ts:45).                                  *)
THEOREM NewestStoredAlways == Spec => []NewestStored
<1>1. Followed => NewestStored
  BY DEF Followed, NewestStored
<1> QED
  BY <1>1, FollowedAlways, PTL

-----------------------------------------------------------------------------
(* Behaviours in which the calls on a worker keep apart and no command     *)
(* fails, of a cluster without imports and in which no account is taken    *)
(* from a worker that runs: nobody is ever passed by.                      *)
Peaceful == raced = {} /\ failures = 0
Sheltered == Moves = {} /\ "import" \notin Calls
Importing(r) == r.pc \in {"clearImport", "saveImport"}

Settled ==
    /\ behind = {} /\ ~spoilt
    /\ \A p \in Proc : proc[p].pc \notin {"forget", "unbind"}
    /\ \A p \in Proc, w \in Worker :
          /\ At(p, w, "open") => l1[w] # None
          /\ proc[p].at = w /\ HasRead(p) => ~HasSocket(w)
    /\ \A w \in Worker : HasSocket(w) => l1[w] # None

Calm == (\A p \in Proc : ~Importing(proc[p])) /\ (live => Settled)

(* All that earlier theorems have shown, and Calm.                         *)
Peace == HostingTyped /\ HostsBound /\ Followed /\ CallsApart /\ Peaceful /\ Calm

LEMMA NoFailure == HistoryTyped /\ Peaceful' => ~Fail
BY HostingAssumption DEF HistoryTyped, Peaceful, Fail, HostingAssumption

LEMMA ReaderWorks ==
    ASSUME Followed, NEW p \in Proc, NEW w \in Worker, proc[p].at = w, HasRead(p)
    PROVE  Working(proc[p], w) /\ Engages(proc[p], w)
BY DEF Followed, Blank, HasRead, Working, Engages

(* A step of p on w that passes nobody by.                                 *)
LEMMA CalmOn ==
    ASSUME Peace, HostingTyped', NEW p \in Proc, NEW w \in Worker, Moved(p, w),
           live' = live, live => behind' = behind /\ spoilt' = spoilt,
           \A x \in Worker \ {w} : l1'[x] = l1[x] /\ held'[x] = held[x],
           ~Importing(proc'[p]), live => proc'[p].pc \notin {"forget", "unbind"},
           l1[w] # None => l1'[w] # None, live /\ At(p, w, "open")' => l1'[w] # None,
           live /\ HasRead(p)' /\ proc'[p].at = w => ~HasSocket(w)',
           live /\ HasSocket(w)' => HasSocket(w) \/ (Working(proc[p], w) /\ l1[w] # None)
    PROVE  Calm'
<1>1. \A q \in Proc : ~Importing(proc'[q])
  BY DEF Peace, Calm, Moved
<1> SUFFICES ASSUME live PROVE Settled'
  BY <1>1 DEF Calm
<1>2. Settled
  BY DEF Peace, Calm
<1>3. \A q \in Proc : proc'[q].pc \notin {"forget", "unbind"}
  BY <1>2 DEF Settled, Moved
<1>4. \A x \in Worker : HasSocket(x)' => l1'[x] # None
  BY <1>2 DEF Settled, HasSocket
<1>5. ASSUME NEW q \in Proc, NEW x \in Worker
      PROVE  /\ At(q, x, "open")' => l1'[x] # None
             /\ proc'[q].at = x /\ HasRead(q)' => ~HasSocket(x)'
  <2>1. CASE q = p
    <3>1. CASE proc'[p].pc = "idle"
      <4>1. proc'[p] = Rest(p)
        BY <3>1 DEF HostingTyped, ProcsTyped
      <4> QED
        BY <2>1, <4>1 DEF Rest, HasRead, At
    <3>2. CASE proc'[p].at = w
      BY <2>1, <3>2 DEF At
    <3> QED
      BY <3>1, <3>2 DEF Moved
  <2>2. CASE q # p
    <3>1. proc'[q] = proc[q]
      BY <2>2 DEF Moved
    <3>2. At(q, x, "open")' => l1'[x] # None
      BY <1>2, <3>1 DEF Settled, At
    <3>3. ASSUME proc'[q].at = x, HasRead(q)', HasSocket(x)' PROVE FALSE
      <4>1. proc[q].at = x /\ HasRead(q)
        BY <3>1, <3>3 DEF HasRead
      <4>2. ~HasSocket(x) /\ Working(proc[q], x)
        BY <1>2, <4>1, ReaderWorks DEF Settled, Peace
      <4>3. x = w /\ Working(proc[p], w)
        BY <3>3, <4>2 DEF HasSocket
      <4>4. q = p
        BY <4>2, <4>3 DEF Peace, CallsApart, Peaceful
      <4> QED
        BY <2>2, <4>4
    <3> QED
      BY <3>2, <3>3
  <2> QED
    BY <2>1, <2>2
<1> QED
  BY <1>2, <1>3, <1>4, <1>5 DEF Settled

(* A step of p after which it has nothing in hand.                         *)
LEMMA CalmQuietly ==
    ASSUME Peace, HostingTyped', NEW p \in Proc, NEW w \in Worker, Moved(p, w),
           UNCHANGED <<l1, live, behind, spoilt>>,
           \A x \in Worker \ {w} : held'[x] = held[x], held'[w] \in {held[w], None},
           Plain(proc[p])', ~Importing(proc'[p]), live => proc'[p].pc \notin {"forget", "unbind"},
           proc'[p].pc # "open"
    PROVE  Calm'
<1>1. ~HasRead(p)'
  BY DEF Plain, HasRead
<1> QED
  BY <1>1, CalmOn DEF HasSocket, At

(* What a read leads to where nothing fails: a copy is taken in hand only  *)
(* where there is no socket.                                               *)
LEMMA ReadsCalmly ==
    ASSUME Peace, Peaceful', NEW p \in Proc, NEW w \in Worker, NEW use, Read(p, w, use),
           use = "reopen" \/ use = "online" => held'[w] = None, held'[w] \in {held[w], None}
    PROVE  /\ behind' = behind
           /\ ~Importing(proc'[p]) /\ proc'[p].pc \notin {"forget", "unbind", "open"}
           /\ live /\ HasRead(p)' => ~HasSocket(w)'
<1>0. HostingTyped /\ ProcsTyped /\ HistoryTyped
  BY DEF Peace, HostingTyped
<1>1. behind' = behind /\ ~ReadFails(p, w, use)
  BY <1>0, NoFailure DEF Read, ReadFails
<1>2. HasSocket(w) => w \in inMap
  BY DEF Peace, CallsApart, Peaceful, Tidy
<1>3. live /\ HasSocket(w)' => l1[w] # None /\ HasSocket(w)
  BY DEF Peace, Calm, Settled, HasSocket
<1>4. CASE l1[w] = None /\ Move(p, w, "redis", use, l2)
  <2>1. proc'[p].pc = "redis"
    BY <1>0, <1>4, MoveDoes
  <2> QED
    BY <1>1, <1>3, <1>4, <2>1 DEF Importing
<1>5. CASE l1[w] # None /\ Deliver(p, w, use, l1[w])
  <2>1. PICK pc \in {"save", "clear", "idle"}, u \in {l1[w], None} :
          /\ Move(p, w, pc, "idle", u)
          /\ HasSocket(w)' => pc # "save" /\ u = None
    BY <1>2, <1>5 DEF Deliver, HasSocket
  <2>2. proc'[p] = IF pc = "idle" THEN Rest(p)
                   ELSE [at |-> w, pc |-> pc, next |-> "idle", got |-> u]
    BY <1>0, <2>1, MovesTo
  <2> QED
    BY <1>1, <2>1, <2>2 DEF Importing, HasRead, Rest
<1> QED
  BY <1>1, <1>4, <1>5 DEF Read

LEMMA ReopensCalmly ==
    ASSUME Peace, Peaceful', NEW p \in Proc, NEW w \in Worker, NEW v, Reopen(p, w, v)
    PROVE  /\ behind' = behind /\ held'[w] = None
           /\ ~Importing(proc'[p]) /\ proc'[p].pc \notin {"forget", "unbind", "open"}
<1>0. ProcsTyped /\ HistoryTyped
  BY DEF Peace, HostingTyped
<1>1. held'[w] = None /\ ~Fail
  BY <1>0, NoFailure DEF Reopen, Peace, HostingTyped, HostTyped
<1>2. CASE Move(p, w, "save", "idle", v) /\ behind' = behind
  <2>1. proc'[p].pc = "save"
    BY <1>0, <1>2, MoveDoes
  <2> QED
    BY <1>1, <1>2, <2>1 DEF Importing
<1>3. CASE Read(p, w, "reopen")
  BY <1>1, <1>3, ReadsCalmly
<1> QED
  BY <1>1, <1>2, <1>3 DEF Reopen

LEMMA OpeningCalm ==
    ASSUME Peace, Peaceful', NEW p \in Proc, NEW w \in Worker, OpenStep(p, w)
    PROVE  Calm'
<1>0. HostingTyped /\ ProcsTyped /\ HistoryTyped /\ TiersTypeOK
  BY DEF Peace, HostingTyped
<1>1. HostingTyped' /\ Widens(p, w)
  BY <1>0, RedisKeeps, MySqlKeeps, ClearKeeps, WriteBackKeeps, OpenKeeps DEF OpenStep
<1>2. proc[p].at = w /\ Working(proc[p], w) /\ live' = live
  BY DEF OpenStep, Redis, MySql, Clear, WriteBack, Open, At, Working, credVars
<1>3. live => Settled
  BY DEF Peace, Calm
<1>4. CASE Redis(p, w) \/ MySql(p, w)
  <2>1. /\ UNCHANGED <<held, behind>> /\ (live => ~HasSocket(w))
    BY <1>3, <1>4 DEF Redis, MySql, At, HasRead, Settled, historyVars
  <2>2. live => spoilt' = spoilt
    BY <1>0, <1>3, <1>4 DEF Redis, MySql, Wrote, Settled, historyVars, HistoryTyped
  <2>3. /\ \A x \in Worker \ {w} : l1'[x] = l1[x]
        /\ l1[w] # None => l1'[w] # None
    <3>1. CASE UNCHANGED tiers
      BY <3>1 DEF tiers
    <3>2. CASE /\ proc[p].got # None
               /\ FillFromRedis(w, proc[p].got) \/ FillFromMySql(w, proc[p].got)
      BY <1>0, <3>2, FillDoes
    <3> QED
      BY <1>4, <3>1, <3>2 DEF Redis, MySql
  <2>4. proc'[p].pc \in {"mysql", "save", "clear", "idle"}
    <3>1. proc[p].got \in Copy /\ None \in Copy
      BY <1>0, Copies DEF ProcsTyped, Place
    <3>2. CASE Carry(p, "mysql", l3)
      BY <1>0, <3>2, MoveDoes DEF Carry
    <3>3. ASSUME NEW v \in Copy, Deliver(p, w, proc[p].next, v)
          PROVE  proc'[p].pc \in {"mysql", "save", "clear", "idle"}
      BY <1>0, <3>3, DeliverDoes
    <3> QED
      BY <1>4, <3>1, <3>2, <3>3 DEF Redis, MySql
  <2> QED
    BY <1>1, <1>2, <2>1, <2>2, <2>3, <2>4, CalmOn DEF Widens, Importing, HasSocket, At
<1>5. CASE Clear(p, w)
  <2>1. Reopen(p, w, proc[p].got) /\ UNCHANGED <<l1, spoilt>>
    BY <1>5 DEF Clear, tiers
  <2>2. /\ behind' = behind /\ held'[w] = None
        /\ ~Importing(proc'[p]) /\ proc'[p].pc \notin {"forget", "unbind", "open"}
    BY <2>1, ReopensCalmly
  <2> QED
    BY <1>1, <1>2, <2>1, <2>2, CalmOn DEF Widens, HasSocket, At
<1>6. CASE WriteBack(p, w)
  <2>1. /\ UNCHANGED <<held, behind>> /\ spoilt' = (spoilt \/ w \in behind)
        /\ At(p, w, "save")
    BY <1>6 DEF WriteBack, Wrote, workerVars
  <2>2. (live => ~HasSocket(w)) /\ (live => spoilt' = spoilt)
    BY <1>0, <1>3, <2>1 DEF At, HasRead, Settled, HistoryTyped
  <2>3. PICK v \in Copy \ {None} : Carry(p, "open", v) /\ (Save(w, v) \/ SaveFails(w, v))
    <3>1. proc[p].got \in Copy /\ Fresh \in Copy /\ Fresh # None
      BY <1>0, Copies, MaxVersionAssumption
      DEF ProcsTyped, Place, Fresh, None, MaxVersionAssumption
    <3> QED
      BY <1>6, <3>1 DEF WriteBack
  <2>4. l1'[w] = v /\ \A x \in Worker \ {w} : l1'[x] = l1[x]
    BY <1>0, <2>3, SaveDoes DEF Save, SaveFails
  <2>5. proc'[p].pc = "open"
    BY <1>0, <2>3, MoveDoes DEF Carry
  <2> QED
    BY <1>1, <1>2, <2>1, <2>2, <2>3, <2>4, <2>5, CalmOn DEF Widens, Importing, HasSocket
<1>7. CASE Open(p, w)
  <2>1. /\ At(p, w, "open") /\ Go(p, "idle") /\ UNCHANGED <<l1, behind, spoilt>>
    BY <1>7 DEF Open, tiers, historyVars
  <2>2. live => l1[w] # None
    BY <1>3, <2>1 DEF Settled
  <2>3. proc'[p] = Rest(p)
    BY <1>0, <2>1, MovesTo DEF Go
  <2> QED
    BY <1>1, <1>2, <2>1, <2>2, <2>3, CalmOn DEF Widens, Importing, HasRead, Rest, At
<1> QED
  BY <1>4, <1>5, <1>6, <1>7 DEF OpenStep

LEMMA TickCalm ==
    ASSUME Peace, Peaceful', NEW w \in Worker, TickStep(w)
    PROVE  Calm'
<1>0. w \in Proc /\ HostingTyped /\ ProcsTyped /\ Followed
  BY DEF Proc, Peace, HostingTyped
<1>1. CASE List(w)
  <2>1. Go(w, "listed") /\ proc[w].pc = "idle" /\ UNCHANGED <<l1, held, live, behind, spoilt>>
    BY <1>1 DEF List, tiers, workerVars, credVars, historyVars
  <2>2. Plain(proc[w])' /\ proc'[w].pc = "listed" /\ HostingTyped' /\ Widens(w, w)
    BY <1>0, <1>1, <2>1, GoesPlain, MoveDoes, ListKeeps DEF Go
  <2> QED
    BY <1>0, <2>1, <2>2, CalmQuietly DEF Widens, Importing
<1>2. CASE Look(w)
  <2>1. /\ Read(w, w, IF released THEN "skip" ELSE "adopt")
        /\ UNCHANGED <<l1, held, live, spoilt>>
    BY <1>2 DEF Look, tiers, credVars
  <2>2. /\ behind' = behind
        /\ ~Importing(proc'[w]) /\ proc'[w].pc \notin {"forget", "unbind", "open"}
        /\ live /\ HasRead(w)' => ~HasSocket(w)'
    BY <1>0, <2>1, ReadsCalmly
  <2>3. HostingTyped' /\ Widens(w, w)
    BY <1>0, <1>2, LookKeeps
  <2> QED
    BY <1>0, <2>1, <2>2, <2>3, CalmOn DEF Widens, HasSocket, At
<1>3. CASE OpenStep(w, w)
  BY <1>0, <1>3, OpeningCalm
<1> QED
  BY <1>1, <1>2, <1>3 DEF TickStep

LEMMA StopCalm ==
    ASSUME Peace, Peaceful', NEW j \in Job, NEW w \in Worker, w \in up,
           NEW pc \in {"mark", "leave"}, NEW next \in {"drop", "wipe"}, Stop(j, w, pc, next)
    PROVE  Calm'
<1>0. j \in Proc /\ HostingTyped /\ ProcsTyped
  BY DEF Proc, Peace, HostingTyped
<1>1. /\ held' = [held EXCEPT ![w] = None] /\ Move(j, w, pc, next, None)
      /\ UNCHANGED <<l1, live, behind, spoilt>>
  BY DEF Stop, tiers, credVars
<1>2. Plain(proc[j])' /\ held'[w] = None /\ proc'[j].pc = pc
  BY <1>0, <1>1, MovesPlain, MoveDoes DEF HostingTyped, HostTyped
<1>3. HostingTyped' /\ Widens(j, w)
  BY <1>0, StopKeeps
<1> QED
  BY <1>0, <1>1, <1>2, <1>3, CalmQuietly DEF Widens, Importing

LEMMA OnlineCalm ==
    ASSUME Peace, Peaceful', NEW j \in Job, NEW w \in Worker, Online(j, w)
    PROVE  Calm'
<1>0. j \in Proc /\ HostingTyped /\ ProcsTyped /\ Followed
  BY DEF Proc, Peace, HostingTyped
<1>1. /\ At(j, w, "online") /\ UNCHANGED <<l1, held, live, spoilt>>
  BY DEF Online, tiers, credVars
<1>2. HostingTyped' /\ Widens(j, w)
  BY <1>0, OnlineKeeps
<1>3. CASE Go(j, "clear") /\ behind' = behind
  <2>1. Plain(proc[j])'
    BY <1>0, <1>1, <1>3, GoesPlain DEF At
  <2>2. proc'[j].pc = "clear"
    BY <1>0, <1>3, MoveDoes DEF Go
  <2> QED
    BY <1>0, <1>1, <1>2, <1>3, <2>1, <2>2, CalmQuietly DEF Widens, Importing
<1>4. CASE w \notin inMap /\ Read(j, w, "online")
  <2>1. held[w] = None
    BY <1>4 DEF Peace, CallsApart, Peaceful, Tidy, HasSocket
  <2>2. /\ behind' = behind
        /\ ~Importing(proc'[j]) /\ proc'[j].pc \notin {"forget", "unbind", "open"}
    BY <1>0, <1>1, <1>4, <2>1, ReadsCalmly
  <2> QED
    BY <1>0, <1>1, <1>2, <2>1, <2>2, CalmOn DEF Widens, HasSocket, At
<1> QED
  BY <1>3, <1>4 DEF Online

LEMMA JobCalm ==
    ASSUME Peace, Peaceful', NEW j \in Job, NEW w \in Worker, JobStep(j, w)
    PROVE  Calm'
<1>0. j \in Proc /\ HostingTyped /\ ProcsTyped /\ Followed
  BY DEF Proc, Peace, HostingTyped
<1>1. CASE OpenStep(j, w)
  BY <1>0, <1>1, OpeningCalm
<1>2. CASE Online(j, w)
  BY <1>2, OnlineCalm
<1>3. CASE Limited(j, w)
  <2>1. Go(j, "idle") /\ UNCHANGED <<l1, held, live, behind, spoilt>>
    BY <1>3 DEF Limited, tiers, workerVars, credVars, historyVars
  <2>2. Plain(proc[j])' /\ proc'[j].pc = "idle" /\ HostingTyped' /\ Widens(j, w)
    BY <1>0, <1>3, <2>1, GoesPlain, LimitedKeeps
  <2> QED
    BY <1>0, <2>1, <2>2, CalmQuietly DEF Widens, Importing
<1>4. ~ClearImport(j, w) /\ ~SaveImport(j, w)
  BY <1>0 DEF Peace, Calm, Importing, ClearImport, SaveImport, At
<1>5. ASSUME NEW pc \in {"offline", "logout"}, At(j, w, pc), NotFound(j, w) PROVE Calm'
  <2>1. Go(j, "idle") /\ UNCHANGED <<l1, held, live, behind, spoilt>>
    BY <1>5 DEF NotFound, tiers, workerVars, credVars, historyVars
  <2>2. Plain(proc[j])' /\ proc'[j].pc = "idle" /\ HostingTyped' /\ Widens(j, w)
    BY <1>0, <1>5, <2>1, GoesPlain, NotFoundKeeps
  <2> QED
    BY <1>0, <2>1, <2>2, CalmQuietly DEF Widens, Importing
<1>6. CASE Offline(j, w) \/ Logout(j, w)
  <2>1. w \in up
    BY <1>0, <1>6, Placed DEF Offline, Logout
  <2> QED
    BY <1>5, <1>6, <2>1, StopCalm DEF Offline, Logout
<1>7. CASE Leave(j, w)
  <2>1. Carry(j, "mark", None) /\ UNCHANGED <<l1, live, behind, spoilt>>
    BY <1>7 DEF Leave, tiers, credVars, historyVars
  <2>2. /\ Plain(proc[j])' /\ proc'[j].pc = "mark" /\ HostingTyped' /\ Widens(j, w)
        /\ held'[w] \in {held[w], None}
    BY <1>0, <1>7, <2>1, MovesPlain, LeaveKeeps DEF Carry
  <2> QED
    BY <1>0, <2>1, <2>2, CalmQuietly DEF Widens, Importing
<1>8. CASE Mark(j, w)
  <2>1. /\ At(j, w, "mark") /\ Go(j, proc[j].next) /\ UNCHANGED <<l1, held, live, behind, spoilt>>
    BY <1>8 DEF Mark, tiers, workerVars, credVars, historyVars
  <2>2. proc[j].next \in {"drop", "wipe"}
    BY <1>0, <2>1, Placed DEF Follows
  <2>3. /\ Plain(proc[j])' /\ proc'[j].pc \in {"drop", "wipe"} /\ HostingTyped' /\ Widens(j, w)
    BY <1>0, <1>8, <2>1, <2>2, GoesPlain, MarkKeeps DEF At
  <2> QED
    BY <1>0, <2>1, <2>3, CalmQuietly DEF Widens, Importing
<1>9. CASE Drop(j, w)
  <2>1. /\ At(j, w, "drop") /\ Go(j, "idle") /\ UNCHANGED <<l1, held, live, behind, spoilt>>
    BY <1>9 DEF Drop, tiers, credVars, historyVars
  <2>2. Plain(proc[j])' /\ proc'[j].pc = "idle" /\ HostingTyped' /\ Widens(j, w)
    BY <1>0, <1>9, <2>1, GoesPlain, DropKeeps DEF At
  <2> QED
    BY <1>0, <2>1, <2>2, CalmQuietly DEF Widens, Importing
<1>10. CASE Wipe(j, w)
  <2>1. live' = FALSE /\ \A q \in Proc : ~Importing(proc'[q])
    BY <1>0, <1>10, WipeKeeps DEF Wipe, Widens, Moved, Peace, Calm, Importing
  <2> QED
    BY <2>1 DEF Calm
<1>11. CASE ForgetAccount(j, w) \/ Unbind(j, w)
  <2>1. ~live /\ live' = live
    BY <1>0, <1>11 DEF ForgetAccount, Unbind, At, Peace, Calm, Settled, credVars
  <2>2. Moved(j, w) /\ proc'[j].pc \in {"unbind", "idle"}
    BY <1>0, <1>11, ForgetAccountKeeps, UnbindKeeps DEF Widens
  <2>3. \A q \in Proc : ~Importing(proc'[q])
    BY <2>2 DEF Moved, Peace, Calm, Importing
  <2> QED
    BY <2>1, <2>3 DEF Calm
<1> QED
  BY <1>1, <1>2, <1>3, <1>4, <1>6, <1>7, <1>8, <1>9, <1>10, <1>11 DEF JobStep

(* The binding of an account moves only to where nobody is left to drift.  *)
LEMMA CalmRebound ==
    ASSUME Peace, NEW p, NEW o, Rebind(p, o), {assign} \cap (up \ {o}) = {},
           UNCHANGED <<l1, held, live, spoilt>>,
           \A q \in Proc : \/ proc'[q] = proc[q]
                           \/ Plain(proc[q])' /\ ~Importing(proc'[q])
                              /\ proc'[q].pc \notin {"forget", "unbind", "open"}
    PROVE  Calm'
<1>1. behind' = behind
  BY DEF Rebind
<1>2. \A q \in Proc : ~Importing(proc'[q])
  BY DEF Peace, Calm
<1> SUFFICES ASSUME live PROVE Settled'
  BY <1>2 DEF Calm
<1>3. Settled
  BY DEF Peace, Calm
<1>4. ASSUME NEW q \in Proc, NEW x \in Worker
      PROVE  /\ proc'[q].pc \notin {"forget", "unbind"}
             /\ At(q, x, "open")' => l1'[x] # None
             /\ proc'[q].at = x /\ HasRead(q)' => ~HasSocket(x)'
  BY <1>3 DEF Settled, At, HasRead, HasSocket, Plain
<1> QED
  BY <1>1, <1>3, <1>4 DEF Settled, HasSocket

LEMMA RequestCalm ==
    ASSUME Sheltered, Peace, Peaceful', NEW j \in Job, NEW w \in Worker, Request(j, w)
    PROVE  Calm'
<1>0. j \in Proc /\ HostingTyped /\ ProcsTyped /\ Followed
  BY DEF Proc, Peace, HostingTyped
<1>1. CASE PostOnline(j, w)
  <2>1. Moved(j, w) /\ UNCHANGED <<l1, held, live, spoilt>> /\ ToOnline(j, w)
    BY <1>0, <1>1, PostOnlineKeeps DEF PostOnline, tiers, workerVars, credVars
  <2>2. PICK o \in IF assign = NoWorker THEN up ELSE {assign} :
          /\ Rebind(j, o)
          /\ IF o = w THEN Begin(j, w, "online", "idle") ELSE UNCHANGED proc
    BY <2>1 DEF ToOnline
  <2>3. {assign} \cap (up \ {o}) = {}
    BY <1>0, NamesApart DEF HostingTyped, HostTyped
  <2>4. CASE UNCHANGED proc
    BY <2>1, <2>2, <2>3, <2>4, <1>0, CalmRebound
  <2>5. CASE Begin(j, w, "online", "idle")
    <3>1. Plain(proc[j])'
      BY <1>0, <2>5, BeginsPlain
    <3>2. proc'[j].pc = "online"
      BY <1>0, <2>5, MoveDoes DEF Begin
    <3> QED
      BY <1>0, <2>1, <2>2, <2>3, <3>1, <3>2, CalmRebound DEF Moved, Importing
  <2> QED
    BY <2>2, <2>4, <2>5
<1>2. CASE Reconnect(j, w)
  <2>1. Reopen(j, w, None) /\ UNCHANGED <<l1, live, spoilt>>
    BY <1>2 DEF Reconnect, tiers, credVars
  <2>2. /\ behind' = behind /\ held'[w] = None
        /\ ~Importing(proc'[j]) /\ proc'[j].pc \notin {"forget", "unbind", "open"}
    BY <1>0, <2>1, ReopensCalmly
  <2>3. HostingTyped' /\ Widens(j, w)
    BY <1>0, <1>2, ReconnectKeeps
  <2> QED
    BY <1>0, <2>1, <2>2, <2>3, CalmOn DEF Widens, HasSocket, At
<1>3. ASSUME NEW call \in {"offline", "logout"}, Ask(j, w, call) PROVE Calm'
  <2>1. Begin(j, w, call, "idle") /\ UNCHANGED <<l1, held, live, behind, spoilt>>
    BY <1>3 DEF Ask, tiers, workerVars, credVars, historyVars
  <2>2. Plain(proc[j])' /\ proc'[j].pc = call /\ HostingTyped' /\ Widens(j, w)
    BY <1>0, <1>3, <2>1, BeginsPlain, AskKeeps
  <2> QED
    BY <1>0, <2>1, <2>2, CalmQuietly DEF Widens, Importing
<1>4. CASE CloseForGood(j, w)
  <2>1. Stop(j, w, "leave", "drop") /\ w \in up
    BY <1>0, <1>4 DEF CloseForGood, HasSocket, HostingTyped, HostTyped
  <2> QED
    BY <2>1, StopCalm
<1> QED
  BY <1>1, <1>2, <1>3, <1>4 DEF Request, Sheltered

(* A change of the credentials passes nobody by.                           *)
LEMMA UpdateCalm ==
    ASSUME Peace, Peaceful', NEW w \in Worker, Update(w)
    PROVE  Calm'
<1>0. HostingTyped /\ HostsBound /\ Followed /\ Calm /\ HistoryTyped /\ TiersTypeOK
  BY DEF Peace, HostingTyped
<1>1. /\ HasSocket(w) /\ UNCHANGED <<assign, up, proc, live>>
      /\ Save(w, held'[w]) /\ spoilt' = (spoilt \/ w \in behind)
  BY <1>0, NoFailure DEF Update, Wrote, bindingVars
<1>2. \A x \in Worker \ {w} : held'[x] = held[x] /\ l1'[x] = l1[x]
  BY <1>0, <1>1, UpdateKeeps, SaveDoes DEF Save
<1>3. l1'[w] = held'[w] /\ (HasSocket(w)' => l1'[w] # None)
  BY <1>0, <1>1, SaveDoes DEF Save, HasSocket
<1>4. \A q \in Proc : ~Importing(proc'[q])
  BY <1>0, <1>1 DEF Calm
<1> SUFFICES ASSUME live PROVE Settled'
  BY <1>1, <1>4 DEF Calm
<1>5. Settled
  BY <1>0 DEF Calm
<1>6. \A x \in Worker : Hosts(x) => assign = x
  BY <1>0, <1>5, HostIsOwner DEF Settled
<1>7. assign = w /\ \A x \in Worker \ {w} : ~HasSocket(x)
  BY <1>1, <1>6 DEF Hosts
<1>8. \A q \in Proc : ~HasRead(q)
  <2> SUFFICES ASSUME NEW q \in Proc, HasRead(q) PROVE FALSE
    OBVIOUS
  <2>1. proc[q].at \in Worker
    BY CarriersRun, <1>0, NamesApart DEF Carriers
  <2>2. Hosts(proc[q].at)
    BY <1>0, <2>1, ReaderWorks DEF Hosts
  <2>3. proc[q].at = w
    BY <1>6, <1>7, <2>1, <2>2
  <2> QED
    BY <1>1, <1>5, <2>3 DEF Settled
<1>9. behind' = {}
  <2>1. CASE PassBy(NoWorker, w)
    <3>1. Carriers(NoWorker) = {}
      BY <1>8 DEF Carriers
    <3> QED
      BY <1>5, <1>7, <2>1, <3>1 DEF PassBy, Settled
  <2> QED
    BY <1>5, <2>1 DEF Update, Settled
<1>10. ~spoilt'
  BY <1>1, <1>5 DEF Settled
<1>11. l1'[w] # None
  <2>1. CASE live /\ held[w] = newest
    <3>1. held'[w] = newest' /\ newest' \in Nat /\ newest' > 0
      BY <1>0, <2>1 DEF Update, HostingTyped, HostTyped, HistoryTyped, Version
    <3> QED
      BY <1>3, <3>1 DEF None
  <2>2. CASE held' = held
    BY <1>1, <1>3, <2>2 DEF HasSocket
  <2> QED
    BY <2>1, <2>2 DEF Update
<1>12. \A x \in Worker : HasSocket(x)' => l1'[x] # None
  BY <1>2, <1>3, <1>5 DEF Settled, HasSocket
<1>13. ASSUME NEW q \in Proc, NEW x \in Worker
       PROVE  /\ proc'[q].pc \notin {"forget", "unbind"}
              /\ At(q, x, "open")' => l1'[x] # None
              /\ proc'[q].at = x /\ HasRead(q)' => ~HasSocket(x)'
  BY <1>1, <1>2, <1>5, <1>8, <1>11 DEF Settled, At, HasRead
<1> QED
  BY <1>9, <1>10, <1>12, <1>13 DEF Settled

LEMMA CrashCalm ==
    ASSUME Peace, NEW w \in Worker, Crash(w)
    PROVE  Calm'
<1>0. HostingTyped
  BY DEF Peace
<1>1. /\ held'[w] = None /\ \A x \in Worker \ {w} : held'[x] = held[x]
      /\ \A p \in Proc : IF proc[p].at = w THEN proc'[p].pc = "idle" /\ Plain(proc[p])'
                         ELSE proc'[p] = proc[p]
  <2>1. /\ HostingTyped' /\ held'[w] = None /\ \A x \in Worker \ {w} : held'[x] = held[x]
        /\ \A p \in Proc : IF proc[p].at = w THEN proc'[p].pc = "idle" ELSE proc'[p] = proc[p]
    BY <1>0, CrashKeeps
  <2>2. ASSUME NEW p \in Proc, proc'[p].pc = "idle" PROVE Plain(proc[p])'
    <3>1. proc'[p] = Rest(p)
      BY <2>1, <2>2 DEF HostingTyped, ProcsTyped
    <3>2. Rest(p).got = None /\ Rest(p).pc = "idle"
      BY DEF Rest
    <3> QED
      BY <3>1, <3>2 DEF Plain
  <2> QED
    BY <2>1, <2>2
<1>2. behind' = behind \ {w} /\ Forget(w) /\ UNCHANGED <<live, spoilt>>
  BY DEF Crash, credVars
<1>3. \A x \in Worker \ {w} : l1'[x] = l1[x]
  BY <1>0, <1>2, DeleteTyped DEF HostingTyped
<1>4. \A q \in Proc : ~Importing(proc'[q])
  BY <1>1 DEF Peace, Calm, Importing
<1> SUFFICES ASSUME live PROVE Settled'
  BY <1>2, <1>4 DEF Calm
<1>5. Settled
  BY DEF Peace, Calm
<1>6. \A x \in Worker : HasSocket(x)' => l1'[x] # None
  BY <1>1, <1>3, <1>5 DEF Settled, HasSocket
<1>7. ASSUME NEW q \in Proc, NEW x \in Worker
      PROVE  /\ proc'[q].pc \notin {"forget", "unbind"}
             /\ At(q, x, "open")' => l1'[x] # None
             /\ proc'[q].at = x /\ HasRead(q)' => ~HasSocket(x)'
  <2>1. CASE proc[q].at = w
    BY <1>1, <2>1 DEF Plain, At, HasRead
  <2>2. CASE proc[q].at # w
    BY <1>1, <1>3, <1>5, <2>2 DEF Settled, At, HasRead, HasSocket
  <2> QED
    BY <2>1, <2>2
<1> QED
  BY <1>2, <1>5, <1>6, <1>7 DEF Settled

LEMMA CalmStutters ==
    ASSUME Calm, UNCHANGED <<l1, held, proc, live, behind, spoilt>>
    PROVE  Calm'
BY DEF Calm, Settled, Importing, At, HasRead, HasSocket

LEMMA CalmInit == Init => Calm
<1> SUFFICES ASSUME Init PROVE Calm
  OBVIOUS
<1>1. /\ behind = {} /\ ~spoilt /\ \A w \in Worker : held[w] = None
      /\ \A p \in Proc : proc[p].pc = "idle" /\ proc[p].got = None
  BY DEF Init, Rest
<1> QED
  BY <1>1 DEF Calm, Settled, Importing, At, HasRead, HasSocket

LEMMA CalmStep ==
    ASSUME Sheltered PROVE Peace /\ Peaceful' /\ [Next]_vars => Calm'
<1> SUFFICES ASSUME Peace, Peaceful', [Next]_vars PROVE Calm'
  OBVIOUS
<1>0. HostingTyped /\ Calm
  BY DEF Peace
<1>1. ASSUME NEW w \in Worker, WorkerStep(w) PROVE Calm'
  BY <1>1, TickCalm, UpdateCalm, JobCalm, RequestCalm DEF WorkerStep
<1>2. ASSUME NEW w \in Worker, Crash(w) PROVE Calm'
  BY <1>2, CrashCalm
<1>3. ASSUME NEW w \in Worker, Start(w) PROVE Calm'
  BY <1>0, <1>3, CalmStutters DEF Start, tiers, credVars, historyVars
<1>4. CASE LateWrite
  BY <1>0, <1>4, CalmStutters DEF LateWrite, Land, workerVars, credVars, historyVars
<1>5. CASE Reassign
  <2>1. /\ UNCHANGED <<l1, held, proc, live, spoilt>> /\ assign \notin up
        /\ \E w \in up \ {assign} : Rebind(NoWorker, w)
    BY <1>5 DEF Reassign, Sheltered, tiers, workerVars, credVars
  <2> QED
    BY <2>1, CalmRebound
<1>6. ~AdminUnassign
  BY DEF AdminUnassign, Sheltered
<1>7. CASE UNCHANGED vars
  BY <1>0, <1>7, CalmStutters DEF vars, tiers, workerVars, credVars, historyVars
<1> QED
  BY <1>1, <1>2, <1>3, <1>4, <1>5, <1>6, <1>7 DEF Next

(* The comment at creds-store.ts:106 holds of a cluster without imports in *)
(* which failover takes accounts only from workers that are gone, as long  *)
(* as no two calls for the account overlap on a worker and no command      *)
(* fails: the credentials in Redis are not lost, through any number of     *)
(* crashes, restarts, failovers, reconnects and changes.  Without any one  *)
(* of these hypotheses TLC finds them lost.                                *)
THEOREM CredsKeptApart ==
    ASSUME Sheltered PROVE Spec /\ []Peaceful => []CredsNeverLost
<1>1. Peace => CredsNeverLost
  BY DEF Peace, Calm, Settled, Followed, Valid, CredsNeverLost
<1>2. Init /\ Peaceful => Calm
  BY CalmInit
<1>3. Peace /\ Peaceful' /\ [Next]_vars => Calm'
  BY CalmStep
<1>4. HostingTyped /\ HostsBound /\ Followed /\ CallsApart /\ Peaceful /\ Calm => Peace
  BY DEF Peace
<1> QED
  BY <1>1, <1>2, <1>3, <1>4, HostingInvariant, FollowedAlways, CallsApartAlways, PTL DEF Spec

=============================================================================
