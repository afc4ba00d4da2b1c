----------------------------- MODULE CredsStore -----------------------------
(***************************************************************************)
(* The credentials of one account in the tiers of store/creds-store.ts:    *)
(*                                                                         *)
(*   l1   the memory of each worker process (no expiry)                    *)
(*   l2   Redis, shared by the cluster                                     *)
(*   l3   MySQL, shared, used only when mysql.enabled is set               *)
(*   late the writes to MySQL that save() started and does not await: they *)
(*        go through a pool of connections and land in any order           *)
(*                                                                         *)
(* A copy is the number of the last change it contains, None when there is *)
(* no record, or Fresh for the identity initAuthCreds() makes up, which no *)
(* phone has ever authorised.  Reading is a sequence of awaited commands,  *)
(* so the module gives the effect of each of them; Hosting has the steps.  *)
(***************************************************************************)
EXTENDS Naturals

CONSTANTS
    Worker,
    MaxVersion,   \* changes to the credentials, a bound
    Durable       \* mysql.enabled

ASSUME MaxVersionAssumption == MaxVersion \in Nat \ {0}
ASSUME DurableAssumption == Durable \in BOOLEAN

VARIABLES l1, l2, l3, late

tiers == <<l1, l2, l3, late>>

None == 0
Fresh == MaxVersion + 1
Version == 1..MaxVersion
Copy == {None, Fresh} \cup Version

TiersTypeOK ==
    /\ l1 \in [Worker -> Copy]
    /\ l2 \in Copy
    /\ l3 \in Copy
    /\ late \subseteq Worker \X Copy
    /\ ~Durable => l3 = None /\ late = {}

(* An imported account: version 1 is stored, no process has read it yet.   *)
TiersInit ==
    /\ l1 = [w \in Worker |-> None]
    /\ l2 = 1
    /\ l3 = IF Durable THEN 1 ELSE None
    /\ late = {}

-----------------------------------------------------------------------------
(* save(): memory and Redis before it returns, MySQL some time later.  A   *)
(* failed write to Redis is logged and save() returns as if it had worked. *)
SaveRedis(w, v, redis) ==
    /\ l1' = [l1 EXCEPT ![w] = v]
    /\ l2' = redis
    /\ late' = IF Durable THEN late \cup {<<w, v>>} ELSE late
    /\ UNCHANGED l3

(* Variants of Save with a bug: nothing is written to Redis; MySQL is used *)
(* whether it is enabled or not.                                           *)
SaveMemoryOnly(w, v) == SaveRedis(w, v, l2)

SaveMySqlAlways(w, v) ==
    /\ l1' = [l1 EXCEPT ![w] = v]
    /\ l2' = v
    /\ late' = late \cup {<<w, v>>}
    /\ UNCHANGED l3

Save(w, v) == SaveRedis(w, v, v)

SaveFails(w, v) == SaveRedis(w, v, l2)

(* A write to MySQL takes effect, or fails and is forgotten.               *)
Land ==
    \E x \in late :
        /\ l3' \in {x[2], l3}
        /\ late' = late \ {x}
        /\ UNCHANGED <<l1, l2>>

(* What load() copies upwards once Redis, or MySQL, has answered.          *)
FillFromRedis(w, v) == l1' = [l1 EXCEPT ![w] = v] /\ UNCHANGED <<l2, l3, late>>

FillFromMySql(w, v) ==
    /\ l1' = [l1 EXCEPT ![w] = v]
    /\ l2' = v
    /\ UNCHANGED <<l3, late>>

(* delete(): the memory of this worker and Redis, then MySQL.              *)
DeleteRedis(w) ==
    /\ l1' = [l1 EXCEPT ![w] = None]
    /\ l2' = None
    /\ UNCHANGED <<l3, late>>

DeleteMySql == l3' = None /\ UNCHANGED <<l1, l2, late>>

(* The process of w is gone, and with it its memory and what it had not    *)
(* sent yet.                                                               *)
Forget(w) ==
    /\ l1' = [l1 EXCEPT ![w] = None]
    /\ late' = {x \in late : x[1] # w}
    /\ UNCHANGED <<l2, l3>>
=============================================================================
