---------------------------- MODULE TokenBucket ----------------------------
(***************************************************************************)
(* A token bucket in Redis (rate-limit/token-bucket.ts), the limit behind  *)
(* the gates of group operations, of /online and of reconnects.            *)
(*                                                                         *)
(* The script is atomic, but the time it works with is the Date.now() of   *)
(* the caller, and a bucket may have callers on several machines (the      *)
(* global ones) or one whose clock is adjusted.  So the module has a true  *)
(* time, clock, and a caller that is off by a number of ticks of it.       *)
(* Tokens are counted in units that make the rate an integer; a request    *)
(* costs Cost units.                                                       *)
(***************************************************************************)
EXTENDS Integers

CONSTANTS
    Rate,         \* units a tick adds
    Capacity,     \* units a full bucket holds
    Cost,         \* units a request takes
    Ttl,          \* ticks after which Redis forgets a bucket nobody takes from
    MaxSkew,      \* ticks a caller's clock may be ahead, a bound
    MaxTime       \* ticks, a bound

ASSUME BucketAssumption ==
    /\ Rate \in Nat \ {0} /\ Capacity \in Nat /\ Cost \in Nat \ {0}
    /\ Ttl \in Nat /\ MaxSkew \in Nat /\ MaxTime \in Nat
(* The expiry is ceil(capacity / rate) + 60 seconds.                       *)
ASSUME TtlAssumption == Capacity =< Rate * Ttl

VARIABLES
    stored,    \* does Redis have the bucket?
    tokens,    \* and with how many units,
    ts,        \* as of what time of the last caller
    clock,     \* the true time
    last,      \* the true time of the last request
    since,     \* the time an observer has chosen to count from,
    granted,   \* units granted since then,
    gained     \* ticks by which ts has advanced faster than the true time

bucket == <<stored, tokens, ts, last>>
watched == <<since, granted, gained>>
bucketVars == <<bucket, clock, watched>>

BucketTypeOK ==
    /\ stored \in BOOLEAN
    /\ tokens \in 0..Capacity
    /\ ts \in Nat /\ clock \in Nat /\ last \in 0..clock
    /\ since \in 0..clock /\ granted \in Nat /\ gained \in Nat

(* A bucket that others have used before.                                  *)
BucketInit ==
    /\ stored = TRUE
    /\ tokens \in 0..Capacity
    /\ ts = 0 /\ clock = 0 /\ last = 0
    /\ since = 0 /\ granted = 0 /\ gained = 0

-----------------------------------------------------------------------------
Excess(n) == IF n > 0 THEN n ELSE 0

(* What a caller whose clock shows now finds in the bucket.  The variant   *)
(* with a bug forgets the capacity.                                        *)
Uncapped(now) == IF stored THEN tokens + Rate * Excess(now - ts) ELSE Capacity

Level(now) ==
    LET filled == tokens + Rate * Excess(now - ts)
    IN  IF stored /\ filled < Capacity THEN filled ELSE Capacity

Allowed(now) == Level(now) >= Cost

(* The script: the timestamp becomes the caller's even if that is earlier. *)
Take(now) ==
    LET taken == IF Allowed(now) THEN Cost ELSE 0 IN
    /\ stored' = TRUE
    /\ tokens' = Level(now) - taken
    /\ ts' = now
    /\ last' = clock
    /\ granted' = granted + taken
    /\ gained' = gained + IF stored THEN Excess((now - ts) - (clock - last)) ELSE 0
    /\ UNCHANGED <<clock, since>>

ForgetBucket ==
    /\ stored
    /\ clock - last >= Ttl
    /\ stored' = FALSE
    /\ UNCHANGED <<tokens, ts, clock, last, watched>>

(* Time passes, and the observer may begin to count.                       *)
Tick ==
    /\ clock < MaxTime
    /\ clock' = clock + 1
    /\ \/ UNCHANGED watched
       \/ since' = clock' /\ granted' = 0 /\ gained' = 0
    /\ UNCHANGED bucket

BucketNext ==
    \/ \E skew \in 0..MaxSkew : Take(clock + skew)
    \/ ForgetBucket
    \/ Tick

BucketSpec == BucketInit /\ [][BucketNext]_bucketVars

-----------------------------------------------------------------------------
(* In any span of time no more is granted than one full bucket and what    *)
(* the rate allows, except for what the clocks of the callers gained: each *)
(* change from a slower clock to a faster one refills the bucket once more *)
(* for the difference.                                                     *)
GrantsBounded == granted =< Capacity + Rate * (clock - since + gained)
=============================================================================
