------------------------- MODULE TokenBucketProofs -------------------------
(***************************************************************************)
(* Proofs about TokenBucket, for every rate, capacity, cost and expiry.    *)
(***************************************************************************)
EXTENDS TokenBucket, TLAPS

USE BucketAssumption

(* What has been granted since the observer began to count, and what the   *)
(* bucket still holds, come from the bucket that was full then, from the   *)
(* true time until the last request, and from what the clocks have gained. *)
(* A bucket that Redis has forgotten has rested long enough to be full.    *)
BucketInv ==
    /\ BucketTypeOK
    /\ last < since => granted = 0
    /\ last >= since => granted + tokens =< Capacity + Rate * (last - since + gained)
    /\ ~stored => clock - last >= Ttl

-----------------------------------------------------------------------------
LEMMA RateMonotone ==
    ASSUME NEW m \in Int, NEW n \in Int, m =< n
    PROVE  Rate * m =< Rate * n
OBVIOUS

LEMMA RateAdds ==
    ASSUME NEW m \in Int, NEW n \in Int
    PROVE  Rate * (m + n) = Rate * m + Rate * n /\ Rate * m \in Int /\ Rate * n \in Int
OBVIOUS

LEMMA RateNat == ASSUME NEW n \in Nat PROVE Rate * n \in Nat
OBVIOUS

LEMMA ExcessNat == ASSUME NEW n \in Int PROVE Excess(n) \in Nat /\ Excess(n) >= n
BY DEF Excess

(* A level lies between empty and full, and is no higher than what the     *)
(* bucket held plus what the caller's clock says has run in.               *)
LEMMA LevelBounds ==
    ASSUME BucketTypeOK, NEW now \in Nat
    PROVE  /\ Level(now) \in 0..Capacity
           /\ stored => Level(now) =< tokens + Rate * Excess(now - ts)
<1>1. Excess(now - ts) \in Nat
  BY ExcessNat DEF BucketTypeOK
<1>2. Rate * Excess(now - ts) \in Nat
  BY <1>1, RateNat
<1> QED
  BY <1>2 DEF Level, BucketTypeOK

-----------------------------------------------------------------------------
LEMMA BucketInitInv == BucketInit => BucketInv
<1> SUFFICES ASSUME BucketInit PROVE BucketInv
  OBVIOUS
<1>1. Rate * (0 - 0 + 0) = 0
  OBVIOUS
<1> QED
  BY <1>1 DEF BucketInit, BucketInv, BucketTypeOK

LEMMA TakeKeepsInv ==
    ASSUME BucketInv, NEW now \in Nat, Take(now)
    PROVE  BucketInv'
<1> DEFINE taken == IF Allowed(now) THEN Cost ELSE 0
           elapsed == clock - last
           jump == (now - ts) - elapsed
           extra == IF stored THEN Excess(jump) ELSE 0
<1>1. /\ Level(now) \in 0..Capacity
      /\ stored => Level(now) =< tokens + Rate * Excess(now - ts)
  BY LevelBounds DEF BucketInv
<1>2. taken \in Nat /\ taken =< Level(now)
  BY <1>1 DEF Allowed
<1>3. elapsed \in Nat /\ jump \in Int /\ extra \in Nat
  BY ExcessNat DEF BucketInv, BucketTypeOK
<1>4. /\ stored' = TRUE /\ tokens' = Level(now) - taken /\ ts' = now /\ last' = clock
      /\ granted' = granted + taken /\ gained' = gained + extra
      /\ clock' = clock /\ since' = since
  BY DEF Take
<1>5. BucketTypeOK'
  BY <1>1, <1>2, <1>3, <1>4 DEF BucketInv, BucketTypeOK
<1>6. granted' + tokens' = granted + Level(now)
  BY <1>1, <1>2, <1>4 DEF BucketInv, BucketTypeOK
<1>7. granted + Level(now) =< Capacity + Rate * (clock - since + gained + extra)
  <2>1. clock - since + gained + extra \in Nat
    BY <1>3 DEF BucketInv, BucketTypeOK
  <2>2. CASE last < since
    BY <1>1, <2>1, <2>2, RateNat DEF BucketInv, BucketTypeOK
  <2>3. CASE last >= since /\ stored
    <3>1. Excess(now - ts) =< elapsed + Excess(jump)
      BY <1>3, ExcessNat DEF Excess, BucketInv, BucketTypeOK
    <3>2. Rate * Excess(now - ts) =< Rate * (elapsed + extra)
      BY <1>3, <2>3, <3>1, ExcessNat, RateMonotone DEF BucketInv, BucketTypeOK
    <3>3. Rate * (last - since + gained) + Rate * (elapsed + extra)
            = Rate * (clock - since + gained + extra)
      <4>1. (last - since + gained) + (elapsed + extra) = clock - since + gained + extra
        BY <1>3 DEF BucketInv, BucketTypeOK
      <4>2. QED
        BY <1>3, <4>1, RateAdds DEF BucketInv, BucketTypeOK
    <3>4. granted + tokens =< Capacity + Rate * (last - since + gained)
      BY <2>3 DEF BucketInv
    <3>5. /\ Rate * (last - since + gained) \in Int /\ Rate * (elapsed + extra) \in Int
          /\ Rate * Excess(now - ts) \in Int
      BY <1>3, ExcessNat DEF BucketInv, BucketTypeOK
    <3>6. QED
      BY <1>1, <2>3, <3>2, <3>3, <3>4, <3>5 DEF BucketInv, BucketTypeOK
  <2>4. CASE last >= since /\ ~stored
    <3>1. Capacity =< Rate * elapsed
      <4>1. Rate * Ttl =< Rate * elapsed
        BY <1>3, <2>4, RateMonotone DEF BucketInv
      <4>2. Rate * Ttl \in Int /\ Rate * elapsed \in Int
        BY <1>3
      <4>3. QED
        BY <4>1, <4>2, TtlAssumption
    <3>2. Rate * (last - since + gained) + Rate * elapsed = Rate * (clock - since + gained)
      <4>1. (last - since + gained) + elapsed = clock - since + gained
        BY <1>3 DEF BucketInv, BucketTypeOK
      <4>2. QED
        BY <1>3, <4>1, RateAdds DEF BucketInv, BucketTypeOK
    <3>3. granted =< Capacity + Rate * (last - since + gained)
      <4>1. Rate * (last - since + gained) \in Int
        BY DEF BucketInv, BucketTypeOK
      <4>2. QED
        BY <2>4, <4>1 DEF BucketInv, BucketTypeOK
    <3>4. Rate * (last - since + gained) \in Int /\ Rate * elapsed \in Int
      BY <1>3 DEF BucketInv, BucketTypeOK
    <3>5. extra = 0 /\ clock - since + gained + extra = clock - since + gained
      BY <2>4 DEF BucketInv, BucketTypeOK
    <3>6. QED
      BY <1>1, <3>1, <3>2, <3>3, <3>4, <3>5 DEF BucketInv, BucketTypeOK
  <2>5. QED
    BY <2>2, <2>3, <2>4 DEF BucketInv, BucketTypeOK
<1>8. last' - since' + gained' = clock - since + gained + extra
  BY <1>3, <1>4 DEF BucketInv, BucketTypeOK
<1>9. ~(last' < since')
  BY <1>4 DEF BucketInv, BucketTypeOK
<1> QED
  BY <1>4, <1>5, <1>6, <1>7, <1>8, <1>9 DEF BucketInv

LEMMA TickKeepsInv == ASSUME BucketInv, Tick PROVE BucketInv'
BY DEF BucketInv, BucketTypeOK, Tick, bucket, watched

LEMMA ForgetKeepsInv == ASSUME BucketInv, ForgetBucket PROVE BucketInv'
BY DEF BucketInv, BucketTypeOK, ForgetBucket, watched

LEMMA BucketStepInv == BucketInv /\ [BucketNext]_bucketVars => BucketInv'
<1> SUFFICES ASSUME BucketInv, [BucketNext]_bucketVars PROVE BucketInv'
  OBVIOUS
<1>1. ASSUME NEW skew \in 0..MaxSkew, Take(clock + skew) PROVE BucketInv'
  <2>1. clock + skew \in Nat
    BY DEF BucketInv, BucketTypeOK
  <2>2. QED
    BY <1>1, <2>1, TakeKeepsInv
<1>2. CASE UNCHANGED bucketVars
  BY <1>2 DEF BucketInv, BucketTypeOK, bucketVars, bucket, watched
<1> QED
  BY <1>1, <1>2, ForgetKeepsInv, TickKeepsInv DEF BucketNext

LEMMA InvBoundsGrants == BucketInv => GrantsBounded
<1> SUFFICES ASSUME BucketInv PROVE GrantsBounded
  OBVIOUS
<1> USE DEF BucketInv, BucketTypeOK
<1>1. clock - since + gained \in Nat
  OBVIOUS
<1>2. Rate * (clock - since + gained) \in Nat
  BY <1>1, RateNat
<1>3. CASE last < since
  BY <1>2, <1>3 DEF GrantsBounded
<1>4. CASE last >= since
  <2>1. last - since + gained =< clock - since + gained
    OBVIOUS
  <2>2. Rate * (last - since + gained) =< Rate * (clock - since + gained)
    BY <2>1, RateMonotone
  <2>3. Rate * (last - since + gained) \in Int
    OBVIOUS
  <2> QED
    BY <1>2, <1>4, <2>2, <2>3 DEF GrantsBounded
<1> QED
  BY <1>3, <1>4

(* Whatever the clocks of its callers show, in any span of time a bucket   *)
(* grants no more than its capacity and what the rate adds in that span,   *)
(* except for what the clocks have gained on the true time.                *)
THEOREM GrantsAlwaysBounded == BucketSpec => []GrantsBounded
<1>1. BucketSpec => []BucketInv
  BY BucketInitInv, BucketStepInv, PTL DEF BucketSpec
<1> QED
  BY <1>1, InvBoundsGrants, PTL
=============================================================================
