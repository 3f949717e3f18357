--------------------------- MODULE TokenBucketProofs ---------------------------
(***************************************************************************)
(* For every rate, capacity and set of costs, and over any timeline of the *)
(* clock: the balance stays within the bucket, the conservation law holds, *)
(* and a denial's retry_after is exact. The strengthening counts credit at *)
(* the last refill, where the code settles it.                             *)
(***************************************************************************)
EXTENDS Guards, TLAPS

USE RateAssumption, CapacityAssumption, CostsAssumption, ClockAssumption

LEMMA Distributes == \A a, b, r \in Int : (a + b) * r = a * r + b * r
OBVIOUS

LEMMA Monotone == \A a, b \in Int, r \in Nat : a <= b => a * r <= b * r
OBVIOUS

\* A refill stays within the bucket, keeps what is there, and adds at most what
\* the elapsed span is worth.
LEMMA RefillBounds ==
  ASSUME Bucket!TypeOK
  PROVE  /\ Bucket!Refilled \in 0..Capacity
         /\ tokens <= Bucket!Refilled
         /\ Bucket!Refilled <= tokens + Bucket!Greatest(0, now - last) * Rate
<1> DEFINE span == Bucket!Greatest(0, now - last)
<1>1. span \in Nat
  BY DEF Bucket!TypeOK, Bucket!Greatest
<1>2. span * Rate \in Nat
  BY <1>1
<1> HIDE DEF span
<1>3. /\ Bucket!Least(Capacity, tokens + span * Rate) \in 0..Capacity
      /\ tokens <= Bucket!Least(Capacity, tokens + span * Rate)
      /\ Bucket!Least(Capacity, tokens + span * Rate) <= tokens + span * Rate
  BY <1>2 DEF Bucket!TypeOK, Bucket!Least
<1> QED
  BY <1>3 DEF Bucket!Refilled, span

\* What a refill adds is paid for by the forward motion since the last one.
LEMMA RefillIsPaidFor ==
  ASSUME Bucket!IInv
  PROVE  consumed + Bucket!Refilled <= Capacity + Rate * forward
<1> DEFINE span == Bucket!Greatest(0, now - last)
<1>1. span \in Nat /\ span <= forward - credited
  BY DEF Bucket!IInv, Bucket!TypeOK, Bucket!CreditIsCounted, Bucket!Greatest
<1>2. span * Rate <= (forward - credited) * Rate
  BY <1>1, Monotone DEF Bucket!IInv, Bucket!TypeOK
<1>3. (forward - credited) * Rate + Rate * credited = Rate * forward
  BY Distributes DEF Bucket!IInv, Bucket!TypeOK
<1>4. /\ Bucket!Refilled <= tokens + span * Rate /\ Bucket!Refilled \in Nat
      /\ consumed + tokens <= Capacity + Rate * credited
      /\ span * Rate \in Nat /\ Rate * credited \in Nat /\ Rate * forward \in Nat
      /\ (forward - credited) * Rate \in Int
  BY <1>1, RefillBounds DEF Bucket!IInv, Bucket!TypeOK, Bucket!CreditIsCounted
<1> HIDE DEF span
<1> QED
  BY <1>2, <1>3, <1>4 DEF Bucket!IInv, Bucket!TypeOK

\* Refilling keeps a promise's balance: two refills credit what one would.
LEMMA RefillKeepsPromise ==
  ASSUME Bucket!IInv, promise # Bucket!NoPromise
  PROVE  Bucket!Refilled =
           Bucket!Least(Capacity, promise.cost - promise.deficit + (now - promise.at) * Rate)
<1> DEFINE base == promise.cost - promise.deficit
           p    == (last - promise.at) * Rate
           q    == (now - last) * Rate
<1>1. /\ last - promise.at \in Nat /\ now - last \in Nat /\ base \in Int
      /\ tokens = Bucket!Least(Capacity, base + p)
  BY DEF Bucket!IInv, Bucket!TypeOK, Bucket!PromiseTracked
<1>2. p \in Nat /\ q \in Nat
  BY <1>1
<1>3. (now - promise.at) * Rate = p + q
  <2>1. now - promise.at = (last - promise.at) + (now - last)
    BY DEF Bucket!IInv, Bucket!TypeOK
  <2> QED
    BY <1>1, <2>1, Distributes
<1>4. Bucket!Refilled = Bucket!Least(Capacity, tokens + q)
  BY <1>1 DEF Bucket!Refilled, Bucket!Greatest
<1> HIDE DEF base, p, q
<1>5. Bucket!Least(Capacity, Bucket!Least(Capacity, base + p) + q)
        = Bucket!Least(Capacity, base + (p + q))
  BY <1>1, <1>2 DEF Bucket!Least
<1> QED
  BY <1>1, <1>3, <1>4, <1>5 DEF base

LEMMA InitEstablishes == Bucket!Init => Bucket!IInv
BY DEF Bucket!Init, Bucket!IInv, Bucket!TypeOK, Bucket!CreditIsCounted,
   Bucket!PromiseTracked, Bucket!NoPromise

\* A check keeps the invariant, whether it allows or denies.
LEMMA CheckPreserves ==
  ASSUME Bucket!IInv, NEW cost \in Costs, Bucket!Check(cost)
  PROVE  Bucket!IInv'
<1>1. tokens' = Bucket!Refilled /\ last' = now /\ credited' = forward
  BY DEF Bucket!Check, Bucket!Refill
<1>2. UNCHANGED <<now, forward, consumed>>
  BY DEF Bucket!Check, Bucket!Refill
<1>3. Bucket!CreditIsCounted'
  BY <1>1, <1>2, RefillIsPaidFor, RefillBounds
  DEF Bucket!IInv, Bucket!TypeOK, Bucket!CreditIsCounted
<1>4. CASE Bucket!Refilled >= cost
  <2>1. promise' = promise
    BY <1>4 DEF Bucket!Check
  <2>2. Bucket!TypeOK'
    BY <1>1, <1>2, <2>1, RefillBounds DEF Bucket!IInv, Bucket!TypeOK
  <2>3. Bucket!PromiseTracked'
    BY <1>1, <1>2, <2>1, RefillKeepsPromise
    DEF Bucket!IInv, Bucket!TypeOK, Bucket!PromiseTracked
  <2> QED
    BY <1>3, <2>2, <2>3 DEF Bucket!IInv
<1>5. CASE ~(Bucket!Refilled >= cost)
  <2>1. promise' = [at |-> now, cost |-> cost, deficit |-> cost - Bucket!Refilled]
    BY <1>5 DEF Bucket!Check
  <2>2. /\ cost \in 0..Capacity /\ Bucket!Refilled \in 0..Capacity
        /\ cost - Bucket!Refilled \in 1..Capacity
    BY <1>5, RefillBounds DEF Bucket!IInv
  <2>3. Bucket!TypeOK'
    BY <1>1, <1>2, <2>1, <2>2 DEF Bucket!IInv, Bucket!TypeOK
  <2>4. (now - now) * Rate = 0
    BY DEF Bucket!IInv, Bucket!TypeOK
  <2>5. Bucket!PromiseTracked'
    BY <1>1, <1>2, <2>1, <2>2, <2>4
    DEF Bucket!IInv, Bucket!TypeOK, Bucket!PromiseTracked, Bucket!Least
  <2> QED
    BY <1>3, <2>3, <2>5 DEF Bucket!IInv
<1> QED
  BY <1>4, <1>5

LEMMA NextPreserves == Bucket!IInv /\ [Bucket!Next]_(Bucket!vars) => Bucket!IInv'
<1> SUFFICES ASSUME Bucket!IInv, [Bucket!Next]_(Bucket!vars) PROVE Bucket!IInv'
  OBVIOUS
<1>1. ASSUME NEW d \in Steps, Bucket!TickForward(d) PROVE Bucket!IInv'
  BY <1>1 DEF Bucket!TickForward, Bucket!IInv, Bucket!TypeOK, Bucket!CreditIsCounted,
     Bucket!PromiseTracked
<1>2. ASSUME NEW d \in Steps, Bucket!TickBack(d) PROVE Bucket!IInv'
  BY <1>2 DEF Bucket!TickBack, Bucket!IInv, Bucket!TypeOK, Bucket!CreditIsCounted,
     Bucket!PromiseTracked, Bucket!NoPromise
<1>3. ASSUME NEW cost \in Costs, Bucket!Check(cost) PROVE Bucket!IInv'
  BY <1>3, CheckPreserves
<1>4. ASSUME NEW cost \in Costs, Bucket!Take(cost) PROVE Bucket!IInv'
  <2>1. /\ cost \in 0..Capacity /\ Bucket!Refilled \in 0..Capacity
        /\ Bucket!Refilled - cost \in 0..Capacity
    BY <1>4, RefillBounds DEF Bucket!Take, Bucket!IInv
  <2>2. Bucket!TypeOK'
    BY <1>4, <2>1 DEF Bucket!Take, Bucket!IInv, Bucket!TypeOK, Bucket!NoPromise
  <2>3. Bucket!CreditIsCounted'
    BY <1>4, <2>1, RefillIsPaidFor
    DEF Bucket!Take, Bucket!IInv, Bucket!TypeOK, Bucket!CreditIsCounted
  <2> QED
    BY <1>4, <2>2, <2>3 DEF Bucket!Take, Bucket!IInv, Bucket!PromiseTracked
<1>5. CASE UNCHANGED Bucket!vars
  BY <1>5 DEF Bucket!vars, Bucket!IInv, Bucket!TypeOK, Bucket!CreditIsCounted,
     Bucket!PromiseTracked
<1> QED
  BY <1>1, <1>2, <1>3, <1>4, <1>5 DEF Bucket!Next, Bucket!Consume

\* Whatever guard a behaviour is of, a step is one of the bucket's or leaves it alone.
LEMMA StepsBucket == [GuardsNext]_guards => [Bucket!Next]_(Bucket!vars)
BY DEF GuardsNext, guards, bucket, Bucket!vars

LEMMA Inductive == GuardsSpec => []Bucket!IInv
<1>1. GuardsInit => Bucket!IInv
  BY InitEstablishes DEF GuardsInit
<1>2. Bucket!IInv /\ [GuardsNext]_guards => Bucket!IInv'
  BY StepsBucket, NextPreserves
<1> QED
  BY <1>1, <1>2, PTL DEF GuardsSpec

--------------------------------------------------------------------------------
\* The balance never leaves 0..Capacity.
THEOREM TypeCorrect == GuardsSpec => []BucketTypeOK
<1>1. Bucket!IInv => BucketTypeOK
  BY DEF Bucket!IInv, BucketTypeOK
<1> QED
  BY <1>1, Inductive, PTL

\* The conservation law, over any timeline of the clock.
THEOREM ConservationHolds == GuardsSpec => []Conservation
<1>1. ASSUME Bucket!IInv PROVE Conservation
  <2>1. Rate * credited <= Rate * forward
    BY <1>1, Monotone DEF Bucket!IInv, Bucket!TypeOK, Bucket!CreditIsCounted
  <2>2. Rate * credited \in Nat /\ Rate * forward \in Nat
    BY <1>1 DEF Bucket!IInv, Bucket!TypeOK
  <2> QED
    BY <1>1, <2>1, <2>2
    DEF Bucket!IInv, Bucket!TypeOK, Bucket!CreditIsCounted, Conservation,
       Bucket!Conservation
<1> QED
  BY <1>1, Inductive, PTL

\* A denied caller that waits retry_after is not denied again for lack of time.
THEOREM RetryAfterIsExact == GuardsSpec => []RetryAfterHonest
<1>1. ASSUME Bucket!IInv, promise # Bucket!NoPromise
      PROVE  Bucket!Refilled >= promise.cost <=> (now - promise.at) * Rate >= promise.deficit
  <2> DEFINE waited == (now - promise.at) * Rate
  <2>1. /\ promise.cost \in 0..Capacity /\ promise.deficit \in 1..Capacity
        /\ now - promise.at \in Int
    BY <1>1 DEF Bucket!IInv, Bucket!TypeOK, Bucket!PromiseTracked
  <2>2. waited \in Int
    BY <2>1
  <2> HIDE DEF waited
  <2>3. Bucket!Least(Capacity, promise.cost - promise.deficit + waited) >= promise.cost
          <=> waited >= promise.deficit
    BY <2>1, <2>2 DEF Bucket!Least
  <2> QED
    BY <1>1, <2>3, RefillKeepsPromise DEF waited
<1> QED
  BY <1>1, Inductive, PTL DEF RetryAfterHonest, Bucket!RetryAfterHonest

\* Nothing but an allowed consume lowers the balance, whatever the clock does.
THEOREM OnlyTakingTakesAlways == GuardsSpec => OnlyTakingTakes
<1> DEFINE Taking == tokens' < tokens => consumed' > consumed
<1>1. ASSUME Bucket!IInv, [Bucket!Next]_(Bucket!vars) PROVE [Taking]_(Bucket!vars)
  <2> SUFFICES ASSUME Bucket!Next, tokens' < tokens PROVE consumed' > consumed
    BY <1>1
  <2>1. ~ \E d \in Steps : Bucket!TickForward(d) \/ Bucket!TickBack(d)
    BY <1>1 DEF Bucket!TickForward, Bucket!TickBack, Bucket!IInv, Bucket!TypeOK
  <2>2. ~ \E cost \in Costs : Bucket!Check(cost)
    BY <1>1, RefillBounds DEF Bucket!Check, Bucket!Refill, Bucket!IInv, Bucket!TypeOK
  <2>3. PICK cost \in Costs : Bucket!Take(cost)
    BY <2>1, <2>2 DEF Bucket!Next, Bucket!Consume
  <2>4. cost # 0
    BY <1>1, <2>3, RefillBounds DEF Bucket!Take, Bucket!IInv, Bucket!TypeOK
  <2> QED
    BY <1>1, <2>3, <2>4 DEF Bucket!Take, Bucket!IInv, Bucket!TypeOK
<1> QED
  BY <1>1, StepsBucket, Inductive, PTL
  DEF GuardsSpec, OnlyTakingTakes, Bucket!OnlyTakingTakes
================================================================================
