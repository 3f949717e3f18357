------------------------------ MODULE RetryProofs ------------------------------
(***************************************************************************)
(* For every policy, every budget and any time that fn and the sleeps      *)
(* take: the attempts are counted and the backoffs between them, the       *)
(* outcome is fn's own, giving up has a cause, and the overrun of a        *)
(* deadline is bounded. Everything follows from IInv, one conjunct of it   *)
(* at a time.                                                              *)
(***************************************************************************)
EXTENDS Retry, SequenceTheorems, TLAPS

\* The policy in force is one that RetryPolicy accepts.
LEMMA PolicyInForce ==
  ASSUME policy \in Policies
  PROVE  /\ policy.max_attempts \in Nat \ {0}
         /\ policy.base_delay \in Nat /\ policy.max_delay \in Nat
BY PolicyAssumption

\* delay_for is a number from nothing to the policy's cap.
LEMMA CeilingCapped ==
  ASSUME policy \in Policies, attempt \in 1..policy.max_attempts
  PROVE  Ceiling \in Nat /\ Ceiling <= policy.max_delay
<1>1. Power \in Nat
  <2>1. attempt - 1 \in 0..policy.max_attempts
    BY PolicyInForce
  <2> QED
    BY <2>1, PowerAssumption DEF Power
<1>2. policy.base_delay * Power \in Nat
  BY <1>1, PolicyInForce
<1> QED
  BY <1>2, PolicyInForce DEF Ceiling

\* A budget that is not spent has its end ahead, and one that is has it behind.
LEMMA ExpiredAtItsEnd ==
  ASSUME deadline # NoDeadline, deadline \in [seconds : Nat, start : Nat],
         now \in Nat, deadline.start <= now
  PROVE  OutOfTime <=> now >= End
BY DEF OutOfTime, Expired, Remaining, Elapsed, AtLeastZero, End

\* reset() starts the budget again, from now.
LEMMA ResetStartsNow ==
  ASSUME NEW d \in [seconds : Nat, start : Nat], NEW t \in Nat
  PROVE  Reset(d, t) \in [seconds : Nat, start : Nat] /\ Reset(d, t).start = t
BY DEF Reset

LEMMA InitEstablishes == Init => IInv
<1> SUFFICES ASSUME Init PROVE IInv
  OBVIOUS
<1>1. TypeOK
  BY DEF Init, TypeOK
<1>2. CallsCounted /\ OnlyTransientSoFar
  BY <1>1, PolicyInForce DEF Init, CallsCounted, OnlyTransientSoFar, TypeOK
<1>3. TimeIsWatched
  BY BudgetAssumption DEF Init, TimeIsWatched, Budget
<1>4. HonestOutcome /\ GivesUpForCause /\ OverrunBounded
  BY TimeAssumption DEF Init, HonestOutcome, GivesUpForCause, OverrunBounded, Pending
<1> QED
  BY <1>1, <1>2, <1>3, <1>4 DEF IInv

--------------------------------------------------------------------------------
\* A call of fn, whatever it does: one more outcome, at the end.
LEMMA TryPreserves ==
  ASSUME IInv, NEW outcome \in Outcomes, NEW d \in 0..MaxCall, Try(outcome, d)
  PROVE  IInv'
<1> USE TimeAssumption DEF Try, Unmoved
<1>tp. TypeOK /\ policy.max_delay \in Nat /\ d \in Nat /\ d <= MaxCall
  BY PolicyInForce DEF IInv, TypeOK
<1>0. pc' \in {"caught", "done"} /\ (pc' = "caught" => last' = attempt /\ outcome = "transient")
  BY DEF Finish, Caught, Outcomes
<1>1. TypeOK'
  BY <1>tp, <1>0 DEF TypeOK
<1>2. /\ Len(outcomes') = Len(outcomes) + 1 /\ Last(outcomes') = outcome
      /\ \A i \in DOMAIN outcomes' :
           outcomes'[i] = IF i = Len(outcomes') THEN outcome ELSE outcomes[i]
  BY <1>tp DEF TypeOK, Last
<1>3. Len(outcomes) = attempt - 1 /\ Len(outcomes') = attempt /\ attempt \in Nat
  BY <1>tp, <1>2, PolicyInForce DEF IInv, CallsCounted, TypeOK
<1>4. CallsCounted'
  BY <1>0, <1>3 DEF IInv, CallsCounted
<1>5. \A i \in DOMAIN outcomes' : i < Len(outcomes') => outcomes'[i] = "transient"
  BY <1>tp, <1>2, <1>3 DEF IInv, OnlyTransientSoFar, TypeOK
<1>6. OnlyTransientSoFar'
  BY <1>tp, <1>0, <1>1, <1>2, <1>3, <1>5 DEF IInv, OnlyTransientSoFar, TypeOK, Caught, Finish
<1>7. TimeIsWatched'
  BY <1>tp, <1>0 DEF IInv, TimeIsWatched, TypeOK
<1>8. HonestOutcome' /\ GivesUpForCause'
  <2>1. /\ result'.kind = "returned" => outcome = "ok"
        /\ result'.kind = "raised"   => outcome \in {"permanent", "interrupt"} /\ result'.by = attempt
        /\ result'.kind # "escaped"
    BY DEF IInv, OnlyTransientSoFar, Finish, Caught, Returned, Raised, Pending
  <2>2. outcomes' \in Seq(Outcomes)
    BY <1>1 DEF TypeOK
  <2>3. HonestOutcome'
    <3> HIDE DEF Try, Unmoved
    <3>1. \A i \in 1..(Len(outcomes') - 1) : outcomes'[i] = "transient"
      BY <1>3, <1>5, <2>2
    <3> QED
      BY <1>2, <1>3, <2>1, <3>1 DEF HonestOutcome
  <2>4. GivesUpForCause'
    <3> HIDE DEF Try, Unmoved
    <3> QED
      BY <1>2, <2>1 DEF GivesUpForCause
  <2> QED
    BY <2>3, <2>4
<1>9. OverrunBounded'
  <2> SUFFICES ASSUME deadline # NoDeadline
               PROVE  \/ now' <= started + MaxCall
                      \/ now' < End + policy.max_delay + Slack + MaxCall
    BY DEF OverrunBounded, End
  <2> QED
    BY <1>tp DEF IInv, TimeIsWatched, TypeOK, End
<1> QED
  BY <1>1, <1>4, <1>6, <1>7, <1>8, <1>9 DEF IInv

\* The three ways out of the handler.
LEMMA LeavingPreserves ==
  ASSUME IInv, GiveUp \/ Overflow \/ HookRaises
  PROVE  IInv'
<1> USE DEF GiveUp, Overflow, HookRaises, KeepsTrying, Finish, Unmoved
<1>tp. TypeOK /\ policy.max_attempts \in Nat
  BY PolicyInForce DEF IInv, TypeOK
<1>1. TypeOK'
  BY <1>tp DEF TypeOK
<1>2. CallsCounted'
  BY DEF IInv, CallsCounted
<1>3. OnlyTransientSoFar'
  BY DEF IInv, OnlyTransientSoFar
<1>4. TimeIsWatched'
  BY DEF IInv, TimeIsWatched, End
<1>5. OverrunBounded'
  BY DEF IInv, OverrunBounded
<1>6. Len(outcomes) = attempt /\ last = attempt /\ attempt \in Nat \ {0}
  BY <1>tp DEF IInv, CallsCounted, OnlyTransientSoFar
<1>7. Last(outcomes) = "transient" /\ \A i \in DOMAIN outcomes : outcomes[i] = "transient"
  BY <1>tp, <1>6 DEF IInv, OnlyTransientSoFar, TypeOK, Last
<1>8. HonestOutcome'
  BY <1>tp, <1>6, <1>7 DEF HonestOutcome, Raised, Escaped, TypeOK
<1>9. GivesUpForCause'
  <2>1. CASE GiveUp /\ OutOfTime
    <3>1. deadline # NoDeadline /\ now >= End
      BY <1>tp, <2>1, ExpiredAtItsEnd DEF IInv, TimeIsWatched, TypeOK, OutOfTime
    <3> QED
      BY <2>1, <3>1 DEF GivesUpForCause, End
  <2>2. CASE GiveUp /\ ~OutOfTime
    BY <1>6, <2>2 DEF GivesUpForCause
  <2>3. CASE Overflow \/ HookRaises
    BY <2>3 DEF GivesUpForCause, Escaped
  <2> QED
    BY <2>1, <2>2, <2>3
<1> QED
  BY <1>1, <1>2, <1>3, <1>4, <1>5, <1>8, <1>9 DEF IInv

\* A backoff begins only with attempts and time left.
LEMMA BackOffPreserves ==
  ASSUME IInv, BackOff
  PROVE  IInv'
<1> USE DEF BackOff, KeepsTrying, Unmoved
<1>tp. TypeOK /\ attempt \in 1..policy.max_attempts /\ policy.max_attempts \in Nat
  BY PolicyInForce DEF IInv, TypeOK, CallsCounted
<1>1. PICK delay \in Nat : delays' = Append(delays, delay) /\ delay <= policy.max_delay
  <2>1. Ceiling \in Nat /\ Ceiling <= policy.max_delay /\ policy.max_delay \in Nat
    BY <1>tp, CeilingCapped, PolicyInForce DEF TypeOK
  <2>2. PICK delay \in (IF policy.jitter THEN 0 ELSE Ceiling)..Ceiling :
          delays' = Append(delays, delay)
    OBVIOUS
  <2>3. delay \in Nat /\ delay <= Ceiling
    BY <2>1
  <2> QED
    BY <2>1, <2>2, <2>3
<1>2. TypeOK'
  BY <1>tp, <1>1 DEF TypeOK
<1>3. CallsCounted'
  BY <1>tp, <1>1 DEF IInv, CallsCounted, TypeOK
<1>4. OnlyTransientSoFar'
  BY DEF IInv, OnlyTransientSoFar
<1>5. TimeIsWatched'
  <2>1. deadline # NoDeadline => now < End
    BY <1>tp, ExpiredAtItsEnd DEF IInv, TimeIsWatched, TypeOK, End
  <2> QED
    BY <2>1 DEF IInv, TimeIsWatched, End
<1>6. HonestOutcome' /\ GivesUpForCause' /\ OverrunBounded'
  BY DEF IInv, HonestOutcome, GivesUpForCause, OverrunBounded
<1> QED
  BY <1>2, <1>3, <1>4, <1>5, <1>6 DEF IInv

\* A sleep ends at most one backoff and the slack after a moment within the budget.
LEMMA WakePreserves ==
  ASSUME IInv, NEW extra \in 0..Slack, Wake(extra)
  PROVE  IInv'
<1> USE TimeAssumption DEF Wake, Unmoved
<1>tp. TypeOK /\ policy.max_attempts \in Nat /\ policy.max_delay \in Nat /\ attempt \in Nat \ {0}
  BY PolicyInForce DEF IInv, TypeOK, CallsCounted
<1>1. Last(delays) \in Nat /\ Last(delays) <= policy.max_delay
  BY <1>tp DEF IInv, CallsCounted, TypeOK, Last
<1>2. TypeOK'
  BY <1>tp, <1>1 DEF TypeOK
<1>3. CallsCounted'
  BY <1>tp DEF IInv, CallsCounted
<1>4. OnlyTransientSoFar'
  BY DEF IInv, OnlyTransientSoFar
<1>5. TimeIsWatched' /\ OverrunBounded'
  <2>1. started \in Nat /\ now \in Nat /\ now' \in Nat /\ now <= now'
        /\ now' <= now + policy.max_delay + Slack
    BY <1>tp, <1>1 DEF TypeOK
  <2>2. CASE deadline = NoDeadline
    BY <2>1, <2>2 DEF IInv, TimeIsWatched, OverrunBounded
  <2>3. CASE deadline # NoDeadline
    <3>1. deadline \in [seconds : Nat, start : Nat] /\ deadline.start <= now /\ now < End
      BY <2>3 DEF IInv, TimeIsWatched
    <3>2. End \in Nat /\ deadline.start <= now' /\ now' < End + policy.max_delay + Slack
      <4> HIDE DEF Wake
      <4> QED
        BY <1>tp, <2>1, <3>1 DEF End
    <3>3. started <= now'
      BY <2>1 DEF IInv, TimeIsWatched
    <3> QED
      BY <1>tp, <2>1, <3>1, <3>2, <3>3 DEF TimeIsWatched, OverrunBounded, End
  <2> QED
    BY <2>2, <2>3
<1>6. HonestOutcome' /\ GivesUpForCause'
  BY DEF IInv, OnlyTransientSoFar, HonestOutcome, GivesUpForCause, Pending
<1> QED
  BY <1>2, <1>3, <1>4, <1>5, <1>6 DEF IInv

\* Another loop starts now, its deadline as it stands or started now.
LEMMA AgainPreserves ==
  ASSUME IInv, Again
  PROVE  IInv'
<1> USE TimeAssumption DEF Again
<1>tp. TypeOK /\ policy.max_attempts \in Nat \ {0} /\ policy.max_delay \in Nat
  BY PolicyInForce DEF IInv, TypeOK
<1>1. TypeOK'
  BY <1>tp DEF TypeOK
<1>2. CallsCounted' /\ OnlyTransientSoFar'
  BY <1>tp DEF CallsCounted, OnlyTransientSoFar
<1>3. TimeIsWatched'
  <2>1. deadline' # NoDeadline =>
          deadline' \in [seconds : Nat, start : Nat] /\ deadline'.start <= now
    <3> SUFFICES ASSUME deadline' # NoDeadline
                 PROVE  deadline' \in [seconds : Nat, start : Nat] /\ deadline'.start <= now
      OBVIOUS
    <3> DEFINE restarted == Reset(deadline, now)
    <3>1. deadline # NoDeadline /\ deadline' \in {deadline, restarted}
      OBVIOUS
    <3>2. deadline \in [seconds : Nat, start : Nat] /\ deadline.start <= now /\ now \in Nat
      BY <1>tp, <3>1 DEF IInv, TimeIsWatched, TypeOK
    <3>3. restarted \in [seconds : Nat, start : Nat] /\ restarted.start = now
      BY <3>2, ResetStartsNow
    <3> HIDE DEF restarted
    <3> QED
      BY <3>1, <3>2, <3>3
  <2> QED
    BY <1>tp, <2>1 DEF TimeIsWatched, TypeOK
<1>4. HonestOutcome' /\ GivesUpForCause'
  BY DEF HonestOutcome, GivesUpForCause, Pending
<1>5. OverrunBounded'
  BY <1>tp DEF OverrunBounded, TypeOK
<1> QED
  BY <1>1, <1>2, <1>3, <1>4, <1>5 DEF IInv

LEMMA NextPreserves == IInv /\ [Next]_vars => IInv'
<1> SUFFICES ASSUME IInv, [Next]_vars PROVE IInv'
  OBVIOUS
<1>1. CASE UNCHANGED vars
  BY <1>1 DEF vars, IInv, TypeOK, CallsCounted, OnlyTransientSoFar, TimeIsWatched, End,
              HonestOutcome, GivesUpForCause, OverrunBounded
<1> QED
  BY <1>1, TryPreserves, LeavingPreserves, BackOffPreserves, WakePreserves, AgainPreserves
  DEF Next, Loop

--------------------------------------------------------------------------------
LEMMA Inductive == Spec => []IInv
BY InitEstablishes, NextPreserves, PTL DEF Spec

\* "At most max_attempts times, one backoff between each pair of tries."
THEOREM AttemptsAndBackoffs == Spec => []OneBackoffBetweenTries
<1>1. IInv => OneBackoffBetweenTries
  <2> SUFFICES ASSUME IInv PROVE OneBackoffBetweenTries
    OBVIOUS
  <2>1. policy.max_attempts \in Nat /\ attempt \in 1..policy.max_attempts
    BY PolicyInForce DEF IInv, TypeOK, CallsCounted
  <2> QED
    BY <2>1 DEF IInv, TypeOK, CallsCounted, OneBackoffBetweenTries
<1> QED
  BY <1>1, Inductive, PTL

\* What the loop answers is what the last call of fn did, or over a transient failure
\* what the hook raised or an OverflowError.
THEOREM OutcomeIsHonest == Spec => []HonestOutcome
<1>1. IInv => HonestOutcome
  BY DEF IInv
<1> QED
  BY <1>1, Inductive, PTL

\* A transient failure is re-raised only when no attempt is left or the budget is
\* already spent.
THEOREM GivesUpOnlyForCause == Spec => []GivesUpForCause
<1>1. IInv => GivesUpForCause
  BY DEF IInv
<1> QED
  BY <1>1, Inductive, PTL

\* The loop outlives its budget by less than one backoff of max_delay, what its sleep
\* overran, and one call; or else it made one call only.
THEOREM OverrunIsBounded == Spec => []OverrunBounded
<1>1. IInv => OverrunBounded
  BY DEF IInv
<1> QED
  BY <1>1, Inductive, PTL
================================================================================
