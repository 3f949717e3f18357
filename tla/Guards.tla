--------------------------------- MODULE Guards ---------------------------------
(***************************************************************************)
(* The guards a caller puts around work that may fail or be too much: the  *)
(* bulkhead, the circuit breaker and the token bucket, one of them at a    *)
(* time. They share no state, so a behaviour is a behaviour of one. The    *)
(* bulkhead is the one that is extended.                                   *)
(***************************************************************************)
EXTENDS Bulkhead

CONSTANTS Callers, Hung, Threshold, ResetTimeout,             \* circuit breaker
          Rate, Capacity, Costs, Steps, LastTick, MaxForward  \* token bucket

\* The checks of the breaker's __post_init__.
ASSUME ThresholdAssumption == Threshold \in Nat \ {0}
ASSUME TimeoutAssumption   == ResetTimeout \in Nat
ASSUME CallersAssumption   == Hung \subseteq Callers

\* The bucket's _require_positive and _validate_cost.
ASSUME RateAssumption     == Rate \in Nat \ {0}
ASSUME CapacityAssumption == Capacity \in Nat \ {0}
ASSUME CostsAssumption    == Costs \subseteq 0..Capacity
ASSUME ClockAssumption    == /\ Steps \subseteq Nat \ {0}
                             /\ LastTick \in Nat /\ MaxForward \in Nat

VARIABLES guard, \* which of the guards this behaviour is of
          state, failures, elapsed, calls, healthy, streak, sinceOpen, quiet,
          tokens, last, now, forward, credited, consumed, promise

Breaker == INSTANCE CircuitBreaker
Bucket  == INSTANCE TokenBucket

breaker == <<state, failures, elapsed, calls, healthy, streak, sinceOpen, quiet>>
bucket  == <<tokens, last, now, forward, credited, consumed, promise>>
guards  == <<guard, vars, breaker, bucket>>

GuardsInit ==
  /\ guard \in {"bulkhead", "breaker", "bucket"}
  /\ Init /\ Breaker!Init /\ Bucket!Init

GuardsNext ==
  \/ guard = "bulkhead" /\ Next         /\ UNCHANGED <<guard, breaker, bucket>>
  \/ guard = "breaker"  /\ Breaker!Next /\ UNCHANGED <<guard, vars, bucket>>
  \/ guard = "bucket"   /\ Bucket!Next  /\ UNCHANGED <<guard, vars, breaker>>

GuardsSpec == GuardsInit /\ [][GuardsNext]_guards

\* What each guard's module assumes of the scheduling, in a behaviour of that guard:
\* InLock of the bulkhead is enabled in no other.
GuardsFairness ==
  /\ Fairness
  /\ WF_breaker(guard = "breaker" /\ Breaker!Tick)
  /\ \A c \in Callers \ Hung :
       /\ WF_breaker(guard = "breaker" /\ Breaker!Call(c))
       /\ SF_breaker(guard = "breaker" /\ Breaker!RecordSuccess(c))

FairGuardsSpec == GuardsSpec /\ GuardsFairness

--------------------------------------------------------------------------------
\* The properties of the breaker and the bucket, each stated in its module, where the
\* guard is the one that moves. Those that speak of steps hold of any behaviour.
BreakerTypeOK    == guard = "breaker" => Breaker!TypeOK
TripsOnARun      == Breaker!TripsOnARun
FailsFast        == Breaker!FailsFast
RejectsForCause  == Breaker!RejectsForCause
Recovers         == Breaker!Recovers
BucketTypeOK     == guard = "bucket" => Bucket!TypeOK
Conservation     == guard = "bucket" => Bucket!Conservation
RetryAfterHonest == guard = "bucket" => Bucket!RetryAfterHonest
OnlyTakingTakes  == Bucket!OnlyTakingTakes
================================================================================
