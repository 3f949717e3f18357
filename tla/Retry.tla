--------------------------------- MODULE Retry ---------------------------------
(***************************************************************************)
(* codeforge_shelf/retry.py: run_with_retries, step by step, with the time *)
(* the function, the sleep and the deadline see. The policy is any of a    *)
(* set of them; `fn` and `on_retry` may do what Python lets them do.       *)
(* An exception is the number of the try that raised it.                   *)
(***************************************************************************)
EXTENDS Deadline, Sequences, SequencesExt

CONSTANTS Policies,   \* [max_attempts, base_delay, factor, max_delay, jitter]
          Budgets,    \* self.seconds of the deadlines passed in
          NoDeadline, \* deadline=None
          FloatMax,   \* the largest float
          MaxCall,    \* how long fn may take
          Slack,      \* how long a sleep may overrun
          MaxRuns     \* bound: loops run under one Deadline

\* RetryPolicy.__post_init__ and Deadline.__post_init__.
ASSUME PolicyAssumption ==
  \A p \in Policies : /\ p.max_attempts \in Nat \ {0}
                      /\ p.base_delay \in Nat /\ p.max_delay \in Nat
                      /\ p.factor \in Nat \ {0}
                      /\ p.jitter \in BOOLEAN
\* A power of a natural number is one; no prover here knows more than that it is an integer.
ASSUME PowerAssumption ==
  \A p \in Policies : \A k \in 0..p.max_attempts : p.factor ^ k \in Nat
ASSUME BudgetAssumption == Budgets \subseteq Nat
ASSUME TimeAssumption   == MaxCall \in Nat /\ Slack \in Nat /\ MaxRuns \in Nat

VARIABLES policy,    \* the policy argument
          deadline,  \* the deadline argument
          now,       \* what the clock reads
          pc,        \* "try", "caught", "sleep", or "done"
          attempt,   \* the loop variable
          last,      \* the last transient exception, 0 for None
          outcomes,  \* what each call of fn did, in order
          delays,    \* what was slept, in order
          result,    \* how the loop ended
          started,   \* when the loop began
          runs       \* how many loops have begun

vars == <<policy, deadline, now, pc, attempt, last, outcomes, delays, result, started, runs>>

Pending    == [kind |-> "pending"]
Returned   == [kind |-> "returned"]
Raised(k)  == [kind |-> "raised", by |-> k]      \* the exception of try k
Escaped(e) == [kind |-> "escaped", error |-> e]  \* an exception not of fn's making

Init ==
  /\ policy   \in Policies
  /\ now      = 0
  /\ deadline \in {Budget(s, 0) : s \in Budgets} \cup {NoDeadline}
  /\ pc = "try" /\ attempt = 1 /\ last = 0
  /\ outcomes = <<>> /\ delays = <<>> /\ result = Pending
  /\ started  = 0
  /\ runs     = 1

Unmoved == UNCHANGED <<policy, deadline, started, runs>>

Finish(r) == pc' = "done" /\ result' = r

\* Mutant of Caught: the first failure is the one that is kept.
CaughtFirst == pc' = "caught" /\ last' = (IF last = 0 THEN attempt ELSE last)

\* `last = exc`.
Caught == pc' = "caught" /\ last' = attempt

\* fn() is called and takes d: it returns, raises an exception the policy will
\* retry, raises one it will not, or is interrupted by a BaseException.
Try(outcome, d) ==
  /\ pc = "try"
  /\ now'      = now + d
  /\ outcomes' = Append(outcomes, outcome)
  /\ \/ /\ outcome = "ok"
        /\ Finish(Returned)
        /\ UNCHANGED last
     \/ /\ outcome \in {"permanent", "interrupt"}
        /\ Finish(Raised(attempt))
        /\ UNCHANGED last
     \/ /\ outcome = "transient"
        /\ Caught
        /\ UNCHANGED result
  /\ UNCHANGED <<attempt, delays>>
  /\ Unmoved

\* Mutant of OutOfTime: a budget spent to the last second is not expired.
OutOfTimeLate == deadline # NoDeadline /\ Elapsed(deadline, now) > deadline.seconds

OutOfTime == deadline # NoDeadline /\ Expired(deadline, now)

\* Mutant of GiveUp: running out of attempts does not end the loop.
GiveUpOnTimeOnly ==
  /\ pc = "caught"
  /\ OutOfTime
  /\ Finish(Raised(last))
  /\ UNCHANGED <<now, attempt, last, outcomes, delays>>
  /\ Unmoved

\* The budget is spent, or the range of attempts is: `raise last`.
GiveUp ==
  /\ pc = "caught"
  /\ OutOfTime \/ attempt = policy.max_attempts
  /\ Finish(Raised(last))
  /\ UNCHANGED <<now, attempt, last, outcomes, delays>>
  /\ Unmoved

Power == policy.factor ^ (attempt - 1)

\* delay_for(attempt): base * factor**(attempt-1), capped.
Ceiling ==
  LET raw == policy.base_delay * Power
  IN  IF raw < policy.max_delay THEN raw ELSE policy.max_delay

\* Mutant of KeepsTrying: the range of attempts is one too long.
KeepsTryingOnceMore == pc = "caught" /\ ~OutOfTime /\ attempt <= policy.max_attempts

KeepsTrying == pc = "caught" /\ ~OutOfTime /\ attempt < policy.max_attempts

\* A float power past the largest float raises OverflowError, before the cap.
Overflow ==
  /\ KeepsTrying
  /\ Power > FloatMax
  /\ Finish(Escaped("OverflowError"))
  /\ UNCHANGED <<now, attempt, last, outcomes, delays>>
  /\ Unmoved

\* on_retry is the caller's: what it raises leaves the loop.
HookRaises ==
  /\ KeepsTrying
  /\ Power <= FloatMax
  /\ Finish(Escaped("on_retry"))
  /\ UNCHANGED <<now, attempt, last, outcomes, delays>>
  /\ Unmoved

\* The delay is chosen, all of the ceiling or with jitter any part of it, and
\* sleep(delay) begins.
BackOff ==
  /\ KeepsTrying
  /\ Power <= FloatMax
  /\ \E delay \in (IF policy.jitter THEN 0 ELSE Ceiling)..Ceiling :
       delays' = Append(delays, delay)
  /\ pc' = "sleep"
  /\ UNCHANGED <<now, attempt, last, outcomes, result>>
  /\ Unmoved

\* The sleep is over, perhaps late, and the loop goes round.
Wake(extra) ==
  /\ pc = "sleep"
  /\ now'     = now + Last(delays) + extra
  /\ attempt' = attempt + 1
  /\ pc'      = "try"
  /\ UNCHANGED <<last, outcomes, delays, result>>
  /\ Unmoved

\* Another loop under the same Deadline, as it stands or reset().
Again ==
  /\ pc = "done" /\ runs < MaxRuns
  /\ deadline' \in IF deadline = NoDeadline THEN {NoDeadline}
                   ELSE {deadline, Reset(deadline, now)}
  /\ pc' = "try" /\ attempt' = 1 /\ last' = 0
  /\ outcomes' = <<>> /\ delays' = <<>> /\ result' = Pending
  /\ runs'    = runs + 1
  /\ started' = now
  /\ UNCHANGED <<policy, now>>

Outcomes == {"ok", "transient", "permanent", "interrupt"}

Loop ==
  \/ \E outcome \in Outcomes, d \in 0..MaxCall : Try(outcome, d)
  \/ GiveUp \/ Overflow \/ HookRaises \/ BackOff
  \/ \E extra \in 0..Slack : Wake(extra)

Next == Loop \/ Again

Spec == Init /\ [][Next]_vars

\* fn and sleep come back; the loop has nothing else to wait for.
FairSpec == Spec /\ WF_vars(Loop)

--------------------------------------------------------------------------------
\* "fn is called at most max_attempts times, one backoff between each pair of
\* tries", and no backoff is longer than the policy's cap.
OneBackoffBetweenTries ==
  /\ Len(outcomes) <= policy.max_attempts
  /\ pc \in {"try", "sleep"} => Len(delays) = Len(outcomes)
  /\ pc \in {"caught", "done"} => Len(delays) = Len(outcomes) - 1
  /\ \A i \in DOMAIN delays : delays[i] <= policy.max_delay

\* Never confused: the loop answers with what its last call of fn did, every earlier
\* call having failed transiently, unless the hook or an OverflowError ends it with an
\* exception of its own, and then only over a transient failure; a success is never
\* retried.
HonestOutcome ==
  /\ \A i \in 1..(Len(outcomes) - 1) : outcomes[i] = "transient"
  /\ result.kind = "returned" => Last(outcomes) = "ok"
  /\ result.kind = "raised"   => Last(outcomes) # "ok" /\ result.by = Len(outcomes)
  /\ result.kind = "escaped"  => Last(outcomes) = "transient"

\* A transient failure is re-raised only for cause: no attempts left, or the budget
\* spent by the time it was raised.
GivesUpForCause ==
  result.kind = "raised" /\ Last(outcomes) = "transient" =>
    \/ Len(outcomes) = policy.max_attempts
    \/ deadline # NoDeadline /\ now >= deadline.start + deadline.seconds

\* How much a deadline really bounds the loop: it runs past the budget's end by less
\* than one backoff as long as the policy has any, what a sleep overruns, and one call,
\* begun after the end perhaps; and if it began with the budget spent it makes one call.
OverrunBounded ==
  deadline # NoDeadline =>
    \/ now <= started + MaxCall
    \/ now < deadline.start + deadline.seconds + policy.max_delay + Slack + MaxCall

\* Every loop ends.
Terminates == (pc = "try") ~> (pc = "done")

--------------------------------------------------------------------------------
\* What makes the properties above inductive. Where the loop stands in its range says
\* how many calls and sleeps lie behind it;
CallsCounted ==
  /\ attempt \in 1..policy.max_attempts
  /\ Len(outcomes) = IF pc = "try" THEN attempt - 1 ELSE attempt
  /\ Len(delays)   = IF pc = "sleep" THEN attempt ELSE attempt - 1
  /\ pc = "sleep" => attempt < policy.max_attempts
  /\ \A i \in DOMAIN delays : delays[i] <= policy.max_delay

\* nothing but transient failures lies behind a loop that goes on, and the last of
\* them is the one that is kept;
OnlyTransientSoFar ==
  /\ \A i \in DOMAIN outcomes : i < Len(outcomes) \/ pc # "done" => outcomes[i] = "transient"
  /\ pc # "done"   => result = Pending
  /\ pc = "caught" => last = Len(outcomes)

\* and a loop that has slept did so with time left, one backoff before.
End == deadline.start + deadline.seconds
TimeIsWatched ==
  /\ started <= now
  /\ deadline # NoDeadline =>
       /\ deadline \in [seconds : Nat, start : Nat] /\ deadline.start <= now
       /\ pc = "try"   => now <= started \/ now < End + policy.max_delay + Slack
       /\ pc = "sleep" => now < End

TypeOK ==
  /\ policy \in Policies
  /\ now \in Nat /\ started \in Nat
  /\ pc \in {"try", "caught", "sleep", "done"}
  /\ outcomes \in Seq(Outcomes)
  /\ delays \in Seq(Nat)

IInv ==
  /\ TypeOK /\ CallsCounted /\ OnlyTransientSoFar /\ TimeIsWatched
  /\ HonestOutcome /\ GivesUpForCause /\ OverrunBounded

--------------------------------------------------------------------------------
\* "Once its budget is spent, retrying stops early (no further attempt)."
NoAttemptAfterBudget == pc = "try" /\ attempt > 1 => ~OutOfTime

\* "After the last attempt re-raises the final failure (never swallowed)": what
\* leaves the loop when no hook interferes is always fn's own outcome.
FinalFailureReraised ==
  pc = "done" /\ Last(outcomes) = "transient" =>
    result \in {Raised(Len(outcomes)), Escaped("on_retry")}
================================================================================
