------------------------------ MODULE TokenBucket ------------------------------
(***************************************************************************)
(* codeforge_shelf/token_bucket.py. Tokens and seconds are whole numbers   *)
(* of a unit fine enough for the rate, the capacity and the costs; the     *)
(* rounding of floats is not modelled. The injected clock normally goes    *)
(* forward, but may step back.                                             *)
(***************************************************************************)
EXTENDS Integers

CONSTANTS Rate,      \* self.rate
          Capacity,  \* self.capacity
          Costs,     \* the costs callers ask for, past _validate_cost
          Steps,     \* how far the clock may jump, either way
          LastTick,  \* bound: the clock's readings are 0..LastTick
          MaxForward \* bound: how much forward motion is explored

VARIABLES tokens,   \* self._tokens
          last,     \* self._last
          now,      \* what the clock reads
          \* History, read by no action:
          forward,  \* how far the clock has moved forward, in total
          credited, \* the forward motion up to the last refill
          consumed, \* tokens taken so far
          promise   \* the last denial still in force: when, for what, how short

vars == <<tokens, last, now, forward, credited, consumed, promise>>

NoPromise == [at |-> 0, cost |-> 0, deficit |-> 0]

Init ==
  /\ now      \in 0..LastTick
  /\ tokens   = Capacity
  /\ last     = now
  /\ forward  = 0
  /\ credited = 0
  /\ consumed = 0
  /\ promise  = NoPromise

Least(a, b)    == IF a <= b THEN a ELSE b
Greatest(a, b) == IF a >= b THEN a ELSE b

TickForward(d) ==
  /\ now + d <= LastTick
  /\ forward + d <= MaxForward
  /\ now'     = now + d
  /\ forward' = forward + d
  /\ UNCHANGED <<tokens, last, credited, consumed, promise>>

\* A promise to wait so many seconds says nothing once the clock has gone back.
TickBack(d) ==
  /\ d <= now
  /\ now'     = now - d
  /\ promise' = NoPromise
  /\ UNCHANGED <<tokens, last, forward, credited, consumed>>

\* Mutants of Refilled: no cap, and no max(0.0, ...) around the elapsed time.
RefilledUncapped == tokens + Greatest(0, now - last) * Rate
RefilledBackward == Least(Capacity, tokens + (now - last) * Rate)

\* _tokens after a refill at this instant.
Refilled == Least(Capacity, tokens + Greatest(0, now - last) * Rate)

\* Mutant of Refill: the refilled span is counted again next time.
RefillKeepsLast ==
  /\ tokens'   = Refilled
  /\ credited' = forward
  /\ UNCHANGED <<last, now, forward>>

\* Mutant of Refill: the span is used up but not credited.
RefillForgets ==
  /\ last'     = now
  /\ credited' = forward
  /\ UNCHANGED <<tokens, now, forward>>

\* _refill: the credit, then the instant it is good for.
Refill ==
  /\ tokens'   = Refilled
  /\ last'     = now
  /\ credited' = forward
  /\ UNCHANGED <<now, forward>>

\* check(): refills and answers; a denial says how long to wait.
Check(cost) ==
  /\ Refill
  /\ IF Refilled >= cost
       THEN UNCHANGED promise
       ELSE promise' = [at |-> now, cost |-> cost, deficit |-> cost - Refilled]
  /\ UNCHANGED consumed

\* consume() that is allowed. The tokens are gone, so promises to others lapse.
Take(cost) ==
  /\ Refilled >= cost
  /\ tokens'   = Refilled - cost
  /\ last'     = now
  /\ credited' = forward
  /\ consumed' = consumed + cost
  /\ promise'  = NoPromise
  /\ UNCHANGED <<now, forward>>

\* consume() that is denied is a check().
Consume(cost) == Take(cost) \/ (Refilled < cost /\ Check(cost))

Next ==
  \/ \E d \in Steps : TickForward(d) \/ TickBack(d)
  \/ \E cost \in Costs : Check(cost) \/ Consume(cost)

Spec == Init /\ [][Next]_vars

--------------------------------------------------------------------------------
TypeOK ==
  /\ tokens   \in 0..Capacity
  /\ last     \in Nat
  /\ now      \in Nat
  /\ forward  \in Nat
  /\ credited \in Nat
  /\ consumed \in Nat
  /\ promise  \in [at : Nat, cost : 0..Capacity, deficit : 0..Capacity]

\* The conservation law of the limiter over any timeline, a clock that steps back
\* included: what was taken and what is left never exceed the initial burst and
\* what the clock's forward motion was worth.
Conservation == consumed + tokens <= Capacity + Rate * forward

\* retry_after is honest: until somebody takes tokens or the clock goes back, the
\* denied cost is allowed from exactly the promised instant on, and not before,
\* however many peeks refill the bucket in between.
RetryAfterHonest ==
  promise # NoPromise =>
    (Refilled >= promise.cost <=> (now - promise.at) * Rate >= promise.deficit)

\* "A non-monotonic clock never removes tokens": only an allowed consume does.
OnlyTakingTakes == [][tokens' < tokens => consumed' > consumed]_vars

--------------------------------------------------------------------------------
\* Inductive forms: the law at the last refill, and the balance a promise implies.
CreditIsCounted == /\ consumed + tokens <= Capacity + Rate * credited
                   /\ credited <= forward
                   /\ now - last <= forward - credited

PromiseTracked ==
  promise # NoPromise =>
    /\ promise.at <= last /\ last <= now
    /\ 0 < promise.deficit
    /\ tokens = Least(Capacity, promise.cost - promise.deficit + (last - promise.at) * Rate)

IInv == TypeOK /\ CreditIsCounted /\ PromiseTracked
================================================================================
