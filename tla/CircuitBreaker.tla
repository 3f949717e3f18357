----------------------------- MODULE CircuitBreaker -----------------------------
(***************************************************************************)
(* codeforge_shelf/circuit_breaker.py over a single-threaded caller. Calls *)
(* still overlap: `call` spans allow() and record_*(), which are public,   *)
(* and the function it runs may call the breaker again. An operation in    *)
(* flight remembers the state it was admitted in.                          *)
(*                                                                         *)
(* The clock is injected. Only `clock() - _opened_at` is ever compared,    *)
(* with reset_timeout, so time is kept as ages that stop at ResetTimeout.  *)
(***************************************************************************)
EXTENDS Integers, FiniteSets, StateMachine

CONSTANTS Callers,       \* calls that may be in flight together
          Hung,          \* those whose function may never return
          Threshold,     \* self.failure_threshold
          ResetTimeout   \* self.reset_timeout, in ticks

CLOSED    == "closed"
OPEN      == "open"
HALF_OPEN == "half_open"
States    == {CLOSED, OPEN, HALF_OPEN}

Edges == << Transition(CLOSED,    "trip",    OPEN,      NoGuard),
            Transition(OPEN,      "timeout", HALF_OPEN, NoGuard),
            Transition(HALF_OPEN, "success", CLOSED,    NoGuard),
            Transition(HALF_OPEN, "failure", OPEN,      NoGuard) >>

Lifecycle == Build(States, CLOSED, Edges)

VARIABLES state,     \* self._state
          failures,  \* self._failures
          elapsed,   \* clock() - self._opened_at
          calls,     \* where each caller is
          healthy,   \* the dependency: once TRUE it no longer fails
          \* History, read by no action:
          streak,    \* failures recorded since the last success
          sinceOpen, \* age of the last change to OPEN
          quiet      \* age of the last failure recorded while the breaker was not OPEN

breaker == <<state, failures, elapsed>>
history == <<streak, sinceOpen, quiet>>
vars    == <<state, failures, elapsed, calls, healthy, streak, sinceOpen, quiet>>

InFlight  == {CLOSED, HALF_OPEN}
Ages      == 0..ResetTimeout

Older(age)   == IF age < ResetTimeout THEN age + 1 ELSE age
Count(n)     == IF n < Threshold THEN n + 1 ELSE n

\* The clock has any origin and _opened_at starts at 0.0.
Init ==
  /\ state     = Lifecycle.start
  /\ failures  = 0
  /\ elapsed   \in Ages
  /\ calls     = [c \in Callers |-> "idle"]
  /\ healthy   = FALSE
  /\ streak    = 0
  /\ sinceOpen = ResetTimeout
  /\ quiet     = ResetTimeout

\* _fire: an event that is illegal in the current state is ignored.
Fire(from, event) ==
  LET outcome == Advance(Lifecycle, from, event, NoRegistry)
  IN  IF outcome.kind = "fired" THEN outcome.dst ELSE from

\* The state _maybe_recover leaves behind.
Recovered ==
  IF state = OPEN /\ elapsed >= ResetTimeout THEN Fire(state, "timeout") ELSE state

Tick ==
  /\ elapsed'   = Older(elapsed)
  /\ sinceOpen' = Older(sinceOpen)
  /\ quiet'     = Older(quiet)
  /\ UNCHANGED <<state, failures, calls, healthy, streak>>

\* state(): reading the state may move it.
Poll ==
  /\ state' = Recovered
  /\ UNCHANGED <<failures, elapsed, calls, healthy, history>>

\* allow(), or the first half of call(): run the operation or reject it.
Call(c) ==
  /\ calls[c] \notin InFlight
  /\ state' = Recovered
  /\ calls' = [calls EXCEPT ![c] = IF state' = OPEN THEN "rejected" ELSE state']
  /\ UNCHANGED <<failures, elapsed, healthy, history>>

Return(c) ==
  /\ calls[c] \in InFlight
  /\ calls' = [calls EXCEPT ![c] = "idle"]

\* Mutant of RecordSuccess: only a probe's success clears the count.
RecordSuccessKeepsCount(c) ==
  /\ Return(c)
  /\ state'    = IF state = HALF_OPEN THEN Fire(state, "success") ELSE state
  /\ failures' = IF state = HALF_OPEN THEN 0 ELSE failures
  /\ streak'   = 0
  /\ UNCHANGED <<elapsed, healthy, sinceOpen, quiet>>

\* Mutant of RecordSuccess: the probe's success is not fired.
RecordSuccessNeverCloses(c) ==
  /\ Return(c)
  /\ failures' = 0
  /\ streak'   = 0
  /\ UNCHANGED <<state, elapsed, healthy, sinceOpen, quiet>>

\* The operation returned. Note that record_success does not look at the clock.
RecordSuccess(c) ==
  /\ Return(c)
  /\ state'    = IF state = HALF_OPEN THEN Fire(state, "success") ELSE state
  /\ failures' = 0
  /\ streak'   = 0
  /\ UNCHANGED <<elapsed, healthy, sinceOpen, quiet>>

\* Mutant of Reopen: if nobody asked since the window was over, _opened_at is kept.
ReopenKeepsWindow ==
  /\ state'   = Fire(Recovered, "failure")
  /\ elapsed' = IF state = OPEN THEN elapsed ELSE 0
  /\ UNCHANGED failures

\* record_failure in HALF_OPEN.
Reopen ==
  /\ state'   = Fire(Recovered, "failure")
  /\ elapsed' = 0
  /\ UNCHANGED failures

\* Mutant of CountFailure: `>` for `>=`.
CountFailureLate ==
  LET tripped == failures + 1 > Threshold
  IN  /\ failures' = failures + 1
      /\ state'    = IF tripped THEN Fire(Recovered, "trip") ELSE Recovered
      /\ elapsed'  = IF tripped THEN 0 ELSE elapsed

\* record_failure in CLOSED.
CountFailure ==
  LET tripped == failures + 1 >= Threshold
  IN  /\ failures' = failures + 1
      /\ state'    = IF tripped THEN Fire(Recovered, "trip") ELSE Recovered
      /\ elapsed'  = IF tripped THEN 0 ELSE elapsed

\* What is remembered of a failure. One that comes past the window is a probe's: the
\* breaker is HALF_OPEN for it, and opens anew, within the one call.
Remember ==
  /\ streak'    = Count(streak)
  /\ sinceOpen' = IF Recovered # OPEN /\ state' = OPEN THEN 0 ELSE sinceOpen
  /\ quiet'     = IF Recovered # OPEN THEN 0 ELSE quiet

\* Mutant of RecordFailure: a late failure in OPEN starts the window again.
RecordFailureStretches(c) ==
  /\ ~healthy
  /\ Return(c)
  /\ \/ Recovered = HALF_OPEN /\ Reopen
     \/ Recovered = CLOSED    /\ CountFailure
     \/ Recovered = OPEN      /\ elapsed' = 0 /\ UNCHANGED <<state, failures>>
  /\ Remember
  /\ UNCHANGED healthy

\* The operation raised an Exception. In OPEN the failure changes nothing.
RecordFailure(c) ==
  /\ ~healthy
  /\ Return(c)
  /\ \/ Recovered = HALF_OPEN /\ Reopen
     \/ Recovered = CLOSED    /\ CountFailure
     \/ Recovered = OPEN      /\ UNCHANGED breaker
  /\ Remember
  /\ UNCHANGED healthy

\* A KeyboardInterrupt or SystemExit passes `except Exception`: nothing is recorded.
Abort(c) ==
  /\ Return(c)
  /\ UNCHANGED <<breaker, healthy, history>>

Heal ==
  /\ ~healthy
  /\ healthy' = TRUE
  /\ UNCHANGED <<breaker, calls, history>>

Next ==
  \/ Tick \/ Poll \/ Heal
  \/ \E c \in Callers : Call(c) \/ RecordSuccess(c) \/ RecordFailure(c) \/ Abort(c)

Spec == Init /\ [][Next]_vars

\* Time passes; a caller that is not hung keeps calling, gets an answer, and is
\* not interrupted every single time. Hung callers owe nothing.
Fairness ==
  /\ WF_vars(Tick)
  /\ \A c \in Callers \ Hung : WF_vars(Call(c)) /\ SF_vars(RecordSuccess(c))

FairSpec == Spec /\ Fairness

--------------------------------------------------------------------------------
TypeOK ==
  /\ state     \in States
  /\ failures  \in 0..Threshold
  /\ elapsed   \in Ages
  /\ calls     \in [Callers -> InFlight \cup {"idle", "rejected"}]
  /\ healthy   \in BOOLEAN
  /\ streak    \in 0..Threshold
  /\ sinceOpen \in Ages
  /\ quiet     \in Ages

\* The breaker opens exactly when a run of `threshold` failures occurs: it leaves
\* CLOSED on the step that completes such a run, and on no other, however the
\* calls that fail and succeed overlap.
TripsOnARun == [][state = CLOSED => (state' # CLOSED <=> streak' = Threshold)]_vars

\* Fail fast: no operation is started within reset_timeout of the breaker opening, be
\* it from CLOSED, from HALF_OPEN, or anew from OPEN by a failure past the window.
FailsFast ==
  [][\A c \in Callers : calls[c] \notin InFlight /\ calls'[c] \in InFlight
                          => sinceOpen = ResetTimeout]_vars

\* A call is turned away only if less than reset_timeout ago a failure was recorded
\* that the breaker was not already OPEN for: one that nobody polls does not stay shut
\* beyond its window, and failures that come late, in OPEN, do not stretch it.
RejectsForCause ==
  [][\A c \in Callers : calls[c] # "rejected" /\ calls'[c] = "rejected"
                          => quiet < ResetTimeout]_vars

\* Once the dependency is well the breaker closes for good, even if some probe
\* hangs in HALF_OPEN for ever.
Recovers == healthy ~> [](state = CLOSED)

\* "After a reset timeout it moves to HALF_OPEN and lets ONE probe through."
OneProbe == state = HALF_OPEN => Cardinality({c \in Callers : calls[c] = HALF_OPEN}) <= 1

--------------------------------------------------------------------------------
\* What makes the action properties inductive: in CLOSED the counter is the run,
\* the code's window is never older than the breaker's opening, and an open
\* breaker's window started with a recorded failure.
CountIsRun    == state = CLOSED => failures = streak /\ failures < Threshold
WindowIsFresh == /\ state = OPEN => elapsed <= sinceOpen /\ quiet <= elapsed
                 /\ state # OPEN => sinceOpen = ResetTimeout

IInv == TypeOK /\ CountIsRun /\ WindowIsFresh
================================================================================
