-------------------------- MODULE CircuitBreakerProofs --------------------------
(***************************************************************************)
(* For every threshold, timeout and set of callers: the breaker opens on a *)
(* run of failures and on nothing else, and then fails fast for its whole  *)
(* window and no longer than the failures justify. The argument is IInv:   *)
(* in CLOSED the counter is the run, and in OPEN the window the code times *)
(* lies between the age of the opening and that of the last failure.       *)
(***************************************************************************)
EXTENDS Guards, TLAPS

\* build() accepts the lifecycle: importing the module does not raise.
LEMMA MachineBuilds == Breaker!Buildable(Breaker!States, Breaker!CLOSED, Breaker!Edges)
BY DEF Breaker!Buildable, Breaker!States, Breaker!Edges, Breaker!Transition,
   Breaker!EdgeKey, Breaker!CLOSED, Breaker!OPEN, Breaker!HALF_OPEN

\* The index holds the four edges and nothing else.
LEMMA TheIndex ==
  /\ \A from, event :
       <<from, event>> \in DOMAIN Breaker!Lifecycle.index <=>
         \E i \in 1..4 : from = Breaker!Edges[i].src /\ event = Breaker!Edges[i].event
  /\ \A i \in 1..4 : Breaker!Lifecycle.index[Breaker!EdgeKey(Breaker!Edges[i])] = Breaker!Edges[i]
<1> DEFINE Keys == {Breaker!EdgeKey(Breaker!Edges[i]) : i \in DOMAIN Breaker!Edges}
           Pick(k) == CHOOSE i \in DOMAIN Breaker!Edges : Breaker!EdgeKey(Breaker!Edges[i]) = k
<1>1. DOMAIN Breaker!Edges = 1..4
  BY DEF Breaker!Edges
<1>2. Breaker!Lifecycle.index = [k \in Keys |-> Breaker!Edges[Pick(k)]]
  BY DEF Breaker!Lifecycle, Breaker!Build
<1>3. \A i \in 1..4 : Pick(Breaker!EdgeKey(Breaker!Edges[i])) = i
  BY <1>1, MachineBuilds DEF Breaker!Buildable
<1>4. \A from, event : <<from, event>> \in Keys <=>
         \E i \in 1..4 : from = Breaker!Edges[i].src /\ event = Breaker!Edges[i].event
  BY <1>1 DEF Breaker!EdgeKey
<1> HIDE DEF Pick
<1> QED
  BY <1>1, <1>2, <1>3, <1>4

\* What _fire does in the four situations the code fires an event in.
LEMMA TheMoves ==
  /\ Breaker!Fire(Breaker!CLOSED, "trip") = Breaker!OPEN
  /\ Breaker!Fire(Breaker!OPEN, "timeout") = Breaker!HALF_OPEN
  /\ Breaker!Fire(Breaker!HALF_OPEN, "success") = Breaker!CLOSED
  /\ Breaker!Fire(Breaker!HALF_OPEN, "failure") = Breaker!OPEN
<1>1. ASSUME NEW i \in 1..4
      PROVE  Breaker!Fire(Breaker!Edges[i].src, Breaker!Edges[i].event) = Breaker!Edges[i].dst
  <2> DEFINE e == Breaker!Edges[i]
  <2>1. Breaker!EdgeKey(e) = <<e.src, e.event>>
    BY DEF Breaker!EdgeKey
  <2>2. <<e.src, e.event>> \in DOMAIN Breaker!Lifecycle.index
    BY TheIndex
  <2>3. Breaker!Lifecycle.index[<<e.src, e.event>>] = e
    BY TheIndex, <2>1
  <2>4. e.guard = Breaker!NoGuard
    BY DEF Breaker!Edges, Breaker!Transition
  <2> HIDE DEF e
  <2>5. Breaker!Advance(Breaker!Lifecycle, e.src, e.event, Breaker!NoRegistry) = Breaker!Fired(e)
    BY <2>2, <2>3, <2>4 DEF Breaker!Advance
  <2> QED
    BY <2>5 DEF Breaker!Fire, Breaker!Fired, e
<1>2. /\ Breaker!Edges[1] = Breaker!Transition(Breaker!CLOSED, "trip", Breaker!OPEN, Breaker!NoGuard)
      /\ Breaker!Edges[2] = Breaker!Transition(Breaker!OPEN, "timeout", Breaker!HALF_OPEN, Breaker!NoGuard)
      /\ Breaker!Edges[3] = Breaker!Transition(Breaker!HALF_OPEN, "success", Breaker!CLOSED, Breaker!NoGuard)
      /\ Breaker!Edges[4] = Breaker!Transition(Breaker!HALF_OPEN, "failure", Breaker!OPEN, Breaker!NoGuard)
  BY DEF Breaker!Edges
<1> QED
  BY <1>1, <1>2 DEF Breaker!Transition

LEMMA Starts == Breaker!Lifecycle.start = Breaker!CLOSED
BY DEF Breaker!Lifecycle, Breaker!Build

LEMMA StatesDiffer ==
  /\ Breaker!CLOSED # Breaker!OPEN
  /\ Breaker!CLOSED # Breaker!HALF_OPEN
  /\ Breaker!OPEN # Breaker!HALF_OPEN
BY DEF Breaker!CLOSED, Breaker!OPEN, Breaker!HALF_OPEN

\* _maybe_recover: HALF_OPEN once the window is over, else as it was.
LEMMA TheRecovery ==
  Breaker!Recovered = IF state = Breaker!OPEN /\ elapsed >= ResetTimeout
                        THEN Breaker!HALF_OPEN
                        ELSE state
BY TheMoves DEF Breaker!Recovered

LEMMA InitEstablishes == Breaker!Init => Breaker!IInv
<1> USE ThresholdAssumption, TimeoutAssumption, CallersAssumption
<1> SUFFICES ASSUME Breaker!Init PROVE Breaker!IInv
  OBVIOUS
<1>1. state = Breaker!CLOSED
  BY Starts DEF Breaker!Init
<1>2. Breaker!TypeOK
  <2>1. healthy \in BOOLEAN
    BY DEF Breaker!Init
  <2>2. calls \in [Callers -> Breaker!InFlight \cup {"idle", "rejected"}]
    BY DEF Breaker!Init
  <2>3. /\ {failures, streak} \subseteq 0..Threshold
        /\ {elapsed, sinceOpen, quiet} \subseteq Breaker!Ages
    BY DEF Breaker!Init, Breaker!Ages
  <2> QED
    BY <1>1, <2>1, <2>2, <2>3 DEF Breaker!TypeOK, Breaker!States
<1>3. Breaker!CountIsRun /\ Breaker!WindowIsFresh
  BY <1>1, StatesDiffer DEF Breaker!Init, Breaker!CountIsRun, Breaker!WindowIsFresh
<1> QED
  BY <1>2, <1>3 DEF Breaker!IInv

LEMMA NextPreserves == Breaker!IInv /\ [Breaker!Next]_(Breaker!vars) => Breaker!IInv'
<1> SUFFICES ASSUME Breaker!IInv, [Breaker!Next]_(Breaker!vars) PROVE Breaker!IInv'
  OBVIOUS
<1> USE ThresholdAssumption, TimeoutAssumption, CallersAssumption, TheMoves, StatesDiffer,
   TheRecovery
<1> USE DEF Breaker!IInv, Breaker!CountIsRun, Breaker!WindowIsFresh, Breaker!Ages,
   Breaker!history, Breaker!breaker
<1>1. CASE Breaker!Tick
  BY <1>1 DEF Breaker!Tick, Breaker!TypeOK, Breaker!Older
<1>2. CASE Breaker!Poll
  BY <1>2 DEF Breaker!Poll, Breaker!TypeOK, Breaker!States
<1>3. ASSUME NEW c \in Callers, Breaker!Call(c) PROVE Breaker!IInv'
  BY <1>3 DEF Breaker!Call, Breaker!TypeOK, Breaker!States, Breaker!InFlight
<1>4. ASSUME NEW c \in Callers, Breaker!RecordSuccess(c) PROVE Breaker!IInv'
  BY <1>4 DEF Breaker!RecordSuccess, Breaker!Return, Breaker!TypeOK, Breaker!States,
     Breaker!InFlight
<1>5. ASSUME NEW c \in Callers, Breaker!RecordFailure(c) PROVE Breaker!IInv'
  <2>1. calls' \in [Callers -> Breaker!InFlight \cup {"idle", "rejected"}]
    BY <1>5 DEF Breaker!RecordFailure, Breaker!Return, Breaker!TypeOK
  <2>2. CASE Breaker!Recovered = Breaker!HALF_OPEN /\ Breaker!Reopen
    BY <1>5, <2>1, <2>2
    DEF Breaker!RecordFailure, Breaker!Remember, Breaker!Reopen, Breaker!Count,
        Breaker!TypeOK, Breaker!States
  <2>3. CASE Breaker!Recovered = Breaker!CLOSED /\ Breaker!CountFailure
    BY <1>5, <2>1, <2>3
    DEF Breaker!RecordFailure, Breaker!Remember, Breaker!CountFailure, Breaker!Count,
        Breaker!TypeOK, Breaker!States
  <2>4. CASE Breaker!Recovered = Breaker!OPEN /\ UNCHANGED Breaker!breaker
    BY <1>5, <2>1, <2>4
    DEF Breaker!RecordFailure, Breaker!Remember, Breaker!Count, Breaker!TypeOK,
        Breaker!States
  <2> QED
    BY <1>5, <2>2, <2>3, <2>4 DEF Breaker!RecordFailure
<1>6. ASSUME NEW c \in Callers, Breaker!Abort(c) PROVE Breaker!IInv'
  BY <1>6 DEF Breaker!Abort, Breaker!Return, Breaker!TypeOK
<1>7. CASE Breaker!Heal
  BY <1>7 DEF Breaker!Heal, Breaker!TypeOK
<1>8. CASE UNCHANGED Breaker!vars
  BY <1>8 DEF Breaker!vars, Breaker!TypeOK
<1> QED
  BY <1>1, <1>2, <1>3, <1>4, <1>5, <1>6, <1>7, <1>8 DEF Breaker!Next

\* Whatever guard a behaviour is of, a step is one of the breaker's or leaves it alone.
LEMMA StepsBreaker == [GuardsNext]_guards => [Breaker!Next]_(Breaker!vars)
BY DEF GuardsNext, guards, breaker, Breaker!vars

LEMMA Inductive == GuardsSpec => []Breaker!IInv
<1>1. GuardsInit => Breaker!IInv
  BY InitEstablishes DEF GuardsInit
<1>2. Breaker!IInv /\ [GuardsNext]_guards => Breaker!IInv'
  BY StepsBreaker, NextPreserves
<1> QED
  BY <1>1, <1>2, PTL DEF GuardsSpec

--------------------------------------------------------------------------------
\* The breaker's fields keep their type; the failure count never passes the
\* threshold.
THEOREM TypeCorrect == GuardsSpec => []BreakerTypeOK
<1>1. Breaker!IInv => BreakerTypeOK
  BY DEF Breaker!IInv, BreakerTypeOK
<1> QED
  BY <1>1, Inductive, PTL

\* The breaker opens exactly when a run of `threshold` failures occurs.
THEOREM OpensExactlyOnARun == GuardsSpec => TripsOnARun
<1> DEFINE Trip == state = Breaker!CLOSED => (state' # Breaker!CLOSED <=> streak' = Threshold)
<1> USE ThresholdAssumption, TheMoves, StatesDiffer, TheRecovery
<1>1. ASSUME Breaker!IInv, [Breaker!Next]_(Breaker!vars) PROVE [Trip]_(Breaker!vars)
  <2> SUFFICES ASSUME state = Breaker!CLOSED, Breaker!Next
               PROVE  state' # Breaker!CLOSED <=> streak' = Threshold
    BY <1>1
  <2>1. /\ Breaker!Recovered = Breaker!CLOSED
        /\ failures = streak /\ failures < Threshold /\ streak \in Nat
    BY <1>1 DEF Breaker!IInv, Breaker!CountIsRun, Breaker!TypeOK
  <2>2. CASE \/ Breaker!Tick \/ Breaker!Poll \/ Breaker!Heal
             \/ \E c \in Callers : Breaker!Call(c) \/ Breaker!RecordSuccess(c) \/ Breaker!Abort(c)
    BY <2>1, <2>2
    DEF Breaker!Tick, Breaker!Poll, Breaker!Heal, Breaker!Call, Breaker!RecordSuccess,
        Breaker!Abort, Breaker!history, Breaker!breaker
  <2>3. ASSUME NEW c \in Callers, Breaker!RecordFailure(c)
        PROVE  state' # Breaker!CLOSED <=> streak' = Threshold
    BY <2>1, <2>3
    DEF Breaker!RecordFailure, Breaker!Remember, Breaker!CountFailure, Breaker!Count
  <2> QED
    BY <2>2, <2>3 DEF Breaker!Next
<1> QED
  BY <1>1, StepsBreaker, Inductive, PTL DEF GuardsSpec, TripsOnARun, Breaker!TripsOnARun

\* No operation starts within reset_timeout of the breaker opening.
THEOREM FailsFastAlways == GuardsSpec => FailsFast
<1> DEFINE Fast == \A c \in Callers :
                     calls[c] \notin Breaker!InFlight /\ calls'[c] \in Breaker!InFlight
                       => sinceOpen = ResetTimeout
<1>1. ASSUME Breaker!IInv, [Breaker!Next]_(Breaker!vars) PROVE [Fast]_(Breaker!vars)
  <2> SUFFICES ASSUME Breaker!Next, NEW c \in Callers,
                      calls[c] \notin Breaker!InFlight, calls'[c] \in Breaker!InFlight
               PROVE  sinceOpen = ResetTimeout
    BY <1>1
  <2>1. Breaker!Call(c)
    BY <1>1 DEF Breaker!Next, Breaker!IInv, Breaker!TypeOK, Breaker!Tick, Breaker!Poll,
       Breaker!Heal, Breaker!Call, Breaker!RecordSuccess, Breaker!RecordFailure,
                Breaker!Abort, Breaker!Return, Breaker!InFlight, Breaker!history,
                   Breaker!breaker, Breaker!CLOSED, Breaker!HALF_OPEN
  <2>2. Breaker!Recovered # Breaker!OPEN
    BY <1>1, <2>1
    DEF Breaker!Call, Breaker!IInv, Breaker!TypeOK, Breaker!InFlight, Breaker!OPEN,
        Breaker!CLOSED, Breaker!HALF_OPEN
  <2> QED
    BY <1>1, <2>2, TheRecovery, TimeoutAssumption
    DEF Breaker!IInv, Breaker!TypeOK, Breaker!WindowIsFresh, Breaker!Ages
<1> QED
  BY <1>1, StepsBreaker, Inductive, PTL DEF GuardsSpec, FailsFast, Breaker!FailsFast

\* A call is turned away only within reset_timeout of a failure that was recorded while
\* the breaker was not OPEN.
THEOREM RejectsOnlyForCause == GuardsSpec => RejectsForCause
<1> DEFINE Cause == \A c \in Callers : calls[c] # "rejected" /\ calls'[c] = "rejected"
                                         => quiet < ResetTimeout
<1>1. ASSUME Breaker!IInv, [Breaker!Next]_(Breaker!vars) PROVE [Cause]_(Breaker!vars)
  <2> SUFFICES ASSUME Breaker!Next, NEW c \in Callers, calls[c] # "rejected", calls'[c] = "rejected"
               PROVE  quiet < ResetTimeout
    BY <1>1
  <2>1. Breaker!Call(c)
    BY <1>1 DEF Breaker!Next, Breaker!IInv, Breaker!TypeOK, Breaker!Tick, Breaker!Poll,
       Breaker!Heal, Breaker!Call, Breaker!RecordSuccess, Breaker!RecordFailure,
                Breaker!Abort, Breaker!Return, Breaker!InFlight, Breaker!history,
                   Breaker!breaker, Breaker!CLOSED, Breaker!HALF_OPEN
  <2>2. Breaker!Recovered = Breaker!OPEN
    BY <1>1, <2>1, TheRecovery
    DEF Breaker!Call, Breaker!IInv, Breaker!TypeOK, Breaker!InFlight, Breaker!States,
       Breaker!OPEN, Breaker!CLOSED, Breaker!HALF_OPEN
  <2> QED
    BY <1>1, <2>2, TheRecovery, StatesDiffer, TimeoutAssumption
    DEF Breaker!IInv, Breaker!TypeOK, Breaker!WindowIsFresh, Breaker!Ages
<1> QED
  BY <1>1, StepsBreaker, Inductive, PTL
  DEF GuardsSpec, RejectsForCause, Breaker!RejectsForCause
================================================================================
