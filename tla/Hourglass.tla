------------------------------- MODULE Hourglass -------------------------------
(***************************************************************************)
(* codeforge_shelf/hourglass.py: `_grains` is a dict, so it is an order of *)
(* insertion and a map. Assigning to a label that is there keeps its place *)
(* in the order; removing it and scheduling it again moves it to the end.  *)
(***************************************************************************)
EXTENDS Integers, Sequences, Keeping

CONSTANTS Labels,     \* what callers name their timers
          Payloads, NoPayload,
          Delays,     \* the values of `after` callers pass
          Periods,    \* the values of `every` callers pass
          MAX_TIMERS,
          MaxBeats    \* bound: how many beats are explored

\* The checks schedule() makes of its arguments.
ASSUME DelayAssumption  == Delays \subseteq Nat \ {0}
ASSUME PeriodAssumption == Periods \subseteq Nat
ASSUME BoundAssumption  == MAX_TIMERS \in Nat /\ MaxBeats \in Nat

VARIABLES order,   \* the keys of self._grains
          grains,  \* its values: [remaining, period, payload]
          result,  \* what the last call returned or raised
          beats    \* history: calls of advance()

vars == <<order, grains, result, beats>>

Init ==
  /\ order  = <<>>
  /\ grains = <<>>
  /\ result = [kind |-> "none"]
  /\ beats  = 0

Grain(remaining, period, payload) ==
  [remaining |-> remaining, period |-> period, payload |-> payload]

\* schedule(): a new timer, or a new grain in an old one's place.
Schedule(l, after, period, payload) ==
  /\ l \in DOMAIN grains \/ Len(order) < MAX_TIMERS
  /\ grains' = [m \in DOMAIN grains \cup {l} |->
                  IF m = l THEN Grain(after, period, payload) ELSE grains[m]]
  /\ order'  = IF l \in DOMAIN grains THEN order ELSE Append(order, l)
  /\ result' = [kind |-> "none"]
  /\ UNCHANGED beats

\* HourglassError: the hourglass is full.
Overflow(l) ==
  /\ l \notin DOMAIN grains /\ Len(order) >= MAX_TIMERS
  /\ result' = [kind |-> "full"]
  /\ UNCHANGED <<order, grains, beats>>

\* del self._grains[...] of every label outside `left`.
Left(left, updated) ==
  /\ grains' = [l \in left |-> updated[l]]
  /\ order'  = Keep(order, left)

Cancel(l) ==
  /\ Left(DOMAIN grains \ {l}, grains)
  /\ result' = [kind |-> "found", was |-> l \in DOMAIN grains]
  /\ UNCHANGED beats

Clear ==
  /\ Left({}, grains)
  /\ result' = [kind |-> "none"]
  /\ UNCHANGED beats

Yield(l) == IF grains[l].payload = NoPayload THEN l ELSE grains[l].payload

Run(l) == grains[l].remaining - 1

\* Mutant of Rearmed: a repeating timer is counted from the beat after.
RearmedLate(l) ==
  [grains[l] EXCEPT !.remaining = IF Run(l) <= 0 THEN grains[l].period + 1 ELSE Run(l)]

Rearmed(l) ==
  [grains[l] EXCEPT !.remaining = IF Run(l) <= 0 THEN grains[l].period ELSE Run(l)]

Spent(l) == Run(l) <= 0 /\ ~(grains[l].period > 0)

\* advance(): the loop over a copy of the keys takes one beat off every grain,
\* reports those that reach zero, rearms the periodic and deletes the others.
Advance ==
  /\ beats < MaxBeats
  /\ beats' = beats + 1
  /\ LET out == Keep(order, {l \in DOMAIN grains : Run(l) <= 0})
     IN  result' = [kind |-> "fired", payloads |-> [i \in DOMAIN out |-> Yield(out[i])]]
  /\ Left({l \in DOMAIN grains : ~Spent(l)}, [l \in DOMAIN grains |-> Rearmed(l)])

Next ==
  \/ \E l \in Labels, after \in Delays, period \in Periods, payload \in Payloads \cup {NoPayload} :
       Schedule(l, after, period, payload)
  \/ \E l \in Labels : Overflow(l) \/ Cancel(l)
  \/ Clear \/ Advance

Spec == Init /\ [][Next]_vars

--------------------------------------------------------------------------------
\* A dict has a place for each of its keys, there are never too many, and each timer
\* has a beat left at least: what the counting down relies on.
TypeOK ==
  /\ order  \in Seq(Labels) /\ Len(order) <= MAX_TIMERS
  /\ grains \in [{order[i] : i \in DOMAIN order} ->
                  [remaining : Nat \ {0}, period : Nat, payload : Payloads \cup {NoPayload}]]
  /\ beats  \in Nat

\* Counting every grain down and rearming it in place is a timetable of absolute
\* beats: a timer fires exactly `after` beats after it was last scheduled and then
\* every `period` beats, in insertion order, with its last payload, and is turned
\* away only when the queue is full.
Promise == INSTANCE Timetable
             WITH Most  <- MAX_TIMERS,
                  queue <- order,
                  due   <- [l \in DOMAIN grains |-> beats + grains[l].remaining],
                  every <- [l \in DOMAIN grains |-> grains[l].period],
                  what  <- [l \in DOMAIN grains |-> grains[l].payload],
                  beat  <- beats
ImplementsTimetable == Promise!Spec
================================================================================
