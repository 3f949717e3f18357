------------------------------ MODULE StateMachine ------------------------------
(***************************************************************************)
(* codeforge_shelf/statemachine.py: a machine is data, a set of states, a  *)
(* start and an index of edges by (state, event); `advance` is a lookup    *)
(* followed by a guard. A guard is the name of a function the caller       *)
(* registers; here a registry maps a name to what its guard answers.       *)
(***************************************************************************)
EXTENDS Naturals, Sequences

NoGuard == "no guard"
Answers == {"allow", "refuse", "raise"}  \* None, a reason, any Exception

Transition(src, event, dst, guard) ==
  [src |-> src, event |-> event, dst |-> dst, guard |-> guard]

EdgeKey(t) == <<t.src, t.event>>

\* The checks of build(): a start and edges on the graph, one edge per key.
Buildable(states, start, edges) ==
  /\ start \in states
  /\ \A i \in DOMAIN edges : edges[i].src \in states /\ edges[i].dst \in states
  /\ \A i, j \in DOMAIN edges : EdgeKey(edges[i]) = EdgeKey(edges[j]) => i = j

\* What build() returns for edges that pass them.
Build(states, start, edges) ==
  [states |-> states,
   start  |-> start,
   index  |-> [k \in {EdgeKey(edges[i]) : i \in DOMAIN edges} |->
                 edges[CHOOSE i \in DOMAIN edges : EdgeKey(edges[i]) = k]]]

Fired(t)    == [kind |-> "fired", dst |-> t.dst]
Refusal     == [kind |-> "refusal"]
Miswired    == [kind |-> "KeyError"]

\* An unknown pair, a refusing guard and a guard that raises are all refusals; a
\* guard missing from the registry is a KeyError.
Advance(m, current, event, registry) ==
  LET key == <<current, event>>
      t   == m.index[key]
  IN  IF key \notin DOMAIN m.index          THEN Refusal
      ELSE IF t.guard = NoGuard             THEN Fired(t)
      ELSE IF t.guard \notin DOMAIN registry THEN Miswired
      ELSE IF registry[t.guard] = "allow"   THEN Fired(t)
      ELSE Refusal

NoRegistry == <<>>
================================================================================
