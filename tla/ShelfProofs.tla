------------------------------- MODULE ShelfProofs ------------------------------
(***************************************************************************)
(* The properties of the shelf's cores that one caller drives, its         *)
(* handlers and callbacks included, for all constants of theirs. A core's  *)
(* behaviours are those in which it alone moves: its invariant is proved   *)
(* of its own steps, and every step of the shelf is one of them or leaves  *)
(* its state alone.                                                        *)
(***************************************************************************)
EXTENDS Shelf, KeepingProofs

--------------------------------------------------------------------------------
\* The timer queue implements the timetable: every step of the queue is the
\* timetable's step of that name, under the mapping that adds the beats gone by to
\* what each timer has left.
Grains == [remaining : Nat \ {0}, period : Nat, payload : Payloads \cup {NoPayload}]
Due    == [l \in DOMAIN grains |-> beats + grains[l].remaining]
Every  == [l \in DOMAIN grains |-> grains[l].period]
What   == [l \in DOMAIN grains |-> grains[l].payload]

\* The labels that wait are those that have a grain.
LEMMA WaitingHaveGrains ==
  ASSUME TypeOK
  PROVE  Promise!Waiting = DOMAIN grains
BY DEF TypeOK, Promise!Waiting, Promise!Range

\* Both modules keep what they keep of the order alike.
LEMMA SameKeep ==
  ASSUME NEW seq, NEW S
  PROVE  Promise!Keep(seq, S) = Keep(seq, S)
BY DEF Keep, Promise!Keep

\* What is left after some labels go, in either module.
LEMMA LeftKeepsType ==
  ASSUME TypeOK, NEW left \in SUBSET DOMAIN grains, NEW updated,
         \A l \in left : updated[l] \in Grains,
         Left(left, updated), beats' \in Nat
  PROVE  TypeOK' /\ DOMAIN grains' = left
<1>1. order \in Seq(Labels) /\ order' = Keep(order, left)
  BY DEF TypeOK, Left
<1>2. order' \in Seq(Labels) /\ Len(order') <= Len(order)
  BY <1>1, KeptSequence
<1>3. {order'[k] : k \in DOMAIN order'} = left
  <2>1. {order[i] : i \in DOMAIN order} = DOMAIN grains
    BY DEF TypeOK
  <2>2. \A x : (\E k \in DOMAIN order' : order'[k] = x)
              <=> x \in left /\ (\E i \in DOMAIN order : order[i] = x)
    BY <1>1, KeptMembers
  <2> QED
    BY <2>1, <2>2
<1>4. grains' \in [left -> Grains] /\ DOMAIN grains' = left
  BY DEF Left
<1>5. Len(order') <= MAX_TIMERS
  BY <1>1, <1>2, BoundAssumption DEF TypeOK
<1> QED
  BY <1>2, <1>3, <1>4, <1>5 DEF TypeOK, Grains

LEMMA InitTyped == Init => TypeOK
BY BoundAssumption DEF Init, TypeOK

--------------------------------------------------------------------------------
LEMMA ScheduleSteps ==
  ASSUME TypeOK, NEW l \in Labels, NEW after \in Delays, NEW period \in Periods,
         NEW payload \in Payloads \cup {NoPayload}, Schedule(l, after, period, payload)
  PROVE  TypeOK' /\ Promise!Schedule(l, after, period, payload)
<1> USE DEF Schedule
<1>1. after \in Nat \ {0} /\ period \in Nat /\ MAX_TIMERS \in Nat /\ beats \in Nat
  BY DelayAssumption, PeriodAssumption, BoundAssumption DEF TypeOK
<1>2. Grain(after, period, payload) \in Grains
  BY <1>1 DEF Grain, Grains
<1>3. /\ grains' = [m \in DOMAIN grains \cup {l} |->
                      IF m = l THEN Grain(after, period, payload) ELSE grains[m]]
      /\ \A m \in DOMAIN grains : grains[m] \in Grains
  BY DEF TypeOK, Grains
<1>4. TypeOK'
  <2>1. grains' \in [DOMAIN grains \cup {l} -> Grains]
    BY <1>2, <1>3
  <2>2. order' \in Seq(Labels) /\ Len(order') <= MAX_TIMERS
    BY <1>1 DEF TypeOK
  <2>3. {order'[i] : i \in DOMAIN order'} = DOMAIN grains \cup {l}
    <3>1. {order[i] : i \in DOMAIN order} = DOMAIN grains /\ order \in Seq(Labels)
      BY DEF TypeOK
    <3>2. CASE l \in DOMAIN grains
      BY <3>1, <3>2
    <3>3. CASE l \notin DOMAIN grains
      <4>1. /\ DOMAIN order' = DOMAIN order \cup {Len(order) + 1}
            /\ \A i \in DOMAIN order : order'[i] = order[i]
            /\ order'[Len(order) + 1] = l
        BY <3>1, <3>3
      <4> QED
        BY <3>1, <4>1
    <3> QED
      BY <3>2, <3>3
  <2> QED
    BY <1>1, <2>1, <2>2, <2>3 DEF TypeOK, Grains
<1>5. /\ Due'   = Promise!Set(Due, l, beats + after)
      /\ Every' = Promise!Set(Every, l, period)
      /\ What'  = Promise!Set(What, l, payload)
  BY <1>1, <1>3 DEF Due, Every, What, Grain, Promise!Set
<1> QED
  BY <1>4, <1>5, WaitingHaveGrains DEF Due, Every, What, Promise!Schedule, Promise!Quiet

LEMMA OverflowSteps ==
  ASSUME TypeOK, NEW l \in Labels, Overflow(l)
  PROVE  TypeOK' /\ Promise!Overflow(l)
<1>1. Len(order) = MAX_TIMERS /\ UNCHANGED <<order, grains, beats>>
  BY BoundAssumption DEF Overflow, TypeOK
<1>2. TypeOK'
  BY <1>1 DEF TypeOK
<1> QED
  BY <1>1, <1>2, WaitingHaveGrains DEF Overflow, Promise!Overflow, Promise!Full

\* Labels are dropped: what is due, how often and with what stays for the others.
LEMMA DropSteps ==
  ASSUME TypeOK, NEW gone, NEW left, left = DOMAIN grains \ gone,
         Left(left, grains), UNCHANGED beats
  PROVE  TypeOK' /\ Promise!Drop(gone)
<1>1. left \in SUBSET DOMAIN grains /\ left = Promise!Waiting \ gone /\ beats' \in Nat
  BY WaitingHaveGrains DEF TypeOK
<1>2. \A m \in left : grains[m] \in Grains
  BY DEF TypeOK, Grains
<1>3. order' = Keep(order, left) /\ grains' = [m \in left |-> grains[m]]
  BY DEF Left
<1>4. TypeOK' /\ DOMAIN grains' = left
  BY <1>1, <1>2, LeftKeepsType
<1>5. /\ Due'   = Promise!Only(Due, left)
      /\ Every' = Promise!Only(Every, left)
      /\ What'  = Promise!Only(What, left)
  BY <1>1, <1>3 DEF Due, Every, What, Promise!Only
<1>6. order' = Promise!Keep(order, left)
  BY <1>3, SameKeep
<1> QED
  BY <1>1, <1>4, <1>5, <1>6 DEF Due, Every, What, Promise!Drop

LEMMA CancelSteps ==
  ASSUME TypeOK, NEW l \in Labels, Cancel(l)
  PROVE  TypeOK' /\ Promise!Cancel(l)
<1>1. TypeOK' /\ Promise!Drop({l})
  BY DropSteps DEF Cancel
<1> QED
  BY <1>1, WaitingHaveGrains DEF Cancel, Promise!Cancel, Promise!Found

LEMMA ClearSteps ==
  ASSUME TypeOK, Clear
  PROVE  TypeOK' /\ Promise!Clear
<1>1. PICK all : all = DOMAIN grains
  OBVIOUS
<1>2. {} = DOMAIN grains \ all /\ Left({}, grains) /\ UNCHANGED beats
  BY <1>1 DEF Clear
<1>3. TypeOK' /\ Promise!Drop(all)
  BY <1>2, DropSteps
<1> QED
  BY <1>1, <1>3, WaitingHaveGrains DEF Clear, Promise!Clear, Promise!Quiet, Promise!Drop

\* One beat: the grains that come to nothing are the labels due, and a grain that is
\* rearmed is due a period from now.
LEMMA AdvanceSteps ==
  ASSUME TypeOK, Advance
  PROVE  TypeOK' /\ Promise!Advance
<1> DEFINE now  == {l \in Promise!Waiting : Due[l] = beats + 1}
           left == {l \in Promise!Waiting : l \in now => Every[l] > 0}
           out  == Keep(order, now)
           rearmed == [l \in DOMAIN grains |-> Rearmed(l)]
<1>1. beats \in Nat /\ beats' = beats + 1
  BY DEF TypeOK, Advance
<1>2. \A l \in DOMAIN grains :
        /\ grains[l] \in Grains
        /\ grains[l].remaining \in Nat \ {0} /\ grains[l].period \in Nat
        /\ grains[l] = [remaining |-> grains[l].remaining, period |-> grains[l].period,
                        payload |-> grains[l].payload]
  BY DEF TypeOK, Grains
<1>3. now = {l \in DOMAIN grains : Run(l) <= 0}
  BY <1>1, <1>2, WaitingHaveGrains DEF Due, Run
<1>4. left = {l \in DOMAIN grains : ~Spent(l)}
  BY <1>2, <1>3, WaitingHaveGrains DEF Every, Spent, Run
<1>5. \A l \in DOMAIN grains :
        /\ rearmed[l].remaining = IF l \in now THEN grains[l].period ELSE Run(l)
        /\ rearmed[l].period = grains[l].period /\ rearmed[l].payload = grains[l].payload
        /\ rearmed[l] = [remaining |-> rearmed[l].remaining, period |-> rearmed[l].period,
                         payload |-> rearmed[l].payload]
  BY <1>2, <1>3 DEF Rearmed
<1>6. /\ result' = [kind |-> "fired", payloads |-> [i \in DOMAIN out |-> Yield(out[i])]]
      /\ Left(left, rearmed)
  BY <1>3, <1>4 DEF Advance
<1>7. left \in SUBSET DOMAIN grains /\ (\A l \in left : l \in now => grains[l].period > 0)
  BY <1>4, WaitingHaveGrains DEF Every
<1>8. order' = Keep(order, left) /\ grains' = [l \in left |-> rearmed[l]]
  BY <1>6 DEF Left
<1>a. \A l \in left : l \in now <=> ~(Run(l) > 0)
  BY <1>2, <1>3, <1>7 DEF Run
<1>b. \A i \in DOMAIN out : out[i] \in DOMAIN grains
  BY <1>3, KeptMembers DEF TypeOK
<1> HIDE DEF rearmed, left, now, out
<1>9. ASSUME NEW l \in left
      PROVE  rearmed[l] \in Grains
  <2>1. l \in DOMAIN grains /\ grains[l].remaining \in Nat \ {0} /\ grains[l].period \in Nat
        /\ grains[l].payload \in Payloads \cup {NoPayload}
    BY <1>2, <1>7 DEF Grains
  <2>2. /\ rearmed[l].remaining = IF l \in now THEN grains[l].period ELSE grains[l].remaining - 1
        /\ l \notin now => grains[l].remaining - 1 > 0
        /\ l \in now => grains[l].period > 0
    BY <1>5, <1>7, <1>a, <2>1 DEF Run
  <2>3. rearmed[l].remaining \in Nat \ {0}
    <3>1. CASE l \in now
      BY <2>1, <2>2, <3>1
    <3>2. CASE l \notin now
      BY <2>1, <2>2, <3>2
    <3> QED
      BY <3>1, <3>2
  <2>4. rearmed[l].period \in Nat /\ rearmed[l].payload \in Payloads \cup {NoPayload}
    BY <1>5, <2>1
  <2>5. [remaining |-> rearmed[l].remaining, period |-> rearmed[l].period,
         payload |-> rearmed[l].payload] \in Grains
    BY <2>3, <2>4 DEF Grains
  <2> QED
    BY <1>5, <2>1, <2>5
<1>10. TypeOK' /\ DOMAIN grains' = left
  BY <1>1, <1>6, <1>7, <1>9, LeftKeepsType
<1>11. Due' = [l \in left |-> IF l \in now THEN beats + 1 + Every[l] ELSE Due[l]]
  <2>1. ASSUME NEW l \in left
        PROVE  beats' + grains'[l].remaining = IF l \in now THEN beats + 1 + Every[l] ELSE Due[l]
    <3>1. l \in DOMAIN grains /\ grains[l].remaining \in Nat /\ grains[l].period \in Nat
      BY <1>2, <1>7
    <3>2. grains'[l].remaining = IF l \in now THEN grains[l].period ELSE grains[l].remaining - 1
      BY <1>5, <1>8, <3>1 DEF Run
    <3>3. Every[l] = grains[l].period /\ Due[l] = beats + grains[l].remaining
      BY <3>1 DEF Due, Every
    <3> QED
      BY <1>1, <3>1, <3>2, <3>3
  <2>2. Due' = [l \in left |-> beats' + grains'[l].remaining]
    BY <1>10 DEF Due
  <2> QED
    BY <2>1, <2>2
<1>12. Every' = Promise!Only(Every, left) /\ What' = Promise!Only(What, left)
  <2>1. ASSUME NEW l \in left
        PROVE  /\ grains'[l].period = Every[l] /\ grains'[l].payload = What[l]
               /\ l \in DOMAIN grains
    BY <1>5, <1>7, <1>8 DEF Every, What
  <2>2. DOMAIN Every \cap left = left /\ DOMAIN What \cap left = left
    BY <1>7 DEF Every, What
  <2>3. Every' = [l \in left |-> grains'[l].period] /\ What' = [l \in left |-> grains'[l].payload]
    BY <1>10 DEF Every, What
  <2> QED
    BY <2>1, <2>2, <2>3 DEF Promise!Only
<1>13. [i \in DOMAIN out |-> Yield(out[i])] = [i \in DOMAIN out |-> Promise!Yield(out[i], What[out[i]])]
  <2> SUFFICES ASSUME NEW i \in DOMAIN out
               PROVE  Yield(out[i]) = Promise!Yield(out[i], What[out[i]])
    OBVIOUS
  <2> QED
    BY <1>b DEF Yield, What, Promise!Yield
<1>14. /\ out = Promise!Keep(order, now) /\ order' = Promise!Keep(order, left)
       /\ result' = Promise!Came([i \in DOMAIN out |-> Promise!Yield(out[i], What[out[i]])])
  BY <1>6, <1>8, <1>13, SameKeep DEF Promise!Came, out
<1>15. Promise!Advance <=>
         /\ beats'  = beats + 1
         /\ order'  = Promise!Keep(order, left)
         /\ Due'    = [l \in left |-> IF l \in now THEN beats + 1 + Every[l] ELSE Due[l]]
         /\ Every'  = Promise!Only(Every, left)
         /\ What'   = Promise!Only(What, left)
         /\ result' = LET came == Promise!Keep(order, now)
                      IN  Promise!Came([i \in DOMAIN came |-> Promise!Yield(came[i], What[came[i]])])
  BY DEF now, left, Due, Every, What, Promise!Advance
<1> QED
  BY <1>1, <1>10, <1>11, <1>12, <1>14, <1>15

--------------------------------------------------------------------------------
LEMMA NextSteps == TypeOK /\ [Next]_vars => TypeOK' /\ [Promise!Next]_(Promise!vars)
<1> SUFFICES ASSUME TypeOK, [Next]_vars
             PROVE  TypeOK' /\ [Promise!Next]_(Promise!vars)
  OBVIOUS
<1>1. CASE UNCHANGED vars
  BY <1>1 DEF vars, TypeOK, Promise!vars
<1>2. CASE Next
  BY <1>2, ScheduleSteps, OverflowSteps, CancelSteps, ClearSteps, AdvanceSteps
  DEF Next, Promise!Next
<1> QED
  BY <1>1, <1>2

THEOREM TypeCorrect == Spec => []TypeOK
BY InitTyped, NextSteps, PTL DEF Spec

\* A timer fires exactly `after` beats after it was last scheduled and then every
\* `period` beats, in insertion order, with its last payload.
THEOREM KeepsTheTimetable == Spec => ImplementsTimetable
<1>1. Init => Promise!Init
  BY DEF Init, Promise!Init, Promise!Quiet
<1> QED
  BY <1>1, NextSteps, TypeCorrect, PTL DEF Spec, ImplementsTimetable, Promise!Spec

--------------------------------------------------------------------------------
\* The workflow engine. The role map and the machine's index have the same keys, and
\* what either holds for one is of the same, the only, step of the definition.
LEMMA FlowWiring ==
  ASSUME Flow!Wired, NEW from, NEW event
  PROVE  /\ <<from, event>> \in DOMAIN Flow!Roles <=> <<from, event>> \in DOMAIN Flow!Machine.index
         /\ <<from, event>> \in DOMAIN Flow!Roles =>
              /\ event \in Flow!Events
              /\ \E i \in DOMAIN definition.steps :
                   /\ definition.steps[i].state = from /\ definition.steps[i].event = event
                   /\ Flow!Machine.index[<<from, event>>].dst = definition.steps[i].to
                   /\ Flow!Machine.index[<<from, event>>].guard = definition.steps[i].guard
                   /\ Flow!Roles[<<from, event>>] = definition.steps[i].roles
                   /\ definition.steps[i].to \in Flow!StatesOf(definition)
<1> DEFINE steps  == definition.steps
           states == Flow!StatesOf(definition)
           edges  == Flow!EdgesOf(definition)
           k      == <<from, event>>
           ForRole(i) == /\ <<steps[i].state, steps[i].event>> = k
                         /\ \A j \in DOMAIN steps : <<steps[j].state, steps[j].event>> = k => j <= i
           ForEdge(i) == Flow!EdgeKey(edges[i]) = k
<1>1. /\ definition \in Definitions
      /\ workflow = Flow!BuildWorkflow(definition)
      /\ Flow!Buildable(states, definition.start, edges)
  BY DEF Flow!Wired, Flow!BuildsWorkflow
<1>2. /\ DOMAIN edges = DOMAIN steps
      /\ \A i \in DOMAIN steps :
           /\ edges[i].dst = steps[i].to /\ edges[i].guard = steps[i].guard
           /\ Flow!EdgeKey(edges[i]) = <<steps[i].state, steps[i].event>>
  BY DEF Flow!EdgesOf, Flow!Transition, Flow!EdgeKey
<1>3. /\ \A i \in DOMAIN steps : steps[i].to \in states
      /\ \A i, j \in DOMAIN steps : Flow!EdgeKey(edges[i]) = Flow!EdgeKey(edges[j]) => i = j
  BY <1>1, <1>2 DEF Flow!Buildable
<1>4. DOMAIN steps \subseteq Nat
  BY <1>1, StepsAssumption
<1>5. /\ Flow!Roles = Flow!RolesOf(definition)
      /\ Flow!Machine.index = Flow!Build(states, definition.start, edges).index
  BY <1>1 DEF Flow!Roles, Flow!Machine, Flow!BuildWorkflow
<1>6. /\ DOMAIN Flow!Roles = {<<steps[i].state, steps[i].event>> : i \in DOMAIN steps}
      /\ k \in DOMAIN Flow!Roles => Flow!Roles[k] = steps[CHOOSE i \in DOMAIN steps : ForRole(i)].roles
  BY <1>5 DEF Flow!RolesOf
<1>7. /\ DOMAIN Flow!Machine.index = {Flow!EdgeKey(edges[i]) : i \in DOMAIN edges}
      /\ k \in DOMAIN Flow!Machine.index =>
           Flow!Machine.index[k] = edges[CHOOSE i \in DOMAIN edges : ForEdge(i)]
  BY <1>5 DEF Flow!Build
<1>8. k \in DOMAIN Flow!Roles <=> k \in DOMAIN Flow!Machine.index
  BY <1>2, <1>6, <1>7
<1>9. ASSUME k \in DOMAIN Flow!Roles
      PROVE  \E i \in DOMAIN steps :
               /\ <<steps[i].state, steps[i].event>> = k
               /\ Flow!Machine.index[k] = edges[i] /\ Flow!Roles[k] = steps[i].roles
  <2>1. PICK i \in DOMAIN steps : <<steps[i].state, steps[i].event>> = k
    BY <1>6, <1>9
  <2>2. \A j \in DOMAIN steps : <<steps[j].state, steps[j].event>> = k => j = i
    BY <1>2, <1>3, <2>1
  <2>3. ForRole(i) /\ \A j \in DOMAIN steps : ForRole(j) => j = i
    BY <1>4, <2>1, <2>2
  <2>4. ForEdge(i) /\ \A j \in DOMAIN edges : ForEdge(j) => j = i
    BY <1>2, <2>1, <2>2
  <2> HIDE DEF ForRole, ForEdge
  <2>5. (CHOOSE j \in DOMAIN steps : ForRole(j)) = i
    BY <2>1, <2>3
  <2>6. (CHOOSE j \in DOMAIN edges : ForEdge(j)) = i
    BY <1>2, <2>1, <2>4
  <2> QED
    BY <1>6, <1>7, <1>8, <1>9, <2>1, <2>5, <2>6
<1>10. ASSUME k \in DOMAIN Flow!Roles
       PROVE  event \in Flow!Events
  <2>1. k[2] = event
    OBVIOUS
  <2> QED
    BY <1>10, <2>1 DEF Flow!Events
<1>11. ASSUME NEW i \in DOMAIN steps, <<steps[i].state, steps[i].event>> = k
       PROVE  steps[i].state = from /\ steps[i].event = event
  BY <1>11
<1> HIDE DEF k
<1>12. k \in DOMAIN Flow!Roles =>
         \E i \in DOMAIN steps :
                   /\ steps[i].state = from /\ steps[i].event = event
                   /\ Flow!Machine.index[k].dst = steps[i].to
                   /\ Flow!Machine.index[k].guard = steps[i].guard
                   /\ Flow!Roles[k] = steps[i].roles
                   /\ steps[i].to \in states
  BY <1>2, <1>3, <1>9, <1>11
<1> QED
  BY <1>8, <1>10, <1>12 DEF k

LEMMA FlowInit ==
  ASSUME Flow!Init
  PROVE  Flow!IInv
<1>1. /\ definition \in Definitions /\ Flow!BuildsWorkflow(definition)
      /\ workflow = Flow!BuildWorkflow(definition)
      /\ state = Flow!Machine.start
      /\ history = <<>>
      /\ menu = [a \in Actors |-> Flow!NoMenu]
  BY DEF Flow!Init
<1>2. state = definition.start
  BY <1>1 DEF Flow!Machine, Flow!BuildWorkflow, Flow!Build
<1>3. definition.start \in Flow!StatesOf(definition)
  BY DEF Flow!StatesOf
<1>4. /\ Flow!NoMenu \in [seen : Flow!StatesOf(definition), events : SUBSET Flow!Events]
      /\ Flow!NoMenu.events = {}
  BY <1>3 DEF Flow!NoMenu
<1>5. Flow!TypeOK
  BY <1>1, <1>2, <1>3, <1>4 DEF Flow!TypeOK
<1>6. Flow!Wired /\ Flow!MenusOutlive
  BY <1>1, <1>4 DEF Flow!Wired, Flow!MenusOutlive
<1>7. Flow!HistoryIsAPath /\ Flow!OnlyAuthorised
  BY <1>1, <1>2 DEF Flow!HistoryIsAPath, Flow!OnlyAuthorised
<1> QED
  BY <1>5, <1>6, <1>7 DEF Flow!IInv

\* What is derived from the definition stays as long as the definition does.
LEMMA FlowFixed ==
  ASSUME UNCHANGED <<definition, workflow>>
  PROVE  /\ Flow!StatesOf(definition)' = Flow!StatesOf(definition)
         /\ Flow!Events' = Flow!Events /\ Flow!Roles' = Flow!Roles
         /\ Flow!Wired' <=> Flow!Wired
         /\ \A from, a : Flow!Actions(from, a)' = Flow!Actions(from, a)
         /\ \A entry : Flow!StepFor(entry)' = Flow!StepFor(entry)
BY DEF Flow!StatesOf, Flow!Events, Flow!Roles, Flow!Wired, Flow!BuildsWorkflow, Flow!BuildWorkflow,
       Flow!EdgesOf, Flow!RolesOf, Flow!Actions, Flow!StepFor

LEMMA FlowLook ==
  ASSUME Flow!IInv, NEW a \in Actors, Flow!Look(a)
  PROVE  Flow!IInv'
<1> DEFINE new == [seen |-> state, events |-> Flow!Actions(state, a)]
<1>1. /\ menu' = [menu EXCEPT ![a] = new]
      /\ UNCHANGED <<definition, workflow, state, history>>
  BY DEF Flow!Look
<1>2. Flow!TypeOK /\ Flow!Wired /\ Flow!MenusOutlive /\ Flow!HistoryIsAPath /\ Flow!OnlyAuthorised
  BY DEF Flow!IInv
<1>3. /\ new \in [seen : Flow!StatesOf(definition), events : SUBSET Flow!Events]
      /\ new.events = Flow!Actions(new.seen, a)
  BY <1>2 DEF Flow!TypeOK, Flow!Actions
<1> HIDE DEF new
<1>4. menu'[a] = new /\ \A b \in Actors : b # a => menu'[b] = menu[b]
  BY <1>1, <1>2 DEF Flow!TypeOK
<1>5. Flow!TypeOK'
  BY <1>1, <1>2, <1>3, FlowFixed DEF Flow!TypeOK
<1>6. Flow!MenusOutlive'
  BY <1>1, <1>2, <1>3, <1>4, FlowFixed DEF Flow!MenusOutlive
<1>7. Flow!HistoryIsAPath' /\ Flow!OnlyAuthorised'
  BY <1>1, <1>2 DEF Flow!HistoryIsAPath, Flow!OnlyAuthorised, Flow!StepFor
<1>8. Flow!Wired'
  BY <1>1, <1>2, FlowFixed
<1> QED
  BY <1>5, <1>6, <1>7, <1>8 DEF Flow!IInv

\* The machine fires only a pair in its index, and the gate lets an actor pass only
\* where one of the step's roles is its own: then the menu would have offered it.
LEMMA FlowFires ==
  ASSUME Flow!Wired, NEW a \in Actors, NEW event, NEW answers,
         ~Flow!Gated(a, event), Flow!Advance(Flow!Machine, state, event, answers).kind = "fired"
  PROVE  /\ event \in Flow!Actions(state, a)
         /\ \E i \in DOMAIN definition.steps :
              /\ definition.steps[i].state = state /\ definition.steps[i].event = event
              /\ definition.steps[i].to = Flow!Advance(Flow!Machine, state, event, answers).dst
              /\ definition.steps[i].to \in Flow!StatesOf(definition)
              /\ definition.steps[i].roles \cap {Flow!ANY_ROLE, a} # {}
<1> DEFINE verdict == Flow!Advance(Flow!Machine, state, event, answers)
           key    == <<state, event>>
<1>1. key \in DOMAIN Flow!Machine.index /\ verdict = Flow!Fired(Flow!Machine.index[key])
  BY DEF Flow!Advance, Flow!Fired, Flow!Refusal, Flow!Miswired
<1>2. /\ key \in DOMAIN Flow!Roles /\ event \in Flow!Events
      /\ \E i \in DOMAIN definition.steps :
           /\ definition.steps[i].state = state /\ definition.steps[i].event = event
           /\ Flow!Machine.index[key].dst = definition.steps[i].to
           /\ Flow!Roles[key] = definition.steps[i].roles
           /\ definition.steps[i].to \in Flow!StatesOf(definition)
  BY <1>1, FlowWiring
<1>3. Flow!ANY_ROLE \in Flow!Roles[key] \/ a \in Flow!Roles[key]
  BY <1>2 DEF Flow!Gated
<1>4. verdict.dst = Flow!Machine.index[key].dst
  BY <1>1 DEF Flow!Fired
<1>5. event \in Flow!Actions(state, a)
  BY <1>2, <1>3 DEF Flow!Actions
<1>6. Flow!Roles[key] \cap {Flow!ANY_ROLE, a} # {}
  BY <1>3
<1> QED
  BY <1>2, <1>4, <1>5, <1>6

LEMMA FlowMove ==
  ASSUME Flow!IInv, NEW a \in Actors, NEW event, NEW answers, Flow!Move(a, event, answers)
  PROVE  Flow!IInv'
<1> DEFINE verdict == IF Flow!Gated(a, event) THEN Flow!Refusal
                     ELSE Flow!Advance(Flow!Machine, state, event, answers)
           entry  == [event |-> event, actor |-> a, from |-> state, to |-> verdict.dst]
<1>1. /\ IF verdict.kind = "fired" THEN Flow!Record(a, event, verdict.dst)
         ELSE UNCHANGED <<state, history>>
      /\ UNCHANGED <<definition, workflow, menu>>
  BY DEF Flow!Move
<1>2. Flow!TypeOK /\ Flow!Wired /\ Flow!MenusOutlive /\ Flow!HistoryIsAPath /\ Flow!OnlyAuthorised
  BY DEF Flow!IInv
<1>3. Flow!Wired' /\ Flow!MenusOutlive'
  BY <1>1, <1>2, FlowFixed DEF Flow!MenusOutlive
<1>4. CASE UNCHANGED <<state, history>>
  <2>1. Flow!TypeOK'
    BY <1>1, <1>2, <1>4, FlowFixed DEF Flow!TypeOK
  <2>2. Flow!HistoryIsAPath' /\ Flow!OnlyAuthorised'
    BY <1>1, <1>2, <1>4 DEF Flow!HistoryIsAPath, Flow!OnlyAuthorised, Flow!StepFor
  <2> QED
    BY <1>3, <2>1, <2>2 DEF Flow!IInv
<1>5. CASE verdict.kind = "fired"
  <2>1. ~Flow!Gated(a, event) /\ verdict = Flow!Advance(Flow!Machine, state, event, answers)
    BY <1>5 DEF Flow!Refusal
  <2>2. /\ event \in Flow!Actions(state, a)
        /\ \E i \in DOMAIN definition.steps :
             /\ definition.steps[i].state = state /\ definition.steps[i].event = event
             /\ definition.steps[i].to = verdict.dst
             /\ definition.steps[i].to \in Flow!StatesOf(definition)
             /\ definition.steps[i].roles \cap {Flow!ANY_ROLE, a} # {}
    BY <1>2, <1>5, <2>1, FlowFires
  <2>3. history' = Append(history, entry) /\ state' = verdict.dst
    BY <1>1, <1>5 DEF Flow!Record
  <2>4. /\ entry.event = event /\ entry.actor = a /\ entry.from = state /\ entry.to = verdict.dst
        /\ entry \in [event : Flow!Events, actor : Actors,
                      from : Flow!StatesOf(definition), to : Flow!StatesOf(definition)]
    BY <1>2, <2>2 DEF Flow!TypeOK, Flow!Actions
  <2>5. \E i \in Flow!StepFor(entry) : definition.steps[i].roles \cap {Flow!ANY_ROLE, entry.actor} # {}
    BY <2>2, <2>4 DEF Flow!StepFor
  <2> HIDE DEF entry, verdict
  <2>6. Flow!TypeOK'
    BY <1>1, <1>2, <2>3, <2>4, FlowFixed DEF Flow!TypeOK
  <2>7. /\ DOMAIN history = 1..Len(history) /\ Len(history) \in Nat
        /\ DOMAIN history' = 1..(Len(history) + 1) /\ Len(history') = Len(history) + 1
        /\ \A i \in 1..Len(history) : history'[i] = history[i]
        /\ history'[Len(history) + 1] = entry
    BY <1>2, <2>3, <2>4 DEF Flow!TypeOK
  <2>8. Flow!HistoryIsAPath'
    <3> DEFINE At(i)   == IF i = 0 THEN definition.start ELSE history[i].to
               Then(i) == IF i = 0 THEN definition.start ELSE history'[i].to
    <3>1. /\ \A i \in DOMAIN history : history[i].from = At(i - 1) /\ Flow!StepFor(history[i]) # {}
          /\ state = At(Len(history))
      BY <1>2 DEF Flow!HistoryIsAPath
    <3>2. \A i \in 0..Len(history) : Then(i) = At(i)
      BY <2>7
    <3>3. ASSUME NEW i \in 1..(Len(history) + 1)
          PROVE  history'[i].from = Then(i - 1) /\ Flow!StepFor(history'[i]) # {}
      <4>1. CASE i = Len(history) + 1
        <5>1. i - 1 = Len(history) /\ Then(i - 1) = state
          BY <2>7, <3>1, <3>2, <4>1
        <5> QED
          BY <2>4, <2>5, <2>7, <4>1, <5>1
      <4>2. CASE i # Len(history) + 1
        <5>1. i \in DOMAIN history /\ i - 1 \in 0..Len(history) /\ history'[i] = history[i]
          BY <2>7, <4>2
        <5> QED
          BY <3>1, <3>2, <5>1
      <4> QED
        BY <4>1, <4>2
    <3>4. state' = Then(Len(history'))
      BY <2>3, <2>4, <2>7
    <3> QED
      BY <1>1, <2>7, <3>3, <3>4 DEF Flow!HistoryIsAPath, Flow!StepFor
  <2>9. Flow!OnlyAuthorised'
    <3>1. ASSUME NEW i \in DOMAIN history'
          PROVE  \E s \in Flow!StepFor(history'[i]) :
                   definition.steps[s].roles \cap {Flow!ANY_ROLE, history'[i].actor} # {}
      <4>1. CASE i = Len(history) + 1
        BY <2>5, <2>7, <4>1
      <4>2. CASE i # Len(history) + 1
        <5>1. i \in DOMAIN history /\ history'[i] = history[i]
          BY <2>7, <4>2
        <5> QED
          BY <1>2, <5>1 DEF Flow!OnlyAuthorised
      <4> QED
        BY <4>1, <4>2
    <3> QED
      BY <1>1, <3>1 DEF Flow!OnlyAuthorised, Flow!StepFor
  <2> QED
    BY <1>3, <2>6, <2>8, <2>9 DEF Flow!IInv
<1> QED
  BY <1>1, <1>4, <1>5

LEMMA FlowInductive == ShelfSpec => []Flow!IInv
<1>1. ShelfInit => Flow!IInv
  BY FlowInit DEF ShelfInit
<1>2. Flow!IInv /\ [Flow!Next]_flow => Flow!IInv'
  <2> SUFFICES ASSUME Flow!IInv, [Flow!Next]_flow
               PROVE  Flow!IInv'
    OBVIOUS
  <2>1. ASSUME NEW a \in Actors, Flow!Look(a)
        PROVE  Flow!IInv'
    BY <2>1, FlowLook
  <2>2. ASSUME NEW a \in Actors, NEW event, NEW answers, Flow!Move(a, event, answers)
        PROVE  Flow!IInv'
    BY <2>2, FlowMove
  <2>3. CASE UNCHANGED flow
    <3>1. UNCHANGED <<definition, workflow, state, history, menu>>
      BY <2>3 DEF flow
    <3>2. Flow!TypeOK' /\ Flow!Wired' /\ Flow!MenusOutlive'
      BY <3>1, FlowFixed DEF Flow!IInv, Flow!TypeOK, Flow!MenusOutlive
    <3>3. Flow!HistoryIsAPath' /\ Flow!OnlyAuthorised'
      BY <3>1 DEF Flow!IInv, Flow!HistoryIsAPath, Flow!OnlyAuthorised, Flow!StepFor
    <3> QED
      BY <3>2, <3>3 DEF Flow!IInv
  <2> QED
    BY <2>1, <2>2, <2>3 DEF Flow!Next
<1>3. [ShelfNext]_<<core, vars, loader, bus, framer, telnet, evidence, flow, metrics,
                    directory, health, typed, sheet, shelved>> => [Flow!Next]_flow
  BY DEF ShelfNext, Turn
<1> QED
  BY <1>1, <1>2, <1>3, PTL DEF ShelfSpec

\* The trail of a workflow is how it got where it is.
THEOREM TrailIsAPath == ShelfSpec => []HistoryIsAPath
<1>1. Flow!IInv => HistoryIsAPath
  BY DEF Flow!IInv, HistoryIsAPath
<1> QED
  BY <1>1, FlowInductive, PTL

\* Each entry of it has a step of the definition that its actor's role allows.
THEOREM TrailIsAuthorised == ShelfSpec => []OnlyAuthorised
<1>1. Flow!IInv => OnlyAuthorised
  BY DEF Flow!IInv, OnlyAuthorised
<1> QED
  BY <1>1, FlowInductive, PTL

\* What actions() offers and nobody has overtaken advance() does, and what advance()
\* does actions() would have offered.
THEOREM HonestMenus == ShelfSpec => MenusAreHonest
<1> DEFINE Honest == outcome'.kind # "none" =>
                       Flow!HonestAbout(outcome'.actor, outcome'.event, outcome'.kind)
<1>1. Flow!IInv /\ [Flow!Next]_flow => [Honest]_flow
  <2> SUFFICES ASSUME Flow!IInv, Flow!Next
               PROVE  Honest
    OBVIOUS
  <2>1. Flow!Wired /\ Flow!MenusOutlive
    BY DEF Flow!IInv
  <2>2. ASSUME NEW a \in Actors, Flow!Look(a)
        PROVE  Honest
    BY <2>2 DEF Flow!Look, Flow!Nothing
  <2>3. ASSUME NEW a \in Actors, NEW event, NEW answers, Flow!Move(a, event, answers)
        PROVE  Honest
    <3> DEFINE verdict == IF Flow!Gated(a, event) THEN Flow!Refusal
                         ELSE Flow!Advance(Flow!Machine, state, event, answers)
               key    == <<state, event>>
    <3>1. outcome'.kind = verdict.kind /\ outcome'.actor = a /\ outcome'.event = event
      BY <2>3 DEF Flow!Move
    <3>2. ASSUME event \in menu[a].events, menu[a].seen = state, Flow!Unguarded(state, event)
          PROVE  verdict.kind = "fired"
      <4>1. event \in Flow!Actions(state, a)
        BY <2>1, <3>2 DEF Flow!MenusOutlive
      <4>2. key \in DOMAIN Flow!Roles /\ ~Flow!Gated(a, event)
        BY <4>1 DEF Flow!Actions, Flow!Gated
      <4>3. key \in DOMAIN Flow!Machine.index /\ Flow!Machine.index[key].guard = Flow!NoGuard
        BY <2>1, <3>2, <4>2, FlowWiring DEF Flow!Unguarded
      <4> QED
        BY <4>2, <4>3 DEF Flow!Advance, Flow!Fired
    <3>3. verdict.kind = "fired" => event \in Flow!Actions(state, a)
      <4>1. ASSUME verdict.kind = "fired"
            PROVE  ~Flow!Gated(a, event) /\ verdict = Flow!Advance(Flow!Machine, state, event, answers)
        BY <4>1 DEF Flow!Refusal
      <4> QED
        BY <2>1, <4>1, FlowFires
    <3> HIDE DEF verdict
    <3> QED
      BY <3>1, <3>2, <3>3 DEF Flow!HonestAbout
  <2> QED
    BY <2>2, <2>3 DEF Flow!Next
<1>2. [ShelfNext]_<<core, vars, loader, bus, framer, telnet, evidence, flow, metrics,
                    directory, health, typed, sheet, shelved>> => [Flow!Next]_flow
  BY DEF ShelfNext, Turn
<1> QED
  BY <1>1, <1>2, FlowInductive, PTL DEF ShelfSpec, MenusAreHonest, Flow!MenusAreHonest, flow, Flow!vars

--------------------------------------------------------------------------------
\* The signal bus. A prefix, position by position.
LEMMA Prefix ==
  ASSUME NEW A, NEW s \in Seq(A), NEW t \in Seq(A)
  PROVE  Bus!IsPrefix(s, t) <=> Len(s) <= Len(t) /\ \A i \in 1..Len(s) : s[i] = t[i]
<1>1. Len(s) \in Nat /\ Len(t) \in Nat
  OBVIOUS
<1>2. CASE Len(s) <= Len(t)
  <2>1. /\ SubSeq(s, 1, Len(s)) \in Seq(A) /\ Len(SubSeq(s, 1, Len(s))) = Len(s)
        /\ SubSeq(t, 1, Len(s)) \in Seq(A) /\ Len(SubSeq(t, 1, Len(s))) = Len(s)
        /\ \A i \in 1..Len(s) : SubSeq(s, 1, Len(s))[i] = s[i] /\ SubSeq(t, 1, Len(s))[i] = t[i]
    BY <1>1, <1>2
  <2>2. SubSeq(s, 1, Len(s)) = SubSeq(t, 1, Len(s)) <=> \A i \in 1..Len(s) : s[i] = t[i]
    BY <2>1
  <2> QED
    BY <1>2, <2>2 DEF Bus!IsPrefix
<1>3. CASE ~(Len(s) <= Len(t))
  BY <1>3 DEF Bus!IsPrefix
<1> QED
  BY <1>2, <1>3

LEMMA PrefixGrows ==
  ASSUME NEW A, NEW s \in Seq(A), NEW t \in Seq(A), NEW x \in A, Bus!IsPrefix(s, t)
  PROVE  /\ Bus!IsPrefix(s, Append(t, x))
         /\ Len(s) < Len(t) /\ x = t[Len(s) + 1] => Bus!IsPrefix(Append(s, x), t)
<1>1. Len(s) <= Len(t) /\ \A i \in 1..Len(s) : s[i] = t[i]
  BY Prefix
<1>2. /\ Append(t, x) \in Seq(A) /\ Len(Append(t, x)) = Len(t) + 1
      /\ Append(s, x) \in Seq(A) /\ Len(Append(s, x)) = Len(s) + 1
      /\ \A i \in 1..Len(t) : Append(t, x)[i] = t[i]
      /\ \A i \in 1..Len(s) : Append(s, x)[i] = s[i]
      /\ Append(s, x)[Len(s) + 1] = x
  OBVIOUS
<1>3. Bus!IsPrefix(s, Append(t, x))
  <2> DEFINE more == Append(t, x)
  <2>1. more \in Seq(A) /\ Len(s) <= Len(more) /\ \A i \in 1..Len(s) : s[i] = more[i]
    BY <1>1, <1>2
  <2> HIDE DEF more
  <2>2. Bus!IsPrefix(s, more)
    BY <2>1, Prefix
  <2> QED
    BY <2>2 DEF more
<1>4. ASSUME Len(s) < Len(t), x = t[Len(s) + 1]
      PROVE  Bus!IsPrefix(Append(s, x), t)
  <2> DEFINE more == Append(s, x)
  <2>1. more \in Seq(A) /\ Len(more) <= Len(t) /\ \A i \in 1..Len(more) : more[i] = t[i]
    BY <1>1, <1>2, <1>4
  <2> HIDE DEF more
  <2>2. Bus!IsPrefix(more, t)
    BY <2>1, Prefix
  <2> QED
    BY <2>2 DEF more
<1> QED
  BY <1>3, <1>4

LEMMA PrefixWhole ==
  ASSUME NEW A, NEW s \in Seq(A), NEW t \in Seq(A)
  PROVE  /\ Bus!IsPrefix(<<>>, t) /\ Bus!IsPrefix(t, t)
         /\ Bus!IsPrefix(s, t) /\ Len(s) = Len(t) => s = t
<1> DEFINE none == <<>>
<1>1. none \in Seq(A) /\ Len(none) <= Len(t) /\ \A i \in 1..Len(none) : none[i] = t[i]
  OBVIOUS
<1> HIDE DEF none
<1>2. Bus!IsPrefix(none, t)
  BY <1>1, Prefix
<1>3. Bus!IsPrefix(t, t)
  BY Prefix
<1>4. Bus!IsPrefix(s, t) /\ Len(s) = Len(t) => s = t
  <2>1. Bus!IsPrefix(s, t) => \A i \in 1..Len(s) : s[i] = t[i]
    BY Prefix
  <2> QED
    BY <2>1
<1> QED
  BY <1>2, <1>3, <1>4 DEF none

LEMMA BusSubscribe ==
  ASSUME Bus!IInv, NEW t \in Types, NEW h \in Handlers, Bus!Subscribe(t, h)
  PROVE  Bus!IInv'
<1>1. subscribers' = [subscribers EXCEPT ![t] = Append(@, h)] /\ UNCHANGED <<frames, ended>>
  BY DEF Bus!Subscribe
<1>2. Bus!TypeOK /\ Bus!EveryoneHears
  BY DEF Bus!IInv
<1>3. Bus!TypeOK'
  BY <1>1, <1>2 DEF Bus!TypeOK
<1>4. \A u \in Types : subscribers'[u] = subscribers[u] \/ subscribers'[u] = Append(subscribers[u], h)
  BY <1>1, <1>2 DEF Bus!TypeOK
<1>5. ASSUME NEW i \in DOMAIN frames
      PROVE  /\ Bus!IsPrefix(frames[i].heard, subscribers'[frames[i].type])
             /\ Bus!IsPrefix(frames[i].had, subscribers'[frames[i].type])
  <2>1. /\ frames[i].type \in Types /\ frames[i].heard \in Seq(Handlers) /\ frames[i].had \in Seq(Handlers)
        /\ subscribers[frames[i].type] \in Seq(Handlers)
    <3>1. frames[i] \in Bus!Frames
      BY <1>2 DEF Bus!TypeOK
    <3> QED
      BY <1>2, <3>1 DEF Bus!TypeOK, Bus!Frames
  <2>2. /\ Bus!IsPrefix(frames[i].heard, subscribers[frames[i].type])
        /\ Bus!IsPrefix(frames[i].had, subscribers[frames[i].type])
    BY <1>2 DEF Bus!EveryoneHears
  <2>3. /\ Bus!IsPrefix(frames[i].heard, Append(subscribers[frames[i].type], h))
        /\ Bus!IsPrefix(frames[i].had, Append(subscribers[frames[i].type], h))
    BY <2>1, <2>2, PrefixGrows
  <2> QED
    BY <1>4, <2>1, <2>2, <2>3
<1>6. Bus!EveryoneHears'
  BY <1>1, <1>2, <1>5 DEF Bus!EveryoneHears
<1> QED
  BY <1>3, <1>6 DEF Bus!IInv

LEMMA BusPublish ==
  ASSUME Bus!IInv, NEW t \in Types, Bus!Publish(t)
  PROVE  Bus!IInv'
<1> DEFINE new == [type |-> t, had |-> subscribers[t], heard |-> <<>>, running |-> FALSE]
<1>1. frames' = Append(frames, new) /\ UNCHANGED <<subscribers, ended>>
  BY DEF Bus!Publish
<1>2. Bus!TypeOK /\ Bus!EveryoneHears
  BY DEF Bus!IInv
<1>3. /\ new \in Bus!Frames
      /\ new.type = t /\ new.had = subscribers[t] /\ new.heard = <<>> /\ subscribers[t] \in Seq(Handlers)
  BY <1>2 DEF Bus!TypeOK, Bus!Frames
<1> HIDE DEF new
<1>4. Bus!TypeOK'
  BY <1>1, <1>2, <1>3 DEF Bus!TypeOK
<1>5. \A i \in DOMAIN frames' : (i \in DOMAIN frames /\ frames'[i] = frames[i]) \/ frames'[i] = new
  BY <1>1, <1>2, <1>3 DEF Bus!TypeOK
<1>6. Bus!IsPrefix(new.heard, subscribers[new.type]) /\ Bus!IsPrefix(new.had, subscribers[new.type])
  BY <1>3, PrefixWhole
<1>7. Bus!EveryoneHears'
  BY <1>1, <1>2, <1>5, <1>6 DEF Bus!EveryoneHears
<1> QED
  BY <1>4, <1>7 DEF Bus!IInv

\* The innermost call, and a step that changes nothing but what it has heard.
LEMMA BusTop ==
  ASSUME Bus!TypeOK, frames # <<>>
  PROVE  /\ Len(frames) \in DOMAIN frames /\ Bus!Top = frames[Len(frames)]
         /\ Bus!Top \in Bus!Frames
<1>1. Len(frames) \in DOMAIN frames /\ frames[Len(frames)] \in Bus!Frames
  BY DEF Bus!TypeOK
<1> QED
  BY <1>1 DEF Bus!Top, Bus!Last

LEMMA BusGoesOn ==
  ASSUME Bus!IInv, frames # <<>>, UNCHANGED <<subscribers, ended>>,
         NEW heard \in Seq(Handlers), NEW running \in BOOLEAN,
         Bus!IsPrefix(heard, subscribers[Bus!Top.type]),
         frames' = [frames EXCEPT ![Len(frames)] = [Bus!Top EXCEPT !.heard = heard, !.running = running]]
  PROVE  Bus!IInv'
<1> DEFINE new == [Bus!Top EXCEPT !.heard = heard, !.running = running]
<1>1. Bus!TypeOK /\ Bus!EveryoneHears
  BY DEF Bus!IInv
<1>2. /\ Len(frames) \in DOMAIN frames /\ Bus!Top = frames[Len(frames)]
      /\ Bus!Top \in Bus!Frames
  BY <1>1, BusTop
<1>3. /\ new \in Bus!Frames
      /\ new.type = Bus!Top.type /\ new.had = Bus!Top.had /\ new.heard = heard
  BY <1>2 DEF Bus!Frames
<1> HIDE DEF new
<1>4. frames' = [frames EXCEPT ![Len(frames)] = new]
  BY DEF new
<1>5. Bus!TypeOK'
  BY <1>1, <1>2, <1>3, <1>4 DEF Bus!TypeOK
<1>6. DOMAIN frames' = DOMAIN frames /\ \A i \in DOMAIN frames : frames'[i] = IF i = Len(frames) THEN new ELSE frames[i]
  BY <1>4
<1>7. Bus!IsPrefix(new.had, subscribers[new.type])
  BY <1>1, <1>2, <1>3 DEF Bus!EveryoneHears
<1>8. Bus!EveryoneHears'
  BY <1>1, <1>2, <1>3, <1>6, <1>7 DEF Bus!EveryoneHears
<1> QED
  BY <1>5, <1>8 DEF Bus!IInv

LEMMA BusDeliver ==
  ASSUME Bus!IInv, Bus!Deliver
  PROVE  Bus!IInv'
<1> DEFINE next  == subscribers[Bus!Top.type][Len(Bus!Top.heard) + 1]
           heard == Append(Bus!Top.heard, next)
<1>1. /\ frames # <<>> /\ Len(Bus!Top.heard) < Len(subscribers[Bus!Top.type])
      /\ frames' = [frames EXCEPT ![Len(frames)].heard   = Append(@, next),
                                  ![Len(frames)].running = TRUE]
      /\ UNCHANGED <<subscribers, ended>>
  BY DEF Bus!Deliver, Bus!Free
<1>2. Bus!TypeOK /\ Bus!EveryoneHears
  BY DEF Bus!IInv
<1>3. /\ Len(frames) \in DOMAIN frames /\ Bus!Top = frames[Len(frames)]
      /\ Bus!Top \in Bus!Frames
  BY <1>1, <1>2, BusTop
<1>4. Bus!Top.heard \in Seq(Handlers) /\ subscribers[Bus!Top.type] \in Seq(Handlers)
  BY <1>2, <1>3 DEF Bus!TypeOK, Bus!Frames
<1>5. Bus!IsPrefix(Bus!Top.heard, subscribers[Bus!Top.type])
  BY <1>2, <1>3 DEF Bus!EveryoneHears
<1>6. next \in Handlers
  BY <1>1, <1>4
<1>7. heard \in Seq(Handlers) /\ Bus!IsPrefix(heard, subscribers[Bus!Top.type])
  BY <1>1, <1>4, <1>5, <1>6, PrefixGrows
<1>8. frames' = [frames EXCEPT ![Len(frames)] = [Bus!Top EXCEPT !.heard = heard, !.running = TRUE]]
  BY <1>1, <1>3
<1> HIDE DEF heard, next
<1> QED
  BY <1>1, <1>7, <1>8, BusGoesOn

LEMMA BusReturns ==
  ASSUME Bus!IInv, Bus!HandlerReturns
  PROVE  Bus!IInv'
<1>1. /\ frames # <<>> /\ frames' = [frames EXCEPT ![Len(frames)].running = FALSE]
      /\ UNCHANGED <<subscribers, ended>>
  BY DEF Bus!HandlerReturns
<1>2. Bus!TypeOK /\ Bus!EveryoneHears
  BY DEF Bus!IInv
<1>3. /\ Len(frames) \in DOMAIN frames /\ Bus!Top = frames[Len(frames)]
      /\ Bus!Top \in Bus!Frames
  BY <1>1, <1>2, BusTop
<1>4. Bus!Top.heard \in Seq(Handlers) /\ Bus!IsPrefix(Bus!Top.heard, subscribers[Bus!Top.type])
  BY <1>2, <1>3 DEF Bus!EveryoneHears, Bus!Frames
<1>5. [Bus!Top EXCEPT !.running = FALSE] = [Bus!Top EXCEPT !.heard = Bus!Top.heard, !.running = FALSE]
  BY <1>3 DEF Bus!Frames
<1>6. frames' = [frames EXCEPT ![Len(frames)] = [Bus!Top EXCEPT !.heard = Bus!Top.heard, !.running = FALSE]]
  BY <1>1, <1>3, <1>5
<1> QED
  BY <1>1, <1>4, <1>6, BusGoesOn

\* The call that ends has heard a prefix of the list as it is now, and the whole of it
\* if it was exhausted.
LEMMA BusLeave ==
  ASSUME Bus!IInv, frames # <<>>, NEW how, Bus!Leave(how),
         how = "returned" => Len(Bus!Top.heard) = Len(subscribers[Bus!Top.type])
  PROVE  Bus!IInv'
<1> DEFINE list == subscribers[Bus!Top.type]
<1>1. /\ frames' = Bus!Front(frames)
      /\ ended' = [had |-> Bus!Top.had, heard |-> Bus!Top.heard, left |-> list, how |-> how]
      /\ UNCHANGED subscribers
  BY DEF Bus!Leave
<1>2. Bus!TypeOK /\ Bus!EveryoneHears
  BY DEF Bus!IInv
<1>3. /\ Len(frames) \in DOMAIN frames /\ Bus!Top = frames[Len(frames)]
      /\ Bus!Top \in Bus!Frames
  BY <1>2, BusTop
<1>4. /\ Bus!Top.had \in Seq(Handlers) /\ Bus!Top.heard \in Seq(Handlers) /\ list \in Seq(Handlers)
      /\ Bus!IsPrefix(Bus!Top.heard, list) /\ Bus!IsPrefix(Bus!Top.had, list)
  BY <1>2, <1>3 DEF Bus!TypeOK, Bus!EveryoneHears, Bus!Frames
<1>5. frames' = SubSeq(frames, 1, Len(frames) - 1)
  BY <1>1 DEF Bus!Front
<1>6. frames' \in Seq(Bus!Frames)
  <2>1. Len(frames) - 1 \in Int /\ \A i \in 1..(Len(frames) - 1) : frames[i] \in Bus!Frames
    BY <1>2 DEF Bus!TypeOK
  <2> QED
    BY <1>5, <2>1, SubSeqProperties
<1>7. \A i \in DOMAIN frames' : i \in DOMAIN frames /\ frames'[i] = frames[i]
  BY <1>2, <1>3, <1>5 DEF Bus!TypeOK
<1>8. /\ ended'.had = Bus!Top.had /\ ended'.heard = Bus!Top.heard
      /\ ended'.left = list /\ ended'.how = how
  BY <1>1
<1>9. how = "returned" => Bus!Top.heard = list
  BY <1>4, PrefixWhole
<1>10. Bus!TypeOK'
  BY <1>1, <1>2, <1>6 DEF Bus!TypeOK
<1>11. Bus!EveryoneHears'
  BY <1>1, <1>2, <1>4, <1>7, <1>8, <1>9 DEF Bus!EveryoneHears
<1> QED
  BY <1>10, <1>11 DEF Bus!IInv

\* With handlers that subscribe, publish and raise as they run, nobody subscribed is
\* skipped or called twice.
THEOREM NobodyIsSkipped == ShelfSpec => []EveryoneHears
<1>1. ASSUME Bus!Init
      PROVE  Bus!IInv
  <2>1. subscribers = [t \in Types |-> <<>>] /\ frames = <<>> /\ ended.how = "none"
    BY <1>1 DEF Bus!Init
  <2>2. Bus!TypeOK
    BY <2>1 DEF Bus!TypeOK
  <2>3. Bus!EveryoneHears
    BY <2>1 DEF Bus!EveryoneHears
  <2> QED
    BY <2>2, <2>3 DEF Bus!IInv
<1>2. Bus!IInv /\ [Bus!Next]_bus => Bus!IInv'
  <2> SUFFICES ASSUME Bus!IInv, [Bus!Next]_bus
               PROVE  Bus!IInv'
    OBVIOUS
  <2>1. ASSUME NEW t \in Types, Bus!Publish(t)
        PROVE  Bus!IInv'
    BY <2>1, BusPublish
  <2>2. ASSUME NEW t \in Types, NEW h \in Handlers, Bus!Subscribe(t, h)
        PROVE  Bus!IInv'
    BY <2>2, BusSubscribe
  <2>3. CASE Bus!Deliver \/ Bus!HandlerReturns
    BY <2>3, BusDeliver, BusReturns
  <2>4. CASE Bus!HandlerRaises
    BY <2>4, BusLeave DEF Bus!HandlerRaises
  <2>5. CASE Bus!Exhausted
    BY <2>5, BusLeave DEF Bus!Exhausted, Bus!Free
  <2>6. CASE UNCHANGED bus
    BY <2>6 DEF bus, Bus!IInv, Bus!TypeOK, Bus!EveryoneHears
  <2> QED
    BY <2>1, <2>2, <2>3, <2>4, <2>5, <2>6 DEF Bus!Next
<1>3. [ShelfNext]_<<core, vars, loader, bus, framer, telnet, evidence, flow, metrics,
                    directory, health, typed, sheet, shelved>> => [Bus!Next]_bus
  BY DEF ShelfNext, Turn
<1>4. ShelfInit => Bus!IInv
  BY <1>1 DEF ShelfInit
<1>5. Bus!IInv => EveryoneHears
  BY DEF Bus!IInv, EveryoneHears
<1> QED
  BY <1>2, <1>3, <1>4, <1>5, PTL DEF ShelfSpec

--------------------------------------------------------------------------------
\* Test evidence. The greatest of some numbers up to n, one more number added to them.
LEMMA EvidenceMax ==
  ASSUME NEW n \in Nat, NEW S \in SUBSET (1..n)
  PROVE  /\ S # {} => Evidence!Max(S) \in S
         /\ Evidence!Max(S \cup {n + 1}) = n + 1
<1>1. \A k \in S : k \in Nat /\ k <= n
  OBVIOUS
<1>2. ASSUME NEW T, NEW m \in T, T \subseteq Nat, \A k \in T : k <= m
      PROVE  Evidence!Max(T) = m
  <2>1. \A k \in T : (\A j \in T : k >= j) <=> k = m
    BY <1>2
  <2> QED
    BY <1>2, <2>1, Zenon DEF Evidence!Max
<1>3. S # {} => Evidence!Max(S) \in S
  <2>1. ASSUME S # {} PROVE \E m \in S : \A k \in S : k <= m
    BY <2>1, Greatest
  <2>2. S \subseteq Nat
    BY <1>1
  <2> QED
    BY <1>2, <2>1, <2>2
<1>4. Evidence!Max(S \cup {n + 1}) = n + 1
  <2>1. /\ n + 1 \in S \cup {n + 1} /\ S \cup {n + 1} \subseteq Nat
        /\ \A k \in S \cup {n + 1} : k <= n + 1
    BY <1>1
  <2> QED
    BY <1>2, <2>1
<1> QED
  BY <1>3, <1>4

\* What one more call adds to the calls made of a check.
LEMMA EvidenceMade ==
  ASSUME Evidence!TypeOK, NEW id \in Checks, NEW status, NEW c \in Checks,
         recorded' = Append(recorded, <<id, status>>)
  PROVE  /\ Len(recorded) \in Nat /\ Evidence!Made(c, Evidence!Recordable) \subseteq 1..Len(recorded)
         /\ \A i \in Evidence!Made(c, Evidence!Recordable) : recorded'[i] = recorded[i]
         /\ recorded'[Len(recorded) + 1][2] = status
         /\ Evidence!Made(c, Evidence!Recordable)' =
              IF c = id /\ status \in Evidence!Recordable
                THEN Evidence!Made(c, Evidence!Recordable) \cup {Len(recorded) + 1}
              ELSE Evidence!Made(c, Evidence!Recordable)
         /\ Evidence!Made(c, {Evidence!MISSING})' =
              IF c = id /\ status = Evidence!MISSING
                THEN Evidence!Made(c, {Evidence!MISSING}) \cup {Len(recorded) + 1}
              ELSE Evidence!Made(c, {Evidence!MISSING})
<1> DEFINE entry == <<id, status>>
           Then(S) == {i \in DOMAIN recorded' : recorded'[i][1] = c /\ recorded'[i][2] \in S}
<1>1. entry[1] = id /\ entry[2] = status
  OBVIOUS
<1> HIDE DEF entry
<1>2. recorded' = Append(recorded, entry) /\ Len(recorded) \in Nat /\ DOMAIN recorded = 1..Len(recorded)
  BY DEF Evidence!TypeOK, entry
<1>3. /\ DOMAIN recorded' = 1..(Len(recorded) + 1)
      /\ \A i \in 1..Len(recorded) : recorded'[i] = recorded[i]
      /\ recorded'[Len(recorded) + 1] = entry
  <2> DEFINE A == Checks \X (Evidence!Recordable \cup {Evidence!MISSING, "nonsense"})
  <2>1. recorded \in Seq(A)
    BY DEF Evidence!TypeOK
  <2> HIDE DEF A
  <2> DEFINE B == A \cup {entry}
  <2>2. recorded \in Seq(B) /\ entry \in B
    BY <2>1
  <2> HIDE DEF B
  <2>3. /\ recorded' \in Seq(B) /\ Len(recorded') = Len(recorded) + 1
        /\ \A i \in 1..Len(recorded) : recorded'[i] = recorded[i]
        /\ recorded'[Len(recorded) + 1] = entry
    BY <1>2, <2>2, AppendProperties
  <2>4. DOMAIN recorded' = 1..Len(recorded')
    BY <2>3, LenProperties
  <2> QED
    BY <2>3, <2>4
<1>4. Evidence!Made(c, Evidence!Recordable) \subseteq 1..Len(recorded)
  BY <1>2 DEF Evidence!Made
<1>5. ASSUME NEW S
      PROVE  Then(S) = IF c = id /\ status \in S THEN Evidence!Made(c, S) \cup {Len(recorded) + 1}
                        ELSE Evidence!Made(c, S)
  <2>1. ASSUME NEW i
        PROVE  i \in Then(S) <=> \/ i \in Evidence!Made(c, S)
                                 \/ c = id /\ status \in S /\ i = Len(recorded) + 1
    <3>1. CASE i \in 1..Len(recorded)
      BY <1>2, <1>3, <3>1 DEF Evidence!Made
    <3>2. CASE i = Len(recorded) + 1
      BY <1>1, <1>2, <1>3, <3>2 DEF Evidence!Made
    <3>3. CASE i \notin 1..(Len(recorded) + 1)
      BY <1>2, <1>3, <3>3 DEF Evidence!Made
    <3> QED
      BY <1>2, <3>1, <3>2, <3>3
  <2> HIDE DEF Then
  <2> QED
    BY <2>1
<1>6. /\ Evidence!Made(c, Evidence!Recordable)' = Then(Evidence!Recordable)
      /\ Evidence!Made(c, {Evidence!MISSING})' = Then({Evidence!MISSING})
  BY DEF Evidence!Made, Evidence!Recordable, Evidence!MISSING
<1> HIDE DEF Then
<1>7. status \in {Evidence!MISSING} <=> status = Evidence!MISSING
  OBVIOUS
<1> QED
  BY <1>1, <1>2, <1>3, <1>4, <1>5, <1>6, <1>7

LEMMA EvidenceTypes ==
  ASSUME Evidence!TypeOK, NEW id \in Checks,
         NEW status \in Evidence!Recordable \cup {Evidence!MISSING, "nonsense"},
         Evidence!Called(id, status)
  PROVE  recorded' = Append(recorded, <<id, status>>) /\
         recorded' \in Seq(Checks \X (Evidence!Recordable \cup {Evidence!MISSING, "nonsense"}))
<1> DEFINE entry == <<id, status>>
           Calls == Checks \X (Evidence!Recordable \cup {Evidence!MISSING, "nonsense"})
<1>1. entry \in Calls
  OBVIOUS
<1>2. recorded' = Append(recorded, entry) /\ recorded \in Seq(Calls)
  BY DEF Evidence!Called, Evidence!TypeOK
<1> HIDE DEF entry, Calls
<1>3. recorded' \in Seq(Calls)
  BY <1>1, <1>2
<1> QED
  BY <1>2, <1>3 DEF entry, Calls

LEMMA EvidenceExpect ==
  ASSUME Evidence!IInv, NEW id \in Checks, Evidence!Expect(id)
  PROVE  Evidence!IInv'
<1>1. /\ Evidence!Called(id, Evidence!MISSING)
      /\ expected' = expected \cup {id} /\ UNCHANGED records
  BY DEF Evidence!Expect
<1>2. Evidence!TypeOK /\ Evidence!Kept
  BY DEF Evidence!IInv
<1>3. /\ recorded' = Append(recorded, <<id, Evidence!MISSING>>)
      /\ recorded' \in Seq(Checks \X (Evidence!Recordable \cup {Evidence!MISSING, "nonsense"}))
  BY <1>1, <1>2, EvidenceTypes
<1>4. Evidence!TypeOK'
  BY <1>1, <1>2, <1>3 DEF Evidence!TypeOK
<1>5. ASSUME NEW c \in Checks
      PROVE  /\ Evidence!Made(c, Evidence!Recordable)' = Evidence!Made(c, Evidence!Recordable)
             /\ \A i \in Evidence!Made(c, Evidence!Recordable) : recorded'[i] = recorded[i]
             /\ Evidence!Made(c, {Evidence!MISSING})' =
                  IF c = id THEN Evidence!Made(c, {Evidence!MISSING}) \cup {Len(recorded) + 1}
                  ELSE Evidence!Made(c, {Evidence!MISSING})
  <2>1. Evidence!MISSING \notin Evidence!Recordable
    BY DEF Evidence!Recordable, Evidence!MISSING
  <2> QED
    BY <1>2, <1>3, <2>1, EvidenceMade
<1>6. ASSUME NEW c \in Checks, Evidence!Made(c, Evidence!Recordable) # {}
      PROVE  Evidence!Max(Evidence!Made(c, Evidence!Recordable)) \in Evidence!Made(c, Evidence!Recordable)
  BY <1>2, <1>3, <1>6, EvidenceMade, EvidenceMax
<1>7. Evidence!Kept'
  <2> SUFFICES ASSUME NEW c \in Checks
               PROVE  /\ c \in expected' <=> Evidence!Made(c, {Evidence!MISSING})' # {}
                      /\ c \in DOMAIN records <=> Evidence!Made(c, Evidence!Recordable)' # {}
                      /\ c \in DOMAIN records =>
                           records[c] = recorded'[Evidence!Max(Evidence!Made(c, Evidence!Recordable)')][2]
    BY <1>1 DEF Evidence!Kept, Evidence!Recordable, Evidence!MISSING, Evidence!Max
  <2>1. c \in expected' <=> Evidence!Made(c, {Evidence!MISSING})' # {}
    BY <1>1, <1>2, <1>5 DEF Evidence!Kept
  <2> QED
    BY ZenonT(40), <1>2, <1>5, <1>6, <2>1 DEF Evidence!Kept
<1> QED
  BY <1>4, <1>7 DEF Evidence!IInv

LEMMA EvidenceRecord ==
  ASSUME Evidence!IInv, NEW id \in Checks, NEW s \in Evidence!Recordable, Evidence!Record(id, s)
  PROVE  Evidence!IInv'
<1>1. /\ Evidence!Called(id, s) /\ UNCHANGED expected
      /\ records' = [c \in DOMAIN records \cup {id} |-> IF c = id THEN s ELSE records[c]]
  BY DEF Evidence!Record
<1>2. Evidence!TypeOK /\ Evidence!Kept
  BY DEF Evidence!IInv
<1>3. /\ recorded' = Append(recorded, <<id, s>>)
      /\ recorded' \in Seq(Checks \X (Evidence!Recordable \cup {Evidence!MISSING, "nonsense"}))
  BY <1>1, <1>2, EvidenceTypes
<1>4. Evidence!TypeOK'
  BY <1>1, <1>2, <1>3 DEF Evidence!TypeOK
<1>5. s # Evidence!MISSING
  BY DEF Evidence!Recordable, Evidence!MISSING
<1>6. ASSUME NEW c \in Checks
      PROVE  /\ Evidence!Made(c, {Evidence!MISSING})' = Evidence!Made(c, {Evidence!MISSING})
             /\ Len(recorded) \in Nat
             /\ Evidence!Made(c, Evidence!Recordable) \subseteq 1..Len(recorded)
             /\ \A i \in Evidence!Made(c, Evidence!Recordable) : recorded'[i] = recorded[i]
             /\ recorded'[Len(recorded) + 1][2] = s
             /\ Evidence!Made(c, Evidence!Recordable)' =
                  IF c = id THEN Evidence!Made(c, Evidence!Recordable) \cup {Len(recorded) + 1}
                  ELSE Evidence!Made(c, Evidence!Recordable)
  BY <1>2, <1>3, <1>5, EvidenceMade
<1>7. Evidence!Kept'
  <2> SUFFICES ASSUME NEW c \in Checks
               PROVE  /\ c \in expected <=> Evidence!Made(c, {Evidence!MISSING})' # {}
                      /\ c \in DOMAIN records' <=> Evidence!Made(c, Evidence!Recordable)' # {}
                      /\ c \in DOMAIN records' =>
                           records'[c] = recorded'[Evidence!Max(Evidence!Made(c, Evidence!Recordable)')][2]
    BY <1>1 DEF Evidence!Kept, Evidence!Recordable, Evidence!MISSING, Evidence!Max
  <2>1. c \in expected <=> Evidence!Made(c, {Evidence!MISSING})' # {}
    BY <1>2, <1>6 DEF Evidence!Kept
  <2>2. DOMAIN records' = DOMAIN records \cup {id}
    BY <1>1
  <2>3. CASE c = id
    <3>1. records'[c] = s /\ c \in DOMAIN records'
      BY <1>1, <2>3
    <3>2. Evidence!Max(Evidence!Made(c, Evidence!Recordable)') = Len(recorded) + 1
      BY <1>6, <2>3, EvidenceMax
    <3> QED
      BY <1>6, <2>1, <2>3, <3>1, <3>2
  <2>4. CASE c # id
    <3>1. c \in DOMAIN records' <=> c \in DOMAIN records
      BY <2>2, <2>4
    <3>2. c \in DOMAIN records => records'[c] = records[c]
      BY <1>1, <2>4
    <3>3. Evidence!Made(c, Evidence!Recordable)' = Evidence!Made(c, Evidence!Recordable)
      BY <1>6, <2>4
    <3>4. Evidence!Made(c, Evidence!Recordable) # {} =>
            Evidence!Max(Evidence!Made(c, Evidence!Recordable)) \in Evidence!Made(c, Evidence!Recordable)
      BY <1>6, EvidenceMax
    <3> QED
      BY <1>2, <1>6, <2>1, <3>1, <3>2, <3>3, <3>4 DEF Evidence!Kept
  <2> QED
    BY <2>3, <2>4
<1> QED
  BY <1>4, <1>7 DEF Evidence!IInv

LEMMA EvidenceRefused ==
  ASSUME Evidence!IInv, NEW id \in Checks, Evidence!Unrecordable(id)
  PROVE  Evidence!IInv'
<1>1. Evidence!Called(id, "nonsense") /\ UNCHANGED <<expected, records>>
  BY DEF Evidence!Unrecordable
<1>2. Evidence!TypeOK /\ Evidence!Kept
  BY DEF Evidence!IInv
<1>3. /\ recorded' = Append(recorded, <<id, "nonsense">>)
      /\ recorded' \in Seq(Checks \X (Evidence!Recordable \cup {Evidence!MISSING, "nonsense"}))
  BY <1>1, <1>2, EvidenceTypes
<1>4. Evidence!TypeOK'
  BY <1>1, <1>2, <1>3 DEF Evidence!TypeOK
<1>5. "nonsense" \notin Evidence!Recordable /\ "nonsense" \notin {Evidence!MISSING}
  BY DEF Evidence!Recordable, Evidence!MISSING
<1>6. ASSUME NEW c \in Checks
      PROVE  /\ Evidence!Made(c, {Evidence!MISSING})' = Evidence!Made(c, {Evidence!MISSING})
             /\ Evidence!Made(c, Evidence!Recordable)' = Evidence!Made(c, Evidence!Recordable)
             /\ \A i \in Evidence!Made(c, Evidence!Recordable) : recorded'[i] = recorded[i]
  BY <1>2, <1>3, <1>5, EvidenceMade
<1>7. ASSUME NEW c \in Checks, Evidence!Made(c, Evidence!Recordable) # {}
      PROVE  Evidence!Max(Evidence!Made(c, Evidence!Recordable)) \in Evidence!Made(c, Evidence!Recordable)
  BY <1>2, <1>3, <1>7, EvidenceMade, EvidenceMax
<1>8. Evidence!Kept'
  <2> SUFFICES ASSUME NEW c \in Checks
               PROVE  /\ c \in expected <=> Evidence!Made(c, {Evidence!MISSING})' # {}
                      /\ c \in DOMAIN records <=> Evidence!Made(c, Evidence!Recordable)' # {}
                      /\ c \in DOMAIN records =>
                           records[c] = recorded'[Evidence!Max(Evidence!Made(c, Evidence!Recordable)')][2]
    BY <1>1 DEF Evidence!Kept, Evidence!Recordable, Evidence!MISSING, Evidence!Max
  <2> QED
    BY ZenonT(40), <1>2, <1>6, <1>7 DEF Evidence!Kept
<1> QED
  BY <1>4, <1>8 DEF Evidence!IInv

\* The verdict follows from what there is of each check, and that from the calls.
LEMMA EvidenceVerdict ==
  ASSUME Evidence!IInv
  PROVE  Evidence!VerdictIsEarned
<1>1. Evidence!TypeOK /\ Evidence!Kept
  BY DEF Evidence!IInv
<1>2. Evidence!Mentioned = Evidence!Ids
  <2>1. \A id \in Checks : Evidence!Made(id, Evidence!Recordable \cup {Evidence!MISSING}) =
                             Evidence!Made(id, Evidence!Recordable) \cup Evidence!Made(id, {Evidence!MISSING})
    BY DEF Evidence!Made
  <2>2. \A id \in Checks : id \in Evidence!Mentioned <=> id \in Evidence!Ids
    BY <1>1, <2>1 DEF Evidence!Mentioned, Evidence!Ids, Evidence!Kept
  <2>3. Evidence!Mentioned \subseteq Checks /\ Evidence!Ids \subseteq Checks
    BY <1>1 DEF Evidence!Mentioned, Evidence!Ids, Evidence!TypeOK
  <2> QED
    BY <2>2, <2>3
<1>3. ASSUME NEW id \in Evidence!Ids, NEW S, Evidence!MISSING \notin S
      PROVE  Evidence!LatestIn(id, S) <=> Evidence!Status(id) \in S
  <2>1. id \in Checks
    BY <1>2 DEF Evidence!Mentioned
  <2> QED
    BY <1>1, <1>3, <2>1 DEF Evidence!LatestIn, Evidence!Status, Evidence!Kept
<1>4. Evidence!ArcStatus = "ready" <=> Evidence!Ids # {} /\ \A id \in Evidence!Ids : Evidence!Status(id) = "passed"
  BY DEF Evidence!ArcStatus, Evidence!Passed
<1>5. Evidence!ArcStatus = "blocked" <=> \E id \in Evidence!Ids : Evidence!Status(id) \in {"failed", "error"}
  BY DEF Evidence!ArcStatus, Evidence!Passed, Evidence!Gaps
<1>6. Evidence!MISSING \notin {"passed"} /\ Evidence!MISSING \notin {"failed", "error"}
  BY DEF Evidence!MISSING
<1>7. \A id \in Evidence!Ids : /\ Evidence!LatestIn(id, {"passed"}) <=> Evidence!Status(id) = "passed"
                               /\ Evidence!LatestIn(id, {"failed", "error"})
                                    <=> Evidence!Status(id) \in {"failed", "error"}
  BY <1>3, <1>6
<1> QED
  BY <1>2, <1>4, <1>5, <1>7 DEF Evidence!VerdictIsEarned

\* Whatever is declared and recorded, and in whatever order, the verdict is that of
\* the latest record of every check, and missing evidence is never a pass.
THEOREM EarnedVerdict == ShelfSpec => []VerdictIsEarned
<1>1. ASSUME Evidence!Init
      PROVE  Evidence!IInv
  <2>1. expected = {} /\ records = <<>> /\ recorded = <<>> /\ DOMAIN records = {} /\ DOMAIN recorded = {}
    BY <1>1 DEF Evidence!Init
  <2>2. Evidence!TypeOK
    BY <2>1 DEF Evidence!TypeOK
  <2>3. Evidence!Kept
    BY <2>1 DEF Evidence!Kept, Evidence!Made
  <2> QED
    BY <2>2, <2>3 DEF Evidence!IInv
<1>2. Evidence!IInv /\ [Evidence!Next]_evidence => Evidence!IInv'
  <2> SUFFICES ASSUME Evidence!IInv, [Evidence!Next]_evidence
               PROVE  Evidence!IInv'
    OBVIOUS
  <2>1. ASSUME NEW id \in Checks, Evidence!Expect(id) \/ Evidence!Unrecordable(id)
        PROVE  Evidence!IInv'
    BY <2>1, EvidenceExpect, EvidenceRefused
  <2>2. ASSUME NEW id \in Checks, NEW s \in Evidence!Recordable, Evidence!Record(id, s)
        PROVE  Evidence!IInv'
    BY <2>2, EvidenceRecord
  <2>3. CASE UNCHANGED evidence
    <3>1. UNCHANGED <<expected, records, recorded>>
      BY <2>3 DEF evidence
    <3>2. Evidence!TypeOK'
      BY <3>1 DEF Evidence!IInv, Evidence!TypeOK, Evidence!Recordable, Evidence!MISSING
    <3>3. Evidence!Kept'
      BY <3>1 DEF Evidence!IInv, Evidence!Kept, Evidence!Made, Evidence!Recordable, Evidence!MISSING
    <3> QED
      BY <3>2, <3>3 DEF Evidence!IInv
  <2> QED
    BY <2>1, <2>2, <2>3 DEF Evidence!Next
<1>3. [ShelfNext]_<<core, vars, loader, bus, framer, telnet, evidence, flow, metrics,
                    directory, health, typed, sheet, shelved>> => [Evidence!Next]_evidence
  BY DEF ShelfNext, Turn
<1>4. ShelfInit => Evidence!IInv
  BY <1>1 DEF ShelfInit
<1>5. Evidence!IInv => VerdictIsEarned
  BY EvidenceVerdict DEF VerdictIsEarned
<1> QED
  BY <1>2, <1>3, <1>4, <1>5, PTL DEF ShelfSpec

--------------------------------------------------------------------------------
\* The health panel. The worst of some statuses, and what it tells of them.
LEMMA PanelWorst ==
  ASSUME NEW S \in SUBSET Panel!Statuses, S # {}
  PROVE  /\ Panel!Worst(S) \in S
         /\ \A t \in S : Panel!Severity[t] <= Panel!Severity[Panel!Worst(S)]
         /\ Panel!Worst(S) = Panel!HEALTHY <=> S = {Panel!HEALTHY}
         /\ Panel!Worst(S) = Panel!UNHEALTHY <=> Panel!UNHEALTHY \in S
         /\ Panel!Worst(S) = Panel!DEGRADED
              <=> Panel!DEGRADED \in S /\ S \subseteq {Panel!HEALTHY, Panel!DEGRADED}
<1> DEFINE H == Panel!HEALTHY
           D == Panel!DEGRADED
           K == Panel!UNKNOWN
           U == Panel!UNHEALTHY
           w == Panel!Worst(S)
           Tops(s) == \A t \in S : Panel!Severity[t] <= Panel!Severity[s]
<1>1. H # D /\ H # K /\ H # U /\ D # K /\ D # U /\ K # U
  BY DEF Panel!HEALTHY, Panel!DEGRADED, Panel!UNKNOWN, Panel!UNHEALTHY
<1>2. Panel!Severity[H] = 0 /\ Panel!Severity[D] = 1 /\ Panel!Severity[K] = 2 /\ Panel!Severity[U] = 3
  BY <1>1 DEF Panel!Severity, Panel!Statuses
<1>3. S \subseteq {H, D, K, U}
  BY DEF Panel!Statuses
<1> HIDE DEF H, D, K, U
<1>4. \E s \in S : Tops(s)
  <2>1. CASE U \in S
    BY <1>2, <1>3, <2>1
  <2>2. CASE U \notin S /\ K \in S
    BY <1>2, <1>3, <2>2
  <2>3. CASE U \notin S /\ K \notin S /\ D \in S
    BY <1>2, <1>3, <2>3
  <2>4. CASE S = {H}
    BY <1>2, <2>4
  <2> QED
    BY <1>3, <2>1, <2>2, <2>3, <2>4
<1>5. w \in S /\ Tops(w)
  <2>1. w = CHOOSE s \in S : Tops(s)
    BY DEF Panel!Worst
  <2> HIDE DEF w, Tops
  <2> QED
    BY <1>4, <2>1
<1> HIDE DEF w
<1>6. w = H <=> S = {H}
  BY <1>1, <1>2, <1>3, <1>5
<1>7. w = U <=> U \in S
  BY <1>1, <1>2, <1>3, <1>5
<1>8. w = D <=> D \in S /\ S \subseteq {H, D}
  BY <1>1, <1>2, <1>3, <1>5
<1> QED
  BY <1>5, <1>6, <1>7, <1>8 DEF w, H, D, U

\* What is raised or unrecognized is unknown, and the rest is as it was heard.
LEMMA PanelResults ==
  ASSUME NEW heard \in Seq(Panel!Answers)
  PROVE  LET S == Panel!Range(Panel!Results(heard))
             T == Panel!Range(heard)
         IN  /\ S \in SUBSET Panel!Statuses
             /\ S = {} <=> heard = <<>>
             /\ \A i \in DOMAIN heard : Panel!Result(heard[i]) \in S
             /\ S = {Panel!HEALTHY} <=> T = {Panel!HEALTHY}
             /\ Panel!UNHEALTHY \in S <=> Panel!UNHEALTHY \in T
             /\ Panel!DEGRADED \in S /\ S \subseteq {Panel!HEALTHY, Panel!DEGRADED}
                  <=> Panel!DEGRADED \in T /\ T \subseteq {Panel!HEALTHY, Panel!DEGRADED}
<1> DEFINE S == Panel!Range(Panel!Results(heard))
           T == Panel!Range(heard)
<1>1. /\ Panel!HEALTHY # Panel!UNKNOWN /\ Panel!DEGRADED # Panel!UNKNOWN
      /\ Panel!UNHEALTHY # Panel!UNKNOWN /\ Panel!UNKNOWN \in Panel!Statuses
      /\ {Panel!HEALTHY, Panel!DEGRADED, Panel!UNHEALTHY} \subseteq Panel!Statuses
  BY DEF Panel!HEALTHY, Panel!DEGRADED, Panel!UNKNOWN, Panel!UNHEALTHY, Panel!Statuses
<1>2. S = {Panel!Result(x) : x \in T}
  BY DEF Panel!Results, Panel!Range
<1>3. \A x : Panel!Result(x) \in Panel!Statuses
  BY <1>1 DEF Panel!Result
<1>4. \A x : \A s \in {Panel!HEALTHY, Panel!DEGRADED, Panel!UNHEALTHY} : Panel!Result(x) = s <=> x = s
  BY <1>1 DEF Panel!Result
<1>5. \A i \in DOMAIN heard : heard[i] \in T
  BY DEF Panel!Range
<1>6. T = {} <=> heard = <<>>
  BY DEF Panel!Range
<1> HIDE DEF S, T
<1>7. S \in SUBSET Panel!Statuses /\ (S = {} <=> heard = <<>>)
  BY <1>2, <1>3, <1>6
<1>8. \A i \in DOMAIN heard : Panel!Result(heard[i]) \in S
  BY <1>2, <1>5
<1>9. \A s \in {Panel!HEALTHY, Panel!DEGRADED, Panel!UNHEALTHY} : s \in S <=> s \in T
  BY <1>2, <1>4
<1>10. S = {Panel!HEALTHY} <=> T = {Panel!HEALTHY}
  BY <1>2, <1>4
<1>11. S \subseteq {Panel!HEALTHY, Panel!DEGRADED} <=> T \subseteq {Panel!HEALTHY, Panel!DEGRADED}
  BY <1>2, <1>4
<1> QED
  BY <1>7, <1>8, <1>9, <1>10, <1>11 DEF S, T

LEMMA PanelAsk ==
  ASSUME Panel!IInv, NEW answer, answer \in Panel!Answers, Panel!Ask(answer)
  PROVE  Panel!IInv'
<1>1. /\ pass # Panel!Idle /\ Len(pass.heard) < pass.size
      /\ pass' = [pass EXCEPT !.heard = Append(pass.heard, answer)]
      /\ UNCHANGED <<checks, said>>
  BY DEF Panel!Ask, Panel!More, Panel!Steady
<1>2. Panel!TypeOK /\ Panel!OverallIsEarned
  BY DEF Panel!IInv
<1>3. /\ pass.for \in Panel!Calls /\ pass.panel \in Seq(Panel!Statuses)
      /\ pass.size \in Nat /\ pass.heard \in Seq(Panel!Answers) /\ pass \in Panel!Passes
      /\ pass.panel = <<>> \/ Len(pass.panel) = pass.size
  BY <1>1, <1>2 DEF Panel!TypeOK, Panel!Passes
<1> DEFINE heard == Append(pass.heard, answer)
<1>4. heard \in Seq(Panel!Answers) /\ Len(heard) = Len(pass.heard) + 1 /\ Len(pass.heard) \in Nat
  BY <1>3
<1>5. pass' = [pass EXCEPT !.heard = heard]
  BY <1>1
<1> HIDE DEF heard
<1>6. /\ pass' \in Panel!Passes /\ pass'.heard = heard
      /\ pass'.size = pass.size /\ pass'.panel = pass.panel
  BY <1>3, <1>4, <1>5 DEF Panel!Passes
<1>7. Panel!TypeOK'
  BY <1>1, <1>2, <1>3, <1>4, <1>6 DEF Panel!TypeOK
<1>8. Panel!OverallIsEarned'
  BY <1>1, <1>2 DEF Panel!OverallIsEarned
<1> QED
  BY <1>7, <1>8 DEF Panel!IInv

LEMMA PanelBegins ==
  ASSUME Panel!IInv, NEW who \in Panel!Calls, NEW lines \in Seq(Panel!Statuses),
         lines = <<>> \/ Len(lines) = Len(checks), pass' = Panel!Run(who, lines), UNCHANGED checks
  PROVE  Panel!TypeOK'
<1>1. checks \in Seq(Indicators) /\ Len(checks) \in Nat
  BY DEF Panel!IInv, Panel!TypeOK
<1>2. <<>> \in Seq(Panel!Answers) /\ Len(<<>>) = 0
  OBVIOUS
<1>3. /\ pass' \in Panel!Passes /\ pass'.heard = <<>>
      /\ pass'.size = Len(checks) /\ pass'.panel = lines
  BY <1>1, <1>2 DEF Panel!Run, Panel!Passes
<1> QED
  BY <1>1, <1>2, <1>3 DEF Panel!TypeOK

LEMMA PanelReturn ==
  ASSUME Panel!IInv, Panel!Return
  PROVE  Panel!IInv'
<1> DEFINE heard == pass.heard
           S     == Panel!Range(Panel!Results(heard))
           T     == Panel!Range(heard)
           worst == Panel!Overall(heard)
<1>1. /\ pass # Panel!Idle /\ Len(checks) = pass.size /\ Len(heard) = pass.size
      /\ said' = [how |-> "returned", overall |-> worst, panel |-> pass.panel,
                  heard |-> heard, of |-> checks]
      /\ pass' = Panel!Idle /\ UNCHANGED checks
  BY DEF Panel!Return, Panel!Over, Panel!Steady
<1>2. Panel!TypeOK /\ Panel!OverallIsEarned
  BY DEF Panel!IInv
<1>3. /\ pass.panel \in Seq(Panel!Statuses) /\ heard \in Seq(Panel!Answers) /\ pass.size \in Nat
      /\ pass.panel = <<>> \/ Len(pass.panel) = pass.size
  BY <1>1, <1>2 DEF Panel!TypeOK, Panel!Passes
<1>4. /\ S \in SUBSET Panel!Statuses
      /\ S = {} <=> heard = <<>>
      /\ \A i \in DOMAIN heard : Panel!Result(heard[i]) \in S
      /\ S = {Panel!HEALTHY} <=> T = {Panel!HEALTHY}
      /\ Panel!UNHEALTHY \in S <=> Panel!UNHEALTHY \in T
      /\ Panel!DEGRADED \in S /\ S \subseteq {Panel!HEALTHY, Panel!DEGRADED}
           <=> Panel!DEGRADED \in T /\ T \subseteq {Panel!HEALTHY, Panel!DEGRADED}
  BY <1>3, PanelResults
<1>5. \A i \in DOMAIN pass.panel : i \in DOMAIN heard
  BY <1>1, <1>3
<1>6. \A s \in Panel!Statuses : Panel!Severity[s] \in Nat
  BY DEF Panel!Severity
<1>7. heard = <<>> => worst = Panel!UNKNOWN /\ T = {} /\ DOMAIN pass.panel = {}
  BY <1>5 DEF Panel!Overall, Panel!Range
<1>8. heard # <<>> => worst = Panel!Worst(S)
  BY DEF Panel!Overall
<1>9. /\ Panel!UNKNOWN # Panel!HEALTHY /\ Panel!UNKNOWN # Panel!UNHEALTHY /\ Panel!UNKNOWN # Panel!DEGRADED
  BY DEF Panel!UNKNOWN, Panel!HEALTHY, Panel!UNHEALTHY, Panel!DEGRADED
<1> HIDE DEF S, T, worst
<1>10. /\ worst = Panel!HEALTHY <=> T = {Panel!HEALTHY}
       /\ worst = Panel!UNHEALTHY <=> Panel!UNHEALTHY \in T
       /\ worst = Panel!DEGRADED
            <=> Panel!DEGRADED \in T /\ T \subseteq {Panel!HEALTHY, Panel!DEGRADED}
  <2>1. CASE heard = <<>>
    BY <1>7, <1>9, <2>1
  <2>2. CASE heard # <<>>
    BY <1>4, <1>8, <2>2, PanelWorst
  <2> QED
    BY <2>1, <2>2
<1>11. ASSUME NEW i \in DOMAIN pass.panel, Panel!Severity[pass.panel[i]] > Panel!Severity[worst]
       PROVE  pass.panel[i] # Panel!Result(heard[i])
  <2>1. heard # <<>> /\ Panel!Result(heard[i]) \in S /\ S # {}
    BY <1>4, <1>5, <1>7
  <2>2. /\ worst \in S /\ Panel!Severity[Panel!Result(heard[i])] <= Panel!Severity[worst]
    BY <1>4, <1>8, <2>1, PanelWorst
  <2>3. Panel!Severity[worst] \in Nat /\ Panel!Severity[Panel!Result(heard[i])] \in Nat
    BY <1>4, <1>6, <2>1, <2>2
  <2> QED
    BY <1>11, <2>2, <2>3
<1>12. /\ said'.how = "returned" /\ said'.overall = worst /\ said'.panel = pass.panel
       /\ said'.heard = heard /\ said'.of = checks
  BY <1>1
<1>13. Panel!OverallIsEarned'
  <2> SUFFICES
        LET all == Panel!Range(said'.heard)
        IN  /\ said'.overall = Panel!HEALTHY   <=> all = {Panel!HEALTHY}
            /\ said'.overall = Panel!UNHEALTHY <=> Panel!UNHEALTHY \in all
            /\ said'.overall = Panel!DEGRADED
                 <=> Panel!DEGRADED \in all /\ all \subseteq {Panel!HEALTHY, Panel!DEGRADED}
            /\ Len(said'.heard) = Len(said'.of)
            /\ \A i \in DOMAIN said'.panel :
                 Panel!Severity[said'.panel[i]] > Panel!Severity[said'.overall]
                   => said'.panel[i] # Panel!Result(said'.heard[i])
    BY DEF Panel!OverallIsEarned, Panel!HEALTHY, Panel!UNHEALTHY, Panel!DEGRADED, Panel!UNKNOWN,
           Panel!Range, Panel!Severity, Panel!Result, Panel!Statuses
  <2>1. Panel!Range(said'.heard) = T
    BY <1>12 DEF T
  <2>2. Len(said'.heard) = Len(said'.of)
    BY <1>1, <1>12
  <2>3. \A i \in DOMAIN said'.panel :
          Panel!Severity[said'.panel[i]] > Panel!Severity[said'.overall]
            => said'.panel[i] # Panel!Result(said'.heard[i])
    BY <1>11, <1>12
  <2> QED
    BY <1>10, <1>12, <2>1, <2>2, <2>3
<1>14. Panel!TypeOK'
  BY <1>1, <1>2 DEF Panel!TypeOK, Panel!Idle
<1> QED
  BY <1>13, <1>14 DEF Panel!IInv

\* The overall status of a call that returns is that of what every check there is
\* answered during the call, and what is not known is never reported as healthy.
THEOREM EarnedOverall == ShelfSpec => []OverallIsEarned
<1>1. ASSUME Panel!Init
      PROVE  Panel!IInv
  <2>1. checks = <<>> /\ pass = Panel!Idle /\ said.how = "none"
    BY <1>1 DEF Panel!Init, Panel!Nothing
  <2>2. Panel!TypeOK /\ Panel!OverallIsEarned
    BY <2>1 DEF Panel!TypeOK, Panel!OverallIsEarned
  <2> QED
    BY <2>2 DEF Panel!IInv
<1>2. Panel!IInv /\ [Panel!Next]_health => Panel!IInv'
  <2> SUFFICES ASSUME Panel!IInv, [Panel!Next]_health
               PROVE  Panel!IInv'
    OBVIOUS
  <2>1. ASSUME NEW n \in Indicators, Panel!Register(n)
        PROVE  Panel!IInv'
    <3>1. checks' = Append(checks, n) /\ UNCHANGED <<pass, said>> /\ checks \in Seq(Indicators)
      BY <2>1 DEF Panel!Register, Panel!IInv, Panel!TypeOK
    <3>2. checks' \in Seq(Indicators)
      BY <3>1
    <3>3. Panel!TypeOK'
      BY <3>1, <3>2 DEF Panel!IInv, Panel!TypeOK
    <3>4. Panel!OverallIsEarned'
      BY <3>1 DEF Panel!IInv, Panel!OverallIsEarned
    <3> QED
      BY <3>3, <3>4 DEF Panel!IInv
  <2>2. ASSUME NEW for \in Panel!Calls, Panel!Begin(for)
        PROVE  Panel!IInv'
    <3>1. <<>> \in Seq(Panel!Statuses)
      OBVIOUS
    <3>2. Panel!TypeOK'
      BY <2>2, <3>1, PanelBegins DEF Panel!Begin
    <3>3. Panel!OverallIsEarned'
      BY <2>2 DEF Panel!Begin, Panel!Nothing, Panel!OverallIsEarned
    <3> QED
      BY <3>2, <3>3 DEF Panel!IInv
  <2>3. ASSUME NEW answer \in Panel!Answers, Panel!Ask(answer)
        PROVE  Panel!IInv'
    BY <2>3, PanelAsk
  <2>4. CASE Panel!EndOfLines
    <3> DEFINE panel == Panel!Results(pass.heard)
    <3>1. /\ pass # Panel!Idle /\ Len(checks) = pass.size /\ Len(pass.heard) = pass.size
          /\ pass' = Panel!Run("its overall", panel) /\ UNCHANGED <<checks, said>>
      BY <2>4 DEF Panel!EndOfLines, Panel!Over, Panel!Steady
    <3>2. pass.heard \in Seq(Panel!Answers)
      BY <3>1 DEF Panel!IInv, Panel!TypeOK, Panel!Passes
    <3>3. \A x : Panel!Result(x) \in Panel!Statuses
      BY DEF Panel!Result, Panel!Statuses
    <3>4. panel \in Seq(Panel!Statuses) /\ Len(panel) = Len(pass.heard)
      BY <3>2, <3>3 DEF Panel!Results
    <3> HIDE DEF panel
    <3>5. "its overall" \in Panel!Calls
      BY DEF Panel!Calls
    <3>6. Panel!TypeOK'
      BY <3>1, <3>2, <3>4, <3>5, PanelBegins
    <3>7. Panel!OverallIsEarned'
      BY <3>1 DEF Panel!IInv, Panel!OverallIsEarned
    <3> QED
      BY <3>6, <3>7 DEF Panel!IInv
  <2>5. CASE Panel!Return
    BY <2>5, PanelReturn
  <2>6. ASSUME NEW what \in {"RuntimeError", "KeyboardInterrupt"}, Panel!Escape(what)
        PROVE  Panel!IInv'
    <3>1. said'.how \in {"RuntimeError", "KeyboardInterrupt"} /\ pass' = Panel!Idle /\ UNCHANGED checks
      BY <2>6 DEF Panel!Escape
    <3>2. Panel!TypeOK' /\ Panel!OverallIsEarned'
      BY <3>1 DEF Panel!IInv, Panel!TypeOK, Panel!OverallIsEarned, Panel!Idle
    <3> QED
      BY <3>2 DEF Panel!IInv
  <2>7. CASE UNCHANGED health
    <3>1. UNCHANGED <<checks, pass, said>>
      BY <2>7 DEF health
    <3>2. Panel!TypeOK' /\ Panel!OverallIsEarned'
      BY <3>1 DEF Panel!IInv, Panel!TypeOK, Panel!OverallIsEarned, Panel!Idle
    <3> QED
      BY <3>2 DEF Panel!IInv
  <2> QED
    BY <2>1, <2>2, <2>3, <2>4, <2>5, <2>6, <2>7 DEF Panel!Next, Panel!Calls
<1>3. [ShelfNext]_<<core, vars, loader, bus, framer, telnet, evidence, flow, metrics,
                    directory, health, typed, sheet, shelved>> => [Panel!Next]_health
  BY DEF ShelfNext, Turn
<1>4. ShelfInit => Panel!IInv
  BY <1>1 DEF ShelfInit
<1>5. Panel!IInv => OverallIsEarned
  BY DEF Panel!IInv, OverallIsEarned
<1> QED
  BY <1>2, <1>3, <1>4, <1>5, PTL DEF ShelfSpec

--------------------------------------------------------------------------------
\* The registries. The greatest and the least of some calls.
LEMMA ShelvedMax ==
  ASSUME NEW T \in SUBSET Nat, NEW m \in T, \A k \in T : k <= m
  PROVE  Shelved!Max(T) = m
<1>1. \A k \in T : (\A j \in T : k >= j) <=> k = m
  OBVIOUS
<1> QED
  BY <1>1, Zenon DEF Shelved!Max

LEMMA ShelvedMaxOf ==
  ASSUME NEW n \in Nat, NEW T \in SUBSET (0..n), T # {}
  PROVE  Shelved!Max(T) \in T /\ \A k \in T : k <= Shelved!Max(T)
<1>1. \E m \in T : \A k \in T : k <= m
  <2>1. CASE T \ {0} = {}
    <3>1. 0 \in T /\ \A k \in T : k = 0
      BY <2>1
    <3> QED
      BY <3>1
  <2>2. CASE T \ {0} # {}
    <3>1. T \ {0} \in SUBSET (1..n)
      OBVIOUS
    <3>2. PICK m \in T \ {0} : \A k \in T \ {0} : k <= m
      BY <2>2, <3>1, Greatest
    <3> QED
      BY <3>2
  <2> QED
    BY <2>1, <2>2
<1>2. T \in SUBSET Nat
  OBVIOUS
<1> QED
  BY <1>1, <1>2, ShelvedMax

LEMMA ShelvedMin ==
  ASSUME NEW T \in SUBSET Nat
  PROVE  /\ T # {} => Shelved!Min(T) \in T /\ \A k \in T : Shelved!Min(T) <= k
         /\ \A m \in T : (\A k \in T : m <= k) => Shelved!Min(T) = m
<1>1. ASSUME NEW m \in T, \A k \in T : m <= k
      PROVE  Shelved!Min(T) = m
  <2>1. \A k \in T : (\A j \in T : k =< j) <=> k = m
    BY <1>1
  <2> QED
    BY <2>1, Zenon DEF Shelved!Min
<1>2. T # {} => \E m \in T : \A k \in T : m <= k
  BY Least
<1> QED
  BY <1>1, <1>2

\* When a name was last removed, and added since, and spoken of since.
LEMMA ShelvedTimes ==
  ASSUME Shelved!TypeOK, NEW m
  PROVE  LET N == Len(calls)
         IN  /\ N \in Nat /\ DOMAIN calls = 1..N
             /\ Shelved!On(m, Shelved!Adding) \subseteq 1..N
             /\ Shelved!On(m, Shelved!Removing) \subseteq 1..N
             /\ Shelved!On(m, Shelved!Saying) \subseteq 1..N
             /\ Shelved!Gone(m) \in 0..N
             /\ Shelved!Gone(m) \in {0} \cup Shelved!On(m, Shelved!Removing)
             /\ \A k \in Shelved!On(m, Shelved!Removing) : k <= Shelved!Gone(m)
             /\ Shelved!Adds(m) # {} =>
                  /\ Shelved!Born(m) \in Shelved!Adds(m) /\ Shelved!Born(m) \in 1..N
                  /\ \A k \in Shelved!Adds(m) : Shelved!Born(m) <= k
                  /\ Shelved!Recent(m) \in 1..N
                  /\ Shelved!Recent(m) \in {Shelved!Born(m)} \cup Shelved!On(m, Shelved!Saying)
<1> DEFINE N == Len(calls)
           R == Shelved!On(m, Shelved!Removing)
           A == Shelved!On(m, Shelved!Adding)
           S == Shelved!On(m, Shelved!Saying)
           Adds == Shelved!Adds(m)
           later == {i \in S : i > Shelved!Born(m)}
<1>1. N \in Nat /\ DOMAIN calls = 1..N
  BY DEF Shelved!TypeOK
<1>2. A \subseteq 1..N /\ R \subseteq 1..N /\ S \subseteq 1..N
  BY <1>1 DEF Shelved!On
<1>3. Adds \subseteq A
  BY DEF Shelved!Adds
<1>4. Shelved!Gone(m) = Shelved!Max({0} \cup R)
  BY DEF Shelved!Gone
<1>5. Shelved!Born(m) = Shelved!Min(Adds) /\ Shelved!Recent(m) = Shelved!Max({Shelved!Born(m)} \cup later)
  BY DEF Shelved!Born, Shelved!Recent
<1> HIDE DEF N, R, A, S, Adds
<1>6. Shelved!Gone(m) \in {0} \cup R /\ \A k \in R : k <= Shelved!Gone(m)
  <2>1. {0} \cup R \in SUBSET (0..N) /\ {0} \cup R # {}
    BY <1>1, <1>2
  <2> QED
    BY <1>1, <1>4, <2>1, ShelvedMaxOf
<1>7. ASSUME Adds # {}
      PROVE  /\ Shelved!Born(m) \in Adds /\ Shelved!Born(m) \in 1..N
             /\ \A k \in Adds : Shelved!Born(m) <= k
             /\ Shelved!Recent(m) \in 1..N /\ Shelved!Recent(m) \in {Shelved!Born(m)} \cup S
  <2>1. Adds \in SUBSET Nat
    BY <1>1, <1>2, <1>3
  <2>2. Shelved!Born(m) \in Adds /\ \A k \in Adds : Shelved!Born(m) <= k
    BY <1>5, <1>7, <2>1, ShelvedMin
  <2>3. Shelved!Born(m) \in 1..N
    BY <1>2, <1>3, <2>2
  <2>4. {Shelved!Born(m)} \cup later \in SUBSET (0..N) /\ {Shelved!Born(m)} \cup later # {}
    <3>1. later \subseteq S
      OBVIOUS
    <3> HIDE DEF later
    <3>2. \A k \in 1..N : k \in 0..N
      BY <1>1
    <3> QED
      BY <1>2, <2>3, <3>1, <3>2
  <2>5. Shelved!Recent(m) \in {Shelved!Born(m)} \cup later
    BY <1>1, <1>5, <2>4, ShelvedMaxOf
  <2> QED
    BY <1>2, <2>2, <2>3, <2>5
<1>8. Shelved!Gone(m) \in 0..N
  <2>1. 0 \in 0..N /\ \A k \in 1..N : k \in 0..N
    BY <1>1
  <2> QED
    BY <1>2, <1>6, <2>1
<1> QED
  BY <1>1, <1>2, <1>6, <1>7, <1>8 DEF N, R, A, S, Adds

\* What one more call adds to those made of a name.
LEMMA ShelvedHeard ==
  ASSUME Shelved!TypeOK, NEW entry \in Shelved!Calls, calls' = Append(calls, entry), NEW m
  PROVE  LET N == Len(calls)
             Of(ops) == entry.name = m /\ entry.op \in ops
         IN  /\ calls' \in Seq(Shelved!Calls) /\ DOMAIN calls' = 1..(N + 1) /\ N \in Nat
             /\ \A i \in 1..N : calls'[i] = calls[i]
             /\ calls'[N + 1] = entry
             /\ Shelved!On(m, Shelved!Adding)' = Shelved!On(m, Shelved!Adding)
                                                   \cup {i \in {N + 1} : Of(Shelved!Adding)}
             /\ Shelved!On(m, Shelved!Removing)' = Shelved!On(m, Shelved!Removing)
                                                   \cup {i \in {N + 1} : Of(Shelved!Removing)}
             /\ Shelved!On(m, Shelved!Saying)' = Shelved!On(m, Shelved!Saying)
                                                   \cup {i \in {N + 1} : Of(Shelved!Saying)}
<1> DEFINE N == Len(calls)
           Of(ops) == entry.name = m /\ entry.op \in ops
           Then(ops) == {i \in DOMAIN calls' : calls'[i].name = m /\ calls'[i].op \in ops}
<1>1. calls \in Seq(Shelved!Calls) /\ N \in Nat /\ DOMAIN calls = 1..N
  BY DEF Shelved!TypeOK
<1>2. /\ calls' \in Seq(Shelved!Calls) /\ Len(calls') = N + 1
      /\ \A i \in 1..N : calls'[i] = calls[i]
      /\ calls'[N + 1] = entry
  BY <1>1, AppendProperties
<1>3. DOMAIN calls' = 1..(N + 1)
  BY <1>2, LenProperties
<1> HIDE DEF N
<1>4. ASSUME NEW ops
      PROVE  Then(ops) = Shelved!On(m, ops) \cup {i \in {N + 1} : Of(ops)}
  <2>1. ASSUME NEW i
        PROVE  i \in Then(ops) <=> i \in Shelved!On(m, ops) \/ (i = N + 1 /\ Of(ops))
    <3>1. CASE i \in 1..N
      BY <1>1, <1>2, <1>3, <3>1 DEF Shelved!On
    <3>2. CASE i = N + 1
      BY <1>1, <1>2, <1>3, <3>2 DEF Shelved!On
    <3>3. CASE i \notin 1..(N + 1)
      BY <1>1, <1>3, <3>3 DEF Shelved!On
    <3> QED
      BY <1>1, <3>1, <3>2, <3>3
  <2> HIDE DEF Then, Of
  <2> QED
    BY <2>1
<1>5. /\ Shelved!On(m, Shelved!Adding)' = Then(Shelved!Adding)
      /\ Shelved!On(m, Shelved!Removing)' = Then(Shelved!Removing)
      /\ Shelved!On(m, Shelved!Saying)' = Then(Shelved!Saying)
  BY DEF Shelved!On, Shelved!Adding, Shelved!Removing, Shelved!Saying
<1> HIDE DEF Then
<1> QED
  BY <1>1, <1>2, <1>3, <1>4, <1>5 DEF N

LEMMA ShelvedOps ==
  /\ \A op \in Shelved!Adding : op \notin Shelved!Removing /\ op \notin Shelved!Saying /\ op = "add"
  /\ \A op \in Shelved!Saying : op \notin Shelved!Removing /\ op # "add"
  /\ \A op \in Shelved!Removing : op = "remove"
  /\ "add" \in Shelved!Adding /\ "remove" \in Shelved!Removing
  /\ "say" \in Shelved!Saying /\ "reset" \in Shelved!Saying /\ "update" \in Shelved!Saying
BY DEF Shelved!Adding, Shelved!Removing, Shelved!Saying

LEMMA ShelvedAddsTo ==
  ASSUME Shelved!TypeOK, NEW entry \in Shelved!Calls, calls' = Append(calls, entry), NEW m,
         m # entry.name \/ entry.op \notin Shelved!Removing
  PROVE  /\ Shelved!Gone(m)' = Shelved!Gone(m)
         /\ Shelved!Adds(m)' = Shelved!Adds(m)
              \cup {i \in {Len(calls) + 1} : /\ entry.name = m /\ entry.op \in Shelved!Adding
                                             /\ entry.value \notin Incapable}
<1> DEFINE N    == Len(calls)
           A    == Shelved!On(m, Shelved!Adding)
           gone == Shelved!Gone(m)
           new  == {i \in {N + 1} : entry.name = m /\ entry.op \in Shelved!Adding}
<1>1. /\ DOMAIN calls' = 1..(N + 1) /\ N \in Nat
      /\ \A i \in 1..N : calls'[i] = calls[i]
      /\ calls'[N + 1] = entry
      /\ Shelved!On(m, Shelved!Adding)' = A \cup new
      /\ Shelved!On(m, Shelved!Removing)' = Shelved!On(m, Shelved!Removing)
                         \cup {i \in {N + 1} : entry.name = m /\ entry.op \in Shelved!Removing}
  BY ShelvedHeard
<1>2. A \subseteq 1..N /\ gone \in 0..N
  BY ShelvedTimes
<1>3. Shelved!On(m, Shelved!Removing)' = Shelved!On(m, Shelved!Removing)
  BY <1>1
<1>4. Shelved!Gone(m)' = gone
  BY <1>3 DEF Shelved!Gone
<1>5. /\ Shelved!Adds(m)' = {i \in A \cup new : i > gone /\ calls'[i].value \notin Incapable}
      /\ Shelved!Adds(m) = {i \in A : i > gone /\ calls[i].value \notin Incapable}
  BY <1>1, <1>4 DEF Shelved!Adds
<1>6. N + 1 > gone /\ N + 1 \notin 1..N
  BY <1>1, <1>2
<1> HIDE DEF A, gone, N
<1>7. ASSUME NEW i
      PROVE  i \in Shelved!Adds(m)' <=>
               \/ i \in Shelved!Adds(m)
               \/ /\ i = N + 1 /\ entry.name = m /\ entry.op \in Shelved!Adding
                  /\ entry.value \notin Incapable
  BY <1>1, <1>2, <1>5, <1>6
<1> QED
  BY <1>4, <1>7 DEF gone, N

\* A call of another name, or one that is refused, changes nothing,
LEMMA ShelvedSame ==
  ASSUME Shelved!TypeOK, NEW entry \in Shelved!Calls, calls' = Append(calls, entry), NEW m,
         \/ m # entry.name
         \/ entry.op \in Shelved!Adding /\ (Shelved!Adds(m) # {} \/ entry.value \in Incapable)
         \/ entry.op \in Shelved!Saying /\ Shelved!Adds(m) = {}
  PROVE  /\ Shelved!Adds(m)' = {} <=> Shelved!Adds(m) = {}
         /\ Shelved!Adds(m) # {} =>
              /\ Shelved!Born(m)' = Shelved!Born(m) /\ Shelved!Latest(m)' = Shelved!Latest(m)
              /\ calls'[Shelved!Born(m)'] = calls[Shelved!Born(m)]
<1> DEFINE N    == Len(calls)
           Adds == Shelved!Adds(m)
           born == Shelved!Born(m)
           S    == Shelved!On(m, Shelved!Saying)
           last == Shelved!Recent(m)
<1>1. m # entry.name \/ entry.op \notin Shelved!Removing
  BY ShelvedOps
<1>2. Shelved!Adds(m)' = Adds \cup {i \in {N + 1} : /\ entry.name = m /\ entry.op \in Shelved!Adding
                                                    /\ entry.value \notin Incapable}
  BY <1>1, ShelvedAddsTo
<1>3. /\ N \in Nat /\ \A i \in 1..N : calls'[i] = calls[i]
      /\ Shelved!On(m, Shelved!Saying)' = S \cup {i \in {N + 1} : entry.name = m /\ entry.op \in Shelved!Saying}
  BY ShelvedHeard
<1>4. Adds # {} => /\ born \in Adds /\ born \in 1..N /\ \A k \in Adds : born <= k
                   /\ last \in 1..N
  BY ShelvedTimes
<1>5. Adds \in SUBSET Nat
  <2>1. Adds \subseteq Shelved!On(m, Shelved!Adding) /\ Shelved!On(m, Shelved!Adding) \subseteq 1..N
    BY ShelvedTimes DEF Shelved!Adds
  <2>2. \A i \in 1..N : i \in Nat
    BY <1>3
  <2> QED
    BY <2>1, <2>2
<1> HIDE DEF N
<1>6. Adds = {} => Shelved!Adds(m)' = {}
  BY <1>2, ShelvedOps
<1>7. ASSUME Adds # {}
      PROVE  /\ Shelved!Adds(m)' # {} /\ Shelved!Born(m)' = born
             /\ Shelved!Latest(m)' = Shelved!Latest(m) /\ calls'[born] = calls[born]
  <2>1. /\ born \in Shelved!Adds(m)' /\ Shelved!Adds(m)' \in SUBSET Nat
        /\ \A k \in Shelved!Adds(m)' : born <= k
    BY <1>2, <1>3, <1>4, <1>5, <1>7
  <2>2. Shelved!Min(Shelved!Adds(m)') = born
    BY <2>1, ShelvedMin
  <2>3. Shelved!Born(m)' = born
    BY <2>2 DEF Shelved!Born
  <2>4. Shelved!On(m, Shelved!Saying)' = S
    BY <1>3, <1>7, ShelvedOps
  <2>5. Shelved!Recent(m)' = last
    BY <2>3, <2>4 DEF Shelved!Recent
  <2> QED
    BY <1>3, <1>4, <1>7, <2>1, <2>3, <2>5 DEF Shelved!Latest
<1> QED
  BY <1>6, <1>7

\* a removal forgets the name,
LEMMA ShelvedForgets ==
  ASSUME Shelved!TypeOK, NEW entry \in Shelved!Calls, calls' = Append(calls, entry),
         entry.op \in Shelved!Removing
  PROVE  Shelved!Adds(entry.name)' = {}
<1> DEFINE N == Len(calls)
           m == entry.name
           R == Shelved!On(m, Shelved!Removing)
<1>1. /\ N \in Nat /\ Shelved!On(m, Shelved!Removing)' = R \cup {N + 1}
      /\ Shelved!On(m, Shelved!Adding)' = Shelved!On(m, Shelved!Adding)
                         \cup {i \in {N + 1} : entry.op \in Shelved!Adding}
  BY ShelvedHeard
<1>2. R \subseteq 1..N /\ Shelved!On(m, Shelved!Adding) \subseteq 1..N
  BY ShelvedTimes
<1> HIDE DEF N, R
<1>3. Shelved!Gone(m)' = N + 1
  <2> DEFINE T == {0} \cup (R \cup {N + 1})
  <2>1. T \in SUBSET Nat /\ N + 1 \in T /\ \A k \in T : k <= N + 1
    <3>1. \A k \in 1..N : k \in Nat /\ k <= N + 1
      BY <1>1
    <3> QED
      BY <1>1, <1>2, <3>1
  <2> HIDE DEF T
  <2>2. Shelved!Max(T) = N + 1
    BY <2>1, ShelvedMax
  <2> QED
    BY <1>1, <2>2 DEF Shelved!Gone, T
<1>4. \A i \in Shelved!On(m, Shelved!Adding)' : ~(i > N + 1)
  BY <1>1, <1>2
<1> QED
  BY <1>3, <1>4 DEF Shelved!Adds

\* an addition is the first and the last that is known of it,
LEMMA ShelvedBears ==
  ASSUME Shelved!TypeOK, NEW entry \in Shelved!Calls, calls' = Append(calls, entry),
         entry.op \in Shelved!Adding, Shelved!Adds(entry.name) = {}, entry.value \notin Incapable
  PROVE  LET m == entry.name
         IN  /\ Shelved!Adds(m)' # {} /\ Shelved!Born(m)' = Len(calls) + 1
             /\ Shelved!Latest(m)' = entry /\ calls'[Len(calls) + 1] = entry
<1> DEFINE N == Len(calls)
           m == entry.name
           S == Shelved!On(m, Shelved!Saying)
<1>1. /\ N \in Nat /\ calls'[N + 1] = entry
      /\ Shelved!On(m, Shelved!Saying)' = S \cup {i \in {N + 1} : entry.op \in Shelved!Saying}
  BY ShelvedHeard
<1>2. Shelved!Adds(m)' = {N + 1}
  BY ShelvedAddsTo, ShelvedOps
<1>3. S \subseteq 1..N
  BY ShelvedTimes
<1> HIDE DEF N, S
<1>4. Shelved!Born(m)' = N + 1
  <2>1. {N + 1} \in SUBSET Nat /\ N + 1 \in {N + 1} /\ \A k \in {N + 1} : N + 1 <= k
    BY <1>1
  <2>2. Shelved!Min({N + 1}) = N + 1
    BY <2>1, ShelvedMin
  <2> QED
    BY <1>2, <2>2 DEF Shelved!Born
<1>5. Shelved!On(m, Shelved!Saying)' = S
  BY <1>1, ShelvedOps
<1>6. \A i \in S : ~(i > N + 1)
  BY <1>1, <1>3
<1>7. Shelved!Recent(m)' = N + 1
  <2>1. {N + 1} \in SUBSET Nat /\ \A k \in {N + 1} : k <= N + 1
    BY <1>1
  <2>2. Shelved!Max({N + 1}) = N + 1
    BY <2>1, ShelvedMax
  <2>3. {N + 1} \cup {i \in S : i > N + 1} = {N + 1}
    BY <1>6
  <2> QED
    BY <1>4, <1>5, <2>2, <2>3 DEF Shelved!Recent
<1> QED
  BY <1>1, <1>2, <1>4, <1>7 DEF Shelved!Latest, N

\* and what is said of it is the last that was.
LEMMA ShelvedSpeaks ==
  ASSUME Shelved!TypeOK, NEW entry \in Shelved!Calls, calls' = Append(calls, entry),
         entry.op \in Shelved!Saying, Shelved!Adds(entry.name) # {}
  PROVE  LET m == entry.name
         IN  /\ Shelved!Adds(m)' # {} /\ Shelved!Born(m)' = Shelved!Born(m)
             /\ Shelved!Latest(m)' = entry
             /\ calls'[Shelved!Born(m)'] = calls[Shelved!Born(m)]
<1> DEFINE N    == Len(calls)
           m    == entry.name
           born == Shelved!Born(m)
           S    == Shelved!On(m, Shelved!Saying)
<1>1. /\ N \in Nat /\ calls'[N + 1] = entry /\ \A i \in 1..N : calls'[i] = calls[i]
      /\ Shelved!On(m, Shelved!Saying)' = S \cup {N + 1}
  BY ShelvedHeard
<1>2. Shelved!Adds(m)' = Shelved!Adds(m)
  <2>1. entry.op \notin Shelved!Removing /\ entry.op \notin Shelved!Adding
    BY ShelvedOps
  <2> QED
    BY <2>1, ShelvedAddsTo
<1>3. S \subseteq 1..N /\ born \in 1..N
  BY ShelvedTimes
<1>4. Shelved!Born(m)' = born
  BY <1>2 DEF Shelved!Born
<1> HIDE DEF N, S, born
<1>5. Shelved!Recent(m)' = N + 1
  <2> DEFINE T == {born} \cup {i \in S \cup {N + 1} : i > born}
  <2>1. T \in SUBSET Nat /\ N + 1 \in T /\ \A k \in T : k <= N + 1
    <3>1. (\A k \in 1..N : k \in Nat /\ k <= N + 1) /\ N + 1 > born
      BY <1>1, <1>3
    <3>2. \A k \in T : k \in 1..N \/ k = N + 1
      BY <1>3
    <3> QED
      BY <1>1, <3>1, <3>2
  <2> HIDE DEF T
  <2>2. Shelved!Max(T) = N + 1
    BY <2>1, ShelvedMax
  <2> QED
    BY <1>1, <1>4, <2>2 DEF Shelved!Recent, T
<1> QED
  BY <1>1, <1>2, <1>3, <1>4, <1>5 DEF Shelved!Latest, born

\* The registries go by names: one item to each, and that is the one that is held.
LEMMA ShelvedNames ==
  ASSUME Shelved!TypeOK, Shelved!Standing
  PROVE  /\ items \in Seq(Shelved!Items) /\ Len(items) \in Nat /\ DOMAIN items = 1..Len(items)
         /\ \A i \in DOMAIN items : /\ items[i] \in Shelved!Items /\ items[i].name \in Names
                                    /\ Shelved!Adds(items[i].name) # {}
                                    /\ Shelved!Held(items[i].name) = items[i].value
         /\ \A i, j \in DOMAIN items : items[i].name = items[j].name => i = j
<1>1. items \in Seq(Shelved!Items) /\ Len(items) \in Nat /\ DOMAIN items = 1..Len(items)
  BY DEF Shelved!TypeOK
<1>2. ASSUME NEW i \in DOMAIN items
      PROVE  items[i] \in Shelved!Items /\ items[i].name \in Names /\ Shelved!Adds(items[i].name) # {}
  <2>1. items[i] \in Shelved!Items
    BY <1>1
  <2>2. items[i].name \in Names
    BY <2>1 DEF Shelved!Items
  <2>3. Shelved!Has(items[i].name)
    BY DEF Shelved!Has
  <2> QED
    BY <2>1, <2>2, <2>3 DEF Shelved!Standing
<1>3. ASSUME NEW i \in DOMAIN items, NEW j \in DOMAIN items, items[i].name = items[j].name, i < j
      PROVE  FALSE
  <2>1. Shelved!Born(items[i].name) < Shelved!Born(items[j].name)
    BY <1>3 DEF Shelved!Standing
  <2>2. Shelved!Born(items[i].name) \in 1..Len(calls) /\ Len(calls) \in Nat
    BY <1>2, ShelvedTimes
  <2> QED
    BY <1>3, <2>1, <2>2
<1>4. ASSUME NEW i \in DOMAIN items, NEW j \in DOMAIN items, items[i].name = items[j].name
      PROVE  i = j
  <2>1. ~(i < j)
    BY <1>3, <1>4
  <2>2. ~(j < i)
    BY <1>3, <1>4
  <2> QED
    BY <1>1, <2>1, <2>2
<1>5. ASSUME NEW i \in DOMAIN items
      PROVE  Shelved!Held(items[i].name) = items[i].value
  <2> DEFINE it == CHOOSE item \in Shelved!Range(items) : item.name = items[i].name
  <2>1. Shelved!Range(items) = {items[j] : j \in DOMAIN items}
    BY DEF Shelved!Range
  <2>2. it \in Shelved!Range(items) /\ it.name = items[i].name
    <3>1. \E item \in Shelved!Range(items) : item.name = items[i].name
      BY <2>1
    <3> QED
      BY <3>1
  <2> HIDE DEF it
  <2>3. PICK j \in DOMAIN items : it = items[j]
    BY <2>1, <2>2
  <2>4. it = items[i]
    BY <1>4, <2>2, <2>3
  <2> QED
    BY <2>4 DEF Shelved!Held, it
<1> QED
  BY <1>1, <1>2, <1>4, <1>5

\* Nothing that is known of a name changes.
Untouched(m) ==
  /\ Shelved!Adds(m)' = {} <=> Shelved!Adds(m) = {}
  /\ Shelved!Adds(m) # {} =>
       /\ Shelved!Born(m)' = Shelved!Born(m) /\ Shelved!Latest(m)' = Shelved!Latest(m)
       /\ calls'[Shelved!Born(m)'] = calls[Shelved!Born(m)]

\* A call as it is noted, and that the names it is not of do not hear it.
LEMMA ShelvedCalls ==
  ASSUME Shelved!IInv, NEW where, NEW op \in {"add", "remove", "say", "reset", "update"},
         NEW n \in Names, NEW value \in Shelved!Values, Shelved!Call(where, op, n, value)
  PROVE  LET entry == [op |-> op, name |-> n, value |-> value]
         IN  /\ entry \in Shelved!Calls /\ calls' = Append(calls, entry)
             /\ calls' \in Seq(Shelved!Calls)
             /\ registry = where /\ registry' = registry
             /\ registry \in {"flags", "plugins", "repository"}
             /\ \A m \in Names \ {n} : Untouched(m)
<1> DEFINE entry == [op |-> op, name |-> n, value |-> value]
<1>1. calls' = Append(calls, entry) /\ registry = where /\ registry' = registry
  BY DEF Shelved!Call
<1>2. entry \in Shelved!Calls
  BY DEF Shelved!Calls, Shelved!Adding, Shelved!Removing, Shelved!Saying
<1>3. Shelved!TypeOK /\ registry \in {"flags", "plugins", "repository"}
  BY DEF Shelved!IInv, Shelved!TypeOK
<1>4. entry.name = n
  OBVIOUS
<1> HIDE DEF entry
<1>5. calls' \in Seq(Shelved!Calls)
  BY <1>1, <1>2, <1>3, ShelvedHeard
<1>6. ASSUME NEW m \in Names \ {n}
      PROVE  Untouched(m)
  <2>1. m # entry.name
    BY <1>4
  <2> QED
    BY <1>1, <1>2, <1>3, <2>1, ShelvedSame DEF Untouched
<1> QED
  BY <1>1, <1>2, <1>3, <1>5, <1>6 DEF entry

LEMMA ShelvedSpoken ==
  ASSUME Shelved!TypeOK, Shelved!Spoken, NEW entry \in Shelved!Calls, calls' = Append(calls, entry),
         registry' = registry,
         registry # "repository" => entry.op # "update",
         registry = "repository" => entry.op # "say",
         registry = "plugins" /\ entry.op = "add" => entry.value # "off",
         registry = "plugins" => entry.op \in {"add", "say"}
  PROVE  Shelved!Spoken'
<1>1. /\ DOMAIN calls' = 1..(Len(calls) + 1) /\ Len(calls) \in Nat
      /\ \A i \in 1..Len(calls) : calls'[i] = calls[i]
      /\ calls'[Len(calls) + 1] = entry
  BY ShelvedHeard
<1>2. DOMAIN calls = 1..Len(calls)
  BY ShelvedTimes
<1>3. ASSUME NEW i \in DOMAIN calls'
      PROVE  (i \in DOMAIN calls /\ calls'[i] = calls[i]) \/ calls'[i] = entry
  BY <1>1, <1>2
<1> QED
  BY <1>3 DEF Shelved!Spoken

\* Where the items stay and no name is touched, they stand as they did.
LEMMA ShelvedIdle ==
  ASSUME Shelved!TypeOK, Shelved!Standing, Shelved!Said, \A m \in Names : Untouched(m),
         registry' = registry, items' = items, marks' = marks
  PROVE  Shelved!Standing' /\ Shelved!Said'
<1>1. Shelved!Standing'
  <2>1. \A i \in DOMAIN items : items[i].name \in Names /\ Shelved!Adds(items[i].name) # {}
    BY ShelvedNames
  <2>2. \A m \in Names : Shelved!Has(m)' <=> Shelved!Adds(m)' # {}
    BY DEF Shelved!Standing, Shelved!Has, Untouched
  <2>3. \A i \in DOMAIN items :
          /\ Shelved!Born(items[i].name)' = Shelved!Born(items[i].name)
          /\ Shelved!Latest(items[i].name)' = Shelved!Latest(items[i].name)
          /\ calls'[Shelved!Born(items[i].name)'] = calls[Shelved!Born(items[i].name)]
    BY <2>1 DEF Untouched
  <2> QED
    BY <2>2, <2>3 DEF Shelved!Standing
<1>2. Shelved!Said'
  BY DEF Shelved!Said, Shelved!Switched, Untouched
<1> QED
  BY <1>1, <1>2

\* What is registered or added: its name is new, or nothing changes.
LEMMA ShelvedAdded ==
  ASSUME Shelved!IInv, NEW where, NEW n \in Names, NEW value \in Shelved!Values,
         Shelved!Call(where, "add", n, value), where = "plugins" => value # "off",
         items' = IF value \in Incapable THEN items ELSE Shelved!Added(n, value), marks' = marks
  PROVE  Shelved!IInv'
<1> DEFINE entry == [op |-> "add", name |-> n, value |-> value]
           item  == [name |-> n, value |-> value]
<1>1. /\ entry \in Shelved!Calls /\ calls' = Append(calls, entry) /\ calls' \in Seq(Shelved!Calls)
      /\ registry = where /\ registry' = registry /\ registry \in {"flags", "plugins", "repository"}
      /\ \A m \in Names \ {n} : Untouched(m)
  BY ShelvedCalls
<1>2. Shelved!TypeOK /\ Shelved!Spoken /\ Shelved!Standing /\ Shelved!Said
  BY DEF Shelved!IInv
<1>3. entry.op = "add" /\ entry.name = n /\ entry.value = value
  OBVIOUS
<1>4. entry.op \in Shelved!Adding
  BY <1>3, ShelvedOps
<1> HIDE DEF entry
<1>5. Shelved!Spoken'
  BY <1>1, <1>2, <1>3, ShelvedSpoken
<1>6. Shelved!Has(n) <=> Shelved!Adds(n) # {}
  BY <1>2 DEF Shelved!Standing
<1>7. item \in Shelved!Items /\ item.name = n /\ item.value = value
  BY DEF Shelved!Items
<1> HIDE DEF item
<1>8. items' = IF value \in Incapable \/ Shelved!Has(n) THEN items ELSE Append(items, item)
  BY DEF Shelved!Added, item
<1>9. Shelved!TypeOK'
  <2>1. items' \in Seq(Shelved!Items)
    BY <1>2, <1>7, <1>8 DEF Shelved!TypeOK
  <2> QED
    BY <1>1, <1>2, <2>1 DEF Shelved!TypeOK
<1>10. CASE value \in Incapable \/ Shelved!Has(n)
  <2>1. Untouched(n)
    BY <1>1, <1>2, <1>3, <1>4, <1>6, <1>10, ShelvedSame DEF Untouched
  <2>2. \A m \in Names : Untouched(m)
    BY <1>1, <2>1
  <2>3. Shelved!Standing' /\ Shelved!Said'
    BY <1>1, <1>2, <1>8, <1>10, <2>2, ShelvedIdle
  <2> QED
    BY <1>5, <1>9, <2>3 DEF Shelved!IInv
<1>11. CASE ~(value \in Incapable \/ Shelved!Has(n))
  <2>1. /\ Shelved!Adds(n)' # {} /\ Shelved!Born(n)' = Len(calls) + 1
        /\ Shelved!Latest(n)' = entry /\ calls'[Len(calls) + 1] = entry
    BY <1>1, <1>2, <1>3, <1>4, <1>6, <1>11, ShelvedBears
  <2>2. /\ Len(items) \in Nat /\ DOMAIN items = 1..Len(items) /\ items \in Seq(Shelved!Items)
        /\ \A i \in DOMAIN items : items[i].name \in Names /\ Shelved!Adds(items[i].name) # {}
    BY <1>2, ShelvedNames
  <2>3. items' = Append(items, item)
    BY <1>8, <1>11
  <2>4. /\ DOMAIN items' = 1..(Len(items) + 1) /\ items'[Len(items) + 1] = item
        /\ \A i \in DOMAIN items : items'[i] = items[i]
    BY <1>7, <2>2, <2>3
  <2>5. \A i \in DOMAIN items : items[i].name # n
    BY <1>11 DEF Shelved!Has
  <2>6. ASSUME NEW i \in DOMAIN items'
        PROVE  \/ /\ i \in DOMAIN items /\ items'[i] = items[i] /\ items[i].name \in Names \ {n}
                  /\ Shelved!Born(items[i].name)' = Shelved!Born(items[i].name)
                  /\ Shelved!Latest(items[i].name)' = Shelved!Latest(items[i].name)
                  /\ calls'[Shelved!Born(items[i].name)'] = calls[Shelved!Born(items[i].name)]
                  /\ Shelved!Born(items[i].name) <= Len(calls)
               \/ i = Len(items) + 1 /\ items'[i] = item
    <3>1. CASE i \in DOMAIN items
      <4>1. items[i].name \in Names \ {n} /\ Shelved!Adds(items[i].name) # {}
        BY <2>2, <2>5, <3>1
      <4>2. Shelved!Born(items[i].name) \in 1..Len(calls) /\ Len(calls) \in Nat
        BY <1>2, <4>1, ShelvedTimes
      <4> QED
        BY <1>1, <2>4, <3>1, <4>1, <4>2 DEF Untouched
    <3>2. CASE i = Len(items) + 1
      BY <2>4, <3>2
    <3> QED
      BY <2>2, <2>4, <3>1, <3>2
  <2>7. ASSUME NEW m \in Names
        PROVE  Shelved!Has(m)' <=> Shelved!Adds(m)' # {}
    <3>1. CASE m = n
      <4>1. Shelved!Has(n)'
        BY <1>7, <2>2, <2>4 DEF Shelved!Has
      <4> QED
        BY <2>1, <3>1, <4>1
    <3>2. CASE m # n
      <4>1. Shelved!Has(m)' <=> Shelved!Has(m)
        BY <1>7, <2>2, <2>4, <3>2 DEF Shelved!Has
      <4> QED
        BY <1>1, <1>2, <3>2, <4>1 DEF Untouched, Shelved!Standing
    <3> QED
      BY <3>1, <3>2
  <2>8. ASSUME NEW i \in DOMAIN items', NEW j \in DOMAIN items', i < j
        PROVE  Shelved!Born(items[i].name)' < Shelved!Born(items[j].name)'
    <3>1. i \in DOMAIN items
      BY <2>2, <2>4, <2>8
    <3>2. i # Len(items) + 1
      BY <2>2, <3>1
    <3>3. Shelved!Born(items[i].name)' = Shelved!Born(items[i].name)
      BY <2>6, <3>2
    <3>4. CASE j = Len(items) + 1
      <4>1. Shelved!Born(items[i].name) \in 1..Len(calls) /\ Len(calls) \in Nat
        BY <1>2, <2>2, <3>1, ShelvedTimes
      <4>2. items'[j].name = n
        BY <1>7, <2>4, <3>4
      <4> QED
        BY <2>1, <3>3, <4>1, <4>2
    <3>5. CASE j # Len(items) + 1
      <4>1. j \in DOMAIN items /\ Shelved!Born(items[j].name)' = Shelved!Born(items[j].name)
        BY <2>6, <3>5
      <4> QED
        BY <1>2, <2>8, <3>1, <3>3, <4>1 DEF Shelved!Standing
    <3> QED
      BY <3>4, <3>5
  <2>9. ASSUME NEW i \in DOMAIN items'
        PROVE  items'[i].value = IF Shelved!Latest(items[i].name)'.op = "update"
                                 THEN Shelved!Latest(items[i].name)'.value
                                 ELSE calls'[Shelved!Born(items[i].name)'].value
    <3>1. CASE items'[i] = item
      <4>1. items'[i].name = n /\ items'[i].value = value
        BY <1>7, <3>1
      <4> QED
        BY <1>3, <2>1, <4>1
    <3>2. CASE items'[i] # item
      <4>1. /\ i \in DOMAIN items /\ items'[i] = items[i]
            /\ Shelved!Born(items[i].name)' = Shelved!Born(items[i].name)
            /\ Shelved!Latest(items[i].name)' = Shelved!Latest(items[i].name)
            /\ calls'[Shelved!Born(items[i].name)'] = calls[Shelved!Born(items[i].name)]
        BY <2>6, <3>2
      <4>2. items[i].value = IF Shelved!Latest(items[i].name).op = "update"
                             THEN Shelved!Latest(items[i].name).value
                             ELSE calls[Shelved!Born(items[i].name)].value
        BY <1>2, <4>1 DEF Shelved!Standing
      <4> QED
        BY <4>1, <4>2
    <3> QED
      BY <3>1, <3>2
  <2>10. Shelved!Standing'
    BY <2>7, <2>8, <2>9 DEF Shelved!Standing
  <2>11. Shelved!Said'
    <3> SUFFICES ASSUME registry # "repository", NEW m \in Names
                 PROVE  /\ m \in DOMAIN marks <=> Shelved!Switched(m)'
                        /\ m \in DOMAIN marks => marks[m] = Shelved!Latest(m)'.value
      BY <1>1 DEF Shelved!Said
    <3>1. CASE m = n
      <4>1. n \notin DOMAIN marks
        BY <1>2, <1>6, <1>11 DEF Shelved!Said, Shelved!Switched
      <4>2. ~Shelved!Switched(n)'
        BY <1>3, <2>1 DEF Shelved!Switched
      <4> QED
        BY <3>1, <4>1, <4>2
    <3>2. CASE m # n
      BY <1>1, <1>2, <3>2 DEF Shelved!Said, Shelved!Switched, Untouched
    <3> QED
      BY <3>1, <3>2
  <2> QED
    BY <1>5, <1>9, <2>10, <2>11 DEF Shelved!IInv
<1> QED
  BY <1>10, <1>11

\* What is said of a flag or a plugin is noted in its marks, if it is there.
LEMMA ShelvedSaid ==
  ASSUME Shelved!IInv, NEW where, NEW op, op = "say" \/ op = "reset", NEW n \in Names,
         NEW value \in Shelved!Values, Shelved!Call(where, op, n, value), where # "repository",
         where = "plugins" => op = "say", items' = items, NEW marking,
         marking <=> op = "say" /\ (where = "plugins" => value = "off"),
         Shelved!Has(n) => marks' = IF marking THEN Shelved!Marked(n, value) ELSE Shelved!Unmarked(n),
         ~Shelved!Has(n) => marks' = marks
  PROVE  Shelved!IInv'
<1> DEFINE entry == [op |-> op, name |-> n, value |-> value]
<1>1. /\ entry \in Shelved!Calls /\ calls' = Append(calls, entry) /\ calls' \in Seq(Shelved!Calls)
      /\ registry = where /\ registry' = registry /\ registry \in {"flags", "plugins", "repository"}
      /\ \A m \in Names \ {n} : Untouched(m)
  <2>1. op \in {"add", "remove", "say", "reset", "update"}
    OBVIOUS
  <2> QED
    BY <2>1, ShelvedCalls
<1>2. Shelved!TypeOK /\ Shelved!Spoken /\ Shelved!Standing /\ Shelved!Said
  BY DEF Shelved!IInv
<1>3. entry.op = op /\ entry.name = n /\ entry.value = value
  OBVIOUS
<1>4. entry.op \in Shelved!Saying
  BY <1>3, ShelvedOps
<1>5. op # "update" /\ op # "add"
  OBVIOUS
<1> HIDE DEF entry
<1>6. Shelved!Spoken'
  BY <1>1, <1>2, <1>3, <1>5, ShelvedSpoken
<1>7. Shelved!Has(n) <=> Shelved!Adds(n) # {}
  BY <1>2 DEF Shelved!Standing
<1>8. CASE ~Shelved!Has(n)
  <2>1. Untouched(n)
    BY <1>1, <1>2, <1>3, <1>4, <1>7, <1>8, ShelvedSame DEF Untouched
  <2>2. \A m \in Names : Untouched(m)
    BY <1>1, <2>1
  <2>3. marks' = marks
    BY <1>8
  <2>4. Shelved!Standing' /\ Shelved!Said'
    BY <1>1, <1>2, <2>2, <2>3, ShelvedIdle
  <2>5. Shelved!TypeOK'
    BY <1>1, <1>2, <2>3 DEF Shelved!TypeOK
  <2> QED
    BY <1>6, <2>4, <2>5 DEF Shelved!IInv
<1>9. CASE Shelved!Has(n)
  <2>1. /\ Shelved!Adds(n)' # {} /\ Shelved!Born(n)' = Shelved!Born(n)
        /\ Shelved!Latest(n)' = entry /\ calls'[Shelved!Born(n)'] = calls[Shelved!Born(n)]
    BY <1>1, <1>2, <1>3, <1>4, <1>7, <1>9, ShelvedSpeaks
  <2>2. \A i \in DOMAIN items : items[i].name \in Names /\ Shelved!Adds(items[i].name) # {}
    BY <1>2, ShelvedNames
  <2>3. \A m \in Names : Shelved!Adds(m) # {} => /\ Shelved!Born(m)' = Shelved!Born(m)
                                                 /\ calls'[Shelved!Born(m)'] = calls[Shelved!Born(m)]
    BY <1>1, <2>1 DEF Untouched
  <2>4. \A m \in Names : Shelved!Has(m)' <=> Shelved!Adds(m)' # {}
    <3>1. ASSUME NEW m \in Names
          PROVE  Shelved!Has(m)' <=> Shelved!Adds(m)' # {}
      <4>1. Shelved!Has(m)' <=> Shelved!Has(m)
        BY DEF Shelved!Has
      <4>2. CASE m = n
        BY <1>9, <2>1, <4>1, <4>2
      <4>3. CASE m # n
        BY <1>1, <1>2, <4>1, <4>3 DEF Untouched, Shelved!Standing
      <4> QED
        BY <4>2, <4>3
    <3> QED
      BY <3>1
  <2>5. \A m \in Names : Shelved!Adds(m) # {} => Shelved!Latest(m).op # "update"
    <3>1. ASSUME NEW m \in Names, Shelved!Adds(m) # {}
          PROVE  Shelved!Latest(m).op # "update"
      <4>1. Shelved!Recent(m) \in DOMAIN calls
        BY <1>2, <3>1, ShelvedTimes
      <4> QED
        BY <1>1, <1>2, <4>1 DEF Shelved!Spoken, Shelved!Latest
    <3> QED
      BY <3>1
  <2>6. ASSUME NEW m \in Names, Shelved!Adds(m) # {}
        PROVE  Shelved!Latest(m)'.op # "update"
    <3>1. CASE m = n
      BY <1>3, <1>5, <2>1, <3>1
    <3>2. CASE m # n
      BY <1>1, <2>5, <2>6, <3>2 DEF Untouched
    <3> QED
      BY <3>1, <3>2
  <2>7. Shelved!Standing'
    <3>1. ASSUME NEW i \in DOMAIN items
          PROVE  items[i].value = calls'[Shelved!Born(items[i].name)'].value
                 /\ Shelved!Latest(items[i].name)'.op # "update"
                 /\ Shelved!Born(items[i].name)' = Shelved!Born(items[i].name)
      <4>1. items[i].value = calls[Shelved!Born(items[i].name)].value
        BY <1>2, <2>2, <2>5 DEF Shelved!Standing
      <4> QED
        BY <2>2, <2>3, <2>6, <4>1
    <3> QED
      BY <1>2, <2>4, <3>1 DEF Shelved!Standing
  <2>8. ASSUME NEW m \in Names
        PROVE  /\ m \in DOMAIN marks' <=> (IF m = n THEN marking ELSE m \in DOMAIN marks)
               /\ m \in DOMAIN marks' => marks'[m] = IF m = n THEN value ELSE marks[m]
    <3>1. CASE marking
      <4>1. marks' = [k \in DOMAIN marks \cup {n} |-> IF k = n THEN value ELSE marks[k]]
        BY <1>9, <3>1 DEF Shelved!Marked
      <4> QED
        BY <3>1, <4>1
    <3>2. CASE ~marking
      <4>1. marks' = [k \in DOMAIN marks \ {n} |-> marks[k]]
        BY <1>9, <3>2 DEF Shelved!Unmarked
      <4> QED
        BY <3>2, <4>1
    <3> QED
      BY <3>1, <3>2
  <2>9. Shelved!TypeOK'
    <3>1. marks' = IF marking THEN Shelved!Marked(n, value) ELSE Shelved!Unmarked(n)
      BY <1>9
    <3>2. DOMAIN marks' \subseteq DOMAIN marks \cup {n}
      BY <3>1 DEF Shelved!Marked, Shelved!Unmarked
    <3> QED
      BY <1>1, <1>2, <3>2 DEF Shelved!TypeOK
  <2>10. Shelved!Said'
    <3> SUFFICES ASSUME NEW m \in Names
                 PROVE  /\ m \in DOMAIN marks' <=> Shelved!Switched(m)'
                        /\ m \in DOMAIN marks' => marks'[m] = Shelved!Latest(m)'.value
      BY <1>1 DEF Shelved!Said
    <3>1. CASE m = n
      <4>1. Shelved!Switched(n)' <=> marking
        BY <1>1, <1>3, <2>1 DEF Shelved!Switched
      <4> QED
        BY <1>3, <2>1, <2>8, <3>1, <4>1
    <3>2. CASE m # n
      <4>1. Shelved!Switched(m)' <=> Shelved!Switched(m)
        BY <1>1, <3>2 DEF Shelved!Switched, Untouched
      <4>2. m \in DOMAIN marks => Shelved!Adds(m) # {} /\ marks[m] = Shelved!Latest(m).value
        BY <1>1, <1>2 DEF Shelved!Said, Shelved!Switched
      <4>3. m \in DOMAIN marks <=> Shelved!Switched(m)
        BY <1>1, <1>2 DEF Shelved!Said
      <4> QED
        BY <1>1, <2>8, <3>2, <4>1, <4>2, <4>3 DEF Untouched
    <3> QED
      BY <3>1, <3>2
  <2> QED
    BY <1>6, <2>7, <2>9, <2>10 DEF Shelved!IInv
<1> QED
  BY <1>8, <1>9

\* A dict without one of its names.
LEMMA ShelvedPopped ==
  ASSUME Shelved!TypeOK, NEW n
  PROVE  LET left == Shelved!Pop(n)
         IN  /\ left \in Seq(Shelved!Items)
             /\ \A k \in DOMAIN left : \E i \in DOMAIN items : left[k] = items[i] /\ items[i].name # n
             /\ \A i \in DOMAIN items : items[i].name # n => \E k \in DOMAIN left : left[k] = items[i]
             /\ \A k, l \in DOMAIN left : k < l =>
                  \E i, j \in DOMAIN items : i < j /\ left[k] = items[i] /\ left[l] = items[j]
<1> DEFINE others == {item \in Shelved!Range(items) : item.name # n}
           left == Shelved!Pop(n)
<1>1. items \in Seq(Shelved!Items)
  BY DEF Shelved!TypeOK
<1>2. Shelved!Range(items) = {items[i] : i \in DOMAIN items}
  BY DEF Shelved!Range
<1>3. \A S : Shelved!Keep(items, S) = Keep(items, S)
  BY DEF Shelved!Keep, Keep
<1>4. left = Keep(items, others)
  BY <1>3 DEF Shelved!Pop
<1>5. \A x : x \in others <=> x.name # n /\ \E i \in DOMAIN items : items[i] = x
  BY <1>2
<1> HIDE DEF others, left
<1>6. left \in Seq(Shelved!Items)
  BY <1>1, <1>4, KeptSequence
<1>7. \A x : (\E k \in DOMAIN left : left[k] = x) <=> x \in others /\ (\E i \in DOMAIN items : items[i] = x)
  BY <1>1, <1>4, KeptMembers
<1>8. \A k, l \in DOMAIN left : k < l =>
        \E i, j \in DOMAIN items : i < j /\ items[i] = left[k] /\ items[j] = left[l]
  BY <1>1, <1>4, KeptInOrder
<1> QED
  BY <1>5, <1>6, <1>7, <1>8 DEF left

\* What is removed is forgotten, and whatever was said of it.
LEMMA ShelvedRemoved ==
  ASSUME Shelved!IInv, NEW where, NEW n \in Names, NEW value \in Shelved!Values,
         Shelved!Call(where, "remove", n, value), where # "plugins", items' = Shelved!Pop(n),
         where # "repository" => marks' = IF Shelved!Has(n) THEN Shelved!Unmarked(n) ELSE marks,
         where = "repository" => marks' = marks
  PROVE  Shelved!IInv'
<1> DEFINE entry == [op |-> "remove", name |-> n, value |-> value]
<1>1. /\ entry \in Shelved!Calls /\ calls' = Append(calls, entry) /\ calls' \in Seq(Shelved!Calls)
      /\ registry = where /\ registry' = registry /\ registry \in {"flags", "plugins", "repository"}
      /\ \A m \in Names \ {n} : Untouched(m)
  BY ShelvedCalls
<1>2. Shelved!TypeOK /\ Shelved!Spoken /\ Shelved!Standing /\ Shelved!Said
  BY DEF Shelved!IInv
<1>3. entry.op = "remove" /\ entry.name = n
  OBVIOUS
<1>4. entry.op \in Shelved!Removing
  BY <1>3, ShelvedOps
<1> HIDE DEF entry
<1>5. Shelved!Spoken'
  BY <1>1, <1>2, <1>3, ShelvedSpoken
<1>6. Shelved!Adds(n)' = {}
  BY <1>1, <1>2, <1>3, <1>4, ShelvedForgets
<1>7. /\ items' \in Seq(Shelved!Items)
      /\ \A k \in DOMAIN items' : \E i \in DOMAIN items : items'[k] = items[i] /\ items[i].name # n
      /\ \A i \in DOMAIN items : items[i].name # n => \E k \in DOMAIN items' : items'[k] = items[i]
      /\ \A k, l \in DOMAIN items' : k < l =>
           \E i, j \in DOMAIN items : i < j /\ items'[k] = items[i] /\ items'[l] = items[j]
  BY <1>2, ShelvedPopped
<1>8. \A i \in DOMAIN items : items[i].name \in Names /\ Shelved!Adds(items[i].name) # {}
  BY <1>2, ShelvedNames
<1>9. registry # "repository" =>
        \A m \in Names : /\ m \in DOMAIN marks' <=> m \in DOMAIN marks /\ m # n
                         /\ m \in DOMAIN marks' => marks'[m] = marks[m]
  <2>1. CASE registry # "repository" /\ Shelved!Has(n)
    <3>1. marks' = [m \in DOMAIN marks \ {n} |-> marks[m]]
      BY <1>1, <2>1 DEF Shelved!Unmarked
    <3> QED
      BY <3>1
  <2>2. CASE registry # "repository" /\ ~Shelved!Has(n)
    <3>1. n \notin DOMAIN marks
      BY <1>2, <2>2 DEF Shelved!Said, Shelved!Switched, Shelved!Standing
    <3>2. marks' = marks
      BY <1>1, <2>2
    <3> QED
      BY <3>1, <3>2
  <2> QED
    BY <2>1, <2>2
<1>10. Shelved!TypeOK'
  <2>1. DOMAIN marks' \subseteq DOMAIN marks
    BY <1>1 DEF Shelved!Unmarked
  <2> QED
    BY <1>1, <1>2, <1>7, <2>1 DEF Shelved!TypeOK
<1>11. Shelved!Standing'
  <2>1. ASSUME NEW m \in Names
        PROVE  Shelved!Has(m)' <=> Shelved!Adds(m)' # {}
    <3>1. CASE m = n
      BY <1>6, <1>7, <3>1 DEF Shelved!Has
    <3>2. CASE m # n
      <4>1. Shelved!Has(m)' <=> Shelved!Has(m)
        BY <1>7, <3>2 DEF Shelved!Has
      <4> QED
        BY <1>1, <1>2, <3>2, <4>1 DEF Untouched, Shelved!Standing
    <3> QED
      BY <3>1, <3>2
  <2>2. ASSUME NEW m \in Names \ {n}, Shelved!Adds(m) # {}
        PROVE  /\ Shelved!Born(m)' = Shelved!Born(m) /\ Shelved!Latest(m)' = Shelved!Latest(m)
               /\ calls'[Shelved!Born(m)'] = calls[Shelved!Born(m)]
    BY <1>1, <2>2 DEF Untouched
  <2>3. ASSUME NEW k \in DOMAIN items', NEW i \in DOMAIN items, items'[k] = items[i]
        PROVE  /\ items[i].name # n
               /\ Shelved!Born(items[k].name)' = Shelved!Born(items[i].name)
               /\ Shelved!Latest(items[k].name)' = Shelved!Latest(items[i].name)
               /\ calls'[Shelved!Born(items[k].name)'] = calls[Shelved!Born(items[i].name)]
    <3>1. items[i].name # n
      BY <1>7, <2>3
    <3> QED
      BY <1>8, <2>2, <2>3, <3>1
  <2>4. ASSUME NEW k \in DOMAIN items', NEW l \in DOMAIN items', k < l
        PROVE  Shelved!Born(items[k].name)' < Shelved!Born(items[l].name)'
    <3>1. PICK i \in DOMAIN items, j \in DOMAIN items :
            i < j /\ items'[k] = items[i] /\ items'[l] = items[j]
      BY <1>7, <2>4
    <3>2. Shelved!Born(items[i].name) < Shelved!Born(items[j].name)
      BY <1>2, <3>1 DEF Shelved!Standing
    <3>3. Shelved!Born(items[k].name)' = Shelved!Born(items[i].name)
      BY <2>3, <3>1
    <3>4. Shelved!Born(items[l].name)' = Shelved!Born(items[j].name)
      BY <2>3, <3>1
    <3> QED
      BY <3>2, <3>3, <3>4
  <2>5. ASSUME NEW k \in DOMAIN items'
        PROVE  items'[k].value = IF Shelved!Latest(items[k].name)'.op = "update"
                                 THEN Shelved!Latest(items[k].name)'.value
                                 ELSE calls'[Shelved!Born(items[k].name)'].value
    <3>1. PICK i \in DOMAIN items : items'[k] = items[i]
      BY <1>7
    <3>2. items[i].value = IF Shelved!Latest(items[i].name).op = "update"
                           THEN Shelved!Latest(items[i].name).value
                           ELSE calls[Shelved!Born(items[i].name)].value
      BY <1>2 DEF Shelved!Standing
    <3> QED
      BY <2>3, <3>1, <3>2
  <2> QED
    BY <2>1, <2>4, <2>5 DEF Shelved!Standing
<1>12. Shelved!Said'
  <2> SUFFICES ASSUME registry # "repository", NEW m \in Names
               PROVE  /\ m \in DOMAIN marks' <=> Shelved!Switched(m)'
                      /\ m \in DOMAIN marks' => marks'[m] = Shelved!Latest(m)'.value
    BY <1>1 DEF Shelved!Said
  <2>1. CASE m = n
    BY <1>6, <1>9, <2>1 DEF Shelved!Switched
  <2>2. CASE m # n
    <3>1. Shelved!Switched(m)' <=> Shelved!Switched(m)
      BY <1>1, <2>2 DEF Shelved!Switched, Untouched
    <3>2. /\ m \in DOMAIN marks <=> Shelved!Switched(m)
          /\ m \in DOMAIN marks => Shelved!Adds(m) # {} /\ marks[m] = Shelved!Latest(m).value
      BY <1>2 DEF Shelved!Said, Shelved!Switched
    <3>3. /\ m \in DOMAIN marks' <=> m \in DOMAIN marks
          /\ m \in DOMAIN marks' => marks'[m] = marks[m]
      BY <1>9, <2>2
    <3> QED
      BY <1>1, <2>2, <3>1, <3>2, <3>3 DEF Untouched
  <2> QED
    BY <2>1, <2>2
<1> QED
  BY <1>5, <1>10, <1>11, <1>12 DEF Shelved!IInv

\* An entity that is updated keeps its place.
LEMMA ShelvedUpdated ==
  ASSUME Shelved!IInv, NEW n \in Names, NEW entity \in Entities, Shelved!UpdateEntity(n, entity)
  PROVE  Shelved!IInv'
<1> DEFINE entry == [op |-> "update", name |-> n, value |-> entity]
<1>0. entity \in Shelved!Values /\ Shelved!Call("repository", "update", n, entity)
  BY DEF Shelved!UpdateEntity, Shelved!Values
<1>1. /\ entry \in Shelved!Calls /\ calls' = Append(calls, entry) /\ calls' \in Seq(Shelved!Calls)
      /\ registry = "repository" /\ registry' = registry
      /\ \A m \in Names \ {n} : Untouched(m)
  BY <1>0, ShelvedCalls
<1>2. Shelved!TypeOK /\ Shelved!Spoken /\ Shelved!Standing
  BY DEF Shelved!IInv
<1>3. entry.op = "update" /\ entry.name = n /\ entry.value = entity
  OBVIOUS
<1>4. entry.op \in Shelved!Saying
  BY <1>3, ShelvedOps
<1> HIDE DEF entry
<1>5. Shelved!Spoken'
  BY <1>1, <1>2, <1>3, ShelvedSpoken
<1>6. Shelved!Has(n) <=> Shelved!Adds(n) # {}
  BY <1>2 DEF Shelved!Standing
<1>7. /\ items' = [i \in DOMAIN items |->
                     IF items[i].name = n THEN [items[i] EXCEPT !.value = entity] ELSE items[i]]
      /\ marks' = marks
  BY DEF Shelved!UpdateEntity
<1>8. /\ items \in Seq(Shelved!Items) /\ Len(items) \in Nat /\ DOMAIN items = 1..Len(items)
      /\ \A i \in DOMAIN items : items[i] \in Shelved!Items /\ items[i].name \in Names
                                 /\ Shelved!Adds(items[i].name) # {}
  BY <1>2, ShelvedNames
<1>9. DOMAIN items' = DOMAIN items
  BY <1>7
<1>10. ASSUME NEW i \in DOMAIN items
       PROVE  /\ items'[i] \in Shelved!Items /\ items'[i].name = items[i].name
              /\ items'[i].value = IF items[i].name = n THEN entity ELSE items[i].value
  BY <1>0, <1>7, <1>8 DEF Shelved!Items
<1>11. Shelved!TypeOK'
  <2>1. items' \in Seq(Shelved!Items)
    <3>1. items' = [i \in 1..Len(items) |-> items'[i]]
      BY <1>7, <1>8
    <3> QED
      BY <1>8, <1>10, <3>1
  <2> QED
    BY <1>1, <1>2, <1>7, <2>1 DEF Shelved!TypeOK
<1>12. Shelved!Adds(n) # {} =>
         /\ Shelved!Adds(n)' # {} /\ Shelved!Born(n)' = Shelved!Born(n) /\ Shelved!Latest(n)' = entry
  BY <1>1, <1>2, <1>3, <1>4, ShelvedSpeaks
<1>13. Shelved!Adds(n) = {} => Shelved!Adds(n)' = {}
  BY <1>1, <1>2, <1>3, <1>4, ShelvedSame
<1>14. ASSUME NEW m \in Names
       PROVE  Shelved!Has(m)' <=> Shelved!Adds(m)' # {}
  <2>1. Shelved!Has(m)' <=> Shelved!Has(m)
    BY <1>9, <1>10 DEF Shelved!Has
  <2>2. CASE m = n
    BY <1>6, <1>12, <1>13, <2>1, <2>2
  <2>3. CASE m # n
    BY <1>1, <1>2, <2>1, <2>3 DEF Untouched, Shelved!Standing
  <2> QED
    BY <2>2, <2>3
<1>15. ASSUME NEW i \in DOMAIN items
       PROVE  /\ Shelved!Born(items[i].name)' = Shelved!Born(items[i].name)
              /\ items'[i].value = IF Shelved!Latest(items[i].name)'.op = "update"
                                   THEN Shelved!Latest(items[i].name)'.value
                                   ELSE calls'[Shelved!Born(items[i].name)'].value
  <2>1. CASE items[i].name = n
    <3>1. Shelved!Born(items[i].name)' = Shelved!Born(n)
      BY <1>8, <1>10, <1>12, <2>1
    <3>2. Shelved!Latest(items[i].name)' = entry
      BY <1>8, <1>10, <1>12, <2>1
    <3> QED
      BY <1>3, <1>10, <2>1, <3>1, <3>2
  <2>2. CASE items[i].name # n
    <3>1. /\ Shelved!Born(items[i].name)' = Shelved!Born(items[i].name)
          /\ Shelved!Latest(items[i].name)' = Shelved!Latest(items[i].name)
          /\ calls'[Shelved!Born(items[i].name)'] = calls[Shelved!Born(items[i].name)]
      BY <1>1, <1>8, <1>10, <2>2 DEF Untouched
    <3>2. items[i].value = IF Shelved!Latest(items[i].name).op = "update"
                           THEN Shelved!Latest(items[i].name).value
                           ELSE calls[Shelved!Born(items[i].name)].value
      BY <1>2 DEF Shelved!Standing
    <3> QED
      BY <1>10, <2>2, <3>1, <3>2
  <2> QED
    BY <2>1, <2>2
<1>16. Shelved!Standing'
  <2>1. ASSUME NEW i \in DOMAIN items, NEW j \in DOMAIN items, i < j
        PROVE  Shelved!Born(items[i].name)' < Shelved!Born(items[j].name)'
    BY <1>2, <1>15, <2>1 DEF Shelved!Standing
  <2> QED
    BY <1>9, <1>14, <1>15, <2>1 DEF Shelved!Standing
<1>17. Shelved!Said'
  BY <1>1 DEF Shelved!Said
<1> QED
  BY <1>5, <1>11, <1>16, <1>17 DEF Shelved!IInv

LEMMA ShelvedInit == Shelved!Init => Shelved!IInv
<1> SUFFICES ASSUME Shelved!Init
             PROVE  Shelved!IInv
  OBVIOUS
<1>1. items = <<>> /\ marks = <<>> /\ calls = <<>> /\ registry \in {"flags", "plugins", "repository"}
  BY DEF Shelved!Init
<1>2. DOMAIN items = {} /\ DOMAIN marks = {} /\ DOMAIN calls = {}
  BY <1>1
<1>3. items \in Seq(Shelved!Items) /\ calls \in Seq(Shelved!Calls)
  BY <1>1
<1>4. Shelved!TypeOK
  BY <1>1, <1>2, <1>3 DEF Shelved!TypeOK
<1>5. \A n : Shelved!Adds(n) = {}
  BY <1>2 DEF Shelved!Adds, Shelved!On
<1>6. Shelved!Spoken
  BY <1>2 DEF Shelved!Spoken
<1>7. Shelved!Standing
  BY <1>2, <1>5 DEF Shelved!Standing, Shelved!Has
<1>8. Shelved!Said
  BY <1>2, <1>5 DEF Shelved!Said, Shelved!Switched
<1> QED
  BY <1>4, <1>6, <1>7, <1>8 DEF Shelved!IInv

\* What the users may tell of a name that is there.
LEMMA ShelvedTold ==
  ASSUME Shelved!IInv, NEW m \in Names, Shelved!Adds(m) # {}
  PROVE  LET op == Shelved!Latest(m).op
         IN  /\ registry # "repository" => op # "update"
             /\ registry = "repository" => op # "say"
             /\ registry = "plugins" => (Shelved!Latest(m).value = "off" => op = "say")
<1>1. Shelved!TypeOK /\ Shelved!Spoken
  BY DEF Shelved!IInv
<1>2. Shelved!Recent(m) \in DOMAIN calls
  BY <1>1, ShelvedTimes
<1> QED
  BY <1>1, <1>2 DEF Shelved!Spoken, Shelved!Latest

\* The plugins that are active stand in the order of the items.
LEMMA ShelvedActive ==
  ASSUME Shelved!TypeOK
  PROVE  LET left == Shelved!Active
         IN  /\ \A k \in DOMAIN left : \E i \in DOMAIN items :
                  left[k] = items[i] /\ items[i].name \notin DOMAIN marks
             /\ \A i \in DOMAIN items :
                  items[i].name \notin DOMAIN marks => \E k \in DOMAIN left : left[k] = items[i]
             /\ \A k, l \in DOMAIN left : k < l =>
                  \E i, j \in DOMAIN items : i < j /\ left[k] = items[i] /\ left[l] = items[j]
<1> DEFINE enabled == {item \in Shelved!Range(items) : item.name \notin DOMAIN marks}
           left    == Shelved!Active
<1>1. items \in Seq(Shelved!Items)
  BY DEF Shelved!TypeOK
<1>2. Shelved!Range(items) = {items[i] : i \in DOMAIN items}
  BY DEF Shelved!Range
<1>3. \A S : Shelved!Keep(items, S) = Keep(items, S)
  BY DEF Shelved!Keep, Keep
<1>4. left = Keep(items, enabled)
  BY <1>3 DEF Shelved!Active
<1>5. \A x : x \in enabled <=> x.name \notin DOMAIN marks /\ \E i \in DOMAIN items : items[i] = x
  BY <1>2
<1> HIDE DEF enabled, left
<1>6. \A x : (\E k \in DOMAIN left : left[k] = x) <=> x \in enabled /\ (\E i \in DOMAIN items : items[i] = x)
  BY <1>1, <1>4, KeptMembers
<1>7. \A k, l \in DOMAIN left : k < l =>
        \E i, j \in DOMAIN items : i < j /\ items[i] = left[k] /\ items[j] = left[l]
  BY <1>1, <1>4, KeptInOrder
<1> QED
  BY <1>5, <1>6, <1>7 DEF left

LEMMA ShelvedAnswers == Shelved!IInv => Shelved!AnswersFollowTheCalls
<1> SUFFICES ASSUME Shelved!IInv
             PROVE  Shelved!AnswersFollowTheCalls
  OBVIOUS
<1>1. Shelved!TypeOK /\ Shelved!Standing /\ Shelved!Said
  BY DEF Shelved!IInv
<1>2. registry \in {"flags", "plugins", "repository"}
  BY <1>1 DEF Shelved!TypeOK
<1>3. /\ \A i \in DOMAIN items : /\ items[i].name \in Names /\ Shelved!Adds(items[i].name) # {}
                                 /\ Shelved!Held(items[i].name) = items[i].value
      /\ \A m \in Names : (\E i \in DOMAIN items : items[i].name = m) <=> Shelved!Adds(m) # {}
      /\ \A i, j \in DOMAIN items : i < j => Shelved!Born(items[i].name) < Shelved!Born(items[j].name)
  BY <1>1, ShelvedNames DEF Shelved!Standing, Shelved!Has
<1>4. ASSUME NEW i \in DOMAIN items
      PROVE  items[i].value = IF Shelved!Latest(items[i].name).op = "update"
                              THEN Shelved!Latest(items[i].name).value
                              ELSE calls[Shelved!Born(items[i].name)].value
  BY <1>1 DEF Shelved!Standing
<1>5. CASE registry = "flags"
  <2>1. Shelved!Listed = [i \in DOMAIN items |-> <<items[i].name, Shelved!IsOn(items[i].name)>>]
    BY <1>5 DEF Shelved!Listed
  <2>2. \A m : Shelved!Shown(m) <=> Shelved!Adds(m) # {}
    BY <1>5 DEF Shelved!Shown
  <2>3. ASSUME NEW i \in DOMAIN items
        PROVE  Shelved!IsOn(items[i].name) = Shelved!Due(items[i].name)
    <3>1. PICK m \in Names : m = items[i].name
      BY <1>3
    <3>2. /\ m \in DOMAIN marks <=> Shelved!Latest(m).op = "say"
          /\ m \in DOMAIN marks => marks[m] = Shelved!Latest(m).value
      BY <1>1, <1>3, <1>5, <3>1 DEF Shelved!Said, Shelved!Switched
    <3>3. Shelved!Latest(m).op # "update" /\ Shelved!Adds(m) # {}
      BY <1>3, <1>5, <3>1, ShelvedTold
    <3>4. Shelved!IsOn(m) = IF m \in DOMAIN marks THEN marks[m] ELSE calls[Shelved!Born(m)].value
      BY <1>3, <1>4, <3>1, <3>3 DEF Shelved!IsOn
    <3>5. Shelved!Due(m) = IF Shelved!Latest(m).op = "say" THEN Shelved!Latest(m).value
                           ELSE calls[Shelved!Born(m)].value
      BY <1>5, <3>3 DEF Shelved!Due
    <3> QED
      BY <3>1, <3>2, <3>4, <3>5
  <2>4. DOMAIN Shelved!Listed = DOMAIN items
        /\ \A i \in DOMAIN items : Shelved!Listed[i][1] = items[i].name
                                   /\ Shelved!Listed[i][2] = Shelved!Due(items[i].name)
    BY <2>1, <2>3
  <2> QED
    BY <1>3, <2>2, <2>4 DEF Shelved!AnswersFollowTheCalls
<1>6. CASE registry = "repository"
  <2>1. Shelved!Listed = [i \in DOMAIN items |-> <<items[i].name, items[i].value>>]
    BY <1>6 DEF Shelved!Listed
  <2>2. \A m : Shelved!Shown(m) <=> Shelved!Adds(m) # {}
    BY <1>6 DEF Shelved!Shown
  <2>3. ASSUME NEW i \in DOMAIN items
        PROVE  items[i].value = Shelved!Due(items[i].name)
    <3>1. PICK m \in Names : m = items[i].name
      BY <1>3
    <3>2. Shelved!Latest(m).op # "say"
      BY <1>3, <1>6, <3>1, ShelvedTold
    <3>3. Shelved!Due(m) = IF Shelved!Latest(m).op = "update" THEN Shelved!Latest(m).value
                           ELSE calls[Shelved!Born(m)].value
      BY <1>6, <3>2 DEF Shelved!Due
    <3> QED
      BY <1>4, <3>1, <3>3
  <2>4. DOMAIN Shelved!Listed = DOMAIN items
        /\ \A i \in DOMAIN items : Shelved!Listed[i][1] = items[i].name
                                   /\ Shelved!Listed[i][2] = Shelved!Due(items[i].name)
    BY <2>1, <2>3
  <2> QED
    BY <1>3, <2>2, <2>4 DEF Shelved!AnswersFollowTheCalls
<1>7. CASE registry = "plugins"
  <2>1. Shelved!Listed = [k \in DOMAIN Shelved!Active |-> <<Shelved!Active[k].name, Shelved!Active[k].value>>]
    BY <1>7 DEF Shelved!Listed
  <2> DEFINE left == Shelved!Active
  <2>2. /\ \A k \in DOMAIN left : \E i \in DOMAIN items :
             left[k] = items[i] /\ items[i].name \notin DOMAIN marks
        /\ \A i \in DOMAIN items :
             items[i].name \notin DOMAIN marks => \E k \in DOMAIN left : left[k] = items[i]
        /\ \A k, l \in DOMAIN left : k < l =>
             \E i, j \in DOMAIN items : i < j /\ left[k] = items[i] /\ left[l] = items[j]
    BY <1>1, ShelvedActive
  <2> HIDE DEF left
  <2>3. ASSUME NEW m \in Names
        PROVE  Shelved!Shown(m) <=> Shelved!Adds(m) # {} /\ m \notin DOMAIN marks
    <3>1. CASE Shelved!Adds(m) = {}
      BY <3>1 DEF Shelved!Shown
    <3>2. CASE Shelved!Adds(m) # {}
      <4>1. Shelved!Latest(m).value = "off" => Shelved!Latest(m).op = "say"
        BY <1>7, <3>2, ShelvedTold
      <4>2. m \in DOMAIN marks <=> Shelved!Latest(m).op = "say" /\ Shelved!Latest(m).value = "off"
        BY <1>1, <1>7, <3>2 DEF Shelved!Said, Shelved!Switched
      <4> QED
        BY <1>7, <3>2, <4>1, <4>2 DEF Shelved!Shown
    <3> QED
      BY <3>1, <3>2
  <2>4. ASSUME NEW i \in DOMAIN items
        PROVE  items[i].value = Shelved!Due(items[i].name)
    <3>1. PICK m \in Names : m = items[i].name
      BY <1>3
    <3>2. Shelved!Latest(m).op # "update"
      BY <1>3, <1>7, <3>1, ShelvedTold
    <3>3. Shelved!Due(m) = calls[Shelved!Born(m)].value
      BY <1>7 DEF Shelved!Due
    <3> QED
      BY <1>4, <3>1, <3>2, <3>3
  <2>5. DOMAIN Shelved!Listed = DOMAIN left
        /\ \A k \in DOMAIN left : Shelved!Listed[k][1] = left[k].name /\ Shelved!Listed[k][2] = left[k].value
    BY <2>1 DEF left
  <2>6. {Shelved!Listed[k][1] : k \in DOMAIN Shelved!Listed} = {n \in Names : Shelved!Shown(n)}
    <3>1. ASSUME NEW m
          PROVE  (\E k \in DOMAIN left : left[k].name = m) <=> m \in Names /\ Shelved!Shown(m)
      <4>1. ASSUME NEW k \in DOMAIN left, left[k].name = m
            PROVE  m \in Names /\ Shelved!Shown(m)
        BY <1>3, <2>2, <2>3, <4>1
      <4>2. ASSUME m \in Names, Shelved!Shown(m)
            PROVE  \E k \in DOMAIN left : left[k].name = m
        <5>1. PICK i \in DOMAIN items : items[i].name = m
          BY <1>3, <2>3, <4>2
        <5> QED
          BY <2>2, <2>3, <4>2, <5>1
      <4> QED
        BY <4>1, <4>2
    <3>2. {Shelved!Listed[k][1] : k \in DOMAIN Shelved!Listed} = {left[k].name : k \in DOMAIN left}
      BY <2>5
    <3> QED
      BY <3>1, <3>2
  <2>7. \A k \in DOMAIN Shelved!Listed : Shelved!Listed[k][2] = Shelved!Due(Shelved!Listed[k][1])
    BY <2>2, <2>4, <2>5
  <2>8. \A k, l \in DOMAIN Shelved!Listed :
          k < l => Shelved!Born(Shelved!Listed[k][1]) < Shelved!Born(Shelved!Listed[l][1])
    <3>1. ASSUME NEW k \in DOMAIN left, NEW l \in DOMAIN left, k < l
          PROVE  Shelved!Born(left[k].name) < Shelved!Born(left[l].name)
      <4>1. PICK i \in DOMAIN items, j \in DOMAIN items :
              i < j /\ left[k] = items[i] /\ left[l] = items[j]
        BY <2>2, <3>1
      <4> QED
        BY <1>3, <4>1
    <3> QED
      BY <2>5, <3>1
  <2> QED
    BY <2>6, <2>7, <2>8 DEF Shelved!AnswersFollowTheCalls
<1> QED
  BY <1>2, <1>5, <1>6, <1>7

\* What a registry lists is what the calls since a name was last added make of it
\* (FlagRegistry.snapshot, PluginRegistry.active, InMemoryRepository.list):
\* no override outlives its flag, no refused call leaves a trace, a disabled plugin is
\* not handed out, and the order is that of the additions.
THEOREM CallsAreAnswered == ShelfSpec => []AnswersFollowTheCalls
<1>1. ShelfInit => Shelved!IInv
  BY ShelvedInit DEF ShelfInit
<1>2. Shelved!IInv /\ [Shelved!Next]_shelved => Shelved!IInv'
  <2> SUFFICES ASSUME Shelved!IInv, [Shelved!Next]_shelved
               PROVE  Shelved!IInv'
    OBVIOUS
  <2>1. /\ "on" \in Shelved!Values /\ "off" \in Shelved!Values
        /\ "default" \in Shelved!Values /\ "nothing" \in Shelved!Values
    BY DEF Shelved!Values
  <2>2. ASSUME NEW n \in Names, NEW on, on = "on" \/ on = "off", Shelved!RegisterFlag(n, on)
        PROVE  Shelved!IInv'
    <3>1. /\ Shelved!Call("flags", "add", n, on) /\ items' = Shelved!Added(n, on) /\ marks' = marks
      BY <2>2 DEF Shelved!RegisterFlag
    <3>2. on \notin Incapable /\ on \in Shelved!Values
      BY <2>1, <2>2, PluginsAssumption
    <3> QED
      BY <3>1, <3>2, ShelvedAdded
  <2>3. ASSUME NEW n \in Names, NEW on, on = "on" \/ on = "off", Shelved!Override(n, on)
        PROVE  Shelved!IInv'
    <3>1. /\ Shelved!Call("flags", "say", n, on) /\ items' = items
          /\ marks' = IF Shelved!Has(n) THEN Shelved!Marked(n, on) ELSE marks
      BY <2>3 DEF Shelved!Override
    <3>2. on \in Shelved!Values
      BY <2>1, <2>3
    <3> QED
      BY <3>1, <3>2, ShelvedSaid
  <2>4. ASSUME NEW n \in Names, Shelved!ResetFlag(n)
        PROVE  Shelved!IInv'
    <3>1. /\ Shelved!Call("flags", "reset", n, "default") /\ items' = items
          /\ marks' = IF Shelved!Has(n) THEN Shelved!Unmarked(n) ELSE marks
      BY <2>4 DEF Shelved!ResetFlag
    <3> QED
      BY <2>1, <3>1, ShelvedSaid
  <2>5. ASSUME NEW n \in Names, Shelved!Retire(n)
        PROVE  Shelved!IInv'
    <3>1. /\ Shelved!Call("flags", "remove", n, "nothing") /\ items' = Shelved!Pop(n)
          /\ marks' = IF Shelved!Has(n) THEN Shelved!Unmarked(n) ELSE marks
      BY <2>5 DEF Shelved!Retire
    <3> QED
      BY <2>1, <3>1, ShelvedRemoved
  <2>6. ASSUME NEW n \in Names, NEW plugin \in Plugins, Shelved!RegisterPlugin(n, plugin)
        PROVE  Shelved!IInv'
    <3>1. /\ Shelved!Call("plugins", "add", n, plugin) /\ marks' = marks
          /\ items' = IF plugin \in Incapable THEN items ELSE Shelved!Added(n, plugin)
      BY <2>6 DEF Shelved!RegisterPlugin
    <3>2. plugin # "off" /\ plugin \in Shelved!Values
      BY PluginsAssumption DEF Shelved!Values
    <3> QED
      BY <3>1, <3>2, ShelvedAdded
  <2>7. ASSUME NEW n \in Names, Shelved!DisablePlugin(n)
        PROVE  Shelved!IInv'
    <3>1. /\ Shelved!Call("plugins", "say", n, "off") /\ items' = items
          /\ marks' = IF Shelved!Has(n) THEN Shelved!Marked(n, "off") ELSE marks
      BY <2>7 DEF Shelved!DisablePlugin
    <3> QED
      BY <2>1, <3>1, ShelvedSaid
  <2>8. ASSUME NEW n \in Names, Shelved!EnablePlugin(n)
        PROVE  Shelved!IInv'
    <3>1. /\ Shelved!Call("plugins", "say", n, "on") /\ items' = items
          /\ marks' = IF Shelved!Has(n) THEN Shelved!Unmarked(n) ELSE marks
      BY <2>8 DEF Shelved!EnablePlugin
    <3> QED
      BY <2>1, <3>1, ShelvedSaid
  <2>9. ASSUME NEW n \in Names, NEW entity \in Entities, Shelved!AddEntity(n, entity)
        PROVE  Shelved!IInv'
    <3>1. /\ Shelved!Call("repository", "add", n, entity) /\ items' = Shelved!Added(n, entity)
          /\ marks' = marks
      BY <2>9 DEF Shelved!AddEntity
    <3>2. entity \notin Incapable /\ entity \in Shelved!Values
      BY PluginsAssumption DEF Shelved!Values
    <3> QED
      BY <3>1, <3>2, ShelvedAdded
  <2>10. ASSUME NEW n \in Names, NEW entity \in Entities, Shelved!UpdateEntity(n, entity)
         PROVE  Shelved!IInv'
    BY <2>10, ShelvedUpdated
  <2>11. ASSUME NEW n \in Names, Shelved!RemoveEntity(n)
         PROVE  Shelved!IInv'
    <3>1. /\ Shelved!Call("repository", "remove", n, "nothing") /\ items' = Shelved!Pop(n)
          /\ marks' = marks
      BY <2>11 DEF Shelved!RemoveEntity
    <3> QED
      BY <2>1, <3>1, ShelvedRemoved
  <2>12. CASE UNCHANGED shelved
    <3>1. UNCHANGED <<registry, items, marks, calls>>
      BY <2>12 DEF shelved
    <3>2. ASSUME NEW m \in Names
          PROVE  Untouched(m)
      <4>1. /\ Shelved!On(m, Shelved!Adding)' = Shelved!On(m, Shelved!Adding)
            /\ Shelved!On(m, Shelved!Removing)' = Shelved!On(m, Shelved!Removing)
            /\ Shelved!On(m, Shelved!Saying)' = Shelved!On(m, Shelved!Saying)
        BY <3>1 DEF Shelved!On, Shelved!Adding, Shelved!Removing, Shelved!Saying
      <4>2. Shelved!Adds(m)' = Shelved!Adds(m)
        BY <3>1, <4>1 DEF Shelved!Adds, Shelved!Gone
      <4>3. Shelved!Born(m)' = Shelved!Born(m)
        BY <4>2 DEF Shelved!Born
      <4>4. Shelved!Latest(m)' = Shelved!Latest(m)
        BY <3>1, <4>1, <4>3 DEF Shelved!Latest, Shelved!Recent
      <4> QED
        BY <3>1, <4>2, <4>3, <4>4 DEF Untouched
    <3>3. Shelved!TypeOK' /\ Shelved!Spoken'
      BY <3>1 DEF Shelved!IInv, Shelved!TypeOK, Shelved!Spoken
    <3>4. Shelved!Standing' /\ Shelved!Said'
      BY <3>1, <3>2, ShelvedIdle DEF Shelved!IInv
    <3> QED
      BY <3>3, <3>4 DEF Shelved!IInv
  <2> QED
    BY <2>2, <2>3, <2>4, <2>5, <2>6, <2>7, <2>8, <2>9, <2>10, <2>11, <2>12 DEF Shelved!Next
<1>3. [ShelfNext]_<<core, vars, loader, bus, framer, telnet, evidence, flow, metrics,
                    directory, health, typed, sheet, shelved>> => [Shelved!Next]_shelved
  BY DEF ShelfNext, Turn
<1>4. Shelved!IInv => AnswersFollowTheCalls
  BY ShelvedAnswers DEF AnswersFollowTheCalls
<1> QED
  BY <1>1, <1>2, <1>3, <1>4, PTL DEF ShelfSpec

--------------------------------------------------------------------------------
\* Stacked modifiers. Rounding keeps the order,
LEMMA SheetRounds ==
  ASSUME NEW n \in Int, NEW m \in Int, NEW d \in Nat \ {0}, n <= m
  PROVE  Sheet!Round(n, d) \in Int /\ Sheet!Round(n, d) <= Sheet!Round(m, d)
<1> DEFINE p == n \div d
           q == m \div d
           r == n % d
           s == m % d
<1>1. /\ p \in Int /\ r \in 0..(d - 1) /\ n = d * p + r
      /\ q \in Int /\ s \in 0..(d - 1) /\ m = d * q + s
  BY Division
<1>2. /\ Sheet!Round(n, d) = IF 2 * r > d \/ (2 * r = d /\ p % 2 = 1) THEN p + 1 ELSE p
      /\ Sheet!Round(m, d) = IF 2 * s > d \/ (2 * s = d /\ q % 2 = 1) THEN q + 1 ELSE q
  BY DEF Sheet!Round
<1> HIDE DEF p, q, r, s
<1>3. Sheet!Round(n, d) \in {p, p + 1} /\ Sheet!Round(m, d) \in {q, q + 1}
  BY <1>2
<1>4. d * p \in Int /\ d * q \in Int
  BY <1>1
<1>5. ~(q < p)
  <2>1. q < p => d * q + d <= d * p
    BY <1>1, Quotient
  <2> QED
    BY <1>1, <1>4, <2>1
<1>6. CASE p < q
  <2>1. p + 1 <= q /\ p <= q
    BY <1>1, <1>6
  <2> QED
    BY <1>1, <1>3, <2>1
<1>7. CASE p = q
  <2>1. r <= s
    BY <1>1, <1>4, <1>7
  <2>2. r \in Nat /\ s \in Nat
    BY <1>1
  <2> QED
    BY <1>1, <1>2, <1>7, <2>1, <2>2
<1> QED
  BY <1>1, <1>5, <1>6, <1>7

\* of what is no greater than zero it makes nothing greater,
LEMMA SheetRoundsZero ==
  ASSUME NEW n \in Int, NEW d \in Nat \ {0}
  PROVE  /\ n <= 0 => Sheet!Round(n, d) <= 0
         /\ n >= 0 => Sheet!Round(n, d) >= 0
<1>1. 0 \div d = 0 /\ 0 % d = 0
  <2>1. 0 \in 0..(d - 1) /\ 0 = d * 0 + 0
    OBVIOUS
  <2> QED
    BY <2>1, QuotientIs
<1>2. Sheet!Round(0, d) = 0
  BY <1>1 DEF Sheet!Round
<1> QED
  BY <1>2, SheetRounds

\* and of whole ones it takes nothing away.
LEMMA SheetRoundsWhole ==
  ASSUME NEW n \in Int, NEW d \in Nat \ {0}
  PROVE  Sheet!Round(n * d, d) = n
<1>1. (n * d) \div d = n /\ (n * d) % d = 0
  <2>1. 0 \in 0..(d - 1) /\ n * d \in Int /\ n * d = d * n + 0
    OBVIOUS
  <2> QED
    BY <2>1, QuotientIs
<1> QED
  BY <1>1 DEF Sheet!Round

LEMMA SheetRoundsInt ==
  ASSUME NEW n \in Int, NEW d \in Nat \ {0}
  PROVE  Sheet!Round(n, d) \in Int
<1>1. n <= n
  OBVIOUS
<1> QED
  BY <1>1, SheetRounds

\* So does a clamp, which answers within the bounds.
LEMMA SheetClamps ==
  ASSUME NEW s \in Sheet!Stats, NEW a \in Int, NEW b \in Int
  PROVE  /\ Sheet!Clamp(s, a) \in Int /\ s.min_value <= Sheet!Clamp(s, a)
         /\ a <= b => Sheet!Clamp(s, a) <= Sheet!Clamp(s, b)
         /\ a <= s.min_value => Sheet!Clamp(s, a) = s.min_value
<1>1. /\ s.base \in Int /\ s.min_value \in Int /\ s.max_value \in Int /\ s.min_value <= s.max_value
  <2>1. s.base \in Int /\ s.min_value \in Int /\ s.max_value \in Int
    BY NumbersAssumption DEF Sheet!Stats
  <2>2. s.min_value <= s.base /\ s.base <= s.max_value
    BY DEF Sheet!Stats
  <2> QED
    BY <2>1, <2>2
<1> QED
  BY <1>1 DEF Sheet!Clamp

\* What the loops over a stack of modifiers run over.
SheetFlats(ms)    == [k \in DOMAIN ms |-> ms[k].flat]
SheetPercents(ms) == [k \in DOMAIN ms |-> ms[k].percent]

LEMMA SheetLoops ==
  ASSUME NEW ms
  PROVE  Sheet!Flats(ms) = Total(SheetFlats(ms)) /\ Sheet!Percents(ms) = Total(SheetPercents(ms))
<1>1. \A seq : Sheet!Total(seq) = Total(seq)
  BY DEF Sheet!Total, Total
<1> QED
  BY <1>1 DEF Sheet!Flats, Sheet!Percents, SheetFlats, SheetPercents

LEMMA SheetColumns ==
  ASSUME NEW ms \in Seq(Modifiers)
  PROVE  /\ Len(ms) \in Nat
         /\ \A k \in 1..Len(ms) : ms[k].flat \in Int /\ ms[k].percent \in Int
         /\ SheetFlats(ms) \in Seq(Int) /\ Len(SheetFlats(ms)) = Len(ms)
         /\ SheetPercents(ms) \in Seq(Int) /\ Len(SheetPercents(ms)) = Len(ms)
         /\ Sheet!Flats(ms) \in Int /\ Sheet!Percents(ms) \in Int
<1> DEFINE n == Len(ms)
<1>1. n \in Nat /\ DOMAIN ms = 1..n /\ \A k \in 1..n : ms[k] \in Modifiers
  OBVIOUS
<1>2. \A k \in 1..n : ms[k].flat \in Int /\ ms[k].percent \in Int
  BY <1>1, NumbersAssumption
<1> HIDE DEF n
<1>3. SheetFlats(ms) \in [1..n -> Int] /\ SheetPercents(ms) \in [1..n -> Int]
  BY <1>1, <1>2 DEF SheetFlats, SheetPercents
<1>4. \A k \in Nat : \A f \in [1..k -> Int] : f \in Seq(Int) /\ Len(f) = k
  OBVIOUS
<1>5. /\ SheetFlats(ms) \in Seq(Int) /\ Len(SheetFlats(ms)) = n
      /\ SheetPercents(ms) \in Seq(Int) /\ Len(SheetPercents(ms)) = n
  BY <1>1, <1>3, <1>4
<1>6. \A seq \in Seq(Int) : Total(seq) \in Int
  <2> SUFFICES ASSUME NEW seq \in Seq(Int) PROVE Total(seq) \in Int
    OBVIOUS
  <2>1. Len(seq) \in 0..Len(seq)
    OBVIOUS
  <2>2. PICK sum \in [0..Len(seq) -> Int] : Totals(seq, sum)
    BY TotalOf
  <2> QED
    BY <2>1, <2>2 DEF Totals
<1> QED
  BY <1>1, <1>2, <1>5, <1>6, SheetLoops DEF n

\* What Factors is by definition: a product that is multiplied and rounded one
\* modifier after the other.
SheetTimes(ms, prod) ==
  /\ prod[0] = Unit /\ prod[Len(ms)] = Sheet!Factors(ms)
  /\ \A n \in 1..Len(ms) : prod[n] = Sheet!Round(prod[n - 1] * (Unit + ms[n].percent), Unit)

LEMMA SheetTimesOf ==
  ASSUME NEW ms \in Seq(Modifiers)
  PROVE  \E prod \in [0..Len(ms) -> Int] : SheetTimes(ms, prod)
<1> DEFINE top == Len(ms)
           D == 0..top
           Grow(f, n) == IF n = 0 THEN Unit ELSE Sheet!Round(f[n - 1] * (Unit + ms[n].percent), Unit)
           E == [f \in [D -> Int] |-> [n \in D |-> Grow(f, n)]]
           Prod == CHOOSE f : f = [n \in D |-> Grow(f, n)]
           measure == [n \in D |-> n]
           start == [n \in D |-> 0]
<1>1. /\ top \in Nat /\ Unit \in Nat \ {0}
      /\ \A n \in 1..top : Unit + ms[n].percent \in Int
  BY SheetColumns, NumbersAssumption
<1> HIDE DEF top
<1>2. \A n \in D : n \in Nat /\ (n # 0 => n - 1 \in D /\ n - 1 < n /\ n \in 1..top)
  BY <1>1
<1>3. ASSUME NEW f \in [D -> Int], NEW n \in D
      PROVE  Grow(f, n) \in Int
  <2>1. CASE n # 0
    <3>1. f[n - 1] \in Int /\ Unit + ms[n].percent \in Int
      BY <1>1, <1>2, <2>1
    <3>2. \A a, b \in Int : a * b \in Int
      OBVIOUS
    <3>3. f[n - 1] * (Unit + ms[n].percent) \in Int
      BY <3>1, <3>2
    <3> QED
      BY <1>1, <2>1, <3>3, SheetRoundsInt
  <2> QED
    BY <1>1, <2>1
<1>4. ASSUME NEW f, NEW g, NEW n \in D, \A j \in D : measure[j] < measure[n] => f[j] = g[j]
      PROVE  Grow(f, n) = Grow(g, n)
  <2>1. n # 0 => f[n - 1] = g[n - 1]
    BY <1>2, <1>4
  <2> QED
    BY <2>1
<1> HIDE DEF Grow
<1>5. Recursive(D, Int, top, measure, E)
  <2>1. measure \in [D -> 0..top] /\ start \in [D -> Int]
    BY <1>1
  <2>2. E \in [[D -> Int] -> [D -> Int]]
    BY <1>3
  <2> HIDE DEF D, measure, start
  <2>3. \A f, g \in [D -> Int], n \in D :
          (\A j \in D : measure[j] < measure[n] => f[j] = g[j]) => E[f][n] = E[g][n]
    BY <1>4
  <2> HIDE DEF E
  <2> QED
    BY <1>1, <2>1, <2>2, <2>3 DEF Recursive
<1>6. PICK f \in [D -> Int] : f = [n \in D |-> Grow(f, n)]
  <2>1. \E f \in [D -> Int] : f = E[f]
    <3> HIDE DEF D, measure, E
    <3> QED
      BY <1>5, Recursion
  <2> HIDE DEF D
  <2> QED
    BY <2>1
<1>7. Prod = [n \in D |-> Grow(Prod, n)]
  <2> HIDE DEF D
  <2> QED
    BY <1>6
<1>8. Sheet!Factors(ms) = Prod[top]
  BY DEF Sheet!Factors, Grow, top
<1> HIDE DEF Prod
<1>9. Prod \in [D -> Int]
  <2>1. SameByMeasure(D, measure, f, Prod)
    <3>1. measure \in [D -> Nat]
      BY <1>1
    <3>2. \A n \in D : (\A j \in D : measure[j] < measure[n] => f[j] = Prod[j]) => f[n] = Prod[n]
      <4> HIDE DEF measure, D
      <4> QED
        BY <1>4, <1>6, <1>7
    <3> HIDE DEF measure, D
    <3> QED
      BY <3>1, <3>2 DEF SameByMeasure
  <2>2. \A n \in D : f[n] = Prod[n]
    <3> HIDE DEF measure, D
    <3> QED
      BY <2>1, SameThroughout
  <2> HIDE DEF D, Grow
  <2> QED
    BY <1>6, <1>7, <2>2
<1>10. \A n \in D : Prod[n] = Grow(Prod, n)
  <2> HIDE DEF D, Grow
  <2> QED
    BY <1>7
<1>11. 0 \in D /\ \A n \in 1..top : n \in D /\ n # 0
  BY <1>1
<1>12. SheetTimes(ms, Prod)
  BY <1>8, <1>10, <1>11 DEF SheetTimes, Grow, top
<1> QED
  BY <1>9, <1>12 DEF top

\* A stack with a buff, beside the stack without it: of neither column is there less,
LEMMA SheetWithout ==
  ASSUME NEW ms \in Seq(Modifiers), NEW i \in 1..Len(ms)
  PROVE  LET rest == Sheet!Without(ms, i)
         IN  /\ rest \in Seq(Modifiers) /\ Drops(ms, i, rest)
             /\ Sheet!Flats(ms) = Sheet!Flats(rest) + ms[i].flat
             /\ Sheet!Percents(ms) = Sheet!Percents(rest) + ms[i].percent
<1> DEFINE n == Len(ms)
           rest == Sheet!Without(ms, i)
<1>1. rest \in Seq(Modifiers) /\ Drops(ms, i, rest)
  BY WithoutOne DEF Sheet!Without
<1> HIDE DEF rest
<1>2. /\ n \in Nat /\ DOMAIN ms = 1..n /\ i \in 1..n /\ i \in Nat /\ n - 1 \in Nat
      /\ Len(rest) = n - 1 /\ DOMAIN rest = 1..(n - 1)
      /\ \A k \in 1..(n - 1) : k \in 1..n /\ k + 1 \in 1..n /\ rest[k] = IF k < i THEN ms[k] ELSE ms[k + 1]
  <2>1. n = Len(rest) + 1 /\ \A k \in 1..Len(rest) : rest[k] = IF k < i THEN ms[k] ELSE ms[k + 1]
    BY <1>1 DEF Drops
  <2>2. Len(rest) \in Nat /\ DOMAIN rest = 1..Len(rest) /\ n \in Nat /\ DOMAIN ms = 1..n /\ i \in 1..n
    BY <1>1
  <2> HIDE DEF n
  <2> QED
    BY <2>1, <2>2
<1>3. /\ Drops(SheetFlats(ms), i, SheetFlats(rest))
      /\ Drops(SheetPercents(ms), i, SheetPercents(rest))
  <2>1. Len(SheetFlats(ms)) = n /\ Len(SheetPercents(ms)) = n
    BY SheetColumns
  <2>2. Len(SheetFlats(rest)) = n - 1 /\ Len(SheetPercents(rest)) = n - 1
    BY <1>1, <1>2, SheetColumns
  <2>3. n = (n - 1) + 1
    BY <1>2
  <2> HIDE DEF n
  <2>4. Drops(SheetFlats(ms), i, SheetFlats(rest))
    BY <1>2, <2>1, <2>2, <2>3 DEF Drops, SheetFlats
  <2>5. Drops(SheetPercents(ms), i, SheetPercents(rest))
    BY <1>2, <2>1, <2>2, <2>3 DEF Drops, SheetPercents
  <2> QED
    BY <2>4, <2>5
<1>4. SheetFlats(ms)[i] = ms[i].flat /\ SheetPercents(ms)[i] = ms[i].percent
  BY <1>2 DEF SheetFlats, SheetPercents
<1>5. /\ SheetFlats(ms) \in Seq(Int) /\ SheetPercents(ms) \in Seq(Int)
      /\ SheetFlats(rest) \in Seq(Int) /\ SheetPercents(rest) \in Seq(Int)
      /\ i \in 1..Len(SheetFlats(ms)) /\ i \in 1..Len(SheetPercents(ms))
  BY <1>1, <1>2, SheetColumns
<1>6. Total(SheetFlats(ms)) = Total(SheetFlats(rest)) + ms[i].flat
  BY <1>3, <1>4, <1>5, TotalWithout
<1>7. Total(SheetPercents(ms)) = Total(SheetPercents(rest)) + ms[i].percent
  BY <1>3, <1>4, <1>5, TotalWithout
<1> QED
  BY <1>1, <1>6, <1>7, SheetLoops DEF rest

\* and the factor, rounded at every modifier, is no smaller either: up to the buff the
\* products are the same, the buff leaves its one no smaller, and so do all behind it.
LEMMA SheetFactorGrows ==
  ASSUME NEW ms \in Seq(Modifiers), NEW i \in 1..Len(ms), ms[i].percent >= 0,
         \A k \in 1..Len(ms) : ms[k].percent >= -Unit
  PROVE  LET rest == Sheet!Without(ms, i)
         IN  /\ Sheet!Factors(rest) \in Nat /\ Sheet!Factors(ms) \in Nat
             /\ Sheet!Factors(rest) <= Sheet!Factors(ms)
<1> DEFINE rest == Sheet!Without(ms, i)
           n == Len(ms)
           By(k) == Unit + ms[k].percent
           R(a, u) == Sheet!Round(a * u, Unit)
<1>1. rest \in Seq(Modifiers) /\ Drops(ms, i, rest)
  BY SheetWithout
<1> HIDE DEF rest
<1>2. n = Len(rest) + 1 /\ Len(rest) \in Nat /\ n \in Nat /\ i \in 1..n
  BY <1>1 DEF Drops
<1>3. \A k \in 1..Len(rest) : rest[k] = IF k < i THEN ms[k] ELSE ms[k + 1]
  BY <1>1 DEF Drops
<1>4. PICK f \in [0..n -> Int] : SheetTimes(ms, f)
  BY SheetTimesOf
<1>5. PICK g \in [0..Len(rest) -> Int] : SheetTimes(rest, g)
  BY <1>1, SheetTimesOf
<1>6. Unit \in Nat \ {0} /\ \A k \in 1..n : By(k) \in Nat /\ (k = i => By(k) >= Unit)
  <2>1. \A k \in 1..n : ms[k].percent \in Int
    BY SheetColumns
  <2>2. Unit \in Nat \ {0}
    BY NumbersAssumption
  <2>3. \A u \in Nat, p \in Int : /\ p >= -u => u + p \in Nat
                                 /\ p >= 0 => u + p >= u
    OBVIOUS
  <2> HIDE DEF n
  <2>4. \A k \in 1..n : ms[k].percent >= -Unit
    BY DEF n
  <2> QED
    BY <2>1, <2>2, <2>3, <2>4 DEF n
<1>7. /\ f[0] = Unit /\ \A k \in 1..n : f[k] = R(f[k - 1], By(k))
      /\ g[0] = Unit
      /\ \A k \in 1..Len(rest) :
           g[k] = R(g[k - 1], IF k < i THEN By(k) ELSE By(k + 1))
  BY <1>3, <1>4, <1>5 DEF SheetTimes
<1> HIDE DEF By, n
<1>8. \A a, b, u \in Nat : a <= b => R(a, u) \in Nat /\ R(b, u) \in Nat /\ R(a, u) <= R(b, u)
  <2> SUFFICES ASSUME NEW a \in Nat, NEW b \in Nat, NEW u \in Nat, a <= b
               PROVE  R(a, u) \in Nat /\ R(b, u) \in Nat /\ R(a, u) <= R(b, u)
    OBVIOUS
  <2>1. a * u \in Int /\ b * u \in Int /\ a * u >= 0 /\ b * u >= 0 /\ a * u <= b * u
    OBVIOUS
  <2> DEFINE au == a * u
             bu == b * u
  <2>2. R(a, u) = Sheet!Round(au, Unit) /\ R(b, u) = Sheet!Round(bu, Unit)
    OBVIOUS
  <2> HIDE DEF au, bu, R
  <2>3. /\ Sheet!Round(au, Unit) \in Int /\ Sheet!Round(bu, Unit) \in Int
        /\ Sheet!Round(au, Unit) >= 0 /\ Sheet!Round(bu, Unit) >= 0
        /\ Sheet!Round(au, Unit) <= Sheet!Round(bu, Unit)
    BY <1>6, <2>1, SheetRounds, SheetRoundsZero, SheetRoundsInt DEF au, bu
  <2> QED
    BY <2>2, <2>3
<1> HIDE DEF R
<1>8a. \A a, u \in Nat : R(a, u) \in Nat
  <2> SUFFICES ASSUME NEW a \in Nat, NEW u \in Nat PROVE R(a, u) \in Nat
    OBVIOUS
  <2>1. a <= a
    OBVIOUS
  <2> QED
    BY <1>8, <2>1
<1>9. \A a \in Nat : R(a, By(i)) \in Nat /\ a <= R(a, By(i))
  <2> SUFFICES ASSUME NEW a \in Nat PROVE R(a, By(i)) \in Nat /\ a <= R(a, By(i))
    OBVIOUS
  <2>1. By(i) \in Nat /\ By(i) >= Unit
    BY <1>2, <1>6
  <2>2. \A u, v \in Nat : u <= v => a * u <= a * v /\ a * u \in Int /\ a * v \in Int
    OBVIOUS
  <2> DEFINE one  == a * Unit
             more == a * By(i)
  <2>3. one <= more /\ one \in Int /\ more \in Int
    BY <1>6, <2>1, <2>2
  <2>4. Sheet!Round(one, Unit) = a /\ R(a, By(i)) = Sheet!Round(more, Unit)
    BY <1>6, SheetRoundsWhole DEF R
  <2>5. R(a, By(i)) \in Nat
    BY <1>8a, <2>1
  <2> HIDE DEF one, more
  <2>6. Sheet!Round(one, Unit) <= Sheet!Round(more, Unit)
    BY <1>6, <2>3, SheetRounds
  <2> QED
    BY <2>4, <2>5, <2>6
<1> DEFINE S == {k \in Nat : k <= Len(rest) =>
                   /\ g[k] \in Nat /\ f[k] \in Nat /\ f[k + 1] \in Nat
                   /\ IF k < i THEN g[k] = f[k] ELSE g[k] <= f[k + 1]
                   /\ k + 1 = i => g[k] <= f[k + 1]}
<1>10. 0 \in S
  <2>1. 1 \in 1..n /\ 1 - 1 = 0 /\ 0 < i /\ 0 + 1 = 1
    BY <1>2
  <2>2. f[1] = R(Unit, By(1)) /\ f[0] = Unit /\ g[0] = Unit
    BY <1>7, <2>1
  <2>3. f[1] \in Nat
    BY <1>6, <1>8a, <2>1, <2>2
  <2>4. 1 = i => Unit <= f[1]
    BY <1>6, <1>9, <2>2
  <2> QED
    BY <1>6, <2>1, <2>2, <2>3, <2>4
<1>11. ASSUME NEW k \in S PROVE k + 1 \in S
  <2> SUFFICES ASSUME k + 1 <= Len(rest)
               PROVE  /\ g[k + 1] \in Nat /\ f[k + 1] \in Nat /\ f[(k + 1) + 1] \in Nat
                      /\ IF k + 1 < i THEN g[k + 1] = f[k + 1] ELSE g[k + 1] <= f[(k + 1) + 1]
                      /\ (k + 1) + 1 = i => g[k + 1] <= f[(k + 1) + 1]
    OBVIOUS
  <2> DEFINE m == k + 1
  <2>1. /\ k \in Nat /\ k <= Len(rest) /\ m \in 1..Len(rest) /\ m \in 1..n /\ m + 1 \in 1..n
        /\ m - 1 = k /\ (m + 1) - 1 = m
    BY <1>2
  <2>2. /\ g[k] \in Nat /\ f[k] \in Nat /\ f[m] \in Nat
        /\ IF k < i THEN g[k] = f[k] ELSE g[k] <= f[m]
        /\ m = i => g[k] <= f[m]
    BY <2>1
  <2>3. /\ f[m] = R(f[k], By(m))
        /\ f[m + 1] = R(f[m], By(m + 1))
        /\ g[m] = R(g[k], IF m < i THEN By(m) ELSE By(m + 1))
    BY <1>7, <2>1
  <2>4. By(m) \in Nat /\ By(m + 1) \in Nat
    BY <1>6, <2>1
  <2> HIDE DEF m, S
  <2>5. f[m + 1] \in Nat
    BY <1>8a, <2>2, <2>3, <2>4
  <2>6. CASE m < i
    <3>1. k < i
      BY <1>2, <2>1, <2>6
    <3>2. g[m] = f[m]
      BY <2>2, <2>3, <2>6, <3>1
    <3>3. m + 1 = i => f[m] <= f[m + 1]
      BY <1>9, <2>2, <2>3
    <3> QED
      BY <2>2, <2>5, <2>6, <3>2, <3>3 DEF m
  <2>7. CASE ~(m < i)
    <3>1. g[k] <= f[m]
      BY <1>2, <2>1, <2>2, <2>7
    <3>2. g[m] = R(g[k], By(m + 1))
      BY <2>3, <2>7
    <3>3. R(g[k], By(m + 1)) \in Nat /\ R(g[k], By(m + 1)) <= R(f[m], By(m + 1))
      <4>1. g[k] \in Nat /\ f[m] \in Nat /\ By(m + 1) \in Nat
        BY <2>2, <2>4
      <4> QED
        BY ONLY <1>8, <3>1, <4>1
    <3>4. g[m] \in Nat /\ g[m] <= f[m + 1]
      BY <2>3, <3>2, <3>3
    <3> QED
      BY <2>2, <2>5, <2>7, <3>4 DEF m
  <2> QED
    BY <2>6, <2>7
<1>12. Len(rest) \in S
  <2> HIDE DEF S
  <2>1. S \in SUBSET Nat
    BY DEF S
  <2>2. Nat \subseteq S
    BY <1>10, <1>11, <2>1, Induction
  <2> QED
    BY <1>2, <2>2
<1>13. g[Len(rest)] \in Nat /\ f[n] \in Nat /\ g[Len(rest)] <= f[n]
  <2>1. Len(rest) < i => Len(rest) + 1 = i
    BY <1>2
  <2> QED
    BY <1>2, <1>12, <2>1
<1>14. g[Len(rest)] = Sheet!Factors(rest) /\ f[n] = Sheet!Factors(ms)
  BY <1>4, <1>5 DEF SheetTimes, n
<1> QED
  BY <1>13, <1>14 DEF rest

LEMMA SheetBuffs ==
  ASSUME NEW ms \in Seq(Modifiers), NEW i \in 1..Len(ms), NEW s \in Sheet!Stats, NEW mode,
         Sheet!Buff(ms[i]), s.min_value >= 0, \A k \in 1..Len(ms) : ms[k].percent >= -Unit
  PROVE  Sheet!Apply(mode, s, ms) >= Sheet!Apply(mode, s, Sheet!Without(ms, i))
<1> DEFINE rest == Sheet!Without(ms, i)
           f == ms[i].flat
           p == ms[i].percent
           b == s.base
           flats == Sheet!Flats(rest)
           some  == Sheet!Percents(rest)
           times == Sheet!Factors(rest)
           more  == Sheet!Factors(ms)
<1>1. rest \in Seq(Modifiers)
  BY SheetWithout
<1>2. /\ f \in Nat /\ p \in Nat /\ flats \in Int /\ some \in Int
      /\ times \in Nat /\ more \in Nat /\ times <= more
  <2>1. f \in Nat /\ p \in Nat
    <3>1. f \in Int /\ p \in Int
      BY SheetColumns
    <3>2. f >= 0 /\ p >= 0
      BY DEF Sheet!Buff
    <3> QED
      BY <3>1, <3>2
  <2>2. times \in Nat /\ more \in Nat /\ times <= more
    BY SheetFactorGrows DEF Sheet!Buff
  <2> HIDE DEF rest
  <2>3. flats \in Int /\ some \in Int
    BY <1>1, SheetColumns
  <2> QED
    BY <2>1, <2>2, <2>3
<1>3. b \in Nat /\ Unit \in Nat \ {0}
  <2>1. s.base \in Int /\ s.min_value \in Int /\ Unit \in Nat \ {0}
    BY NumbersAssumption DEF Sheet!Stats
  <2>2. s.min_value <= s.base
    BY DEF Sheet!Stats
  <2> QED
    BY <2>1, <2>2
<1>4. Sheet!Flats(ms) = flats + f /\ Sheet!Percents(ms) = some + p
  BY SheetWithout
<1> HIDE DEF rest, f, p, b, flats, some, times, more
<1>5. Sheet!Additive(s, ms) >= Sheet!Additive(s, rest)
  <2> DEFINE less == b + flats + Sheet!Round(b * some, Unit)
             much == b + (flats + f) + Sheet!Round(b * (some + p), Unit)
  <2>1. b * some \in Int /\ b * (some + p) \in Int /\ b * some <= b * (some + p)
    <3>1. b * (some + p) = b * some + b * p /\ b * p \in Nat /\ b * some \in Int
      BY <1>2, <1>3
    <3> QED
      BY <3>1
  <2>2. /\ Sheet!Round(b * some, Unit) \in Int /\ Sheet!Round(b * (some + p), Unit) \in Int
        /\ Sheet!Round(b * some, Unit) <= Sheet!Round(b * (some + p), Unit)
    BY <1>3, <2>1, SheetRounds, SheetRoundsInt
  <2>3. less \in Int /\ much \in Int /\ less <= much
    BY <1>2, <1>3, <2>2
  <2>4. Sheet!Additive(s, rest) = Sheet!Clamp(s, less) /\ Sheet!Additive(s, ms) = Sheet!Clamp(s, much)
    BY <1>4 DEF Sheet!Additive, b, flats, some
  <2> HIDE DEF less, much
  <2>5. Sheet!Clamp(s, less) \in Int /\ Sheet!Clamp(s, much) \in Int /\ Sheet!Clamp(s, less) <= Sheet!Clamp(s, much)
    BY <2>3, SheetClamps
  <2> QED
    BY <2>4, <2>5
<1>6. Sheet!Compound(s, ms) >= Sheet!Compound(s, rest)
  <2> DEFINE x == (b + flats) * times
             y == (b + (flats + f)) * more
  <2>1. /\ x \in Int /\ y \in Int
        /\ b + flats >= 0 => x <= y
        /\ ~(b + flats >= 0) => x <= 0
    <3> DEFINE a == b + flats
    <3>1. a \in Int /\ b + (flats + f) = a + f
      BY <1>2, <1>3
    <3> HIDE DEF a
    <3>2. (a + f) * more = a * more + f * more /\ f * more \in Nat /\ a * more \in Int /\ a * times \in Int
      BY <1>2, <3>1
    <3>3. a >= 0 => a * times <= a * more
      BY <1>2, <3>1
    <3>4. ~(a >= 0) => a * times <= 0
      BY <1>2, <3>1
    <3>5. a >= 0 => a * times <= (a + f) * more
      BY <3>2, <3>3
    <3> QED
      BY <3>1, <3>2, <3>4, <3>5 DEF a
  <2> HIDE DEF x, y
  <2> DEFINE less == Sheet!Round(x, Unit)
             much == Sheet!Round(y, Unit)
  <2>2. less \in Int /\ much \in Int
    BY <1>3, <2>1, SheetRoundsInt
  <2>3. Sheet!Compound(s, rest) = Sheet!Clamp(s, less) /\ Sheet!Compound(s, ms) = Sheet!Clamp(s, much)
    BY <1>4 DEF Sheet!Compound, b, flats, times, more, x, y
  <2>4. CASE b + flats >= 0
    <3>1. less <= much
      BY <1>3, <2>1, <2>4, SheetRounds
    <3> HIDE DEF less, much
    <3>2. Sheet!Clamp(s, less) \in Int /\ Sheet!Clamp(s, much) \in Int
          /\ Sheet!Clamp(s, less) <= Sheet!Clamp(s, much)
      BY <2>2, <3>1, SheetClamps
    <3> QED
      BY <2>3, <3>2
  <2>5. CASE ~(b + flats >= 0)
    <3>1. less <= 0
      BY <1>3, <2>1, <2>5, SheetRoundsZero
    <3> HIDE DEF less, much
    <3>2. s.min_value \in Int
      BY NumbersAssumption DEF Sheet!Stats
    <3>3. less <= s.min_value
      BY <2>2, <3>1, <3>2
    <3>4. /\ Sheet!Clamp(s, less) = s.min_value
          /\ Sheet!Clamp(s, much) \in Int /\ s.min_value <= Sheet!Clamp(s, much)
      BY <2>2, <3>3, SheetClamps
    <3> QED
      BY <2>3, <3>2, <3>4
  <2> QED
    BY <2>4, <2>5
<1> QED
  BY <1>5, <1>6 DEF Sheet!Apply, rest

\* One modifier in a stack does what it does by itself.
LEMMA SheetAlone ==
  ASSUME NEW ms \in Seq(Modifiers), Len(ms) = 1, NEW s \in Sheet!Stats
  PROVE  Sheet!Additive(s, ms) = Sheet!Alone(s, ms[1])
<1> DEFINE rest == Sheet!Without(ms, 1)
<1>1. /\ 1 \in 1..Len(ms) /\ DOMAIN ms = 1..1
  OBVIOUS
<1>2. /\ rest \in Seq(Modifiers)
      /\ Sheet!Flats(ms) = Sheet!Flats(rest) + ms[1].flat
      /\ Sheet!Percents(ms) = Sheet!Percents(rest) + ms[1].percent
  BY <1>1, SheetWithout
<1>3. Len(rest) = 0
  <2>1. Drops(ms, 1, rest)
    BY <1>1, WithoutOne DEF Sheet!Without
  <2>2. rest \in Seq(Modifiers)
    BY <1>2
  <2> HIDE DEF rest
  <2>3. Len(ms) = Len(rest) + 1 /\ Len(rest) \in Nat
    BY <2>1, <2>2 DEF Drops
  <2>4. \A k \in Nat : 1 = k + 1 => k = 0
    OBVIOUS
  <2> QED
    BY <2>3, <2>4
<1> HIDE DEF rest
<1>4. Sheet!Flats(rest) = 0 /\ Sheet!Percents(rest) = 0
  <2>1. \A seq \in Seq(Int) : Len(seq) = 0 => Total(seq) = 0
    <3> SUFFICES ASSUME NEW seq \in Seq(Int), Len(seq) = 0 PROVE Total(seq) = 0
      OBVIOUS
    <3>1. PICK sum \in [0..Len(seq) -> Int] : Totals(seq, sum)
      BY TotalOf
    <3> QED
      BY <3>1 DEF Totals
  <2>2. /\ SheetFlats(rest) \in Seq(Int) /\ Len(SheetFlats(rest)) = 0
        /\ SheetPercents(rest) \in Seq(Int) /\ Len(SheetPercents(rest)) = 0
    BY <1>2, <1>3, SheetColumns
  <2> QED
    BY <2>1, <2>2, SheetLoops
<1>5. ms[1].flat \in Int /\ ms[1].percent \in Int
  BY <1>1, SheetColumns
<1>6. Sheet!Flats(ms) = ms[1].flat /\ Sheet!Percents(ms) = ms[1].percent
  BY <1>2, <1>4, <1>5
<1> QED
  BY <1>6 DEF Sheet!Additive, Sheet!Alone

SheetIInv == stat \in Sheet!Stats /\ modifiers \in Seq(Modifiers)

LEMMA SheetFair ==
  ASSUME SheetIInv
  PROVE  Sheet!BuffsNeverCost
<1>1. stat \in Sheet!Stats /\ modifiers \in Seq(Modifiers) /\ DOMAIN modifiers = 1..Len(modifiers)
  BY DEF SheetIInv
<1>2. Len(modifiers) = 1 => Sheet!Additive(stat, modifiers) = Sheet!Alone(stat, modifiers[1])
  BY <1>1, SheetAlone
<1> QED
  BY <1>1, <1>2, SheetBuffs DEF Sheet!BuffsNeverCost

LEMMA SheetKept ==
  ASSUME SheetIInv, [Sheet!Next]_sheet
  PROVE  SheetIInv'
<1>1. ASSUME NEW m \in Modifiers, Sheet!Gather(m)
      PROVE  SheetIInv'
  BY <1>1 DEF Sheet!Gather, SheetIInv, Sheet!Stats
<1>2. ASSUME UNCHANGED sheet
      PROVE  SheetIInv'
  BY <1>2 DEF sheet, SheetIInv, Sheet!Stats
<1> QED
  BY <1>1, <1>2 DEF Sheet!Next

\* Whatever modifiers are gathered, in whatever number, and whatever the unit products
\* are rounded to: a buff never lowers a stat that is never negative, in either mode and
\* wherever it stands, as long as no modifier takes more than all of the stat; and one
\* modifier alone does what it does by itself.
THEOREM BuffsNeverCostAnything == ShelfSpec => []BuffsNeverCost
<1>1. [ShelfNext]_<<core, vars, loader, bus, framer, telnet, evidence, flow, metrics,
                    directory, health, typed, sheet, shelved>> => [Sheet!Next]_sheet
  BY DEF ShelfNext, Turn
<1>2. ShelfInit => SheetIInv
  <2>1. <<>> \in Seq(Modifiers)
    OBVIOUS
  <2> QED
    BY <2>1 DEF ShelfInit, Sheet!Init, SheetIInv
<1>3. SheetIInv /\ [Sheet!Next]_sheet => SheetIInv'
  BY SheetKept
<1>4. SheetIInv => BuffsNeverCost
  BY SheetFair DEF BuffsNeverCost
<1> QED
  BY <1>1, <1>2, <1>3, <1>4, PTL DEF ShelfSpec

--------------------------------------------------------------------------------
\* The sanitizer. The characters there can be, before it and behind it,
CleanerChars == Cleaner!Printed \cup Cleaner!Controls

\* a text of them whose blanks are single spaces,
CleanerFolded(s) ==
  \A k \in 1..Len(s) : s[k] \in Cleaner!Blanks =>
    s[k] = "space" /\ (k > 1 => s[k - 1] \notin Cleaner!Blanks)

\* and one without a blank at either end.
CleanerTrimmed(s) ==
  Len(s) # 0 => s[1] \notin Cleaner!Blanks /\ s[Len(s)] \notin Cleaner!Blanks

LEMMA CleanerStripsControls ==
  ASSUME NEW s \in Seq(CleanerChars)
  PROVE  /\ Cleaner!StripControls(s) \in Seq(Cleaner!Printed)
         /\ s \in Seq(Cleaner!Printed) => Cleaner!StripControls(s) = s
<1> DEFINE t == Cleaner!ReplaceAll(s, "newline", "space")
<1>1. Len(s) \in Nat /\ \A i \in 1..Len(s) : s[i] \in CleanerChars
  OBVIOUS
<1>2. "space" \in CleanerChars /\ "newline" \notin Cleaner!Printed
  BY DEF CleanerChars, Cleaner!Printed, Cleaner!Chars, Cleaner!Controls, Cleaner!Blanks
<1>3. t \in [1..Len(s) -> CleanerChars] /\ \A i \in 1..Len(s) : s[i] # "newline" => t[i] = s[i]
  BY <1>1, <1>2 DEF Cleaner!ReplaceAll
<1> HIDE DEF t
<1>4. t \in Seq(CleanerChars)
  BY <1>1, <1>3
<1>5. Cleaner!StripControls(s) = Keep(t, Cleaner!Printed)
  BY DEF Cleaner!StripControls, Cleaner!Keep, Keep, t
<1>6. Keep(t, Cleaner!Printed) \in Seq(Cleaner!Printed)
  BY <1>4, KeptSequence
<1>7. ASSUME s \in Seq(Cleaner!Printed)
      PROVE  Keep(t, Cleaner!Printed) = s
  <2>1. \A i \in 1..Len(s) : s[i] \in Cleaner!Printed /\ s[i] # "newline"
    BY <1>2, <1>7
  <2>2. \A i \in 1..Len(s) : t[i] = s[i]
    BY <1>3, <2>1
  <2>3. Len(t) = Len(s) /\ DOMAIN t = 1..Len(s)
    BY <1>1, <1>3
  <2>4. t = s
    BY <1>4, <2>2, <2>3, SeqEqual
  <2>5. Keep(t, Cleaner!Printed) = t
    BY <1>4, <2>1, <2>2, <2>3, KeepOfAll
  <2> QED
    BY <2>4, <2>5
<1> QED
  BY <1>5, <1>6, <1>7

\* What CollapseWhitespace makes of the character in a place,
CleanerPiece(s, i) ==
  IF s[i] \notin Cleaner!Blanks THEN <<s[i]>>
  ELSE IF i > 1 /\ s[i - 1] \in Cleaner!Blanks THEN <<>> ELSE <<"space">>

LEMMA CleanerCollapses ==
  ASSUME NEW B \in SUBSET CleanerChars, "space" \in B, NEW s \in Seq(B)
  PROVE  /\ Cleaner!CollapseWhitespace(s) \in Seq(B)
         /\ CleanerFolded(Cleaner!CollapseWhitespace(s))
         /\ CleanerFolded(s) => Cleaner!CollapseWhitespace(s) = s
<1> DEFINE n == Len(s)
           seqs == [i \in DOMAIN s |-> CleanerPiece(s, i)]
<1>1. n \in Nat /\ DOMAIN s = 1..n /\ \A i \in 1..n : s[i] \in B
  OBVIOUS
<1>2. Cleaner!CollapseWhitespace(s) = Flattened(seqs)
  BY DEF Cleaner!CollapseWhitespace, Cleaner!FlattenSeq, Flattened, CleanerPiece
<1> HIDE DEF n
<1>3. /\ seqs \in Seq(Seq(B)) /\ Len(seqs) = n
      /\ \A i \in 1..n : seqs[i] = CleanerPiece(s, i)
  <2>1. \A i \in 1..n : CleanerPiece(s, i) \in Seq(B)
    BY <1>1 DEF CleanerPiece
  <2>2. seqs \in [1..n -> Seq(B)] /\ \A i \in 1..n : seqs[i] = CleanerPiece(s, i)
    BY <1>1, <2>1
  <2> HIDE DEF seqs
  <2>3. seqs \in Seq(Seq(B)) /\ Len(seqs) = n
    BY <1>1, <2>2
  <2> QED
    BY <2>2, <2>3
<1>4. CleanerFolded(s) => Flattened(seqs) = s
  <2> SUFFICES ASSUME CleanerFolded(s) PROVE Flattened(seqs) = s
    OBVIOUS
  <2>1. \A i \in 1..n : CleanerPiece(s, i) = <<s[i]>>
    BY DEF CleanerFolded, CleanerPiece, n
  <2>2. seqs = [i \in DOMAIN s |-> <<s[i]>>]
    BY <1>1, <2>1
  <2> QED
    BY <2>2, FlatOfSingles
<1> HIDE DEF seqs
<1>5. PICK flat \in [0..n -> Seq(B)] : Flattening(seqs, flat)
  BY <1>3, FlatOf
<1>6. /\ flat[0] = <<>> /\ flat[n] = Flattened(seqs)
      /\ \A i \in 1..n : flat[i] = flat[i - 1] \o CleanerPiece(s, i)
  BY <1>3, <1>5 DEF Flattening
<1> DEFINE Last(i) == Len(flat[i]) # 0 => flat[i][Len(flat[i])] \notin Cleaner!Blanks
           S == {i \in Nat : i <= n => /\ CleanerFolded(flat[i])
                                       /\ (i # 0 /\ s[i] \in Cleaner!Blanks) \/ Last(i)}
<1>7. 0 \in S
  BY <1>6 DEF CleanerFolded
<1>8. ASSUME NEW i \in S PROVE i + 1 \in S
  <2> DEFINE u == flat[i]
             x == CleanerPiece(s, i + 1)
             m == Len(u)
  <2> SUFFICES ASSUME i + 1 <= n
               PROVE  /\ CleanerFolded(flat[i + 1])
                      /\ s[i + 1] \in Cleaner!Blanks \/ Last(i + 1)
    OBVIOUS
  <2>1. i \in Nat /\ i + 1 \in 1..n /\ i \in 0..n /\ (i + 1) - 1 = i /\ i <= n /\ i + 1 \in 0..n
    BY <1>1
  <2>2. u \in Seq(B) /\ m \in Nat /\ CleanerFolded(u) /\ ((i # 0 /\ s[i] \in Cleaner!Blanks) \/ Last(i))
    BY <1>5, <2>1
  <2>3. flat[i + 1] = u \o x
    BY <1>6, <2>1
  <2>4. CASE s[i + 1] \in Cleaner!Blanks /\ i + 1 > 1 /\ s[i] \in Cleaner!Blanks
    <3>1. x = <<>>
      BY <2>1, <2>4 DEF CleanerPiece
    <3>2. u \o <<>> = u
      BY <2>2
    <3> QED
      BY <2>2, <2>3, <2>4, <3>1, <3>2
  <2>5. CASE ~(s[i + 1] \in Cleaner!Blanks /\ i + 1 > 1 /\ s[i] \in Cleaner!Blanks)
    <3> DEFINE c == IF s[i + 1] \in Cleaner!Blanks THEN "space" ELSE s[i + 1]
    <3>1. x = <<c>> /\ c \in B
      BY <1>1, <2>1, <2>5 DEF CleanerPiece
    <3>2. /\ c \in Cleaner!Blanks <=> s[i + 1] \in Cleaner!Blanks
          /\ c \in Cleaner!Blanks => c = "space"
      BY DEF Cleaner!Blanks
    <3>3. c \in Cleaner!Blanks => (m # 0 => u[m] \notin Cleaner!Blanks)
      <4>1. i # 0 <=> i + 1 > 1
        BY <2>1
      <4> HIDE DEF c
      <4> QED
        BY <2>2, <2>5, <3>2, <4>1
    <3> HIDE DEF c, m
    <3> DEFINE w == u \o <<c>>
    <3>4. w \in Seq(B) /\ Len(w) = m + 1 /\ w[m + 1] = c /\ \A k \in 1..m : w[k] = u[k]
      <4>1. u \in Seq(B) /\ <<c>> \in Seq(B) /\ Len(<<c>>) = 1 /\ <<c>>[1] = c
        BY <2>2, <3>1
      <4> HIDE DEF u
      <4>2. /\ w \in Seq(B) /\ Len(w) = Len(u) + Len(<<c>>)
            /\ \A k \in 1..Len(u) : w[k] = u[k]
            /\ \A k \in 1..Len(<<c>>) : w[Len(u) + k] = <<c>>[k]
        BY <4>1, Joined
      <4>3. 1 \in 1..Len(<<c>>)
        BY <4>1
      <4> HIDE DEF w
      <4> QED
        BY <4>1, <4>2, <4>3 DEF m
    <3>5. flat[i + 1] = w
      BY <2>3, <3>1
    <3>6. \A k \in 1..m : u[k] \in Cleaner!Blanks => u[k] = "space" /\ (k > 1 => u[k - 1] \notin Cleaner!Blanks)
      BY <2>2 DEF CleanerFolded, m
    <3> HIDE DEF u, w
    <3>7. CleanerFolded(w)
      <4> SUFFICES ASSUME NEW k \in 1..(m + 1), w[k] \in Cleaner!Blanks
                   PROVE  w[k] = "space" /\ (k > 1 => w[k - 1] \notin Cleaner!Blanks)
        BY <3>4 DEF CleanerFolded
      <4>1. CASE k = m + 1
        <5>1. k > 1 => m # 0 /\ m \in 1..m /\ k - 1 = m
          BY <2>2, <4>1 DEF m
        <5> QED
          BY <3>2, <3>3, <3>4, <4>1, <5>1
      <4>2. CASE k # m + 1
        <5>1. k \in 1..m /\ (k > 1 => k - 1 \in 1..m)
          BY <2>2, <4>2 DEF m
        <5> QED
          BY <3>4, <3>6, <5>1
      <4> QED
        BY <4>1, <4>2
    <3> QED
      BY <3>2, <3>4, <3>5, <3>7
  <2> QED
    BY <2>4, <2>5
<1>9. n \in S
  <2> HIDE DEF S
  <2>1. S \in SUBSET Nat
    BY DEF S
  <2>2. Nat \subseteq S
    BY <1>7, <1>8, <2>1, Induction
  <2> QED
    BY <1>1, <2>2
<1>10. n \in 0..n
  BY <1>1
<1> QED
  BY <1>2, <1>4, <1>5, <1>6, <1>9, <1>10

LEMMA CleanerLowers ==
  ASSUME NEW B \in {CleanerChars, Cleaner!Printed}, NEW s \in Seq(B)
  PROVE  /\ Cleaner!Lowercase(s) \in Seq(B \ {"A", "dotted"})
         /\ CleanerFolded(s) => CleanerFolded(Cleaner!Lowercase(s))
         /\ s \in Seq(B \ {"A", "dotted"}) => Cleaner!Lowercase(s) = s
<1> DEFINE n == Len(s)
           C == B \ {"A", "dotted"}
           seqs == [i \in DOMAIN s |-> Cleaner!Lower(s[i])]
<1>1. n \in Nat /\ DOMAIN s = 1..n /\ \A i \in 1..n : s[i] \in B
  OBVIOUS
<1>2. Cleaner!Lowercase(s) = Flattened(seqs)
  BY DEF Cleaner!Lowercase, Cleaner!FlattenSeq, Flattened
<1> HIDE DEF n
<1>3. /\ seqs \in Seq(Seq(C)) /\ Len(seqs) = n
      /\ \A i \in 1..n : seqs[i] = Cleaner!Lower(s[i])
  <2>1. {"a", "i", "dot above"} \subseteq C
    BY DEF CleanerChars, Cleaner!Printed, Cleaner!Chars, Cleaner!Controls, Cleaner!Blanks
  <2>2. \A i \in 1..n : Cleaner!Lower(s[i]) \in Seq(C)
    <3> SUFFICES ASSUME NEW i \in 1..n PROVE Cleaner!Lower(s[i]) \in Seq(C)
      OBVIOUS
    <3> HIDE DEF C
    <3>0. \A a, b \in C : <<a>> \in Seq(C) /\ <<a, b>> \in Seq(C)
      OBVIOUS
    <3>1. CASE s[i] = "A"
      <4>1. Cleaner!Lower(s[i]) = <<"a">>
        BY <3>1 DEF Cleaner!Lower
      <4>2. <<"a">> \in Seq(C)
        BY <2>1, <3>0
      <4> QED
        BY <4>1, <4>2
    <3>2. CASE s[i] = "dotted"
      <4>1. Cleaner!Lower(s[i]) = <<"i", "dot above">>
        BY <3>2 DEF Cleaner!Lower
      <4>2. <<"i", "dot above">> \in Seq(C)
        BY <2>1, <3>0
      <4> QED
        BY <4>1, <4>2
    <3>3. CASE s[i] \notin {"A", "dotted"}
      <4>1. s[i] \in C /\ Cleaner!Lower(s[i]) = <<s[i]>>
        BY <1>1, <3>3 DEF Cleaner!Lower, C
      <4> QED
        BY <4>1
    <3> QED
      BY <3>1, <3>2, <3>3
  <2> HIDE DEF C
  <2>3. seqs \in [1..n -> Seq(C)] /\ \A i \in 1..n : seqs[i] = Cleaner!Lower(s[i])
    BY <1>1, <2>2
  <2> HIDE DEF seqs
  <2>4. seqs \in Seq(Seq(C)) /\ Len(seqs) = n
    BY <1>1, <2>3
  <2> QED
    BY <2>3, <2>4
<1>4. s \in Seq(C) => Flattened(seqs) = s
  <2> SUFFICES ASSUME s \in Seq(C) PROVE Flattened(seqs) = s
    OBVIOUS
  <2>1. \A i \in DOMAIN s : s[i] \in C
    OBVIOUS
  <2>2. \A i \in DOMAIN s : Cleaner!Lower(s[i]) = <<s[i]>>
    BY <2>1 DEF Cleaner!Lower
  <2>3. seqs = [i \in DOMAIN s |-> <<s[i]>>]
    BY <2>2
  <2> QED
    BY <2>3, FlatOfSingles
<1> HIDE DEF seqs, C
<1>5. PICK flat \in [0..n -> Seq(C)] : Flattening(seqs, flat)
  BY <1>3, FlatOf
<1>6. /\ flat[0] = <<>> /\ flat[n] = Flattened(seqs)
      /\ \A i \in 1..n : flat[i] = flat[i - 1] \o Cleaner!Lower(s[i]) /\ Cleaner!Lower(s[i]) \in Seq(C)
  <2>1. \A i \in 1..n : seqs[i] \in Seq(C)
    BY <1>1, <1>3
  <2> QED
    BY <1>3, <1>5, <2>1 DEF Flattening
<1>7. n \in 0..n
  BY <1>1
<1>8. Flattened(seqs) \in Seq(C)
  BY <1>5, <1>6, <1>7
<1>9. ASSUME CleanerFolded(s)
      PROVE  CleanerFolded(flat[n])
  <2> DEFINE Same(i) == Len(flat[i]) # 0 /\ (flat[i][Len(flat[i])] \in Cleaner!Blanks
                                               <=> s[i] \in Cleaner!Blanks)
             S == {i \in Nat : i <= n => CleanerFolded(flat[i]) /\ (i # 0 => Same(i))}
  <2>1. 0 \in S
    BY <1>6 DEF CleanerFolded
  <2>2. ASSUME NEW i \in S PROVE i + 1 \in S
    <3> DEFINE u == flat[i]
               c == s[i + 1]
               x == Cleaner!Lower(c)
               w == u \o x
               m == Len(u)
               p == Len(x)
    <3> SUFFICES ASSUME i + 1 <= n
                 PROVE  CleanerFolded(flat[i + 1]) /\ Same(i + 1)
      OBVIOUS
    <3>1. i \in Nat /\ i + 1 \in 1..n /\ i \in 0..n /\ (i + 1) - 1 = i /\ i <= n
      BY <1>1
    <3>2. u \in Seq(C) /\ m \in Nat /\ CleanerFolded(u) /\ (i # 0 => Same(i)) /\ x \in Seq(C)
      <4>1. flat[i] \in Seq(C) /\ Cleaner!Lower(s[i + 1]) \in Seq(C)
        BY <1>5, <1>6, <3>1
      <4>2. CleanerFolded(flat[i]) /\ (i # 0 => Same(i))
        <5> HIDE DEF Same
        <5> QED
          BY <3>1
      <4> QED
        BY <4>1, <4>2
    <3>3. flat[i + 1] = w
      BY <1>6, <3>1
    <3>4. c \in Cleaner!Blanks => c = "space" /\ (i # 0 => s[i] \notin Cleaner!Blanks)
      BY <1>9, <3>1 DEF CleanerFolded, n
    <3>5. i = 0 => m = 0
      BY <1>6
    <3> HIDE DEF c
    <3>6. /\ p \in Nat \ {0}
          /\ \A j \in 1..p : x[j] \in Cleaner!Blanks => j = 1 /\ x[j] = c
          /\ x[p] \in Cleaner!Blanks <=> c \in Cleaner!Blanks
      <4>1. CASE c = "A"
        <5>1. x = <<"a">>
          BY <4>1 DEF Cleaner!Lower
        <5> HIDE DEF x
        <5>2. p = 1 /\ x[1] = "a"
          BY <5>1
        <5> HIDE DEF p
        <5>3. "a" \notin Cleaner!Blanks /\ "A" \notin Cleaner!Blanks
          BY DEF Cleaner!Blanks
        <5> QED
          BY <4>1, <5>2, <5>3
      <4>2. CASE c = "dotted"
        <5>1. x = <<"i", "dot above">>
          BY <4>2 DEF Cleaner!Lower
        <5> HIDE DEF x
        <5>2. p = 2 /\ x[1] = "i" /\ x[2] = "dot above"
          BY <5>1
        <5> HIDE DEF p
        <5>3. {"dotted", "i", "dot above"} \cap Cleaner!Blanks = {}
          BY DEF Cleaner!Blanks
        <5>4. \A j \in 1..p : x[j] \notin Cleaner!Blanks
          <6>1. \A j \in 1..2 : j = 1 \/ j = 2
            OBVIOUS
          <6> QED
            BY <5>2, <5>3, <6>1
        <5>5. p \in Nat \ {0} /\ x[p] \notin Cleaner!Blanks /\ c \notin Cleaner!Blanks
          <6>1. p \in Nat \ {0}
            <7>1. 2 \in Nat \ {0}
              OBVIOUS
            <7>2. p = 2
              BY <5>2
            <7> QED
              BY ONLY <7>1, <7>2
          <6>2. x[p] = "dot above"
            BY <5>2
          <6> QED
            BY <4>2, <5>3, <6>1, <6>2
        <5> QED
          BY <5>4, <5>5
      <4>3. CASE c \notin {"A", "dotted"}
        <5>1. x = <<c>>
          BY <4>3 DEF Cleaner!Lower
        <5> HIDE DEF x
        <5>2. p = 1 /\ x[1] = c
          BY <5>1
        <5> HIDE DEF p
        <5> QED
          BY <5>2
      <4> QED
        BY <4>1, <4>2, <4>3
    <3>7. /\ Len(w) = m + p
          /\ \A k \in 1..m : w[k] = u[k]
          /\ \A k \in 1..p : w[m + k] = x[k]
      <4> HIDE DEF u, x
      <4> QED
        BY <3>2, Joined
    <3>8. c \in Cleaner!Blanks /\ m # 0 => u[m] \notin Cleaner!Blanks
      BY <3>2, <3>4, <3>5
    <3>9. \A k \in 1..m : u[k] \in Cleaner!Blanks => u[k] = "space" /\ (k > 1 => u[k - 1] \notin Cleaner!Blanks)
      BY <3>2 DEF CleanerFolded
    <3>10. m \in Nat
      BY <3>2
    <3> HIDE DEF u, x, w, m, p
    <3>11. CleanerFolded(w)
      <4> SUFFICES ASSUME NEW k \in 1..(m + p), w[k] \in Cleaner!Blanks
                   PROVE  w[k] = "space" /\ (k > 1 => w[k - 1] \notin Cleaner!Blanks)
        BY <3>7 DEF CleanerFolded
      <4>1. CASE k <= m
        <5>1. k \in 1..m /\ (k > 1 => k - 1 \in 1..m)
          BY <3>6, <3>10, <4>1
        <5> QED
          BY <3>7, <3>9, <5>1
      <4>2. CASE ~(k <= m)
        <5>1. k - m \in 1..p /\ m + (k - m) = k
          BY <3>6, <3>10, <4>2
        <5>2. w[k] = x[k - m]
          BY <3>7, <5>1
        <5>3. k - m = 1 /\ w[k] = c
          BY <3>6, <5>1, <5>2
        <5>4. k = m + 1 /\ (k > 1 => m # 0 /\ m \in 1..m /\ k - 1 = m)
          BY <3>6, <3>10, <5>3
        <5> QED
          BY <3>4, <3>7, <3>8, <5>3, <5>4
      <4> QED
        BY <4>1, <4>2
    <3>12. Same(i + 1)
      <4>1. p \in 1..p /\ m + p # 0
        BY <3>6, <3>10
      <4> QED
        BY <3>3, <3>6, <3>7, <4>1 DEF c
    <3> QED
      BY <3>3, <3>11, <3>12
  <2>3. n \in S
    <3> HIDE DEF S
    <3>1. S \in SUBSET Nat
      BY DEF S
    <3>2. Nat \subseteq S
      BY <2>1, <2>2, <3>1, Induction
    <3> QED
      BY <1>1, <3>2
  <2> QED
    BY <1>7, <2>3
<1> QED
  BY <1>2, <1>4, <1>6, <1>8, <1>9 DEF C

LEMMA CleanerPart ==
  ASSUME NEW B, NEW s \in Seq(B), NEW m \in Nat \ {0}, NEW n \in Nat, n <= Len(s), CleanerFolded(s)
  PROVE  CleanerFolded(SubSeq(s, m, n))
<1> DEFINE u == SubSeq(s, m, n)
<1>1. /\ Len(u) = IF m <= n THEN n + 1 - m ELSE 0
      /\ \A k \in 1..Len(u) : u[k] = s[m + k - 1]
  BY Part
<1>2. Len(s) \in Nat
  OBVIOUS
<1> HIDE DEF u
<1> SUFFICES ASSUME NEW k \in 1..Len(u), u[k] \in Cleaner!Blanks
             PROVE  u[k] = "space" /\ (k > 1 => u[k - 1] \notin Cleaner!Blanks)
  BY DEF CleanerFolded, u
<1>3. /\ m + k - 1 \in 1..Len(s)
      /\ k > 1 => m + k - 1 > 1 /\ k - 1 \in 1..Len(u) /\ m + (k - 1) - 1 = (m + k - 1) - 1
  <2> DEFINE p == Len(u)
             q == Len(s)
  <2>1. p = (IF m <= n THEN n + 1 - m ELSE 0) /\ n <= q /\ k \in 1..p
    BY <1>1
  <2> HIDE DEF p, q
  <2>2. q \in Nat /\ m <= n /\ p = n + 1 - m
    BY <1>2, <2>1 DEF q
  <2>3. k \in Nat \ {0} /\ k <= p /\ p \in Nat
    BY <2>1, <2>2
  <2> HIDE DEF p
  <2>4. m + k - 1 \in 1..q
    BY <2>1, <2>2, <2>3
  <2>5. k > 1 => m + k - 1 > 1 /\ k - 1 \in 1..p /\ m + (k - 1) - 1 = (m + k - 1) - 1
    BY <2>2, <2>3
  <2> QED
    BY <2>4, <2>5 DEF p, q
<1> QED
  BY <1>1, <1>3 DEF CleanerFolded

LEMMA CleanerCaps ==
  ASSUME NEW B, NEW s \in Seq(B), NEW max \in Caps
  PROVE  /\ Cleaner!Cap(s, max) \in Seq(B)
         /\ max # NoCap => Len(Cleaner!Cap(s, max)) <= max
         /\ max = NoCap \/ Len(s) <= max => Cleaner!Cap(s, max) = s
         /\ CleanerFolded(s) => CleanerFolded(Cleaner!Cap(s, max))
<1>1. CASE max = NoCap \/ Len(s) <= max
  BY <1>1 DEF Cleaner!Cap
<1>2. CASE ~(max = NoCap \/ Len(s) <= max)
  <2>1. max \in Nat /\ max <= Len(s) /\ 1 \in Nat \ {0} /\ Len(s) \in Nat
    BY <1>2, CapsAssumption
  <2>2. Cleaner!Cap(s, max) = SubSeq(s, 1, max)
    BY <1>2 DEF Cleaner!Cap
  <2>3. /\ SubSeq(s, 1, max) \in Seq(B)
        /\ Len(SubSeq(s, 1, max)) = IF 1 <= max THEN max + 1 - 1 ELSE 0
    BY <2>1, Part
  <2>4. Len(SubSeq(s, 1, max)) <= max
    BY <2>1, <2>3
  <2>5. CleanerFolded(s) => CleanerFolded(SubSeq(s, 1, max))
    BY <2>1, CleanerPart
  <2> QED
    BY <1>2, <2>2, <2>3, <2>4, <2>5
<1> QED
  BY <1>1, <1>2

LEMMA CleanerStrips ==
  ASSUME NEW B, NEW s \in Seq(B)
  PROVE  /\ Cleaner!Strip(s) \in Seq(B)
         /\ Len(Cleaner!Strip(s)) <= Len(s)
         /\ CleanerTrimmed(Cleaner!Strip(s))
         /\ CleanerTrimmed(s) => Cleaner!Strip(s) = s
         /\ CleanerFolded(s) => CleanerFolded(Cleaner!Strip(s))
<1> DEFINE n == Len(s)
           I == {i \in 1..n : s[i] \notin Cleaner!Blanks}
<1>1. n \in Nat /\ DOMAIN s = 1..n
  OBVIOUS
<1> HIDE DEF n
<1>2. CASE I = {}
  <2>1. Cleaner!ToSet(s) \subseteq Cleaner!Blanks
    BY <1>1, <1>2 DEF Cleaner!ToSet
  <2>2. Cleaner!Strip(s) = <<>>
    BY <2>1 DEF Cleaner!Strip
  <2>3. CleanerTrimmed(s) => s = <<>>
    <3>1. n # 0 => 1 \in 1..n /\ s[1] \in Cleaner!Blanks
      BY <1>1, <1>2
    <3>2. CleanerTrimmed(s) => n = 0
      BY <3>1 DEF CleanerTrimmed, n
    <3>3. Len(s) = 0 => s = <<>>
      OBVIOUS
    <3> QED
      BY <3>2, <3>3 DEF n
  <2>4. CleanerFolded(<<>>) /\ CleanerTrimmed(<<>>) /\ Len(<<>>) <= n /\ <<>> \in Seq(B)
    BY <1>1 DEF CleanerFolded, CleanerTrimmed
  <2> QED
    BY <2>2, <2>3, <2>4 DEF n
<1>3. CASE I # {}
  <2> DEFINE lo == Cleaner!SelectInSeq(s, Cleaner!Solid)
             hi == Cleaner!SelectLastInSeq(s, Cleaner!Solid)
  <2>1. ~(Cleaner!ToSet(s) \subseteq Cleaner!Blanks)
    BY <1>1, <1>3 DEF Cleaner!ToSet
  <2>2. Cleaner!Strip(s) = SubSeq(s, lo, hi)
    BY <2>1 DEF Cleaner!Strip
  <2>3. {i \in 1..n : Cleaner!Solid(s[i])} = I
    BY DEF Cleaner!Solid
  <2>4. lo \in I /\ \A i \in I : lo <= i
    <3>1. lo = CHOOSE x \in I : \A y \in I : x <= y
      BY <1>3, <2>3 DEF Cleaner!SelectInSeq, Cleaner!Min, n
    <3>2. \E x \in I : \A y \in I : x <= y
      <4>1. I \in SUBSET Nat
        BY <1>1
      <4> HIDE DEF I
      <4> QED
        BY <1>3, <4>1, Least
    <3> HIDE DEF lo, I
    <3> QED
      BY <3>1, <3>2
  <2>5. hi \in I /\ \A i \in I : i <= hi
    <3>1. hi = CHOOSE x \in I : \A y \in I : x >= y
      BY <1>3, <2>3 DEF Cleaner!SelectLastInSeq, Cleaner!Max, n
    <3>2. \E x \in I : \A y \in I : x >= y
      <4>1. I \in SUBSET (1..n)
        OBVIOUS
      <4>2. I \subseteq Nat
        BY <1>1
      <4> HIDE DEF I
      <4>3. PICK x \in I : \A y \in I : y <= x
        BY <1>1, <1>3, <4>1, Greatest
      <4>4. \A y \in I : x >= y
        BY <4>2, <4>3
      <4> QED
        BY <4>4
    <3>3. I \subseteq Nat
      BY <1>1
    <3> HIDE DEF hi, I
    <3>4. hi \in I /\ \A y \in I : hi >= y
      BY <3>1, <3>2
    <3> QED
      BY <3>3, <3>4
  <2> HIDE DEF lo, hi
  <2> DEFINE u == SubSeq(s, lo, hi)
  <2>6. /\ lo \in Nat \ {0} /\ hi \in Nat /\ hi <= n /\ lo <= hi
        /\ s[lo] \notin Cleaner!Blanks /\ s[hi] \notin Cleaner!Blanks
    BY <1>1, <2>4, <2>5
  <2>7. /\ u \in Seq(B) /\ Len(u) = hi + 1 - lo
        /\ \A k \in 1..Len(u) : u[k] = s[lo + k - 1]
    <3>1. s \in Seq(B) /\ hi <= Len(s)
      BY <2>6 DEF n
    <3>2. Len(u) = IF lo <= hi THEN hi + 1 - lo ELSE 0
      BY <2>6, <3>1, Part
    <3> QED
      BY <2>6, <3>1, <3>2, Part
  <2>8. CleanerFolded(s) => CleanerFolded(u)
    BY <2>6, CleanerPart DEF n
  <2> HIDE DEF u
  <2>9. Len(u) <= n /\ Len(u) \in Nat \ {0}
    BY <1>1, <2>6, <2>7
  <2>10. CleanerTrimmed(u)
    <3>1. 1 \in 1..Len(u) /\ Len(u) \in 1..Len(u)
      BY <2>9
    <3>2. lo + 1 - 1 = lo /\ lo + Len(u) - 1 = hi
      <4>1. \A a, b \in Nat : a + 1 - 1 = a /\ a + (b + 1 - a) - 1 = b
        OBVIOUS
      <4> QED
        BY <2>6, <2>7, <4>1
    <3> QED
      BY <2>6, <2>7, <3>1, <3>2 DEF CleanerTrimmed
  <2>11. CleanerTrimmed(s) => u = s
    <3> SUFFICES ASSUME CleanerTrimmed(s) PROVE u = s
      OBVIOUS
    <3>1. 1 \in 1..n /\ n \in 1..n /\ s[1] \notin Cleaner!Blanks /\ s[n] \notin Cleaner!Blanks
      BY <1>1, <2>6 DEF CleanerTrimmed, n
    <3>2. lo = 1 /\ hi = n
      <4>1. lo <= 1 /\ n <= hi
        BY <2>4, <2>5, <3>1
      <4> QED
        BY <1>1, <2>6, <4>1
    <3>3. Len(u) = n /\ \A k \in 1..n : u[k] = s[k]
      BY <1>1, <2>7, <3>2
    <3>4. Len(s) = n
      BY DEF n
    <3> QED
      BY <2>7, <3>3, <3>4, SeqEqual
  <2> QED
    BY <2>2, <2>7, <2>8, <2>9, <2>10, <2>11 DEF n, u
<1> QED
  BY <1>2, <1>3

\* What a rule has settled about a text that has been through it.
CleanerSettled(s, rule) ==
  LET B == IF rule.strip_controls THEN Cleaner!Printed ELSE CleanerChars
  IN  /\ s \in Seq(IF rule.lowercase THEN B \ {"A", "dotted"} ELSE B)
      /\ rule.collapse_whitespace => CleanerFolded(s)
      /\ rule.trim => CleanerTrimmed(s)
      /\ rule.max_length # NoCap => Len(s) <= rule.max_length

LEMMA CleanerSettles ==
  ASSUME NEW s \in Seq(CleanerChars), NEW rule \in Cleaner!Rules
  PROVE  CleanerSettled(Cleaner!Sanitize(s, rule), rule)
<1> DEFINE B == IF rule.strip_controls THEN Cleaner!Printed ELSE CleanerChars
           C == IF rule.lowercase THEN B \ {"A", "dotted"} ELSE B
           plain == IF rule.strip_controls THEN Cleaner!StripControls(s) ELSE s
           folded == IF rule.collapse_whitespace THEN Cleaner!CollapseWhitespace(plain) ELSE plain
           lowered == IF rule.lowercase THEN Cleaner!Lowercase(folded) ELSE folded
           cut == Cleaner!Cap(lowered, rule.max_length)
           out == IF rule.trim THEN Cleaner!Strip(cut) ELSE cut
<1>1. Cleaner!Sanitize(s, rule) = out
  BY DEF Cleaner!Sanitize, Cleaner!Shorten
<1>2. /\ B \in {CleanerChars, Cleaner!Printed} /\ B \in SUBSET CleanerChars /\ "space" \in B
      /\ rule.max_length \in Caps
  BY DEF CleanerChars, Cleaner!Printed, Cleaner!Chars, Cleaner!Controls, Cleaner!Blanks, Cleaner!Rules
<1>3. plain \in Seq(B)
  BY CleanerStripsControls
<1> HIDE DEF B, plain
<1>4. folded \in Seq(B) /\ (rule.collapse_whitespace => CleanerFolded(folded))
  BY <1>2, <1>3, CleanerCollapses
<1> HIDE DEF folded
<1>5. lowered \in Seq(C) /\ (rule.collapse_whitespace => CleanerFolded(lowered))
  BY <1>2, <1>4, CleanerLowers
<1> HIDE DEF lowered, C
<1>6. /\ cut \in Seq(C) /\ (rule.collapse_whitespace => CleanerFolded(cut))
      /\ rule.max_length # NoCap => Len(cut) <= rule.max_length
  BY <1>2, <1>5, CleanerCaps
<1> HIDE DEF cut
<1>7. /\ out \in Seq(C) /\ (rule.collapse_whitespace => CleanerFolded(out))
      /\ rule.trim => CleanerTrimmed(out)
  BY <1>6, CleanerStrips
<1>8. rule.max_length # NoCap => Len(out) <= rule.max_length
  <2>1. ASSUME rule.max_length # NoCap PROVE Len(out) <= rule.max_length
    <3>1. rule.max_length \in Nat /\ Len(cut) \in Nat /\ Len(out) \in Nat
      BY <1>2, <1>6, <1>7, <2>1, CapsAssumption
    <3>2. Len(out) <= Len(cut)
      BY <1>6, <3>1, CleanerStrips
    <3>3. Len(cut) <= rule.max_length
      BY <1>6, <2>1
    <3> HIDE DEF out
    <3> QED
      BY <3>1, <3>2, <3>3
  <2> QED
    BY <2>1
<1> HIDE DEF out
<1> QED
  BY <1>1, <1>7, <1>8 DEF CleanerSettled, B, C

\* A text a rule has settled is left alone by it.
LEMMA CleanerLeavesSettled ==
  ASSUME NEW s, NEW rule \in Cleaner!Rules, CleanerSettled(s, rule)
  PROVE  Cleaner!Sanitize(s, rule) = s
<1> DEFINE B == IF rule.strip_controls THEN Cleaner!Printed ELSE CleanerChars
           C == IF rule.lowercase THEN B \ {"A", "dotted"} ELSE B
<1>1. /\ s \in Seq(C)
      /\ rule.collapse_whitespace => CleanerFolded(s)
      /\ rule.trim => CleanerTrimmed(s)
      /\ rule.max_length # NoCap => Len(s) <= rule.max_length
  BY DEF CleanerSettled
<1>2. /\ B \in {CleanerChars, Cleaner!Printed} /\ B \in SUBSET CleanerChars /\ "space" \in B
      /\ rule.max_length \in Caps /\ C \subseteq B
  BY DEF CleanerChars, Cleaner!Printed, Cleaner!Chars, Cleaner!Controls, Cleaner!Blanks, Cleaner!Rules
<1>3. s \in Seq(B) /\ s \in Seq(CleanerChars)
  <2>1. \A i \in 1..Len(s) : s[i] \in B /\ s[i] \in CleanerChars
    <3> HIDE DEF B, C
    <3>1. \A i \in 1..Len(s) : s[i] \in C
      BY <1>1
    <3> QED
      BY <1>2, <3>1
  <2>2. Len(s) \in Nat /\ s \in [1..Len(s) -> C]
    <3> HIDE DEF C
    <3> QED
      BY <1>1
  <2> HIDE DEF B, C
  <2>3. s \in [1..Len(s) -> B] /\ s \in [1..Len(s) -> CleanerChars]
    BY <2>1, <2>2
  <2> QED
    BY <2>2, <2>3
<1>4. (IF rule.strip_controls THEN Cleaner!StripControls(s) ELSE s) = s
  <2>1. rule.strip_controls => s \in Seq(Cleaner!Printed)
    BY <1>3
  <2> QED
    BY <1>3, <2>1, CleanerStripsControls
<1>5. (IF rule.collapse_whitespace THEN Cleaner!CollapseWhitespace(s) ELSE s) = s
  <2> HIDE DEF B, C
  <2> QED
    BY <1>1, <1>2, <1>3, CleanerCollapses
<1>6. (IF rule.lowercase THEN Cleaner!Lowercase(s) ELSE s) = s
  <2>1. rule.lowercase => s \in Seq(B \ {"A", "dotted"})
    BY <1>1
  <2> HIDE DEF B, C
  <2> QED
    BY <1>2, <1>3, <2>1, CleanerLowers
<1> HIDE DEF B, C
<1>7. Cleaner!Cap(s, rule.max_length) = s
  BY <1>1, <1>2, CleanerCaps
<1>8. (IF rule.trim THEN Cleaner!Strip(s) ELSE s) = s
  BY <1>1, CleanerStrips
<1> QED
  BY <1>4, <1>5, <1>6, <1>7, <1>8 DEF Cleaner!Sanitize, Cleaner!Shorten

CleanerIInv == typed \in Seq(Cleaner!Chars)

LEMMA CleanerInit == Cleaner!Init => CleanerIInv
BY DEF Cleaner!Init, CleanerIInv

LEMMA CleanerKept == CleanerIInv /\ [Cleaner!Next]_typed => CleanerIInv'
<1> SUFFICES ASSUME CleanerIInv, [Cleaner!Next]_typed PROVE CleanerIInv'
  OBVIOUS
<1>1. CASE UNCHANGED typed
  BY <1>1 DEF CleanerIInv
<1>2. ASSUME NEW c \in Cleaner!Chars, Cleaner!Type(c)
      PROVE  CleanerIInv'
  <2>1. typed \in Seq(Cleaner!Chars) /\ typed' = Append(typed, c)
    BY <1>2 DEF Cleaner!Type, CleanerIInv
  <2> QED
    BY <2>1 DEF CleanerIInv
<1> QED
  BY <1>1, <1>2 DEF Cleaner!Next

LEMMA CleanerOnce == CleanerIInv => Cleaner!SanitizingTwiceIsOnce
<1> SUFFICES ASSUME CleanerIInv, NEW rule \in Cleaner!Rules
             PROVE  LET out == Cleaner!Sanitize(typed, rule)
                    IN  Cleaner!Sanitize(out, rule) = out
                        /\ (rule.max_length # NoCap => Len(out) <= rule.max_length)
  BY DEF Cleaner!SanitizingTwiceIsOnce
<1>1. typed \in Seq(CleanerChars)
  <2>1. Cleaner!Chars \subseteq CleanerChars
    BY DEF CleanerChars, Cleaner!Printed
  <2>2. Len(typed) \in Nat /\ typed \in [1..Len(typed) -> Cleaner!Chars]
    BY DEF CleanerIInv
  <2>3. typed \in [1..Len(typed) -> CleanerChars]
    BY <2>1, <2>2
  <2> QED
    BY <2>2, <2>3
<1> DEFINE out == Cleaner!Sanitize(typed, rule)
<1>2. CleanerSettled(out, rule)
  BY <1>1, CleanerSettles
<1> HIDE DEF out
<1>3. Cleaner!Sanitize(out, rule) = out
  BY <1>2, CleanerLeavesSettled
<1>4. rule.max_length # NoCap => Len(out) <= rule.max_length
  BY <1>2 DEF CleanerSettled
<1> QED
  BY <1>3, <1>4 DEF out

\* Whatever is typed, sanitizing it twice is sanitizing it once under every rule, and
\* what comes out is within the rule's cap.
THEOREM SanitizedOnce == ShelfSpec => []SanitizingTwiceIsOnce
<1>1. [ShelfNext]_<<core, vars, loader, bus, framer, telnet, evidence, flow, metrics,
                    directory, health, typed, sheet, shelved>> => [Cleaner!Next]_typed
  BY DEF ShelfNext, Turn
<1>2. ShelfInit => CleanerIInv
  BY CleanerInit DEF ShelfInit
<1>3. CleanerIInv /\ [Cleaner!Next]_typed => CleanerIInv'
  BY CleanerKept
<1>4. CleanerIInv => SanitizingTwiceIsOnce
  BY CleanerOnce DEF SanitizingTwiceIsOnce
<1> QED
  BY <1>1, <1>2, <1>3, <1>4, PTL DEF ShelfSpec
================================================================================
