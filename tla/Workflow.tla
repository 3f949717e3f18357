-------------------------------- MODULE Workflow --------------------------------
(***************************************************************************)
(* codeforge_shelf/workflow.py: one instance of a workflow and the actors  *)
(* who move it. What an actor may do is looked up in `roles`, what a move  *)
(* does in the machine's index; both are derived from the same steps. An   *)
(* actor acts on the menu actions() gave it, which others may outdate.     *)
(***************************************************************************)
EXTENDS Integers, Sequences, StateMachine

CONSTANTS Actors,      \* the roles actors come with, ANY_ROLE among them
          Definitions, \* the arguments of build_workflow: [start, steps, terminal]
          Guards,      \* the guard names the engine was given a function for
          MaxMoves     \* bound on the length of the history

ANY_ROLE == "*"

VARIABLES definition, \* what the workflow was built from
          workflow,   \* self.workflow
          state,      \* instance.state
          history,    \* instance.history
          menu,       \* what actions() last told each actor, and in which state
          outcome     \* what the last advance() returned or raised

vars == <<definition, workflow, state, history, menu, outcome>>

--------------------------------------------------------------------------------
StatesOf(d) == {d.start} \cup UNION {{d.steps[i].state, d.steps[i].to} : i \in DOMAIN d.steps}

EdgesOf(d) ==
  [i \in DOMAIN d.steps |-> Transition(d.steps[i].state, d.steps[i].event,
                                       d.steps[i].to, d.steps[i].guard)]

\* build_workflow raises on what statemachine.build refuses, and on a terminal
\* state that is not one of the states.
BuildsWorkflow(d) ==
  /\ Buildable(StatesOf(d), d.start, EdgesOf(d))
  /\ d.terminal \subseteq StatesOf(d)

\* The role map: a later step would take the place of an earlier one.
RolesOf(d) ==
  [k \in {<<d.steps[i].state, d.steps[i].event>> : i \in DOMAIN d.steps} |->
     d.steps[CHOOSE i \in DOMAIN d.steps :
               /\ <<d.steps[i].state, d.steps[i].event>> = k
               /\ \A j \in DOMAIN d.steps :
                    <<d.steps[j].state, d.steps[j].event>> = k => j <= i].roles]

BuildWorkflow(d) ==
  [machine |-> Build(StatesOf(d), d.start, EdgesOf(d)), roles |-> RolesOf(d), terminal |-> d.terminal]

Machine == workflow.machine
Roles   == workflow.roles
Events  == {k[2] : k \in DOMAIN Roles}

--------------------------------------------------------------------------------
Nothing == [kind |-> "none"]
NoMenu  == [seen |-> definition.start, events |-> {}]

Init ==
  /\ definition \in {d \in Definitions : BuildsWorkflow(d)}
  /\ workflow = BuildWorkflow(definition)
  /\ state   = Machine.start
  /\ history = <<>>
  /\ menu    = [a \in Actors |-> NoMenu]
  /\ outcome = Nothing

\* Mutant of Actions: an open step is offered to nobody in particular.
ActionsByNameOnly(from, a) == {e \in Events : <<from, e>> \in DOMAIN Roles /\ a \in Roles[<<from, e>>]}

\* actions(): the events the actor may fire, before guards run.
Actions(from, a) ==
  {e \in Events : /\ <<from, e>> \in DOMAIN Roles
                  /\ ANY_ROLE \in Roles[<<from, e>>] \/ a \in Roles[<<from, e>>]}

Look(a) ==
  /\ menu' = [menu EXCEPT ![a] = [seen |-> state, events |-> Actions(state, a)]]
  /\ outcome' = Nothing
  /\ UNCHANGED <<definition, workflow, state, history>>

\* Mutant of Gated: ANY_ROLE as the actor's name passes for any role.
GatedByEither(a, event) ==
  /\ <<state, event>> \in DOMAIN Roles
  /\ ANY_ROLE \notin Roles[<<state, event>>] /\ a # ANY_ROLE
  /\ a \notin Roles[<<state, event>>]

\* The role gate of advance(): an unknown pair passes it, for the machine to refuse.
Gated(a, event) ==
  /\ <<state, event>> \in DOMAIN Roles
  /\ ANY_ROLE \notin Roles[<<state, event>>]
  /\ a \notin Roles[<<state, event>>]

\* Mutant of Record: the state is stepped before it is written down.
RecordAfter(a, event, dst) ==
  /\ history' = Append(history, [event |-> event, actor |-> a, from |-> dst, to |-> dst])
  /\ state'   = dst

Record(a, event, dst) ==
  /\ history' = Append(history, [event |-> event, actor |-> a, from |-> state, to |-> dst])
  /\ state'   = dst

\* advance(): the gate, the machine with whatever the guards answer this time, and
\* on a legal move the record of it.
Move(a, event, answers) ==
  LET result == IF Gated(a, event) THEN Refusal
                ELSE Advance(Machine, state, event, answers)
  IN  /\ Len(history) < MaxMoves
      /\ outcome' = [kind |-> result.kind, actor |-> a, event |-> event]
      /\ IF result.kind = "fired" THEN Record(a, event, result.dst)
         ELSE UNCHANGED <<state, history>>
      /\ UNCHANGED <<definition, workflow, menu>>

\* An actor fires anything: an event of its menu, stale or not, or one of no menu.
Next ==
  \E a \in Actors :
    \/ Look(a)
    \/ \E event \in Events \cup {"unknown"}, answers \in [Guards -> Answers] : Move(a, event, answers)

Spec == Init /\ [][Next]_vars

--------------------------------------------------------------------------------
\* The step a history entry claims to be.
StepFor(entry) ==
  {i \in DOMAIN definition.steps : /\ definition.steps[i].state = entry.from
                                   /\ definition.steps[i].event = entry.event
                                   /\ definition.steps[i].to    = entry.to}

\* The trail is how the instance got here: it starts at the start, every entry
\* takes up where the one before ended and is a step of the workflow, and the last
\* one ends in the current state.
HistoryIsAPath ==
  LET At(i) == IF i = 0 THEN definition.start ELSE history[i].to
  IN  /\ \A i \in DOMAIN history : history[i].from = At(i - 1) /\ StepFor(history[i]) # {}
      /\ state = At(Len(history))

\* Role gating holds for every move ever made, whatever menu it was made from.
OnlyAuthorised ==
  \A i \in DOMAIN history : \E s \in StepFor(history[i]) :
    definition.steps[s].roles \cap {ANY_ROLE, history[i].actor} # {}

Unguarded(from, event) ==
  \A i \in DOMAIN definition.steps :
    definition.steps[i].state = from /\ definition.steps[i].event = event =>
      definition.steps[i].guard = NoGuard

HonestAbout(a, event, kind) ==
  /\ event \in menu[a].events /\ menu[a].seen = state /\ Unguarded(state, event) => kind = "fired"
  /\ kind = "fired" => event \in Actions(state, a)

\* actions() and advance() agree, though each looks the roles up for itself: an
\* unguarded event an actor was offered fires unless the instance has moved on,
\* and nothing fires that would not have been offered.
MenusAreHonest ==
  [][outcome'.kind # "none" => HonestAbout(outcome'.actor, outcome'.event, outcome'.kind)]_vars

--------------------------------------------------------------------------------
\* What the properties rest on: the shape of a state,
TypeOK ==
  /\ state   \in StatesOf(definition)
  /\ history \in Seq([event : Events, actor : Actors,
                      from : StatesOf(definition), to : StatesOf(definition)])
  /\ menu    \in [Actors -> [seen : StatesOf(definition), events : SUBSET Events]]

\* that the machine and the role map are, to the end, of the one definition, which
\* build_workflow did not refuse,
Wired ==
  /\ definition \in Definitions /\ BuildsWorkflow(definition)
  /\ workflow = BuildWorkflow(definition)

\* and that a menu is no longer than it was when it was asked for.
MenusOutlive == \A a \in Actors : menu[a].events \subseteq Actions(menu[a].seen, a)

IInv == TypeOK /\ Wired /\ MenusOutlive /\ HistoryIsAPath /\ OnlyAuthorised
================================================================================
