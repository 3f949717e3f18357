------------------------------- MODULE SignalBus -------------------------------
(***************************************************************************)
(* codeforge_shelf/signal_bus.py: publish iterates over the live list of   *)
(* handlers of a type, and a handler may itself subscribe, publish, or     *)
(* raise. The calls of publish in progress form a stack.                   *)
(***************************************************************************)
EXTENDS Naturals, Sequences, SequencesExt

CONSTANTS Types, Handlers,
          MaxSubscribers, \* bound: handlers of one type
          MaxDepth        \* bound: calls of publish in progress

VARIABLES subscribers, \* self._subscribers, the empty list for a type without one
          frames,      \* the calls in progress, the innermost last
          ended        \* history: the last call that has ended

vars == <<subscribers, frames, ended>>

Init ==
  /\ subscribers = [t \in Types |-> <<>>]
  /\ frames      = <<>>
  /\ ended       = [how |-> "none"]

Top == Last(frames)

\* Who may call the bus: the program while no publish runs, else a running handler.
Free == frames # <<>> => Top.running

\* Mutant of Subscribe: the new handler goes to the head of the list.
SubscribeFirst(t, h) ==
  /\ Free /\ Len(subscribers[t]) < MaxSubscribers
  /\ subscribers' = [subscribers EXCEPT ![t] = <<h>> \o @]
  /\ UNCHANGED <<frames, ended>>

Subscribe(t, h) ==
  /\ Free /\ Len(subscribers[t]) < MaxSubscribers
  /\ subscribers' = [subscribers EXCEPT ![t] = Append(@, h)]
  /\ UNCHANGED <<frames, ended>>

Publish(t) ==
  /\ Free /\ Len(frames) < MaxDepth
  /\ frames' = Append(frames, [type |-> t, had |-> subscribers[t], heard |-> <<>>, running |-> FALSE])
  /\ UNCHANGED <<subscribers, ended>>

\* The iterator is an index into the list as it now is.
Deliver ==
  /\ ~Free /\ Len(Top.heard) < Len(subscribers[Top.type])
  /\ LET next == subscribers[Top.type][Len(Top.heard) + 1]
     IN  frames' = [frames EXCEPT ![Len(frames)].heard   = Append(@, next),
                                  ![Len(frames)].running = TRUE]
  /\ UNCHANGED <<subscribers, ended>>

HandlerReturns ==
  /\ frames # <<>> /\ Top.running
  /\ frames' = [frames EXCEPT ![Len(frames)].running = FALSE]
  /\ UNCHANGED <<subscribers, ended>>

\* The call is over; what published from within a handler goes on in it.
Leave(how) ==
  /\ frames' = Front(frames)
  /\ ended'  = [had |-> Top.had, heard |-> Top.heard, left |-> subscribers[Top.type], how |-> how]
  /\ UNCHANGED subscribers

\* A raise leaves publish too; the handler around it may catch it or raise in turn.
HandlerRaises == frames # <<>> /\ Top.running /\ Leave("raised")

Exhausted == ~Free /\ Len(Top.heard) = Len(subscribers[Top.type]) /\ Leave("returned")

Next ==
  \/ \E t \in Types : Publish(t) \/ \E h \in Handlers : Subscribe(t, h)
  \/ Deliver \/ HandlerReturns \/ HandlerRaises \/ Exhausted

Spec == Init /\ [][Next]_vars

--------------------------------------------------------------------------------
\* "Deliver to every handler subscribed to its exact type, in subscription order":
\* with handlers that subscribe and publish as they run, nobody is skipped or
\* called twice. A call that returns has reached all it found and all who joined
\* meanwhile; one that a handler's exception ended stopped at that handler.
EveryoneHears ==
  /\ \A i \in DOMAIN frames : /\ IsPrefix(frames[i].heard, subscribers[frames[i].type])
                              /\ IsPrefix(frames[i].had, subscribers[frames[i].type])
  /\ ended.how # "none"    => IsPrefix(ended.heard, ended.left)
  /\ ended.how = "returned" => IsPrefix(ended.had, ended.heard) /\ ended.heard = ended.left

--------------------------------------------------------------------------------
\* What it rests on: the shape of a state. The property says the rest by itself.
Frames == [type : Types, had : Seq(Handlers), heard : Seq(Handlers), running : BOOLEAN]

TypeOK ==
  /\ subscribers \in [Types -> Seq(Handlers)]
  /\ frames \in Seq(Frames)

IInv == TypeOK /\ EveryoneHears
================================================================================
