------------------------------ MODULE Compartment ------------------------------
(***************************************************************************)
(* What a bulkhead promises, with no lock and no counter: a compartment    *)
(* that admits an operation while fewer than Limit are inside, and turns   *)
(* one away only at a moment when it is full.                              *)
(***************************************************************************)
EXTENDS Naturals, FiniteSets

CONSTANTS Ops,    \* the operations that ask for a slot
          Limit   \* how many may be inside at once

VARIABLES inside,   \* the operations that hold a slot
          refused   \* the operations whose last request was turned away

vars == <<inside, refused>>

Init == inside = {} /\ refused = {}

Ask(o) ==
  /\ o \in refused
  /\ refused' = refused \ {o}
  /\ UNCHANGED inside

Admit(o) ==
  /\ o \notin inside
  /\ Cardinality(inside) < Limit
  /\ inside' = inside \cup {o}
  /\ UNCHANGED refused

Refuse(o) ==
  /\ o \notin inside
  /\ Cardinality(inside) = Limit
  /\ refused' = refused \cup {o}
  /\ UNCHANGED inside

Release(o) ==
  /\ o \in inside
  /\ inside' = inside \ {o}
  /\ UNCHANGED refused

Next == \E o \in Ops : Ask(o) \/ Admit(o) \/ Refuse(o) \/ Release(o)

Spec == Init /\ [][Next]_vars
================================================================================
