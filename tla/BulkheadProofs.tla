----------------------------- MODULE BulkheadProofs -----------------------------
(***************************************************************************)
(* For every finite set of operations and every limit: the cap holds, no   *)
(* slot leaks, and the bulkhead is the abstract compartment. Everything    *)
(* follows from IInv: only the lock's holder is in a critical step, so the *)
(* value it loaded is still the counter's when it stores.                  *)
(***************************************************************************)
EXTENDS Bulkhead, FiniteSetTheorems, TLAPS

\* Who holds a slot after o has gone somewhere: o joins, leaves, or nothing
\* changes, according to where it was and where it went.
LEMMA HoldingAfter ==
  ASSUME TypeOK, NEW o \in Ops, NEW place, Goto(o, place)
  PROVE  LET in == place \in {"body", "exiting", "unloading", "dropping"}
         IN  Holding' = IF in THEN Holding \cup {o} ELSE Holding \ {o}
BY DEF TypeOK, Goto, Holding

LEMMA HoldingFinite == /\ IsFiniteSet(Holding)
                       /\ Cardinality(Holding) \in Nat
BY OpsAssumption, FS_Subset, FS_CardinalityType DEF Holding

LEMMA HoldingGrows ==
  ASSUME NEW o, o \notin Holding
  PROVE  Cardinality(Holding \cup {o}) = Cardinality(Holding) + 1
BY HoldingFinite, FS_AddElement

LEMMA HoldingShrinks ==
  ASSUME NEW o, o \in Holding
  PROVE  Cardinality(Holding \ {o}) = Cardinality(Holding) - 1
BY HoldingFinite, FS_RemoveElement

LEMMA InitEstablishes == Init => IInv
<1> SUFFICES ASSUME Init PROVE IInv
  OBVIOUS
<1>1. Holding = {}
  BY DEF Init, Holding
<1>2. Cardinality(Holding) = 0
  BY <1>1, FS_EmptySet
<1> QED
  BY <1>2, OpsAssumption, LimitAssumption
  DEF Init, IInv, TypeOK, LockOwner, LoadIsCurrent, SlotsCounted, Outside, Critical

LEMMA NextPreserves == IInv /\ [Next]_vars => IInv'
<1> SUFFICES ASSUME IInv, [Next]_vars PROVE IInv'
  OBVIOUS
<1> USE OpsAssumption, LimitAssumption
<1>tp. TypeOK
  BY DEF IInv
<1>1. ASSUME NEW o \in Ops, Request(o) PROVE IInv'
  <2>1. Holding' = Holding
    BY <1>1, <1>tp, HoldingAfter DEF Request, Outside, Holding
  <2>2. SlotsCounted'
    BY <1>1, <2>1 DEF Request, IInv, SlotsCounted
  <2> QED
    BY <1>1, <2>2 DEF IInv, TypeOK, LockOwner, LoadIsCurrent, Request, Goto, Outside, Critical
<1>2. ASSUME NEW o \in Ops, Acquire(o) PROVE IInv'
  <2>1. Holding' = Holding
    BY <1>2, <1>tp DEF Acquire, Goto, Holding, TypeOK
  <2>2. SlotsCounted'
    BY <1>2, <2>1 DEF Acquire, IInv, SlotsCounted
  <2> QED
    BY <1>2, <2>2 DEF IInv, TypeOK, LockOwner, LoadIsCurrent, Acquire, Goto, Outside, Critical
<1>3. ASSUME NEW o \in Ops, Reject(o) PROVE IInv'
  <2>1. Holding' = Holding
    BY <1>3, <1>tp DEF Reject, Goto, Holding, TypeOK
  <2>2. SlotsCounted'
    BY <1>3, <2>1 DEF Reject, IInv, SlotsCounted
  <2> QED
    BY <1>3, <2>2 DEF IInv, TypeOK, LockOwner, LoadIsCurrent, Reject, Goto, Outside, Critical
<1>4. ASSUME NEW o \in Ops, LoadUp(o) PROVE IInv'
  <2>1. Holding' = Holding
    BY <1>4, <1>tp DEF LoadUp, Goto, Holding, TypeOK
  <2>2. SlotsCounted'
    BY <1>4, <2>1 DEF LoadUp, IInv, SlotsCounted
  <2> QED
    BY <1>4, <2>2 DEF IInv, TypeOK, LockOwner, LoadIsCurrent, LoadUp, Goto, Outside, Critical
<1>5. ASSUME NEW o \in Ops, StoreUp(o) PROVE IInv'
  <2>1. Holding' = Holding \cup {o} /\ o \notin Holding
    BY <1>5, <1>tp DEF StoreUp, Goto, Holding, TypeOK
  <2>2. Cardinality(Holding') = Cardinality(Holding) + 1
    BY <2>1, HoldingGrows
  <2>3. active' = active + 1 /\ active < Limit
    BY <1>5 DEF StoreUp, IInv, LoadIsCurrent
  <2>4. SlotsCounted'
    BY <2>2, <2>3, <1>tp DEF IInv, SlotsCounted, TypeOK
  <2> QED
    BY <1>5, <2>3, <2>4 DEF IInv, TypeOK, LockOwner, LoadIsCurrent, StoreUp, Goto, Outside, Critical
<1>6. ASSUME NEW o \in Ops, Finish(o) PROVE IInv'
  <2>1. Holding' = Holding
    BY <1>6, <1>tp DEF Finish, Goto, Holding, TypeOK
  <2>2. SlotsCounted'
    BY <1>6, <2>1 DEF Finish, IInv, SlotsCounted
  <2> QED
    BY <1>6, <2>2 DEF IInv, TypeOK, LockOwner, LoadIsCurrent, Finish, Goto, Outside, Critical
<1>7. ASSUME NEW o \in Ops, LoadDown(o) PROVE IInv'
  <2>1. Holding' = Holding
    BY <1>7, <1>tp DEF LoadDown, Goto, Holding, TypeOK
  <2>2. SlotsCounted'
    BY <1>7, <2>1 DEF LoadDown, IInv, SlotsCounted
  <2> QED
    BY <1>7, <2>2 DEF IInv, TypeOK, LockOwner, LoadIsCurrent, LoadDown, Goto, Outside, Critical
<1>8. ASSUME NEW o \in Ops, StoreDown(o) PROVE IInv'
  <2>1. Holding' = Holding \ {o} /\ o \in Holding
    BY <1>8, <1>tp DEF StoreDown, Goto, Holding, TypeOK
  <2>2. Cardinality(Holding') = Cardinality(Holding) - 1
    BY <2>1, HoldingShrinks
  <2>3. active' = active - 1
    BY <1>8 DEF StoreDown, IInv, LoadIsCurrent
  <2>4. SlotsCounted' /\ active' \in Nat
    <3>1. Cardinality(Holding') \in Nat
      BY HoldingFinite, <2>1, FS_Subset, FS_CardinalityType
    <3> QED
      BY <3>1, <2>2, <2>3, <1>tp DEF IInv, SlotsCounted, TypeOK
  <2> QED
    BY <1>8, <2>4 DEF IInv, TypeOK, LockOwner, LoadIsCurrent, StoreDown, Goto, Outside, Critical
<1>9. CASE UNCHANGED vars
  <2>1. Holding' = Holding
    BY <1>9 DEF vars, Holding
  <2> QED
    BY <1>9, <2>1 DEF vars, IInv, TypeOK, LockOwner, LoadIsCurrent, SlotsCounted
<1> QED
  BY <1>1, <1>2, <1>3, <1>4, <1>5, <1>6, <1>7, <1>8, <1>9 DEF Next, InLock

LEMMA Inductive == Spec => []IInv
<1> QED
  BY InitEstablishes, NextPreserves, PTL DEF Spec

--------------------------------------------------------------------------------
\* The counter, the lock and every operation keep their type; in particular the
\* counter never goes below zero, whichever block ends first.
THEOREM TypeCorrect == Spec => []TypeOK
<1>1. IInv => TypeOK
  BY DEF IInv
<1> QED
  BY <1>1, Inductive, PTL

\* The cap holds under contention, for any number of threads and any limit.
THEOREM CapHoldsAlways == Spec => []CapHolds
<1>1. ASSUME IInv PROVE CapHolds
  <2> DEFINE Running == {o \in Ops : pc[o] = "body"}
  <2>1. Running \subseteq Holding
    BY DEF Holding
  <2>2. Cardinality(Running) <= Cardinality(Holding) /\ Cardinality(Running) \in Nat
    BY <2>1, HoldingFinite, FS_Subset, FS_CardinalityType
  <2>3. Cardinality(Holding) <= Limit /\ Cardinality(Holding) \in Nat
    BY <1>1, HoldingFinite DEF IInv, SlotsCounted
  <2> QED
    BY <2>2, <2>3, LimitAssumption DEF CapHolds
<1> QED
  BY <1>1, Inductive, PTL

\* Capacity is never leaked: whenever the lock is free the counter is the number
\* of slots held.
THEOREM CapacityNeverLeaks == Spec => []CountIsHolders
<1>1. IInv => CountIsHolders
  BY DEF IInv, SlotsCounted, CountIsHolders
<1> QED
  BY <1>1, Inductive, PTL

\* The compartment counts as the bulkhead does.
LEMMA SameCount == Promise!Cardinality(Holding) = Cardinality(Holding)
BY DEF Promise!Cardinality, Cardinality

\* Every step of the bulkhead is one of the compartment's or leaves it alone.
LEMMA StepSimulates == IInv /\ [Next]_vars => [Promise!Next]_(Promise!vars)
<1> SUFFICES ASSUME IInv, [Next]_vars PROVE [Promise!Next]_(Promise!vars)
  OBVIOUS
<1> USE OpsAssumption, LimitAssumption
<1> DEFINE Refused == {o \in Ops : pc[o] = "refused"}
<1>tp. TypeOK
  BY DEF IInv
<1>1. ASSUME NEW o \in Ops, Request(o) PROVE [Promise!Next]_(Promise!vars)
  <2>1. Holding' = Holding
    BY <1>1, <1>tp DEF Request, Goto, Outside, Holding, TypeOK
  <2>2. Refused' = Refused \ {o}
    BY <1>1, <1>tp DEF Request, Goto, TypeOK
  <2>3. CASE o \in Refused
    <3>1. Promise!Ask(o)
      BY <2>1, <2>2, <2>3 DEF Promise!Ask
    <3> QED
      BY <3>1 DEF Promise!Next
  <2>4. CASE o \notin Refused
    <3>1. Refused' = Refused
      BY <2>2, <2>4
    <3> QED
      BY <2>1, <3>1 DEF Promise!vars
  <2> QED
    BY <2>3, <2>4
<1>2. ASSUME NEW o \in Ops, Reject(o) PROVE [Promise!Next]_(Promise!vars)
  <2>1. Holding' = Holding /\ o \notin Holding
    BY <1>2, <1>tp DEF Reject, Goto, Holding, TypeOK
  <2>2. Refused' = Refused \cup {o}
    BY <1>2, <1>tp DEF Reject, Goto, TypeOK
  <2>3. Cardinality(Holding) = Limit
    BY <1>2 DEF Reject, IInv, TypeOK, SlotsCounted
  <2>4. Promise!Refuse(o)
    BY <2>1, <2>2, <2>3, SameCount DEF Promise!Refuse
  <2> QED
    BY <2>4 DEF Promise!Next
<1>3. ASSUME NEW o \in Ops, StoreUp(o) PROVE [Promise!Next]_(Promise!vars)
  <2>1. Holding' = Holding \cup {o} /\ o \notin Holding
    BY <1>3, <1>tp DEF StoreUp, Goto, Holding, TypeOK
  <2>2. Refused' = Refused
    BY <1>3, <1>tp DEF StoreUp, Goto, TypeOK
  <2>3. Cardinality(Holding) < Limit
    BY <1>3 DEF StoreUp, IInv, LoadIsCurrent, SlotsCounted
  <2>4. Promise!Admit(o)
    BY <2>1, <2>2, <2>3, SameCount DEF Promise!Admit
  <2> QED
    BY <2>4 DEF Promise!Next
<1>4. ASSUME NEW o \in Ops, StoreDown(o) PROVE [Promise!Next]_(Promise!vars)
  <2>1. Holding' = Holding \ {o} /\ o \in Holding
    BY <1>4, <1>tp DEF StoreDown, Goto, Holding, TypeOK
  <2>2. Refused' = Refused
    BY <1>4, <1>tp DEF StoreDown, Goto, TypeOK
  <2>3. Promise!Release(o)
    BY <2>1, <2>2 DEF Promise!Release
  <2> QED
    BY <2>3 DEF Promise!Next
<1>5. ASSUME NEW o \in Ops, Acquire(o) \/ LoadUp(o) \/ Finish(o) \/ LoadDown(o)
      PROVE  [Promise!Next]_(Promise!vars)
  <2>1. Holding' = Holding
    BY <1>5, <1>tp DEF Acquire, LoadUp, Finish, LoadDown, Goto, Holding, TypeOK
  <2>2. Refused' = Refused
    BY <1>5, <1>tp DEF Acquire, LoadUp, Finish, LoadDown, Goto, TypeOK
  <2> QED
    BY <2>1, <2>2 DEF Promise!vars
<1>6. CASE UNCHANGED vars
  BY <1>6 DEF vars, Promise!vars, Holding
<1> QED
  BY <1>1, <1>2, <1>3, <1>4, <1>5, <1>6 DEF Next, InLock

\* The bulkhead implements the compartment: it refuses only when Limit slots are
\* really held, and admits only when fewer are.
THEOREM RefinesCompartment == Spec => ImplementsCompartment
<1>1. Init => Promise!Init
  BY DEF Init, Promise!Init, Holding
<1> QED
  BY <1>1, Inductive, StepSimulates, PTL DEF Spec, Promise!Spec, ImplementsCompartment
================================================================================
