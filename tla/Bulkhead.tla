-------------------------------- MODULE Bulkhead --------------------------------
(***************************************************************************)
(* codeforge_shelf/bulkhead.py: a counter guarded by a non-reentrant lock. *)
(* An operation is one `slot()` block; a thread that nests two blocks is   *)
(* two operations, the outer one in its body while the inner one enters.   *)
(* `self._active += 1` and `-= 1` are a load and a store, so that what     *)
(* makes them safe is the lock and nothing else.                           *)
(***************************************************************************)
EXTENDS Integers, FiniteSets

CONSTANTS Ops,    \* the slot() blocks in play
          Limit,  \* self._limit
          Free    \* the value of the lock when no operation holds it

ASSUME OpsAssumption   == IsFiniteSet(Ops) /\ Free \notin Ops
ASSUME LimitAssumption == Limit \in Nat \ {0}

VARIABLES active,  \* self._active
          lock,    \* self._lock: the operation that holds it, or Free
          pc,      \* where each operation is
          loaded   \* the value of _active an operation has read, not yet stored

vars == <<active, lock, pc, loaded>>

Outside  == {"out", "refused"}
Critical == {"testing", "bumping", "unloading", "dropping"}
Holding  == {o \in Ops : pc[o] \in {"body", "exiting", "unloading", "dropping"}}

Init ==
  /\ active = 0
  /\ lock   = Free
  /\ pc     = [o \in Ops |-> "out"]
  /\ loaded = [o \in Ops |-> 0]

Goto(o, place) == pc' = [pc EXCEPT ![o] = place]

\* An operation calls slot() and waits for the lock.
Request(o) ==
  /\ pc[o] \in Outside
  /\ Goto(o, "entering")
  /\ UNCHANGED <<active, lock, loaded>>

\* `with self._lock`, on the way in and on the way out.
Acquire(o) ==
  /\ lock = Free
  /\ lock' = o
  /\ \/ pc[o] = "entering" /\ Goto(o, "testing")
     \/ pc[o] = "exiting"  /\ Goto(o, "unloading")
  /\ UNCHANGED <<active, loaded>>

\* Mutant of Reject: raised past the release of the lock.
RejectKeepsLock(o) ==
  /\ pc[o] = "testing"
  /\ active >= Limit
  /\ Goto(o, "refused")
  /\ UNCHANGED <<active, lock, loaded>>

\* Mutant of Reject: turns away the last free slot.
RejectEarly(o) ==
  /\ pc[o] = "testing"
  /\ active + 1 >= Limit
  /\ Goto(o, "refused")
  /\ lock' = Free
  /\ UNCHANGED <<active, loaded>>

\* BulkheadFull is raised inside the `with`, which releases the lock.
Reject(o) ==
  /\ pc[o] = "testing"
  /\ active >= Limit
  /\ Goto(o, "refused")
  /\ lock' = Free
  /\ UNCHANGED <<active, loaded>>

\* Mutant of LoadUp: `>` for `>=` in the test.
LoadUpOffByOne(o) ==
  /\ pc[o] = "testing"
  /\ active <= Limit
  /\ loaded' = [loaded EXCEPT ![o] = active]
  /\ Goto(o, "bumping")
  /\ UNCHANGED <<active, lock>>

LoadUp(o) ==
  /\ pc[o] = "testing"
  /\ active < Limit
  /\ loaded' = [loaded EXCEPT ![o] = active]
  /\ Goto(o, "bumping")
  /\ UNCHANGED <<active, lock>>

StoreUp(o) ==
  /\ pc[o] = "bumping"
  /\ active' = loaded[o] + 1
  /\ lock' = Free
  /\ Goto(o, "body")
  /\ UNCHANGED loaded

\* Mutant of Finish: no `finally`, work that raises keeps its slot.
FinishLeaking(o) ==
  /\ pc[o] = "body"
  /\ Goto(o, "out") \/ Goto(o, "exiting")
  /\ UNCHANGED <<active, lock, loaded>>

\* The guarded work returns or raises; `finally` runs in both cases.
Finish(o) ==
  /\ pc[o] = "body"
  /\ Goto(o, "exiting")
  /\ UNCHANGED <<active, lock, loaded>>

LoadDown(o) ==
  /\ pc[o] = "unloading"
  /\ loaded' = [loaded EXCEPT ![o] = active]
  /\ Goto(o, "dropping")
  /\ UNCHANGED <<active, lock>>

\* Mutant of StoreDown: the slot is given back once too often.
StoreDownTwice(o) ==
  /\ pc[o] = "dropping"
  /\ active' = loaded[o] - 2
  /\ lock' = Free
  /\ Goto(o, "out")
  /\ UNCHANGED loaded

StoreDown(o) ==
  /\ pc[o] = "dropping"
  /\ active' = loaded[o] - 1
  /\ lock' = Free
  /\ Goto(o, "out")
  /\ UNCHANGED loaded

InLock(o) == Reject(o) \/ LoadUp(o) \/ StoreUp(o) \/ LoadDown(o) \/ StoreDown(o)

Next == \E o \in Ops : Request(o) \/ Acquire(o) \/ InLock(o) \/ Finish(o)

Spec == Init /\ [][Next]_vars

\* A thread inside the lock runs a few bytecodes and cannot block there. Nothing
\* is assumed of the lock's queue, of the callers or of the guarded work.
Fairness == \A o \in Ops : WF_vars(InLock(o))

FairSpec == Spec /\ Fairness

--------------------------------------------------------------------------------
TypeOK ==
  /\ active \in Nat
  /\ lock   \in Ops \cup {Free}
  /\ pc     \in [Ops -> Outside \cup Critical \cup {"entering", "body", "exiting"}]
  /\ loaded \in [Ops -> Nat]

\* "The cap holds under contention": never more than Limit operations run the
\* guarded work at once, although admission is a test, a load and a store.
CapHolds == Cardinality({o \in Ops : pc[o] = "body"}) <= Limit

\* "Capacity is never leaked": whenever nobody is inside the lock, the counter is
\* exactly the number of slots that are held, whatever way each block ended.
CountIsHolders == lock = Free => active = Cardinality(Holding)

\* The lock is never left held, on the rejection path in particular: an operation
\* in the lock always gives it back, however long the guarded work runs.
LockAlwaysComesBack == []<>(lock = Free)

\* Slots are admitted and turned away exactly as the abstract compartment allows:
\* a request is refused only at a moment when Limit slots really are held.
Promise == INSTANCE Compartment
             WITH inside <- Holding, refused <- {o \in Ops : pc[o] = "refused"}
ImplementsCompartment == Promise!Spec

--------------------------------------------------------------------------------
\* The strengthening that makes CapHolds and CountIsHolders inductive: exactly
\* the lock's holder is in a critical step, and what it loaded is still current.
LockOwner == \A o \in Ops : pc[o] \in Critical <=> lock = o

LoadIsCurrent ==
  \A o \in Ops : /\ pc[o] = "bumping"  => loaded[o] = active /\ active < Limit
                 /\ pc[o] = "dropping" => loaded[o] = active

SlotsCounted == active = Cardinality(Holding) /\ active <= Limit

IInv == TypeOK /\ LockOwner /\ LoadIsCurrent /\ SlotsCounted
================================================================================
