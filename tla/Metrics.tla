-------------------------------- MODULE Metrics --------------------------------
(***************************************************************************)
(* codeforge_shelf/observability.py: requests are counted, on the event    *)
(* loop, in one table by two steps that a lock holds together; a request   *)
(* of /metrics copies that table by two steps in a thread of its own. The  *)
(* table promises to be thread-safe, so here any two requests may overlap. *)
(* A series without requests and one that is not there read the same.      *)
(***************************************************************************)
EXTENDS Naturals, FiniteSets

CONSTANTS Requests,
          Routes,  \* the series (method, route, status) of requests that do other work
          Scrapes, \* the series of the requests of /metrics
          Free,    \* nobody, of the lock
          Seconds  \* how long each request takes

VARIABLES count, dur_sum, \* self._count, self._dur_sum
          lock,           \* who holds self._lock
          at,             \* where each request is in the middleware, and its series
          shown,          \* what each request of /metrics has copied
          observed        \* history: the requests counted since the last reset

vars == <<count, dur_sum, lock, at, shown, observed>>

Series == Routes \cup {Scrapes}
Zero   == [s \in Series |-> 0]

Init ==
  /\ count    = Zero
  /\ dur_sum  = Zero
  /\ lock     = Free
  /\ at       = [r \in Requests |-> [step |-> "handled"]]
  /\ shown    = [r \in Requests |-> [step |-> "none"]]
  /\ observed = {}

Goto(r, step) == at' = [at EXCEPT ![r].step = step]

\* call_next comes back with a response, asks for the metrics, or raises: what it
\* raises passes the middleware by, and the request leaves no trace.
Answer(r, s) ==
  /\ at[r].step = "handled"
  /\ at' = [at EXCEPT ![r] = [step |-> "observe", series |-> s]]
  /\ UNCHANGED <<count, dur_sum, lock, shown, observed>>

Ask(r) ==
  /\ at[r].step = "handled"
  /\ at' = [at EXCEPT ![r] = [step |-> "render", series |-> Scrapes]]
  /\ UNCHANGED <<count, dur_sum, lock, shown, observed>>

Raise(r) ==
  /\ at[r].step = "handled" /\ Goto(r, "raised")
  /\ UNCHANGED <<count, dur_sum, lock, shown, observed>>

Lock(r) ==
  /\ lock = Free /\ lock' = r
  /\ \/ at[r].step = "observe" /\ Goto(r, "count") /\ UNCHANGED shown
     \/ at[r].step = "render"  /\ Goto(r, "copy")
        /\ shown' = [shown EXCEPT ![r] = [step |-> "begun", of |-> observed]]
  /\ UNCHANGED <<count, dur_sum, observed>>

CountOne(r) ==
  /\ at[r].step = "count" /\ Goto(r, "add")
  /\ count' = [count EXCEPT ![at[r].series] = @ + 1]
  /\ UNCHANGED <<dur_sum, lock, shown, observed>>

AddSeconds(r) ==
  /\ at[r].step = "add" /\ Goto(r, "done")
  /\ dur_sum'  = [dur_sum EXCEPT ![at[r].series] = @ + Seconds[r]]
  /\ lock'     = Free
  /\ observed' = observed \cup {r}
  /\ UNCHANGED <<count, shown>>

\* Mutant of CopyCounts: the two copies are made under two locks.
CopyCountsAlone(r) ==
  /\ at[r].step = "copy" /\ Goto(r, "copy sums")
  /\ shown' = [shown EXCEPT ![r] = [step |-> "begun", of |-> @.of, counts |-> count]]
  /\ lock'  = Free
  /\ UNCHANGED <<count, dur_sum, observed>>

CopyCounts(r) ==
  /\ at[r].step = "copy" /\ Goto(r, "copy sums")
  /\ shown' = [shown EXCEPT ![r] = [step |-> "begun", of |-> @.of, counts |-> count]]
  /\ UNCHANGED <<count, dur_sum, lock, observed>>

CopySums(r) ==
  /\ at[r].step = "copy sums" /\ Goto(r, "observe")
  /\ shown' = [shown EXCEPT ![r] =
                [step |-> "shown", of |-> @.of, counts |-> @.counts, sums |-> dur_sum]]
  /\ lock'  = Free
  /\ UNCHANGED <<count, dur_sum, observed>>

Reset ==
  /\ lock = Free
  /\ count' = Zero /\ dur_sum' = Zero /\ observed' = {}
  /\ UNCHANGED <<lock, at, shown>>

Next ==
  \/ \E r \in Requests : \/ \E s \in Routes : Answer(r, s)
                         \/ Ask(r) \/ Raise(r) \/ Lock(r)
                         \/ CountOne(r) \/ AddSeconds(r) \/ CopyCounts(r) \/ CopySums(r)
  \/ Reset

Spec == Init /\ [][Next]_vars

--------------------------------------------------------------------------------
Of(requests, s) == {r \in requests : at[r].series = s}
Ticks(requests)     == UNION {{r} \X (1..Seconds[r]) : r \in requests}
SecondsOf(requests) == Cardinality(Ticks(requests))

\* "Counts and latency by method, route and status": a table shows whole requests,
\* in each series as many as its seconds are the seconds of. What a scrape is shown
\* is every request observed when its turn came and no part of another, however
\* many end meanwhile; and the table itself loses none.
Shows(counts, sums, requests) ==
  \A s \in Series : /\ counts[s] = Cardinality(Of(requests, s))
                    /\ sums[s]   = SecondsOf(Of(requests, s))
ScrapesAreWhole ==
  /\ \A r \in Requests :
       shown[r].step = "shown" => Shows(shown[r].counts, shown[r].sums, shown[r].of)
  /\ lock = Free => Shows(count, dur_sum, observed)

--------------------------------------------------------------------------------
\* What it rests on: the shape of a state,
Holding == {"count", "add", "copy", "copy sums"}

TypeOK ==
  /\ count \in [Series -> Nat] /\ dur_sum \in [Series -> Nat]
  /\ lock \in Requests \cup {Free}
  /\ DOMAIN at = Requests /\ DOMAIN shown = Requests
  /\ \A r \in Requests :
       \/ at[r] = [step |-> "handled"] \/ at[r].step = "raised"
       \/ /\ at[r].step \in Holding \cup {"observe", "render", "done"} /\ at[r].series \in Series
          /\ at[r] = [step |-> at[r].step, series |-> at[r].series]
  /\ observed \subseteq Requests

\* that who counts or copies has the lock,
Exclusive == \A r \in Requests : lock = r <=> at[r].step \in Holding

\* that the table has every request observed, and the first half of one that has the
\* lock and is about to be;
Counted   == observed \cup {r \in Requests : at[r].step = "add"}
Tabulated ==
  /\ \A s \in Series : /\ count[s]   = Cardinality(Of(Counted, s))
                       /\ dur_sum[s] = SecondsOf(Of(observed, s))
                       /\ IsFiniteSet(Ticks(Of(observed, s)))
  /\ \A r \in observed : at[r].step = "done"

\* and that a copy is of what there was when its turn came.
Copied ==
  \A r \in Requests :
    /\ at[r].step \in {"copy", "copy sums"} => shown[r].of = observed
    /\ at[r].step = "copy sums" => shown[r].counts = count
    /\ shown[r].step = "shown" =>
         /\ shown[r].of \subseteq Requests /\ \A q \in shown[r].of : at[q].step = "done"
         /\ Shows(shown[r].counts, shown[r].sums, shown[r].of)

IInv == TypeOK /\ Exclusive /\ Tabulated /\ Copied
================================================================================
