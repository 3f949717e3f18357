-------------------------------- MODULE MCGuards --------------------------------
\* Four slot() blocks over a compartment of two: two can be inside, one refused and
\* one waiting for the lock at the same time. Three calls of the breaker in flight,
\* one of which may hang; two failures trip it. And a burst of five at two tokens a
\* tick: the capacity is not a multiple of the rate, so the cap cuts refills short,
\* and deficits round up to a tick.
EXTENDS Guards
CONSTANTS o1, o2, o3, o4, c1, c2, c3
MCOps     == {o1, o2, o3, o4}
MCCallers == {c1, c2, c3}
MCHung    == {c3}
MCCosts   == {0, 1, 3, 5}
MCSteps   == {1, 2}

\* Where a guard starts in several ways, one of them for the behaviours of the others.
MCInit ==
  /\ GuardsInit
  /\ guard # "breaker" => elapsed = 0
  /\ guard # "bucket"  => now = 0

MCSpec == MCInit /\ [][GuardsNext]_guards /\ GuardsFairness
================================================================================
