-------------------------------- MODULE MCRetry --------------------------------
\* Three policies: a plain doubling one that meets its cap, one with jitter, and
\* one whose factor leaves the floats at the third power.
EXTENDS Retry
Policy(n, base, factor, max, jitter) ==
  [max_attempts |-> n, base_delay |-> base, factor |-> factor,
   max_delay |-> max, jitter |-> jitter]
MCPolicies == { Policy(4, 1, 2, 3, FALSE), Policy(3, 1, 2, 2, TRUE), Policy(4, 1, 4, 3, FALSE),
                Policy(1, 0, 1, 0, FALSE) }
MCBudgets == {0, 2, 4}
================================================================================
