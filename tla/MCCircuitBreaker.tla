---------------------------- MODULE MCCircuitBreaker ----------------------------
\* Three calls in flight, one of which may hang; two failures trip the breaker.
EXTENDS CircuitBreaker
CONSTANTS c1, c2, c3
MCCallers == {c1, c2, c3}
MCHung    == {c3}
================================================================================
