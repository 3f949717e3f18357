-------------------------------- MODULE Deadline --------------------------------
(***************************************************************************)
(* codeforge_shelf/deadline.py: a budget of `seconds` from a start instant *)
(* on an injected clock. A deadline is a value; each operator takes what   *)
(* the clock reads when the method is called.                              *)
(***************************************************************************)
EXTENDS Integers

Budget(seconds, start) == [seconds |-> seconds, start |-> start]

AtLeastZero(x) == IF x > 0 THEN x ELSE 0

\* Mutant of Elapsed: a reset is not noticed.
ElapsedSinceEver(d, now) == AtLeastZero(now)

Elapsed(d, now)   == AtLeastZero(now - d.start)
Remaining(d, now) == AtLeastZero(d.seconds - Elapsed(d, now))
Expired(d, now)   == Remaining(d, now) <= 0
Reset(d, now)     == [d EXCEPT !.start = now]
================================================================================
