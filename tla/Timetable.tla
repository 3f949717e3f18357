------------------------------- MODULE Timetable -------------------------------
(***************************************************************************)
(* What an hourglass promises, with no counting down: each label has the   *)
(* absolute beat it is due at, and the beat that comes fires exactly the   *)
(* labels due at it, in the order they were queued.                        *)
(***************************************************************************)
EXTENDS Naturals, Sequences, Functions, Keeping

CONSTANTS Labels, Payloads, NoPayload,
          Delays, Periods, \* the delays and the periods timers are given
          Most             \* how many labels may wait

VARIABLES queue,  \* the labels waiting, oldest first
          due,    \* the beat each of them is due at
          every,  \* its period, 0 for a one-shot
          what,   \* the payload it was last scheduled with
          beat,   \* how many beats have gone by
          result  \* what the last operation answered

vars == <<queue, due, every, what, beat, result>>

Quiet    == [kind |-> "none"]
Full     == [kind |-> "full"]
Found(b) == [kind |-> "found", was |-> b]
Came(s)  == [kind |-> "fired", payloads |-> s]

Waiting == Range(queue)

Set(f, l, value)  == [m \in DOMAIN f \cup {l} |-> IF m = l THEN value ELSE f[m]]
Only(f, S)        == [m \in DOMAIN f \cap S |-> f[m]]
Yield(l, payload) == IF payload = NoPayload THEN l ELSE payload

Init ==
  /\ queue = <<>> /\ due = <<>> /\ every = <<>> /\ what = <<>>
  /\ beat = 0
  /\ result = Quiet

Schedule(l, after, period, payload) ==
  /\ l \in Waiting \/ Len(queue) < Most
  /\ UNCHANGED beat /\ result' = Quiet
  /\ queue' = IF l \in Waiting THEN queue ELSE Append(queue, l)
  /\ due'   = Set(due, l, beat + after)
  /\ every' = Set(every, l, period)
  /\ what'  = Set(what, l, payload)

Overflow(l) ==
  /\ l \notin Waiting /\ Len(queue) = Most
  /\ result' = Full
  /\ UNCHANGED <<queue, due, every, what, beat>>

Drop(gone) ==
  LET left == Waiting \ gone
  IN  /\ queue' = Keep(queue, left)
      /\ due'   = Only(due, left)
      /\ every' = Only(every, left)
      /\ what'  = Only(what, left)

Cancel(l) ==
  /\ UNCHANGED beat /\ result' = Found(l \in Waiting)
  /\ Drop({l})

Clear == UNCHANGED beat /\ result' = Quiet /\ Drop(Waiting)

Advance ==
  LET now  == {l \in Waiting : due[l] = beat + 1}
      left == {l \in Waiting : l \in now => every[l] > 0}
      out  == Keep(queue, now)
  IN  /\ beat'   = beat + 1
      /\ queue'  = Keep(queue, left)
      /\ due'    = [l \in left |-> IF l \in now THEN beat + 1 + every[l] ELSE due[l]]
      /\ every'  = Only(every, left)
      /\ what'   = Only(what, left)
      /\ result' = Came([i \in DOMAIN out |-> Yield(out[i], what[out[i]])])

Next ==
  \/ Clear \/ Advance
  \/ \E l \in Labels : Overflow(l) \/ Cancel(l)
  \/ \E l \in Labels, after \in Delays, period \in Periods, payload \in Payloads \cup {NoPayload} :
       Schedule(l, after, period, payload)

Spec == Init /\ [][Next]_vars
================================================================================
