--------------------------------- MODULE Health ---------------------------------
(***************************************************************************)
(* codeforge_shelf/health.py: overall() asks every check once, report()    *)
(* twice, the second time by way of overall(). A check may answer another  *)
(* thing the next time, raise, or have another check registered, which the *)
(* iteration in progress does not survive.                                 *)
(***************************************************************************)
EXTENDS Naturals, Sequences, Functions

CONSTANT Names \* what checks are registered under

HEALTHY   == "healthy"
DEGRADED  == "degraded"
UNKNOWN   == "unknown"
UNHEALTHY == "unhealthy"

Statuses == {HEALTHY, DEGRADED, UNKNOWN, UNHEALTHY}
Answers  == Statuses \cup {"unrecognized", "raises"}

\* Mutant of Severity: what is not known is not as bad as what is degraded.
SeverityOfKnown ==
  [s \in Statuses |-> CASE s = HEALTHY -> 0 [] s = UNKNOWN -> 1 [] s = DEGRADED -> 2 [] OTHER -> 3]

Severity ==
  [s \in Statuses |-> CASE s = HEALTHY -> 0 [] s = DEGRADED -> 1 [] s = UNKNOWN -> 2 [] OTHER -> 3]

VARIABLES checks, \* the keys of self._checks, in order
          pass,   \* the run() in progress, for which call, and what it has heard
          said    \* what the last call came to

vars == <<checks, pass, said>>

Idle    == [for |-> "nobody"]
Nothing == [how |-> "none"]

Init == checks = <<>> /\ pass = Idle /\ said = Nothing

\* A name that is taken is refused. Who registers may be a check that is being run.
Register(n) ==
  /\ n \notin Range(checks)
  /\ checks' = Append(checks, n)
  /\ UNCHANGED <<pass, said>>

Run(for, panel) ==
  [for |-> for, panel |-> panel, size |-> Len(checks), heard |-> <<>>]

Begin(for) ==
  /\ pass = Idle
  /\ pass' = Run(for, <<>>) /\ said' = Nothing
  /\ UNCHANGED checks

\* The dict's iterator compares sizes before every item, and before it ends.
Steady == pass # Idle /\ Len(checks) = pass.size
More   == Steady /\ Len(pass.heard) < pass.size
Over   == Steady /\ Len(pass.heard) = pass.size

Ask(answer) ==
  /\ More
  /\ pass' = [pass EXCEPT !.heard = Append(@, answer)]
  /\ UNCHANGED <<checks, said>>

\* "Raising or unrecognized becomes UNKNOWN".
Result(answer)  == IF answer \in Statuses THEN answer ELSE UNKNOWN
Results(heard)  == [i \in DOMAIN heard |-> Result(heard[i])]
Worst(statuses) == CHOOSE s \in statuses : \A t \in statuses : Severity[t] <= Severity[s]
Overall(heard)  == IF heard = <<>> THEN UNKNOWN ELSE Worst(Range(Results(heard)))

\* report() has its lines and calls overall().
EndOfLines ==
  /\ Over /\ pass.for = "report"
  /\ pass' = Run("its overall", Results(pass.heard))
  /\ UNCHANGED <<checks, said>>

Return ==
  /\ Over /\ pass.for # "report"
  /\ said' = [how |-> "returned", overall |-> Overall(pass.heard), panel |-> pass.panel,
              heard |-> pass.heard, of |-> checks]
  /\ pass' = Idle
  /\ UNCHANGED checks

\* What `except Exception` does not catch: the iterator's RuntimeError, and a check
\* that is interrupted.
Escape(what) ==
  /\ \/ what = "RuntimeError" /\ pass # Idle /\ ~Steady
     \/ what = "KeyboardInterrupt" /\ More
  /\ said' = [how |-> what] /\ pass' = Idle
  /\ UNCHANGED checks

Next ==
  \/ \E n \in Names : Register(n)
  \/ \E for \in {"overall", "report"} : Begin(for)
  \/ \E answer \in Answers : Ask(answer)
  \/ EndOfLines \/ Return
  \/ \E what \in {"RuntimeError", "KeyboardInterrupt"} : Escape(what)

Spec == Init /\ [][Next]_vars

--------------------------------------------------------------------------------
\* "An UNKNOWN state is never reported as healthy", and neither is anything else
\* hidden: the overall status of a call that returns follows from what every check
\* there is answered during that call, whoever registered one meanwhile. A line of
\* the panel is worse than the status above it only where the check has answered
\* otherwise since.
OverallIsEarned ==
  said.how = "returned" =>
    LET heard == Range(said.heard)
    IN  /\ said.overall = HEALTHY   <=> heard = {HEALTHY}
        /\ said.overall = UNHEALTHY <=> UNHEALTHY \in heard
        /\ said.overall = DEGRADED  <=> DEGRADED \in heard /\ heard \subseteq {HEALTHY, DEGRADED}
        /\ Len(said.heard) = Len(said.of)
        /\ \A i \in DOMAIN said.panel :
             Severity[said.panel[i]] > Severity[said.overall] => said.panel[i] # Result(said.heard[i])

--------------------------------------------------------------------------------
\* What it rests on: the shape of a state; the panel of a call that goes on to its
\* overall status has a line for every check it will ask.
Calls  == {"overall", "report", "its overall"}
Passes == [for : Calls, panel : Seq(Statuses), size : Nat, heard : Seq(Answers)]

TypeOK ==
  /\ checks \in Seq(Names)
  /\ pass # Idle => /\ pass \in Passes
                    /\ Len(pass.heard) <= pass.size
                    /\ pass.panel = <<>> \/ Len(pass.panel) = pass.size

IInv == TypeOK /\ OverallIsEarned
================================================================================
