------------------------------ MODULE TestEvidence ------------------------------
(***************************************************************************)
(* codeforge_shelf/test_evidence.py: checks are declared and recorded in   *)
(* any order and any number of times; verdicts are computed from both.     *)
(***************************************************************************)
EXTENDS Naturals, Sequences, FiniteSetsExt

CONSTANTS Checks,
          MaxCalls \* bound: calls of expect() and record()

Recordable == {"passed", "failed", "error", "skipped"}
MISSING    == "missing"

VARIABLES expected, \* self._expected
          records,  \* self._records: the status of each recorded check
          calls     \* history: the calls made, in order

vars == <<expected, records, calls>>

Init == expected = {} /\ records = <<>> /\ calls = <<>>

Called(id, status) == Len(calls) < MaxCalls /\ calls' = Append(calls, <<id, status>>)

Expect(id) ==
  /\ Called(id, MISSING)
  /\ expected' = expected \cup {id}
  /\ UNCHANGED records

\* Mutant of Record: the first record of a check stands.
RecordOnce(id, status) ==
  /\ Called(id, status)
  /\ records' = [c \in DOMAIN records \cup {id} |-> IF c \in DOMAIN records THEN records[c] ELSE status]
  /\ UNCHANGED expected

Record(id, status) ==
  /\ Called(id, status)
  /\ records' = [c \in DOMAIN records \cup {id} |-> IF c = id THEN status ELSE records[c]]
  /\ UNCHANGED expected

\* record() of a status that is not recordable raises before it stores.
Unrecordable(id) == Called(id, "nonsense") /\ UNCHANGED <<expected, records>>

Next == \E id \in Checks : Expect(id) \/ Unrecordable(id) \/ \E s \in Recordable : Record(id, s)

Spec == Init /\ [][Next]_vars

Ids == expected \cup DOMAIN records

Status(id) == IF id \in DOMAIN records THEN records[id] ELSE MISSING

Passed == Ids # {} /\ \A id \in Ids : Status(id) = "passed"

Gaps == {Status(id) : id \in Ids} \ {"passed"}

ArcStatus ==
  IF Ids = {} THEN "missing"
  ELSE IF Passed THEN "ready"
  ELSE IF Gaps \cap {"failed", "error"} # {} THEN "blocked"
  ELSE "watchlist"

--------------------------------------------------------------------------------
\* What the caller can say of a check from the calls it made itself.
Made(id, statuses) == {i \in DOMAIN calls : calls[i][1] = id /\ calls[i][2] \in statuses}
LatestIn(id, statuses) == LET made == Made(id, Recordable)
                          IN  made # {} /\ calls[Max(made)][2] \in statuses
Mentioned == {id \in Checks : Made(id, Recordable \cup {MISSING}) # {}}

\* "Missing evidence is never a pass": the verdict follows from the calls made, in
\* whatever order. Ready means that something was asked for and the latest record
\* of all that was is a pass; a latest failure blocks; a declaration after the
\* record takes nothing away, and a refused record counts for nothing.
VerdictIsEarned ==
  /\ ArcStatus = "ready" <=> Mentioned # {} /\ \A id \in Mentioned : LatestIn(id, {"passed"})
  /\ ArcStatus = "blocked" <=> \E id \in Mentioned : LatestIn(id, {"failed", "error"})

--------------------------------------------------------------------------------
\* What it rests on: the shape of a state, and what the calls have made of it, check
\* by check.
TypeOK ==
  /\ expected \in SUBSET Checks
  /\ DOMAIN records \subseteq Checks /\ records \in [DOMAIN records -> Recordable]
  /\ calls \in Seq(Checks \X (Recordable \cup {MISSING, "nonsense"}))

Kept ==
  \A id \in Checks :
    /\ id \in expected <=> Made(id, {MISSING}) # {}
    /\ id \in DOMAIN records <=> Made(id, Recordable) # {}
    /\ id \in DOMAIN records => records[id] = calls[Max(Made(id, Recordable))][2]

IInv == TypeOK /\ Kept
================================================================================
