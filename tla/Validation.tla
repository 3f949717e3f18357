------------------------------- MODULE Validation -------------------------------
(***************************************************************************)
(* codeforge_shelf/validation.py: a validator of any rules is asked about  *)
(* any mapping. Of a value that is kept which the rules tell apart: its    *)
(* type, whether it is blank, its length, and which patterns, ranges and   *)
(* choices it is among.                                                    *)
(***************************************************************************)
EXTENDS Naturals, Sequences

CONSTANTS Fields,
          Values,  \* what a field may hold: [type, blank, length, within]
          Rules,   \* the rules builders make: [kind, field] and its parameter
          MaxRules \* bound: the rules of one validator

VARIABLES data,  \* the mapping: what the fields that are there hold
          rules  \* self._rules

vars == <<data, rules>>

Init == data = <<>> /\ rules = <<>>

Fill(f, value) ==
  /\ f \notin DOMAIN data
  /\ data' = [g \in DOMAIN data \cup {f} |-> IF g = f THEN value ELSE data[g]]
  /\ UNCHANGED rules

Require(rule) == Len(rules) < MaxRules /\ rules' = Append(rules, rule) /\ UNCHANGED data

Next ==
  \/ \E f \in Fields, value \in Values : Fill(f, value)
  \/ \E rule \in Rules : Require(rule)

Spec == Init /\ [][Next]_vars

--------------------------------------------------------------------------------
\* data.get(field) is None of a field that is not there.
None   == [type |-> "None", blank |-> FALSE, length |-> 0, within |-> {}]
Get(f) == IF f \in DOMAIN data THEN data[f] ELSE None

\* isinstance: a bool is an int.
IsInstance(value, type) == value.type = type \/ (value.type = "bool" /\ type = "int")
IsText(value)           == value.type = "str"

\* One line for each builder, in the order of the source: when its rule objects.
Objects(rule) ==
  LET value == Get(rule.field)
      there == rule.field \in DOMAIN data
  IN  \/ rule.kind = "required"   /\ (value.type = "None" \/ (IsText(value) /\ value.blank))
      \/ rule.kind = "of_type"    /\ there /\ ~IsInstance(value, rule.type)
      \/ rule.kind = "matches"    /\ IsText(value) /\ ~value.blank /\ rule.name \notin value.within
      \/ rule.kind = "in_range"   /\ value.type \in {"int", "float"} /\ rule.name \notin value.within
      \/ rule.kind = "one_of"     /\ there /\ rule.name \notin value.within
      \/ rule.kind = "max_length" /\ IsText(value) /\ value.length > rule.limit

\* Validator.check: every rule in turn, and the issues of those that object.
Check == SelectSeq(rules, Objects)

--------------------------------------------------------------------------------
\* What the comment on the builders says: "a required-and-malformed field reports
\* 'is required' once, not twice", since "the others fire only when a field is
\* present and non-empty".
RequiredReportsOnce ==
  \A i, j \in DOMAIN Check :
    Check[i].kind = "required" /\ Check[j].field = Check[i].field => Check[j].kind = "required"
================================================================================
