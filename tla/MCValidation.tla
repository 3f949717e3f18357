------------------------------ MODULE MCValidation ------------------------------
\* A sign-up form of two fields, with a rule of every kind for one of them.
EXTENDS Validation
MCFields == {"name", "age"}
Of(type, blank, length, within) ==
  [type |-> type, blank |-> blank, length |-> length, within |-> within]
MCValues ==
  { None, Of("str", TRUE, 0, {}), Of("str", TRUE, 9, {}),
    Of("str", FALSE, 3, {"letters", "known"}), Of("str", FALSE, 9, {}),
    Of("int", FALSE, 0, {"adult"}), Of("int", FALSE, 0, {}), Of("bool", FALSE, 0, {}) }
MCRules ==
  { [kind |-> "required",   field |-> "name"],
    [kind |-> "of_type",    field |-> "name", type |-> "str"],
    [kind |-> "matches",    field |-> "name", name |-> "letters"],
    [kind |-> "one_of",     field |-> "name", name |-> "known"],
    [kind |-> "max_length", field |-> "name", limit |-> 8],
    [kind |-> "in_range",   field |-> "age",  name |-> "adult"] }
================================================================================
