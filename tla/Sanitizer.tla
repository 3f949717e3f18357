------------------------------- MODULE Sanitizer -------------------------------
(***************************************************************************)
(* codeforge_shelf/sanitizer.py: sanitize() of any text under any rule. Of *)
(* a character only that is kept which the code tells apart: whether it is *)
(* blank (\s and strip() agree there), whether it is a control, and what   *)
(* lower() makes of it.                                                    *)
(***************************************************************************)
EXTENDS Naturals, Sequences, SequencesExt, Keeping

CONSTANTS NoCap,    \* None
          Caps,     \* the values of max_length, NoCap among them
          MaxTyped  \* bound: the characters of a text

\* `dotted` is the capital of which lower() makes two characters.
Controls == {"bell", "newline", "unit separator"}
Blanks   == {"space", "newline", "unit separator", "no-break space"}
Chars    == Controls \cup Blanks \cup {"a", "A", "dotted"}
Printed  == (Chars \cup {"i", "dot above"}) \ Controls

Rules == [strip_controls : BOOLEAN, collapse_whitespace : BOOLEAN, trim : BOOLEAN,
          lowercase : BOOLEAN, max_length : Caps]

\* Tab, newline and return become spaces; every other control goes.
StripControls(s) == Keep(ReplaceAll(s, "newline", "space"), Printed)

\* Of every run of blanks one space is left.
CollapseWhitespace(s) ==
  FlattenSeq([i \in DOMAIN s |->
    IF s[i] \notin Blanks THEN <<s[i]>>
    ELSE IF i > 1 /\ s[i - 1] \in Blanks THEN <<>> ELSE <<"space">>])

Lower(c) == IF c = "A" THEN <<"a">> ELSE IF c = "dotted" THEN <<"i", "dot above">> ELSE <<c>>

Lowercase(s) == FlattenSeq([i \in DOMAIN s |-> Lower(s[i])])

Cap(s, max) == IF max = NoCap \/ Len(s) <= max THEN s ELSE SubSeq(s, 1, max)

Solid(c) == c \notin Blanks
Strip(s) == IF ToSet(s) \subseteq Blanks THEN <<>>
            ELSE SubSeq(s, SelectInSeq(s, Solid), SelectLastInSeq(s, Solid))

\* Mutant of Shorten: the cap comes last.
ShortenAfter(s, rule) == Cap(IF rule.trim THEN Strip(s) ELSE s, rule.max_length)

\* Trimmed last, so that no blank is left where the cap cuts.
Shorten(s, rule) == LET cut == Cap(s, rule.max_length) IN IF rule.trim THEN Strip(cut) ELSE cut

Sanitize(text, rule) ==
  LET plain  == IF rule.strip_controls THEN StripControls(text) ELSE text
      folded == IF rule.collapse_whitespace THEN CollapseWhitespace(plain) ELSE plain
  IN  Shorten(IF rule.lowercase THEN Lowercase(folded) ELSE folded, rule)

--------------------------------------------------------------------------------
VARIABLE typed \* the text, as somebody enters it

Init == typed = <<>>

Type(c) == Len(typed) < MaxTyped /\ typed' = Append(typed, c)

Next == \E c \in Chars : Type(c)

Spec == Init /\ [][Next]_typed

\* "Sanitizing twice equals sanitizing once", whatever the rule: no step makes work
\* for one before it, and what comes out is within the cap although lowering may
\* lengthen a text and the cap may cut it at a blank.
SanitizingTwiceIsOnce ==
  \A rule \in Rules :
    LET out == Sanitize(typed, rule)
    IN  Sanitize(out, rule) = out /\ (rule.max_length # NoCap => Len(out) <= rule.max_length)
================================================================================
