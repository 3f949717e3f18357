-------------------------------- MODULE Keeping --------------------------------
(***************************************************************************)
(* Loops over a list or a dict: one that keeps some of it, in order, and   *)
(* one that adds it up. They are SelectSeq with membership for its test,   *)
(* and a fold, written out so that what they do to a sequence can be       *)
(* proved.                                                                 *)
(***************************************************************************)
EXTENDS Integers, Sequences

Keep(seq, S) ==
  LET Kept[n \in 0..Len(seq)] ==
        IF n = 0 THEN <<>>
        ELSE IF seq[n] \in S THEN Append(Kept[n - 1], seq[n]) ELSE Kept[n - 1]
  IN  Kept[Len(seq)]

Total(seq) ==
  LET Sum[n \in 0..Len(seq)] == IF n = 0 THEN 0 ELSE Sum[n - 1] + seq[n]
  IN  Sum[Len(seq)]
================================================================================
