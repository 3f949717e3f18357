--------------------------------- MODULE Stats ---------------------------------
(***************************************************************************)
(* codeforge_shelf/stats.py: a valid stat and the modifiers gathered for   *)
(* it, stacked in either mode. A float is a number of units, so many to    *)
(* one, and a product of two is rounded to the nearest unit, as it is to   *)
(* the nearest float; a sum of percentages is exact, the spacing of floats *)
(* the same everywhere.                                                    *)
(***************************************************************************)
EXTENDS Integers, Sequences, Keeping

CONSTANTS Numbers,   \* the values of base, min_value and max_value
          Unit,      \* how many units make one
          Modifiers, \* what a source may give: [flat, percent], percent in units
          MaxStack   \* bound: how many modifiers are gathered

VARIABLES stat, \* [base, min_value, max_value]
          modifiers

vars == <<stat, modifiers>>

\* Stat.__post_init__ raises on any other.
Stats == {s \in [base : Numbers, min_value : Numbers, max_value : Numbers] :
            s.min_value <= s.base /\ s.base <= s.max_value}

Init == stat \in Stats /\ modifiers = <<>>

Gather(m) ==
  /\ Len(modifiers) < MaxStack /\ modifiers' = Append(modifiers, m)
  /\ UNCHANGED stat

Next == \E m \in Modifiers : Gather(m)

Spec == Init /\ [][Next]_vars

--------------------------------------------------------------------------------
\* round() of n/d: to the nearest, and from halfway to the even one.
Round(n, d) ==
  LET floor == n \div d
      twice == 2 * (n % d)
  IN  IF twice > d \/ (twice = d /\ floor % 2 = 1) THEN floor + 1 ELSE floor

Clamp(s, raw) ==
  LET most == IF raw < s.max_value THEN raw ELSE s.max_value
  IN  IF most > s.min_value THEN most ELSE s.min_value

Alone(s, m) == Clamp(s, s.base + m.flat + Round(s.base * m.percent, Unit))

Flats(ms)    == Total([i \in DOMAIN ms |-> ms[i].flat])
Percents(ms) == Total([i \in DOMAIN ms |-> ms[i].percent])

\* Mutant of Factors: the percentages are multiplied, without the one before each.
FactorsOfPercents(ms) ==
  LET Prod[n \in 0..Len(ms)] ==
        IF n = 0 THEN Unit ELSE Round(Prod[n - 1] * ms[n].percent, Unit)
  IN  Prod[Len(ms)]

\* math.prod of 1 + percent: from the first to the last, rounded every time.
Factors(ms) ==
  LET Prod[n \in 0..Len(ms)] ==
        IF n = 0 THEN Unit ELSE Round(Prod[n - 1] * (Unit + ms[n].percent), Unit)
  IN  Prod[Len(ms)]

Additive(s, ms) == Clamp(s, s.base + Flats(ms) + Round(s.base * Percents(ms), Unit))

Compound(s, ms) == Clamp(s, Round((s.base + Flats(ms)) * Factors(ms), Unit))

Apply(mode, s, ms) == IF mode = "additive" THEN Additive(s, ms) ELSE Compound(s, ms)

--------------------------------------------------------------------------------
Buff(m) == m.flat >= 0 /\ m.percent >= 0

Without(ms, i) == SubSeq(ms, 1, i - 1) \o SubSeq(ms, i + 1, Len(ms))

\* Of a stat that is never negative a buff never takes anything away, in either mode,
\* wherever in the stack it stands, whatever else is worn and however products and
\* halves round, as long as nothing takes more than all of it. And one modifier in an
\* additive stack does what it does by itself.
BuffsNeverCost ==
  /\ \A mode \in {"additive", "compound"} : \A i \in DOMAIN modifiers :
       Buff(modifiers[i]) /\ stat.min_value >= 0 /\ (\A j \in DOMAIN modifiers : modifiers[j].percent >= -Unit)
         => Apply(mode, stat, modifiers) >= Apply(mode, stat, Without(modifiers, i))
  /\ Len(modifiers) = 1 => Additive(stat, modifiers) = Alone(stat, modifiers[1])

\* What the docstring says: "two order-independent modes".
OrderDoesNotCount ==
  \A mode \in {"additive", "compound"} :
    LET n       == Len(modifiers)
        Swap(i) == [modifiers EXCEPT ![i] = modifiers[n], ![n] = modifiers[i]]
    IN  \A i \in 1..n : Apply(mode, stat, modifiers) = Apply(mode, stat, Swap(i))
================================================================================
