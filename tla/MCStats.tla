-------------------------------- MODULE MCStats --------------------------------
\* A stat of 250 and sources of 30, 40 and 10 percent: of a unit of 1/4096 these are
\* no whole numbers, as they are none of a float's, so that each is the nearest.
EXTENDS Stats
MCNumbers == {0, 250, 1000}
Percent(units) == [flat |-> 0, percent |-> units]
MCModifiers == {Percent(1229), Percent(1638), Percent(410)}
================================================================================
