------------------------------ MODULE MCHashChain ------------------------------
\* Two processes over a ledger of up to four lines. Two payloads are stable, so
\* that one can be forged into the other; the third is a dict with integer keys.
EXTENDS HashChain, TLC
CONSTANTS w1, w2, a, b, n
MCWriters   == {w1, w2}
MCPayloads  == {a, b, n}
MCReordered == {n}
MCBlanks    == {<<>>, <<Empty>>, <<Spaces>>, <<Empty, Spaces>>}
MCLeaves    == {"nothing", "part", "all but newline"}
MCSymmetry  == Permutations(MCWriters) \cup Permutations({a, b})
================================================================================
