SPECIFICATION Spec
CONSTANTS
  w1 = w1
  w2 = w2
  a = a
  b = b
  n = n
  Writers <- MCWriters
  Payloads <- MCPayloads
  Reordered <- MCReordered
  Blanks <- MCBlanks
  CrashLeaves <- MCLeaves
  MaxLines = 4
SYMMETRY MCSymmetry
INVARIANTS
  TamperEvident
  CleanReadIsComplete
  CleanWhileUndisturbed
PROPERTIES
  NeverHeals
CHECK_DEADLOCK FALSE
