SPECIFICATION Spec
CONSTANTS
  Texts <- MCTexts
  Options <- MCOptions
  Bodies <- MCBodies
  MaxItems = 3
INVARIANT
  OnlyTextIsLeft
CHECK_DEADLOCK FALSE
