SPECIFICATION Spec
CONSTANTS
  Fields <- MCFields
  Values <- MCValues
  Rules <- MCRules
  MaxRules = 3
INVARIANT
  RequiredReportsOnce
CHECK_DEADLOCK FALSE
