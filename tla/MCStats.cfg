SPECIFICATION Spec
CONSTANTS
  Numbers <- MCNumbers
  Unit = 4096
  Modifiers <- MCModifiers
  MaxStack = 3
INVARIANT
  OrderDoesNotCount
CHECK_DEADLOCK FALSE
