SPECIFICATION MCSpec
CONSTANTS
  o1 = o1
  o2 = o2
  o3 = o3
  o4 = o4
  c1 = c1
  c2 = c2
  c3 = c3
  Ops <- MCOps
  Limit = 2
  Free = Free
  Callers <- MCCallers
  Hung <- MCHung
  Threshold = 2
  ResetTimeout = 2
  Rate = 2
  Capacity = 5
  Costs <- MCCosts
  Steps <- MCSteps
  LastTick = 6
  MaxForward = 8
INVARIANTS
  TypeOK
  CapHolds
  CountIsHolders
  BreakerTypeOK
  BucketTypeOK
  Conservation
  RetryAfterHonest
PROPERTIES
  LockAlwaysComesBack
  ImplementsCompartment
  TripsOnARun
  FailsFast
  RejectsForCause
  Recovers
  OnlyTakingTakes
