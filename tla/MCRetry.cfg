SPECIFICATION FairSpec
CONSTANTS
  Policies <- MCPolicies
  Budgets <- MCBudgets
  NoDeadline = NoDeadline
  FloatMax = 15
  MaxCall = 1
  Slack = 1
  MaxRuns = 2
INVARIANTS
  OneBackoffBetweenTries
  HonestOutcome
  GivesUpForCause
  OverrunBounded
PROPERTIES
  Terminates
CHECK_DEADLOCK FALSE
