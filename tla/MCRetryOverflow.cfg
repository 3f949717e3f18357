SPECIFICATION FairSpec
CONSTANTS
  Policies <- MCPolicies
  Budgets <- MCBudgets
  NoDeadline = NoDeadline
  FloatMax = 15
  MaxCall = 1
  Slack = 1
  MaxRuns = 2
INVARIANTS
  FinalFailureReraised
CHECK_DEADLOCK FALSE
