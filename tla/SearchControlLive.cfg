CONSTANTS
  MaxHelpers = 1
  MaxDepth = 2
  MaxGo = 2
  GoLimits <- LiveGoes
SPECIFICATION FairSpec
PROPERTIES
  StopAnswered
  BudgetAnswered
  EarlyStopHeeded
  CommandsFinish
