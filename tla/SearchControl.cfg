CONSTANTS
  MaxHelpers = 2
  MaxDepth = 2
  MaxGo = 2
  GoLimits <- AllGoes
SPECIFICATION Spec
INVARIANTS
  NoLostWakeUp
  HandlersAlone
  VoteAfterJoin
  FreshFlags
PROPERTIES
  NoJobOverwritten
  PonderRunsOn
  ContractKept
