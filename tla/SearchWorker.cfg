CONSTANT MaxJobs = 3
SPECIFICATION FairSpec
PROPERTIES
  ContractKept
  JobsDone
  WaitReturns
