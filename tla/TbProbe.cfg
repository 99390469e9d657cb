CONSTANTS
  Limit = 4
  Graphs <- MCGraphs
  Tables <- MCTables
  TbDrawSearch = TRUE
SPECIFICATION Spec
INVARIANTS
  ProbesAreTrue
PROPERTIES
  ResultIsKept
CHECK_DEADLOCK FALSE
