CONSTANTS
  Threads = {t1, t2}
  Ways = 1
  Keys = {"p"}
  Stores <- TwinStores
  MaxDepth = 1
  Ages = 2
  KeepMargin = 0
  KeepPv = 0
  AgeWeight = 1
  MaxStores = 3
SYMMETRY ThreadSymmetry
SPECIFICATION Spec
INVARIANTS
  EvalIsOfTheKey
