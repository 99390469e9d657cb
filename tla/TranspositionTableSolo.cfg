CONSTANTS
  Threads = {t1}
  Ways = 2
  Keys = {"p", "q", "r"}
  Stores <- SoloStores
  MaxDepth = 2
  Ages = 2
  KeepMargin = 1
  KeepPv = 0
  AgeWeight = 1
  MaxStores = 3
SPECIFICATION Spec
INVARIANTS
  EvalIsOfTheKey
  MoveIsOfTheKey
  DepthIsNotRaised
  OneWayPerKey
PROPERTIES
  StoreIsFound
  NoNeedlessEviction
