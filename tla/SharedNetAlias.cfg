CONSTANTS
  p1 = p1
  p2 = p2
  p3 = p3
  Procs <- MCProcs
  Nets = {"n1", "n2"}
  MaxFile = 2
  FileNet <- MCFileNet
  Objs = {o1, o2, o3, o4, o5, o6}
  NoObj = NoObj
  Blank = Blank
  MaxRounds = 1
  Bounds <- AliasBounds
SPECIFICATION Spec
INVARIANTS
  AliasIsOfTheFile
CHECK_DEADLOCK FALSE
