CONSTANTS
  HyperGraphs <- MCHyperGraphs
  Thetas = {0, 34}
  Methods = {"PRIORITY"}
  t1 = t1
  t2 = t2
  Threads = {t1, t2}
  Main = main
  NoTask = NoTask
SPECIFICATION Spec
PROPERTY Returns
