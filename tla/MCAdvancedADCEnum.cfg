CONSTANTS
  HyperGraphs <- MCHyperGraphs
  Thetas = {0, 34}
  Methods = {"ORDER", "MIN", "MAX", "PRIORITY"}
  t1 = t1
  t2 = t2
  Threads = {t1, t2}
  Main = main
  NoTask = NoTask
SPECIFICATION Spec
INVARIANTS
  TypeOK
  UncovExact
  IndexBeforeTasks
  AllGivenBack
PROPERTIES
  ImplementsEnumeration
  ReturnsIfOrdered
