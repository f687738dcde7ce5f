CONSTANTS
  HyperGraphs <- MCHyperGraphs
  Thetas = {0, 34, 50}
  Methods = {"ORDER", "RANDOM", "MIN", "MAX"}
SPECIFICATION Spec
INVARIANTS
  TypeOK
  Bookkeeping
  GivenUpUnhittable
PROPERTY ImplementsEnumeration
