CONSTANTS
  HyperGraphs <- MCHyperGraphs
  Parameters = {0, 34, 100, 300}
  QueueCapacity = 2
  Child = child
SPECIFICATION Spec
INVARIANTS
  TypeOK
  InOrder
  NoneLostInside
  NeverSleeps
PROPERTY Responds
