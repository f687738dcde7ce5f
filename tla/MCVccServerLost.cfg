CONSTANTS
  HyperGraphs <- MCHyperGraphs
  Parameters = {0}
  QueueCapacity = 1000
  Child = child
SPECIFICATION Spec
INVARIANT AllDelivered
