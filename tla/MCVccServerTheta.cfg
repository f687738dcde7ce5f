CONSTANTS
  HyperGraphs <- MCHyperGraphs
  Parameters = {34}
  QueueCapacity = 1000
  Child = child
SPECIFICATION Spec
INVARIANT ParameterHonoured
