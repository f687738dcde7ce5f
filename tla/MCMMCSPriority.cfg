CONSTANTS
  HyperGraphs <- MCHyperGraphs
  Methods = {"PRIORITY"}
  Requests <- MCRunAll
SPECIFICATION SubSpec
INVARIANT Complete
