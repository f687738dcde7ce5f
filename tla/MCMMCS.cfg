CONSTANTS
  HyperGraphs <- MCHyperGraphs
  Methods = {"ORDER", "RANDOM", "MIN", "MAX"}
  Requests <- MCRequests
SPECIFICATION SubSpec
INVARIANTS
  TypeOK
  BookkeepingUnlessFull
  OutputsMinimal
  AcceptedInTurn
PROPERTY ImplementsEnumerationUnlessFull
