CONSTANTS
  Objects <- MCObjects
  MaxValidateSuccessTime = 1
  MaxNumOfVc = 6
SPECIFICATION Spec
INVARIANTS
  TypeOK
  SubGraphsAreComponents
  SearchExact
  RecordedMinimal
  OnePerSearch
  SelectionGreedy
  HalfOptimal
PROPERTIES
  RepairFindsNothing
  MinFinds
  ReturnsWithMin
