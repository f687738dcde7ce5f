CONSTANTS
  Objects <- MCDisconnected
  MaxValidateSuccessTime = 1
  MaxNumOfVc = 4
SPECIFICATION Spec
INVARIANT PushedCovers
