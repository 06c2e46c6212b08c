SPECIFICATION Spec
CONSTANTS
  NULL = NULL
  Programs <- MCTwoParameters
  MaxObjects = 14
  Unspecified <- MCUnspecified
INVARIANT Constructed
