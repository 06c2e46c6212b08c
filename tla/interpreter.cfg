SPECIFICATION Spec
CONSTANTS
  NULL = NULL
  Programs <- MCPrograms
  MaxObjects = 14
  Unspecified <- MCUnspecified
INVARIANTS TypeOK InStep OnlySkippingFails BehaviourSettles
PROPERTIES ReturnRestores VariablesKept ArgumentsInOrder CallsReturn
