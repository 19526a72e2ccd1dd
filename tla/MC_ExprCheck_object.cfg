SPECIFICATION CheckSpec
CONSTANTS
  CharSize = 4
  ShortSize = 4
  IntSize = 5
  LongSize = 6
  OperandTypes <- MixedTypes
  ObjectTypes <- ObjTypes
  Features <- ObjectFeatures
  MaxStack = 1
INVARIANTS
  ExpressionsFollowCButForDepartures
