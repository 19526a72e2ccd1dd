SPECIFICATION CheckSpec
CONSTANTS
  CharSize = 2
  ShortSize = 2
  IntSize = 3
  LongSize = 4
  OperandTypes <- AllTypes
  ObjectTypes <- IntOnly
  Features <- PureFeatures
  MaxStack = 2
INVARIANTS
  ExpressionsFollowCButForDepartures
