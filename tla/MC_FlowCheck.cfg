\* All kinds of statements, three of them; switches, five.
SPECIFICATION MCSpec
CONSTANTS
  Kinds <- AllKinds
  MaxStmts = 5
  MaxDepth = 4
  MaxBlocks = 16
CONSTRAINT InScope
INVARIANTS
  FunctionIsClosed
  ContextMirrorsFrames
  FlowPreserved
  DroppedItemsAreDead
PROPERTIES
  NoCodeAfterTerminatorOutsideSwitch
