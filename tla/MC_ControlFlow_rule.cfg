SPECIFICATION Spec
CONSTANTS
  Kinds <- SwitchKinds
  MaxStmts = 4
  MaxDepth = 4
  MaxBlocks = 10
INVARIANT
  NoCodeAfterTerminator
