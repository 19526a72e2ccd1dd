\* Expressions of up to five calls.
SPECIFICATION CheckSpec
CONSTANTS
  BinaryOps = {"+", "<"}
  MaxCalls = 5
INVARIANTS
  PhisNamePredecessors
  EvaluatesAsC
