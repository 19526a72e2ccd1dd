\* The driver: all options and all ways to fail, up to two included files.
CONSTANTS
    MaxIncludes = 2
SPECIFICATION Spec
INVARIANTS
    TypeOK
    LossIsSaid
    FailureKeepsOutput
PROPERTY ImplementsCompiler
