\* Three parameters of a machine with two integer and two SSE registers.
SPECIFICATION Spec
CONSTANTS
    Types <- MCTypes
    ReturnTypes <- MCReturnTypes
    ParamType <- MCParamType
    IsStruct <- MCIsStruct
    TypeAllocSize <- MCTypeAllocSize
    INT_REGS = 2
    SSE_REGS = 2
    MaxParams = 3
INVARIANTS
    ArgumentsArrive
    NothingIsLostButInHoles
    StructsStayWholeButForVectors
    ClassesFollowABIButForDepartures
    PlacesFollowABIButForDepartures
