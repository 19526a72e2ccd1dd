\* Declarations of objects and functions, with linkage and initializers.
CONSTANTS
    IntSize = 3
    EvalSize = 5
    ident = ident
    Id = {ident}
    f = f
    g = g
    Fn <- MCFn
    Shapes <- MCShapes
    Default <- MCDefault
    Plain <- MCPlain
    HasInit <- MCHasInit
    Accepts <- MCAccepts
    StaticInit <- MCStaticInit
    AutoInit <- MCAutoInit
    CopiesGlobal <- MCCopiesGlobal
    TypeIn <- MCTypeIn
    ValueInC <- BeginsWith
    InitIsConstant <- MCInitIsConstant
    InitHasOperators <- MCInitHasOperators
    IsDeparture <- Departs
    MaxDecls = 4
    MaxDepth = 4
SYMMETRY FnSymmetry
SPECIFICATION CheckSpec
CHECK_DEADLOCK FALSE
INVARIANTS
    GlobalsFollowC
    IdentifiersDenoteTheirObjects
    InitialValuesFollowCButForDepartures
    NothingIsRejectedButForDepartures
