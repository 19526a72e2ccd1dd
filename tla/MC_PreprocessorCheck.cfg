\* Preprocessor: four lines, two object-like macros that may form a cycle and a function-like one, one include.
SPECIFICATION Spec
CONSTANTS
    Definitions <- MCDefinitions
    MacroNames <- MCMacroNames
    Conditions <- MCConditions
    Texts <- MCTexts
    MaxLines = 4
    MaxIncludes = 1
CONSTRAINT Bounded
INVARIANTS
    GroupsFollowCButForDepartures
    MacrosFollowCButForDepartures
    OutputFollowsCButForDepartures
PROPERTIES
    SkippedGroupsAreInert
    ProcessReturnsButForMinusAndCycles
