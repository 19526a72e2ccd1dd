\* Structure tags: two of them, four items, two scopes.
CONSTANTS
    S = S
    T = T
    Tag <- MCTag
    MaxItems = 4
    MaxDepth = 2
SYMMETRY TagSymmetry
SPECIFICATION CheckSpec
INVARIANTS
    SameTypeButForDepartures
    NothingIsRejectedButForDepartures
    UsesAreLaidOutButForDepartures
PROPERTY TypeFoundIsStable
