SPECIFICATION CheckSpec
CONSTANTS
  a = a
  b = b
  E = E
  Id <- TwoIds
  Tag <- OneTag
  Features <- AllFeatures
  MaxDecls = 3
  MaxDepth = 3
SYMMETRY Symmetry
INVARIANTS
  TypesFollowCButForLeaks
  SymbolsFollowCButForEnums
  TypedefNamesAreKnown
  FileScopeIsRestored
