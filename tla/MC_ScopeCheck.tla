--------------------------- MODULE MC_ScopeCheck ----------------------------
(* The instances of ScopeCheck that TLC explores.                          *)
EXTENDS ScopeCheck, TLC

CONSTANTS a, b, E

TwoIds  == {a, b}
OneTag  == {E}

(* No definition tells one identifier from another.                        *)
Symmetry == Permutations(TwoIds)

AllFeatures == {"fn", "block", "for", "switch", "return", "object", "typedef",
                "enum", "enumtypedef", "enumref", "inner"}
=============================================================================
