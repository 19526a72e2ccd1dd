--------------------------- MODULE MC_StructCheck ---------------------------
(* Two tags and four items in two scopes. *)
EXTENDS StructCheck, TLC

CONSTANTS S, T
MCTag == {S, T}
TagSymmetry == Permutations(MCTag)

=============================================================================
