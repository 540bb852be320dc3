------------------------ MODULE MCSessionCoordination ------------------------
(* Small instances of SessionCoordination. *)
EXTENDS SessionCoordination, TLC
Symmetry == Permutations(Workers) \union Permutations(Sessions) \union Permutations(Scopes)
=============================================================================
