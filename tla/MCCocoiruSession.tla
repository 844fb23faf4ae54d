--------------------------- MODULE MCCocoiruSession ---------------------------
(* CocoiruSession for TLC.                                                  *)
EXTENDS CocoiruSession, TLC

Symmetry == Permutations(Tokens) \cup Permutations(Handlers)
=============================================================================
