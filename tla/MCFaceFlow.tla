----------------------------- MODULE MCFaceFlow -----------------------------
(* FaceFlow for TLC.                                                        *)
EXTENDS FaceFlow, TLC

Symmetry == Permutations(Users) \cup Permutations(Handlers)
=============================================================================
