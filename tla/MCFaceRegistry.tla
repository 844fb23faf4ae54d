---------------------------- MODULE MCFaceRegistry ----------------------------
(* FaceRegistry for TLC.                                                    *)
EXTENDS FaceRegistry
=============================================================================
