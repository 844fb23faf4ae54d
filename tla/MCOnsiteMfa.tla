---------------------------- MODULE MCOnsiteMfa ----------------------------
(* OnsiteMfa for TLC: two tickets of one user, a second user at the kiosk.  *)
EXTENDS OnsiteMfa, TLC

CONSTANTS u1, u2

MCOwner == [n \in Nonces |-> u1]

Symmetry == Permutations(Sids) \cup Permutations(Nonces) \cup Permutations(Handlers)
=============================================================================
