-------------------------- MODULE MCPasskeyCheckin --------------------------
(* PasskeyCheckin for TLC.                                                  *)
EXTENDS PasskeyCheckin, TLC

\* The proximity store's challenges are the shorter lived ones.
MCChallengeTTL == [svc \in Services |-> IF svc = "proximity" THEN 1 ELSE 2]

Symmetry == Permutations(Challenges) \cup Permutations(Sids)
            \cup Permutations(Creds) \cup Permutations(Handlers)
=============================================================================
