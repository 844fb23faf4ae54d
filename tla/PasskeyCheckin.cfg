SPECIFICATION Spec
CONSTANTS
    Challenges = {c1, c2}
    Sids = {s1, s2}
    Creds = {k1, k2}
    Handlers = {h1, h2}
    ChallengeTTL <- MCChallengeTTL
    SessionTTL = 1
    MaxUses = 1
    MaxTime = 2
    MaxFaced = 1
    None = None
INVARIANTS OneAttestationPerChallenge CompletesOwnSession IssuedIsRecorded
PROPERTIES CompletesAgainOnlyReopened
SYMMETRY Symmetry
