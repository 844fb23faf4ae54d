SPECIFICATION Spec
CONSTANTS
    Users = {u1, u2}
    Sids = {s1}
    Handlers = {h1}
    VotesNeeded = 3
    SpoofMax = 2
    AmbiguousMax = 2
    ChallengeRequired = TRUE
    ChallengeTTL = 1
    SessionTTL = 2
    MaxTime = 2
    None = None
INVARIANTS MatchIsHeld
SYMMETRY Symmetry
