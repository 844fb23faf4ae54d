CONSTANTS
    Calls = {c1, c2}
    MaxSockets = 2
    Devices <- MCDevices
    Nonces = {n1}
    NoNonce = NoNonce
    Limit = 1
    Window = 3
    NonceTTL = 1
    MaxGateTime = 3
    VenueNonces = {v1}
    Challenges = {g1, g2, g3}
    VenueLife = 2
    VenueRetention = 2
    ChallengeLife = 2
    Capacity = 2
    KioskTTL = 2
    StaffTTL = 2
    MaxShortTime = 4
    Addresses = {a1, a2}
    NoAddress = NoAddress
    UrlTTL = 1
    HostsTTL = 1
    DetectTime = 1
    TokenLives = {1, 2}
    Skew = 1
    FallbackTTL = 2
    MaxCacheTime = 2
    NumAuthorizations = 2
    MaxRuns = 3
    Purposes = {"template", "photo"}
    Generations = 2
    MaxKeys = 3
    MaxBackups = 3
    MaxMfaSessions = 2
    MaxConfirms = 2
    Candidates = {u1, u2}
    NoCandidate = NoCandidate
    MaxRequests = 2
    MaxPageSessions = 2
    MaxChains = 2
    MaxProximityFlows = 2
    EnrollShots = 2
    MaxEnrolled = 2
    MaxOut = 2
SPECIFICATION Spec
INVARIANTS BrokenFileIsLeftAlone
CHECK_DEADLOCK FALSE
