\* One person whose commit comes after the revocation was pulled.
SPECIFICATION Spec
CONSTANTS
    Users = {u1}
    Applicants = {u1}
    Enrollments = {e1}
    ConsentsListed = TRUE
    MaxConsents = 1
    Deletions = {d1}
    Pulls = {k1}
    Passes = {p1}
    Shots = 1
    Overlap = 0
    MaxTime = 1
    MaxCrashes = 0
    None = None
INVARIANTS MatchedIsNotWithdrawn
