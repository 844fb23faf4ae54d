\* Two people, of whom one enrols and may leave, one enrolment, one pull at a
\* time, one restart.
SPECIFICATION Spec
CONSTANTS
    Users = {u1, u2}
    Applicants = {u1}
    Enrollments = {e1}
    ConsentsListed = TRUE
    MaxConsents = 1
    Deletions = {d1}
    Pulls = {k1}
    Passes = {p1}
    Shots = 1
    Overlap = 0
    MaxTime = 1
    MaxCrashes = 1
    None = None
INVARIANTS PhotoHasTemplate TemplateIsConsented
PROPERTIES NoRevocationMissed WithdrawalIsEnforced DeletionReachesCernere
