SPECIFICATION Spec
CONSTANTS
    u1 = u1
    u2 = u2
    Nonces = {n1, n2}
    Users = {u1, u2}
    Owner <- MCOwner
    Sids = {s1, s2}
    Handlers = {h1, h2}
    TTL = 1
    Retention = 1
    TicketTTL = 2
    MaxCeremonies = 1
    MaxTime = 3
    NoSid = NoSid
    NoNonce = NoNonce
INVARIANTS OneServed OneAttestationPerSession ReplayRefused SubmittedIsConfirmed
PROPERTIES SlotSpec
SYMMETRY Symmetry
