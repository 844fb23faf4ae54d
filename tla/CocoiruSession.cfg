CHECK_DEADLOCK FALSE
SPECIFICATION Spec
CONSTANTS
    Tokens = {t1, t2}
    Handlers = {h1, h2}
    Capacity = 2
    MaxPending = 2
    MaxLife = 1
    MaxProofs = 1
    MaxTime = 1
    None = None
INVARIANTS CapacityHolds ClosedIsEmpty NoGrantLeftBehind
PROPERTIES NoProofAfterEnd
SYMMETRY Symmetry
