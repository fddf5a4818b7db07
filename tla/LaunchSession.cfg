SPECIFICATION Spec
CONSTANTS
    Conns = {c1, c2}
    MaxConcurrent = 2
INVARIANTS
    ChildEquipped
    RevokedLast
    CleanReturn
PROPERTIES
    SessionReturns
    BridgeLossStops
