SPECIFICATION Spec
CONSTANTS
    Threads = {t1, t2}
    Challenges = {c1, c2}
    Requests = {r1}
    Operators = {o1, o2}
    NoOperator = NoOperator
    MaxTime = 2
    TTL = 1
    MaxPending = 1
    Deadline = 2
SYMMETRY Symmetry
INVARIANTS
    OneShot
    DecisionsVerified
    ResultsStand
PROPERTIES
    CloseSuppresses
