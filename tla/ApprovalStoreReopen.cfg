SPECIFICATION Spec
CONSTANTS
    Processes = {p1}
    Requests = {r1, r2}
    Digests = {d1}
    Actors = {a1}
    NoActor = NoActor
    MaxTime = 2
    MaxTTL = 2
    MaxRecords = 2
    MaxGeneration = 3
SYMMETRY Symmetry
INVARIANTS
    Reopenable
