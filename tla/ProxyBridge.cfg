SPECIFICATION Spec
CONSTANTS
    Conns = {c1, c2}
    MaxConcurrent = 2
INVARIANTS
    CutForCause
PROPERTIES
    KeepsPromise
    ServeReturns
    FailureEnds
