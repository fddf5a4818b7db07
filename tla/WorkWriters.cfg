SPECIFICATION DeadSpec
CONSTANTS
    Procs = {p1, p2, p3}
    MaxKilled = 1
    Free = Free
    Unwritten = Unwritten
    Dead = Dead
SYMMETRY Symmetry
INVARIANTS
    OneWriter
    FailureLeavesNothing
    Settled
PROPERTIES
    CommitsOwn
    WorkKept
CONSTRAINT Unbroken
CHECK_DEADLOCK FALSE
