SPECIFICATION Spec
CONSTANTS
    Tasks = {t1, t2}
    Agents = {a1}
    Handles = {h1, h2}
    Payloads = {p1}
    NoHandle = NoHandle
    MaxEvents = 3
    MaxRun = 1
SYMMETRY Symmetry
INVARIANTS
    TypeOK
    AckedIsDurable
    RecoveryNeverCorrupt
    LogReplays
    Ownership
PROPERTIES
    AppendOnly
    ImplementsLedger
CHECK_DEADLOCK FALSE
