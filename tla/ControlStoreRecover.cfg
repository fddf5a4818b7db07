SPECIFICATION FreshSpec
CONSTANTS
    Tasks = {t1}
    Agents = {a1}
    Handles = {h1}
    Payloads = {p1}
    NoHandle = NoHandle
    MaxEvents = 3
    MaxRun = 0
SYMMETRY Symmetry
INVARIANTS
    EveryTaskRecoverable
