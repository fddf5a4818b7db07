SPECIFICATION Spec
CONSTANTS
    MaxCommits = 7
    MaxEvidence = 2
    MaxTrouble = 0
    NoPush = FALSE
    Product = {"code", "contract"}
INVARIANTS
    CompletionAccepted
CHECK_DEADLOCK FALSE
