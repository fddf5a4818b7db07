SPECIFICATION Spec
CONSTANTS
    MaxCommits = 9
    MaxEvidence = 2
    MaxTrouble = 1
    NoPush = FALSE
    Product = {"code", "contract"}
INVARIANTS
    PublishedValid
    DoneShipsCandidate
    ToldIsPublished
PROPERTIES
    DevWorkKept
    FailureRestores
CHECK_DEADLOCK FALSE
