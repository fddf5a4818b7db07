SPECIFICATION Spec
CONSTANTS
    Conns = {c1, c2}
    Handles = {h1, h2}
    Subjects = {s1, s2}
    ApiScopes = {x1}
    GitScopes = {g1}
    ApiUses = 2
    TTL = 1
    MaxTime = 1
    MaxEpoch = 2
    MaxIssueTry = 1
SYMMETRY Symmetry
INVARIANTS
    AttemptsPaid
    AttemptsAuthorised
PROPERTIES
    OverIsOver
