SPECIFICATION ListenerSpec
CONSTANTS
    Conns = {c1, c2, c3}
    MaxConcurrent = 2
PROPERTIES
    KeepsPromise
    AcceptsAgain
