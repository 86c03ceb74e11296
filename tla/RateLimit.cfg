SPECIFICATION Spec
CONSTANTS
    Workers = {w1, w2}
    Addresses = {a1}
    Limit = 3
    Period = 3
INVARIANTS TypeOK BurstBounded
PROPERTY RefusedGetsThrough
