SPECIFICATION Spec
CONSTANTS
    Requests = {r1, r2, r3}
    PoolSize = 2
INVARIANTS TypeOK ConnectionsReturned RefusalsAreComplete
PROPERTY NobodyWaitsForOthers
