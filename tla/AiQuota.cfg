SPECIFICATION Spec
CONSTANTS
    Requests = {r1, r2}
    Users = {u1, u2}
    Ids = {i1, i2, i3, i4}
    Limit = 2
    Window = 1
    None = None
INVARIANTS TypeOK OvershootBounded
PROPERTY QuotaResets
