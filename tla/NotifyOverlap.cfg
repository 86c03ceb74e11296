SPECIFICATION NotifySpec
CONSTANTS
    u1 = u1  u2 = u2  u3 = u3
    g1 = g1
    t1 = t1  t2 = t2
    Writers = {w1, w2}
    Groups = {g1}
    Users = {u1, u2, u3}
    None = None
    Requests = {r1, r2}
    Tokens = {t1, t2}
    Jobs <- SomeJobs
SYMMETRY Symmetric
INVARIANTS NotifyTypeOK SetsBounded ExactUnlessTouched RegistrationKept
