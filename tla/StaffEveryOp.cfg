SPECIFICATION Spec
CONSTANTS
    Requests = {r1, r2}
    Users = {u1, u2}
    Ids = {i1, i2}
    Colleges = {cA, cB}
    Departments = {dA, dB}
    Batches = {bA, bB}
    CollegeOf <- MCCollegeOf
    DepartmentOf <- MCDepartmentOf
    Jobs <- AllJobs
    None = None
    u1 = u1  u2 = u2  cA = cA  cB = cB  dA = dA  dB = dB  bA = bA  bB = bB  i1 = i1  i2 = i2
SYMMETRY Symmetric
INVARIANTS TypeOK ScopesEarned
PROPERTY RemovedByOwnerOnly
