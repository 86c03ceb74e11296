SPECIFICATION Spec
CONSTANTS
    Requests = {r1, r2}
    Users = {u1, u2}
    Colleges = {cA, cB}
    Departments = {dA, dB}
    Batches = {bA, bB}
    Labels = {csA, csB, b22, b23}
    Emails = {e1, e2}
    Codes = {}
    CodesOf <- MCCodesOf
    CollegeOf <- MCCollegeOf
    DepartmentOf <- MCDepartmentOf
    NameOf <- MCNameOf
    LabelOf <- MCLabelOf
    ClaimedEmail <- SharedEmail
    Jobs <- SharedEmailJobs
    None = None
    u1 = u1  u2 = u2  cA = cA  cB = cB  dA = dA  dB = dB  bA = bA  bB = bB
    csA = csA  csB = csB  b22 = b22  b23 = b23  e1 = e1  e2 = e2  kA = kA
SYMMETRY Symmetric
INVARIANT UserResolved
