--------------------------- MODULE MCStaffScopes ---------------------------
\* Finite instances of StaffScopes: two users, two colleges with one department
\* of one batch each.
EXTENDS StaffScopes, TLC

CONSTANTS u1, u2, cA, cB, dA, dB, bA, bB, i1, i2

MCCollegeOf    == dA :> cA @@ dB :> cB
MCDepartmentOf == bA :> dA @@ bB :> dB

Assign(u, d, b) == [op |-> "assign", uid |-> u, target |-> u, college_id |-> CollegeOf[d],
                    department_id |-> d, batch_id |-> b, scope_id |-> None]
Remove(u, i) == [op |-> "remove", uid |-> u, target |-> u, college_id |-> None,
                 department_id |-> None, batch_id |-> None, scope_id |-> i]

\* Scopes for a batch and for a department, one whose batch is of another
\* department, one for another user, and DELETEs by the owner and by others.
AllJobs == {Assign(u1, dA, bA), Assign(u2, dB, None), Assign(u1, dA, bB),
            [Assign(u2, dA, None) EXCEPT !.target = u1],
            Remove(u1, i1), Remove(u2, i1), Remove(u1, i2)}

Symmetric == Permutations(Requests)
=============================================================================
