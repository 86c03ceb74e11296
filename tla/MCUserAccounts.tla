--------------------------- MODULE MCUserAccounts ---------------------------
(***************************************************************************)
(* Finite instances of UserAccounts: two users, two colleges with one      *)
(* department of one batch each, and small sets of requests, one set per   *)
(* question.  Labels are shared with identifiers' own names.               *)
(***************************************************************************)
EXTENDS UserAccounts, TLC

CONSTANTS u1, u2, cA, cB, dA, dB, bA, bB, csA, csB, b22, b23, e1, e2, kA

MCCodesOf      == [c \in Colleges |-> IF c = cA THEN Codes ELSE {}]
MCCollegeOf    == dA :> cA @@ dB :> cB
MCDepartmentOf == bA :> dA @@ bB :> dB
MCNameOf       == dA :> csA @@ dB :> csB
MCLabelOf      == bA :> b22 @@ bB :> b23
DistinctEmails == [u \in Users |-> IF u = u1 THEN e1 ELSE e2]
SharedEmail    == [u \in Users |-> e1]

\* Requests, written by what sets them apart.
Authenticated(u) ==
    [op |-> "me", uid |-> u, target |-> u, email |-> ClaimedEmail[u], role |-> None,
     college_id |-> None, department_id |-> None, batch_id |-> None,
     dept |-> None, batch |-> None, access_code |-> None]
SignIn(u, c) == [Authenticated(u) EXCEPT !.op = "signin", !.college_id = c]
RoleCode(u, role) == [Authenticated(u) EXCEPT !.op = "rolecode", !.role = role]
Save(u, role, c, name) ==
    [Authenticated(u) EXCEPT !.op = "save", !.role = role, !.college_id = c, !.dept = name]
Assign(u, b, code) ==
    [Authenticated(u) EXCEPT !.op = "assign", !.access_code = code, !.batch_id = b,
                             !.department_id = DepartmentOf[b],
                             !.college_id = CollegeOf[DepartmentOf[b]]]

\* Every endpoint, with bodies that fail each check: sign-ins, saves and
\* assignments of u1 overlap, one save takes the email of u2, who comes and goes.
EveryOpJobs ==
    {Authenticated(u2), SignIn(u1, cA), SignIn(u1, None), RoleCode(u1, "hod"),
     [Save(u1, "advisor", cB, csB) EXCEPT !.email = e2],
     [Save(u2, "student", None, csA) EXCEPT !.target = u1],
     Assign(u1, bA, kA), Assign(u1, bA, None), Assign(u1, bB, None),
     [Assign(u1, bB, None) EXCEPT !.batch_id = bA]}

\* One assignment, and a plain profile save with another department's name.
OutOfSyncJobs == {Assign(u1, bA, None), Save(u1, "student", None, csB)}

\* Two assignments at once.
DoubleSubmitJobs == {Assign(u1, bA, None), Assign(u1, bB, None)}

\* Two users whose tokens claim the same email.
SharedEmailJobs == {Authenticated(u1), Authenticated(u2)}

Symmetric == Permutations(Requests)
=============================================================================
