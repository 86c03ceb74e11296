---------------------------- MODULE StaffScopes ----------------------------
(***************************************************************************)
(* Additive staff scopes: the table user_scopes, POST /scopes/staff and    *)
(* DELETE /scopes/{scope_id}, while the role of a user changes under the   *)
(* requests (POST /user/save and POST /verify-role-code, modelled in       *)
(* UserAccounts).  Every user here has signed in.  The college access code *)
(* is modelled in UserAccounts; here its check may turn out either way.    *)
(*                                                                         *)
(* The role a request is judged by is the one its authentication loaded;   *)
(* the insert follows a call to Firestore and two SELECTs later.  A row is *)
(* found and deleted in two statements.                                    *)
(***************************************************************************)
CONSTANTS
    Requests,      \* slots for requests in progress: the bound on concurrency
    Users,
    Ids,           \* primary keys of user_scopes: the bound on rows ever inserted
    Colleges, Departments, Batches,
    CollegeOf,     \* departments.college_id
    DepartmentOf,  \* batches.department_id
    Jobs,          \* the requests that clients may send
    None

Roles == {"student", "advisor", "subjectTeacher", "hod"}

\* The roles that assign_staff_scope_endpoint admits.
Assigners == {"hod", "subjectTeacher", "advisor"}

Optional(S) == S \cup {None}

Row == [uid : Users, college_id : Colleges, department_id : Departments,
        batch_id : Optional(Batches)]

\* uid is the subject of the token, target the uid in the body; scope_id is
\* that of the path of a DELETE.
Job == [op : {"assign", "remove"}, uid : Users, target : Users,
        college_id : Optional(Colleges), department_id : Optional(Departments),
        batch_id : Optional(Batches), scope_id : Optional(Ids)]

ASSUME ScopesAssumption ==
    /\ CollegeOf \in [Departments -> Colleges]
    /\ DepartmentOf \in [Batches -> Departments]
    /\ Jobs \subseteq Job
    /\ \A j \in Jobs : j.op = "remove" => j.scope_id \in Ids
    /\ None \notin Colleges \cup Departments \cup Batches \cup Ids \cup Roles \cup Row \cup Job

VARIABLES
    role,       \* users.role
    scopes,     \* scopes[i]: the row of user_scopes with id i, or None
    issued,     \* history: the ids that rows have had, which uuid4 never repeats
    everStaff,  \* history: the users that have had a role of Assigners
    pc,         \* where the handler of each request is
    job,        \* the request it serves
    snap        \* the role its authentication loaded

vars == <<role, scopes, issued, everStaff, pc, job, snap>>

TypeOK ==
    /\ role \in [Users -> Roles]
    /\ scopes \in [Ids -> Optional(Row)]
    /\ issued \subseteq Ids
    /\ everStaff \subseteq Users
    /\ pc \in [Requests -> {"idle", "handler", "validate", "insert", "delete"}]
    /\ job \in [Requests -> Optional(Jobs)]
    /\ snap \in [Requests -> Optional(Roles)]
    /\ \A r \in Requests : pc[r] # "idle" => job[r] # None /\ snap[r] # None

Init ==
    /\ role \in [Users -> Roles]
    /\ scopes = [i \in Ids |-> None]
    /\ issued = {}
    /\ everStaff = {u \in Users : role[u] \in Assigners}
    /\ pc = [r \in Requests |-> "idle"]
    /\ job = [r \in Requests |-> None]
    /\ snap = [r \in Requests |-> None]

----------------------------------------------------------------------------

\* _validate_scope: a staff scope may be for a whole department.
ValidScope(j) ==
    /\ j.department_id # None
    /\ CollegeOf[j.department_id] = j.college_id
    /\ j.batch_id # None => DepartmentOf[j.batch_id] = j.department_id

Goto(r, label) == pc' = [pc EXCEPT ![r] = label]

Finish(r) ==
    /\ Goto(r, "idle")
    /\ job' = [job EXCEPT ![r] = None]
    /\ snap' = [snap EXCEPT ![r] = None]
    /\ UNCHANGED <<role, issued, everStaff>>

Handling(r, op) == pc[r] = "handler" /\ job[r].op = op

\* Mutant of Begin: the endpoint authenticates optionally.
BeginAnonymous(r) ==
    /\ pc[r] = "idle"
    /\ \E j \in Jobs : job' = [job EXCEPT ![r] = j]
    /\ Goto(r, "handler")
    /\ UNCHANGED <<role, scopes, issued, everStaff, snap>>

\* Authentication loads the user, role included.
Begin(r) ==
    /\ pc[r] = "idle"
    /\ \E j \in Jobs : /\ job' = [job EXCEPT ![r] = j]
                       /\ snap' = [snap EXCEPT ![r] = role[j.uid]]
    /\ Goto(r, "handler")
    /\ UNCHANGED <<role, scopes, issued, everStaff>>

\* Mutant of Admit: the role is not looked at.
AdmitAnyRole(r) ==
    /\ Handling(r, "assign")
    /\ job[r].target = job[r].uid
    /\ Goto(r, "validate")
    /\ UNCHANGED <<role, scopes, issued, everStaff, job, snap>>

\* The endpoint's own checks of the body and of the role.
Admit(r) ==
    /\ Handling(r, "assign")
    /\ UNCHANGED scopes
    /\ \/ /\ job[r].target # job[r].uid \/ snap[r] \notin Assigners
          /\ Finish(r)
       \/ /\ job[r].target = job[r].uid
          /\ snap[r] \in Assigners
          /\ Goto(r, "validate")
          /\ UNCHANGED <<role, issued, everStaff, job, snap>>

\* Access code, which may be refused, then department and batch.
Validate(r) ==
    /\ pc[r] = "validate"
    /\ UNCHANGED scopes
    /\ \/ Finish(r)
       \/ /\ ValidScope(job[r])
          /\ Goto(r, "insert")
          /\ UNCHANGED <<role, issued, everStaff, job, snap>>

\* INSERT and COMMIT, under a new id: a repeated request adds a second row.
Insert(r) ==
    /\ pc[r] = "insert"
    /\ \E i \in Ids \ issued :
         /\ issued' = issued \cup {i}
         /\ scopes' = [scopes EXCEPT ![i] = [uid |-> job[r].target,
                                             college_id |-> job[r].college_id,
                                             department_id |-> job[r].department_id,
                                             batch_id |-> job[r].batch_id]]
    /\ Goto(r, "idle")
    /\ job' = [job EXCEPT ![r] = None]
    /\ snap' = [snap EXCEPT ![r] = None]
    /\ UNCHANGED <<role, everStaff>>

\* Mutant of Find: the owner of the row is not compared.
FindAnyOwner(r) ==
    /\ Handling(r, "remove")
    /\ UNCHANGED scopes
    /\ \/ /\ scopes[job[r].scope_id] = None
          /\ Finish(r)
       \/ /\ scopes[job[r].scope_id] # None
          /\ Goto(r, "delete")
          /\ UNCHANGED <<role, issued, everStaff, job, snap>>

\* remove_staff_scope: the row must exist and be the caller's.
Find(r) ==
    LET row == scopes[job[r].scope_id] IN
    /\ Handling(r, "remove")
    /\ UNCHANGED scopes
    /\ \/ /\ ~(row # None /\ row.uid = job[r].uid)
          /\ Finish(r)
       \/ /\ row # None
          /\ row.uid = job[r].uid
          /\ Goto(r, "delete")
          /\ UNCHANGED <<role, issued, everStaff, job, snap>>

\* DELETE and COMMIT; a row that is gone by now is only a warning.
Delete(r) ==
    /\ pc[r] = "delete"
    /\ scopes' = [scopes EXCEPT ![job[r].scope_id] = None]
    /\ Finish(r)

\* The database, Firestore or the worker fails under the request.
Fail(r) ==
    /\ pc[r] # "idle"
    /\ Finish(r)
    /\ UNCHANGED scopes

\* A profile save or a role code gives u a role.
ChangeRole(u) ==
    /\ \E new \in Roles :
         /\ role' = [role EXCEPT ![u] = new]
         /\ everStaff' = IF new \in Assigners THEN everStaff \cup {u} ELSE everStaff
    /\ UNCHANGED <<scopes, issued, pc, job, snap>>

Next ==
    \/ \E r \in Requests : \/ Begin(r) \/ Admit(r) \/ Validate(r) \/ Insert(r)
                           \/ Find(r) \/ Delete(r) \/ Fail(r)
    \/ \E u \in Users : ChangeRole(u)

Spec == Init /\ [][Next]_vars

----------------------------------------------------------------------------

\* Every row names a department of its college and a batch of its department,
\* and belongs to a user that has been staff: a role lost between the check and
\* the insert does not let in a scope for someone who never was.
ScopesEarned ==
    \A i \in Ids : scopes[i] # None =>
        /\ scopes[i].college_id = CollegeOf[scopes[i].department_id]
        /\ \/ scopes[i].batch_id = None
           \/ scopes[i].department_id = DepartmentOf[scopes[i].batch_id]
        /\ scopes[i].uid \in everStaff

\* Staff scopes are additive: a row goes only by its owner's DELETE of that very
\* row, and never changes, even when two DELETEs of it overlap or other rows are
\* inserted between finding and deleting it.
RemovedByOwnerOnly ==
    [][\A i \in Ids : scopes[i] # None /\ scopes'[i] # scopes[i] =>
          /\ scopes'[i] = None
          /\ \E r \in Requests : /\ job[r] # None /\ job'[r] = None
                                 /\ job[r].op = "remove"
                                 /\ job[r].scope_id = i
                                 /\ job[r].uid = scopes[i].uid]_vars
=============================================================================
