---------------------------- MODULE UserAccounts ----------------------------
(***************************************************************************)
(* The users table and every request that writes the identity, role,       *)
(* profile or locked scope of a user: authentication with auto-creation,   *)
(* Google sign-in, profile save, role-code verification and student-scope  *)
(* assignment.  Requests run concurrently (asyncio tasks of two uvicorn    *)
(* workers); they meet only in the table.  Each await on the database or   *)
(* on Firestore ends an action, so everything another request can do       *)
(* between two awaits is explored.                                         *)
(*                                                                         *)
(* Rows of users, departments and batches are never deleted and rows of    *)
(* departments and batches never updated by any handler, so the catalogue  *)
(* of departments and batches is constant here.                            *)
(***************************************************************************)
EXTENDS OrmSession

CONSTANTS
    Requests,      \* slots for requests in progress: the bound on concurrency
    Users,         \* token subjects (uid)
    Colleges, Departments, Batches,
    Labels,        \* department names and batch labels
    Emails,
    Codes,         \* access codes
    CodesOf,       \* the codes that each college may come to require
    CollegeOf,     \* departments.college_id
    DepartmentOf,  \* batches.department_id
    NameOf,        \* departments.name
    LabelOf,       \* batches.label
    ClaimedEmail,  \* the email claim of the token of each subject
    Jobs,          \* the requests that clients may send
    None           \* Python's None: a NULL column, no row, an absent argument

Roles == {"student", "advisor", "subjectTeacher", "hod"}

\* me: any endpoint that authenticates and leaves the users table alone.
Ops == {"me", "signin", "save", "rolecode", "assign"}

Optional(S) == S \cup {None}

\* The mapped columns of users that the properties tell apart.
Row == [email : Emails, role : Roles,
        college_id : Optional(Colleges), department_id : Optional(Departments),
        batch_id : Optional(Batches), dept : Optional(Labels), batch : Optional(Labels)]

\* A request with its body.  uid is the subject of its token, target the uid in
\* the body.  For rolecode, role is the role the code stands for, None for an
\* unknown code.  For assign, None is an identifier that no row has.
Job == [op : Ops, uid : Users, target : Users, email : Emails, role : Optional(Roles),
        college_id : Optional(Colleges), department_id : Optional(Departments),
        batch_id : Optional(Batches), dept : Optional(Labels), batch : Optional(Labels),
        access_code : Optional(Codes)]

ASSUME CatalogueAssumption ==
    /\ CodesOf \in [Colleges -> SUBSET Codes]
    /\ CollegeOf \in [Departments -> Colleges]
    /\ DepartmentOf \in [Batches -> Departments]
    /\ NameOf \in [Departments -> Labels]
    /\ LabelOf \in [Batches -> Labels]
    /\ ClaimedEmail \in [Users -> Emails]

\* SaveUserRequest admits only a role of VALID_ROLES (auth_dto.py).
ASSUME JobsAssumption ==
    /\ Jobs \subseteq Job
    /\ \A j \in Jobs : j.op = "save" => j.role \in Roles

ASSUME NoneAssumption ==
    None \notin Users \cup Colleges \cup Departments \cup Batches \cup Labels \cup Codes
                 \cup Roles \cup Row \cup Job

VARIABLES
    rows,        \* rows[u]: the committed row of users with that primary key, or None
    accessCode,  \* accessCode[c]: accessCode of the Firestore document of college c
    everCode,    \* history: the values accessCode[c] has had
    pc,          \* where the handler of each request is
    job,         \* the request it serves
    snap         \* the attribute values its session loaded for the user, None if no row

vars == <<rows, accessCode, everCode, pc, job, snap>>

TypeOK ==
    /\ rows \in [Users -> Optional(Row)]
    /\ accessCode \in [Colleges -> Optional(Codes)]
    /\ everCode \in [Colleges -> SUBSET Optional(Codes)]
    /\ pc \in [Requests -> {"idle", "lookup", "recheck", "insert", "reload",
                            "handler", "code", "commit"}]
    /\ job \in [Requests -> Optional(Jobs)]
    /\ snap \in [Requests -> Optional(Row)]
    /\ \A r \in Requests : pc[r] # "idle" => job[r] # None

\* Any initial access code; no user has signed in yet.
Init ==
    /\ rows = [u \in Users |-> None]
    /\ accessCode \in [Colleges -> Optional(Codes)]
    /\ \A c \in Colleges : accessCode[c] \in Optional(CodesOf[c])
    /\ everCode = [c \in Colleges |-> {accessCode[c]}]
    /\ pc = [r \in Requests |-> "idle"]
    /\ job = [r \in Requests |-> None]
    /\ snap = [r \in Requests |-> None]

----------------------------------------------------------------------------

\* Mutant of NewRow: the role is not given.
NewRowWithoutRole(u) == [email |-> ClaimedEmail[u], role |-> None, college_id |-> None,
                         department_id |-> None, batch_id |-> None, dept |-> None,
                         batch |-> None]

\* The row a newly created user starts with.
NewRow(u) == [email |-> ClaimedEmail[u], role |-> "student", college_id |-> None,
              department_id |-> None, batch_id |-> None, dept |-> None, batch |-> None]

\* users.email is UNIQUE: e is held by a row other than u's.
EmailTaken(u, e) == \E v \in Users \ {u} : rows[v] # None /\ rows[v].email = e

\* Mutant of ValidScope: any batch of the catalogue will do.
ValidScopeAnyBatch(j) ==
    /\ j.department_id # None
    /\ CollegeOf[j.department_id] = j.college_id
    /\ j.batch_id # None

\* _validate_scope on an assignment request.
ValidScope(j) ==
    /\ j.department_id # None
    /\ CollegeOf[j.department_id] = j.college_id
    /\ j.batch_id # None
    /\ DepartmentOf[j.batch_id] = j.department_id

\* _validate_college_access_code: a college without document or code asks for none.
CodeAccepted(j) ==
    j.college_id # None => accessCode[j.college_id] \in {None, j.access_code}

Goto(r, label) == pc' = [pc EXCEPT ![r] = label]

\* The response leaves and get_db closes the session.
Finish(r) ==
    /\ Goto(r, "idle")
    /\ job' = [job EXCEPT ![r] = None]
    /\ snap' = [snap EXCEPT ![r] = None]
    /\ UNCHANGED <<accessCode, everCode>>

\* The session reads the user's row into its identity map.
Load(r) == snap' = [snap EXCEPT ![r] = rows[job[r].uid]]

\* commit() of the session of r with the user's attributes now object.  A flush
\* that breaks the uniqueness of email raises, and get_db rolls it back.
CommitUser(r, object) ==
    LET u   == job[r].uid
        new == Flush(rows[u], snap[r], object)
    IN rows' = IF EmailTaken(u, new.email) THEN rows ELSE [rows EXCEPT ![u] = new]

At(r, label) == pc[r] = label

\* r runs its endpoint's body, for the user its authentication produced.
InHandler(r, op) == At(r, "handler") /\ job[r].op = op /\ snap[r] # None

----------------------------------------------------------------------------
\* A request with a token that verifies arrives.
Begin(r) ==
    /\ At(r, "idle")
    /\ \E j \in Jobs : job' = [job EXCEPT ![r] = j]
    /\ Goto(r, "lookup")
    /\ UNCHANGED <<rows, accessCode, everCode, snap>>

\* First get_user.  A sign-in that finds the row answers at once: is_new is false.
Lookup(r) ==
    /\ At(r, "lookup")
    /\ UNCHANGED rows
    /\ \/ /\ rows[job[r].uid] = None
          /\ Goto(r, "recheck")
          /\ UNCHANGED <<accessCode, everCode, job, snap>>
       \/ /\ rows[job[r].uid] # None
          /\ job[r].op = "signin"
          /\ Finish(r)
       \/ /\ rows[job[r].uid] # None
          /\ job[r].op # "signin"
          /\ Load(r)
          /\ Goto(r, "handler")
          /\ UNCHANGED <<accessCode, everCode, job>>

\* get_or_create_user looks again before it inserts.
Recheck(r) ==
    /\ At(r, "recheck")
    /\ Load(r)
    /\ Goto(r, IF rows[job[r].uid] = None THEN "insert" ELSE "handler")
    /\ UNCHANGED <<rows, accessCode, everCode, job>>

\* Mutant of Insert: after the rollback the user is not read again.
InsertWithoutReload(r) ==
    /\ At(r, "insert")
    /\ LET u == job[r].uid
           conflict == rows[u] # None \/ EmailTaken(u, ClaimedEmail[u])
       IN /\ rows' = IF conflict THEN rows ELSE [rows EXCEPT ![u] = NewRow(u)]
          /\ Goto(r, IF conflict THEN "handler" ELSE "reload")
    /\ UNCHANGED <<accessCode, everCode, job, snap>>

\* INSERT and COMMIT.  A duplicate uid or a taken email is an IntegrityError,
\* which the handler takes for a concurrent creation of the same user.
Insert(r) ==
    /\ At(r, "insert")
    /\ LET u == job[r].uid IN
       rows' = IF rows[u] # None \/ EmailTaken(u, ClaimedEmail[u])
               THEN rows
               ELSE [rows EXCEPT ![u] = NewRow(u)]
    /\ Goto(r, "reload")
    /\ UNCHANGED <<accessCode, everCode, job, snap>>

\* refresh() after the commit, get_user() after the rollback: both read the row
\* as it is now, and the latter may find none.
Reload(r) ==
    /\ At(r, "reload")
    /\ Load(r)
    /\ Goto(r, "handler")
    /\ UNCHANGED <<rows, accessCode, everCode, job>>

\* Authentication produced None: the endpoint fails on it (or, for a role code,
\* answers as to an anonymous caller).
NoUser(r) ==
    /\ At(r, "handler")
    /\ snap[r] = None
    /\ Finish(r)
    /\ UNCHANGED rows

\* An endpoint that needs the user but does not write it.
Me(r) ==
    /\ InHandler(r, "me")
    /\ Finish(r)
    /\ UNCHANGED rows

\* The end of get_or_create_google_user: stamp the college of the sign-in request.
StampCollege(r) ==
    /\ InHandler(r, "signin")
    /\ CommitUser(r, [snap[r] EXCEPT !.college_id = job[r].college_id])
    /\ Finish(r)

\* A body that names another user is refused.
Forbid(r) ==
    /\ InHandler(r, "save") \/ InHandler(r, "assign")
    /\ job[r].target # job[r].uid
    /\ Finish(r)
    /\ UNCHANGED rows

\* save_user.  Its own SELECT returns the object that authentication loaded.
SaveUser(r) ==
    LET j == job[r] IN
    /\ InHandler(r, "save")
    /\ j.target = j.uid
    /\ CommitUser(r, [snap[r] EXCEPT
                        !.email = j.email, !.role = j.role, !.dept = j.dept, !.batch = j.batch,
                        !.college_id = IF j.college_id = None THEN @ ELSE j.college_id])
    /\ Finish(r)

\* verify_role_invite_code: a direct UPDATE of the role column, none for an unknown code.
VerifyRoleCode(r) ==
    LET j == job[r] IN
    /\ InHandler(r, "rolecode")
    /\ rows' = IF j.role = None THEN rows ELSE [rows EXCEPT ![j.uid].role = j.role]
    /\ Finish(r)

\* Mutant of AssignCheck: no immutability check.
AssignCheckWithoutLock(r) ==
    /\ InHandler(r, "assign")
    /\ job[r].target = job[r].uid
    /\ Goto(r, "code")
    /\ UNCHANGED <<rows, accessCode, everCode, job, snap>>

\* assign_student_scope: the immutability check, on the attributes loaded during
\* authentication (its own SELECT does not refresh them).
AssignCheck(r) ==
    /\ InHandler(r, "assign")
    /\ job[r].target = job[r].uid
    /\ UNCHANGED rows
    /\ \/ /\ snap[r].department_id # None
          /\ Finish(r)
       \/ /\ snap[r].department_id = None
          /\ Goto(r, "code")
          /\ UNCHANGED <<accessCode, everCode, job, snap>>

\* The access code, read from Firestore in a thread, then department and batch.
AssignValidate(r) ==
    /\ At(r, "code")
    /\ UNCHANGED rows
    /\ \/ /\ ~(CodeAccepted(job[r]) /\ ValidScope(job[r]))
          /\ Finish(r)
       \/ /\ CodeAccepted(job[r])
          /\ ValidScope(job[r])
          /\ Goto(r, "commit")
          /\ UNCHANGED <<accessCode, everCode, job, snap>>

\* Mutant of AssignCommit: a college stamped at sign-in is not replaced, and
\* without one none is written.
AssignCommitWithoutCollege(r) ==
    LET j == job[r] IN
    /\ At(r, "commit")
    /\ CommitUser(r, [snap[r] EXCEPT
                        !.department_id = j.department_id, !.batch_id = j.batch_id,
                        !.dept = NameOf[j.department_id], !.batch = LabelOf[j.batch_id]])
    /\ Finish(r)

\* The scope and its display strings, in one commit.
AssignCommit(r) ==
    LET j == job[r] IN
    /\ At(r, "commit")
    /\ CommitUser(r, [snap[r] EXCEPT
                        !.college_id = j.college_id, !.department_id = j.department_id,
                        !.batch_id = j.batch_id, !.dept = NameOf[j.department_id],
                        !.batch = LabelOf[j.batch_id]])
    /\ Finish(r)

\* The database, Firestore or the worker fails under the request: what it has
\* not committed is rolled back, what it has committed stays.
Fail(r) ==
    /\ ~At(r, "idle")
    /\ Finish(r)
    /\ UNCHANGED rows

\* A college changes, sets or drops its access code in Firestore.
ChangeAccessCode(c) ==
    /\ \E k \in Optional(CodesOf[c]) :
         /\ accessCode' = [accessCode EXCEPT ![c] = k]
         /\ everCode' = [everCode EXCEPT ![c] = @ \cup {k}]
    /\ UNCHANGED <<rows, pc, job, snap>>

Authenticate(r) == Lookup(r) \/ Recheck(r) \/ Insert(r) \/ Reload(r) \/ NoUser(r)

Handle(r) == Me(r) \/ StampCollege(r) \/ Forbid(r) \/ SaveUser(r) \/ VerifyRoleCode(r)
               \/ AssignCheck(r) \/ AssignValidate(r) \/ AssignCommit(r)

Next == \/ \E r \in Requests : Begin(r) \/ Authenticate(r) \/ Handle(r) \/ Fail(r)
        \/ \E c \in Colleges : ChangeAccessCode(c)

Spec == Init /\ [][Next]_vars

(***************************************************************************)
(* Properties.                                                             *)
(***************************************************************************)

\* The student-scope columns of u have been assigned.
Assigned(u) == rows[u] # None /\ rows[u].department_id # None

Scope(u) == <<rows[u].department_id, rows[u].batch_id>>

\* get_user_scopes for the roles student and advisor: GET /scopes/me.
LockedScopes(u) ==
    IF rows[u].college_id # None /\ rows[u].department_id # None /\ rows[u].batch_id # None
    THEN {<<rows[u].college_id, rows[u].department_id, rows[u].batch_id>>}
    ELSE {}

\* A batch with the department and the college it belongs to.
CatalogueScopes == {<<CollegeOf[DepartmentOf[b]], DepartmentOf[b], b>> : b \in Batches}

\* j is an assignment for u, by u, to a batch of the catalogue, with an access
\* code its college has had.
Admissible(j, u) ==
    /\ j.op = "assign" /\ j.uid = u /\ j.target = u
    /\ <<j.college_id, j.department_id, j.batch_id>> \in CatalogueScopes
    /\ everCode[j.college_id] \cap {None, j.access_code} # {}

\* Department and batch of a user, whatever overlapping requests flushed, are
\* those of one admissible assignment request of that very user: never a mix of
\* two requests, never set by a profile save or for another user, never without
\* a code (assign_student_scope and the partial UPDATE of its commit).
ScopeFromOneRequest ==
    \A u \in Users : rows[u] # None /\ Scope(u) # <<None, None>> =>
        \E j \in Jobs : Admissible(j, u) /\ Scope(u) = <<j.department_id, j.batch_id>>

\* No step takes an assigned scope away again: requests that loaded the user
\* before the assignment and flush later leave the scope columns alone.
ScopeKept == [][\A u \in Users : Assigned(u) => Assigned(u)']_vars

\* An assigned scope is moved only by an assignment whose authentication read
\* the user before the first assignment committed: the check in
\* assign_student_scope stops every later request.
ScopeMovesOnlyByOverlap ==
    [][\A u \in Users : Assigned(u) /\ Scope(u)' # Scope(u) =>
          \E r \in Requests : /\ pc[r] = "commit" /\ pc'[r] = "idle"
                              /\ job[r].uid = u
                              /\ snap[r].department_id = None]_vars

\* "Student scope is immutable once assigned": the handler's own words.
ScopeImmutable == [][\A u \in Users : Assigned(u) => Scope(u)' = Scope(u)]_vars

\* "Denormalized display strings, kept in sync with department_id/batch_id"
\* (user_db.py): what the row of an assigned user shows is what the catalogue says.
LabelsInSync ==
    \A u \in Users : Assigned(u) => /\ rows[u].dept = NameOf[rows[u].department_id]
                                   /\ rows[u].batch = LabelOf[rows[u].batch_id]

\* A student whose scope is assigned (and who is refused another one) sees it in
\* GET /scopes/me, unless a first sign-in that names no college erases the
\* college: by its stamp, or before the commit of an assignment that had loaded
\* that very college and so does not write it.
ScopeUnlistedOnlyByStamp ==
    [][\A u \in Users : Assigned(u)' /\ LockedScopes(u)' = {} =>
          \/ Assigned(u) /\ LockedScopes(u) = {}
          \/ \E r \in Requests : /\ pc[r] # "idle" /\ pc'[r] = "idle"
                                 /\ job[r].uid = u
                                 /\ \/ job[r].op = "signin" /\ job[r].college_id = None
                                    \/ /\ job[r].op = "assign"
                                       /\ snap[r].college_id = job[r].college_id
                                       /\ rows[u].college_id = None]_vars

\* The emails that may come to stand in the row of u: of its token, and of the
\* profiles it saves.
OwnEmails(u) ==
    {ClaimedEmail[u]}
        \cup {j.email : j \in {k \in Jobs : k.op = "save" /\ k.uid = u /\ k.target = u}}

\* The email that u would be created with may come to stand in another's row.
Contested(u) == \E v \in Users \ {u} : ClaimedEmail[u] \in OwnEmails(v)

\* However creations, profile saves and rollbacks interleave, authentication and
\* sign-in produce a user unless another user can hold the email: get_or_create_user
\* recovers from losing the race for the uid, and only from that.
ResolvedUnlessContested ==
    \A r \in Requests : pc[r] = "handler" /\ snap[r] = None => Contested(job[r].uid)

\* Authentication and sign-in produce a user: an IntegrityError in
\* get_or_create_user means that another request created the same user.
UserResolved == \A r \in Requests : pc[r] = "handler" => snap[r] # None

(***************************************************************************)
(* Refinement.                                                             *)
(***************************************************************************)

\* The user for whom r may still set the scope: it authenticated for an
\* assignment, found no scope, and has neither committed nor been refused.
ClaimOf(r) ==
    IF /\ pc[r] \in {"handler", "code", "commit"}
       /\ job[r].op = "assign"
       /\ snap[r] # None
       /\ snap[r].department_id = None
    THEN job[r].uid
    ELSE None

Register == INSTANCE ScopeRegister
                WITH Clients <- Requests,
                     Scopes <- {<<DepartmentOf[b], b>> : b \in Batches},
                     scope <- [u \in Users |-> IF Assigned(u) THEN Scope(u) ELSE None],
                     claim <- [r \in Requests |-> ClaimOf(r)]

\* Whatever requests of whichever users overlap, the scope columns behave as the
\* register of assign_student_scope: set only by a request that found them
\* empty, to one batch of the catalogue with its department, and never emptied.
ImplementsRegister == Register!Spec
=============================================================================
