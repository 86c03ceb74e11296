------------------------- MODULE UserAccountsProofs -------------------------
(***************************************************************************)
(* Proofs about UserAccounts, for any number of requests, users and        *)
(* colleges and for any set of request bodies.                             *)
(*                                                                         *)
(* The argument rests on the partial UPDATE of a commit: a handler whose   *)
(* object leaves the scope columns as they were loaded cannot write them,  *)
(* however stale what it loaded has become (lemma ScopeStep).  The         *)
(* inductive invariant IInv adds to the properties where a request can be  *)
(* with which session contents, and that a loaded row has its department   *)
(* and its batch together or neither.                                      *)
(***************************************************************************)
EXTENDS UserAccounts, TLAPS

LEMMA FlushRow ==
    ASSUME NEW row \in Row, NEW loaded \in Row, NEW object \in Row
    PROVE  Flush(row, loaded, object) =
             [email |-> IF object.email # loaded.email THEN object.email ELSE row.email,
              role |-> IF object.role # loaded.role THEN object.role ELSE row.role,
              college_id |-> IF object.college_id # loaded.college_id
                             THEN object.college_id ELSE row.college_id,
              department_id |-> IF object.department_id # loaded.department_id
                                THEN object.department_id ELSE row.department_id,
              batch_id |-> IF object.batch_id # loaded.batch_id
                           THEN object.batch_id ELSE row.batch_id,
              dept |-> IF object.dept # loaded.dept THEN object.dept ELSE row.dept,
              batch |-> IF object.batch # loaded.batch THEN object.batch ELSE row.batch]
<1> DEFINE Columns == {"email", "role", "college_id", "department_id", "batch_id", "dept", "batch"}
<1>1. DOMAIN row = Columns /\ DOMAIN loaded = Columns
  BY DEF Row
<1> QED  BY <1>1 DEF Flush, Dirty

LEMMA FlushInRow ==
    ASSUME NEW row \in Row, NEW loaded \in Row, NEW object \in Row
    PROVE  Flush(row, loaded, object) \in Row
<1>1. Flush(row, loaded, object) =
             [email |-> IF object.email # loaded.email THEN object.email ELSE row.email,
              role |-> IF object.role # loaded.role THEN object.role ELSE row.role,
              college_id |-> IF object.college_id # loaded.college_id
                             THEN object.college_id ELSE row.college_id,
              department_id |-> IF object.department_id # loaded.department_id
                                THEN object.department_id ELSE row.department_id,
              batch_id |-> IF object.batch_id # loaded.batch_id
                           THEN object.batch_id ELSE row.batch_id,
              dept |-> IF object.dept # loaded.dept THEN object.dept ELSE row.dept,
              batch |-> IF object.batch # loaded.batch THEN object.batch ELSE row.batch]
  BY FlushRow
<1> QED  BY <1>1 DEF Row

(***************************************************************************)
(* The inductive invariant.                                                *)
(***************************************************************************)

\* What the session of r holds, by where r is.
SessionOK(r) ==
    /\ pc[r] = "idle" => snap[r] = None
    /\ snap[r] # None => /\ job[r] # None
                         /\ rows[job[r].uid] # None
                         /\ snap[r].department_id = None <=> snap[r].batch_id = None
    /\ pc[r] \in {"code", "commit"} => /\ snap[r] # None
                                       /\ snap[r].department_id = None
                                       /\ job[r].op = "assign"
                                       /\ job[r].target = job[r].uid
    /\ pc[r] = "commit" => Admissible(job[r], job[r].uid)

IInv ==
    /\ TypeOK
    /\ \A c \in Colleges : accessCode[c] \in everCode[c]
    /\ \A r \in Requests : SessionOK(r)
    /\ ScopeFromOneRequest

(***************************************************************************)
(* Steps that leave the types alone.                                       *)
(***************************************************************************)

LEMMA JobType ==
    ASSUME IInv, NEW r \in Requests, job[r] # None
    PROVE  /\ job[r] \in Jobs /\ job[r] \in Job
           /\ job[r].uid \in Users
           /\ rows[job[r].uid] \in Optional(Row)
           /\ snap[r] \in Optional(Row)
<1>1. job[r] \in Jobs
  BY DEF IInv, TypeOK, Optional
<1>2. job[r] \in Job
  BY <1>1, JobsAssumption
<1>3. job[r].uid \in Users
  BY <1>2 DEF Job
<1> QED  BY <1>1, <1>2, <1>3 DEF IInv, TypeOK

LEMMA Holding ==
    ASSUME IInv, NEW r \in Requests, snap[r] # None
    PROVE  /\ job[r] # None
           /\ snap[r] \in Row
           /\ rows[job[r].uid] \in Row
<1>1. job[r] # None /\ rows[job[r].uid] # None
  BY DEF IInv, SessionOK
<1> QED  BY <1>1, JobType DEF Optional

LEMMA FinishType ==
    ASSUME IInv, NEW r \in Requests, Finish(r), rows' \in [Users -> Optional(Row)]
    PROVE  TypeOK'
BY DEF Finish, Goto, IInv, TypeOK, Optional

LEMMA CommitUserStep ==
    ASSUME IInv, NEW r \in Requests, snap[r] # None, NEW object \in Row, CommitUser(r, object)
    PROVE  /\ rows' \in [Users -> Optional(Row)]
           /\ \A v \in Users : v # job[r].uid => rows'[v] = rows[v]
           /\ \/ rows'[job[r].uid] = rows[job[r].uid]
              \/ rows'[job[r].uid] = Flush(rows[job[r].uid], snap[r], object)
<1> DEFINE u == job[r].uid
           new == Flush(rows[u], snap[r], object)
<1>1. u \in Users /\ rows[u] \in Row /\ snap[r] \in Row
  BY Holding, JobType
<1>2. new \in Row
  BY <1>1, FlushInRow
<1>3. rows' = IF EmailTaken(u, new.email) THEN rows ELSE [rows EXCEPT ![u] = new]
  BY DEF CommitUser
<1>4. rows \in [Users -> Optional(Row)]
  BY DEF IInv, TypeOK
<1>5. CASE rows' = rows
  BY <1>4, <1>5
<1>6. CASE rows' = [rows EXCEPT ![u] = new]
  <2> HIDE DEF new
  <2>1. new \in Optional(Row)
    BY <1>2 DEF Optional
  <2>2. rows' \in [Users -> Optional(Row)]
    BY <1>4, <1>6, <2>1
  <2>3. rows'[u] = new /\ \A v \in Users : v # u => rows'[v] = rows[v]
    BY <1>1, <1>4, <1>6
  <2> QED  BY <2>2, <2>3 DEF new
<1> QED  BY <1>3, <1>5, <1>6

\* The objects that the three handlers flush.
LEMMA StampedInRow ==
    ASSUME IInv, NEW r \in Requests, snap[r] # None
    PROVE  [snap[r] EXCEPT !.college_id = job[r].college_id] \in Row
<1>1. snap[r] \in Row /\ job[r].college_id \in Optional(Colleges)
  BY Holding, JobType DEF Job
<1> QED  BY <1>1 DEF Row

LEMMA SavedInRow ==
    ASSUME IInv, NEW r \in Requests, InHandler(r, "save")
    PROVE  [snap[r] EXCEPT
              !.email = job[r].email, !.role = job[r].role, !.dept = job[r].dept,
              !.batch = job[r].batch,
              !.college_id = IF job[r].college_id = None THEN @ ELSE job[r].college_id] \in Row
<1>1. /\ snap[r] \in Row /\ job[r].email \in Emails
      /\ job[r].dept \in Optional(Labels) /\ job[r].batch \in Optional(Labels)
      /\ job[r].college_id \in Optional(Colleges)
  BY Holding, JobType DEF Job, InHandler
<1>2. job[r].role \in Roles
  BY Holding, JobType, JobsAssumption DEF InHandler
<1> QED  BY <1>1, <1>2 DEF Row

LEMMA ScopeOfAdmissible ==
    ASSUME NEW j \in Job, NEW u \in Users, Admissible(j, u)
    PROVE  /\ j.department_id \in Departments /\ j.batch_id \in Batches
           /\ j.department_id # None /\ j.batch_id # None
           /\ j.college_id \in Colleges
           /\ DepartmentOf[j.batch_id] = j.department_id
           /\ CollegeOf[j.department_id] = j.college_id
<1>1. PICK b \in Batches : /\ j.batch_id = b
                           /\ j.department_id = DepartmentOf[b]
                           /\ j.college_id = CollegeOf[DepartmentOf[b]]
  BY DEF Admissible, CatalogueScopes
<1>2. j.department_id \in Departments /\ j.college_id \in Colleges
  BY <1>1, CatalogueAssumption
<1> QED  BY <1>1, <1>2, NoneAssumption

LEMMA AssignedInRow ==
    ASSUME IInv, NEW r \in Requests, pc[r] = "commit"
    PROVE  [snap[r] EXCEPT
              !.college_id = job[r].college_id, !.department_id = job[r].department_id,
              !.batch_id = job[r].batch_id, !.dept = NameOf[job[r].department_id],
              !.batch = LabelOf[job[r].batch_id]] \in Row
<1>1. snap[r] # None /\ Admissible(job[r], job[r].uid)
  BY DEF IInv, SessionOK
<1>2. snap[r] \in Row /\ job[r] \in Job /\ job[r].uid \in Users
  BY <1>1, Holding, JobType
<1>3. /\ job[r].department_id \in Departments /\ job[r].batch_id \in Batches
      /\ job[r].college_id \in Colleges
  BY <1>1, <1>2, ScopeOfAdmissible
<1>4. NameOf[job[r].department_id] \in Labels /\ LabelOf[job[r].batch_id] \in Labels
  BY <1>3, CatalogueAssumption
<1> QED  BY <1>2, <1>3, <1>4 DEF Row, Optional

(***************************************************************************)
(* What one step can do to the rows.                                       *)
(***************************************************************************)

\* The scope columns of u are written by the assignment of some request.
AssignedBy(r, u) ==
    /\ pc[r] = "commit" /\ pc'[r] = "idle"
    /\ job[r].uid = u
    /\ rows'[u].department_id = job[r].department_id
    /\ rows'[u].batch_id = job[r].batch_id

SameScope(u) ==
    /\ rows'[u].department_id = rows[u].department_id
    /\ rows'[u].batch_id = rows[u].batch_id

\* A row appears without scope, never disappears, and its scope columns change
\* only in the commit of an assignment.
RowStep(u) ==
    /\ rows[u] = None /\ rows'[u] # None =>
          rows'[u].department_id = None /\ rows'[u].batch_id = None
    /\ rows[u] # None => /\ rows'[u] # None
                         /\ SameScope(u) \/ \E r \in Requests : AssignedBy(r, u)

LEMMA UnchangedRows ==
    ASSUME UNCHANGED rows, NEW u \in Users
    PROVE  RowStep(u)
BY DEF RowStep, SameScope

LEMMA RowNotNone == \A row \in Row : row # None
BY NoneAssumption

\* A flush that leaves department and batch as loaded leaves them as stored.
LEMMA HarmlessFlush ==
    ASSUME NEW row \in Row, NEW loaded \in Row, NEW object \in Row,
           object.department_id = loaded.department_id,
           object.batch_id = loaded.batch_id
    PROVE  /\ Flush(row, loaded, object).department_id = row.department_id
           /\ Flush(row, loaded, object).batch_id = row.batch_id
BY FlushRow

LEMMA HarmlessCommit ==
    ASSUME IInv, NEW r \in Requests, snap[r] # None, NEW object \in Row,
           CommitUser(r, object),
           object.department_id = snap[r].department_id,
           object.batch_id = snap[r].batch_id,
           NEW u \in Users
    PROVE  RowStep(u)
<1>1. /\ \A v \in Users : v # job[r].uid => rows'[v] = rows[v]
      /\ \/ rows'[job[r].uid] = rows[job[r].uid]
         \/ rows'[job[r].uid] = Flush(rows[job[r].uid], snap[r], object)
  BY CommitUserStep
<1>2. rows[job[r].uid] \in Row /\ snap[r] \in Row
  BY Holding
<1>3. CASE rows'[u] = rows[u]
  BY <1>3 DEF RowStep, SameScope
<1>4. CASE u = job[r].uid /\ rows'[u] = Flush(rows[u], snap[r], object)
  <2>1. rows'[u] # None
    BY <1>2, <1>4, FlushInRow, RowNotNone
  <2>2. SameScope(u)
    BY <1>2, <1>4, HarmlessFlush DEF SameScope
  <2>3. rows[u] # None
    BY <1>2, <1>4, RowNotNone
  <2> QED  BY <2>1, <2>2, <2>3 DEF RowStep
<1> QED  BY <1>1, <1>3, <1>4

LEMMA AssignCommitStep ==
    ASSUME IInv, NEW r \in Requests, AssignCommit(r), NEW u \in Users
    PROVE  RowStep(u)
<1> DEFINE j == job[r]
           object == [snap[r] EXCEPT
                        !.college_id = j.college_id, !.department_id = j.department_id,
                        !.batch_id = j.batch_id, !.dept = NameOf[j.department_id],
                        !.batch = LabelOf[j.batch_id]]
<1>1. /\ pc[r] = "commit" /\ CommitUser(r, object) /\ pc'[r] = "idle"
      /\ snap[r] # None /\ snap[r].department_id = None /\ snap[r].batch_id = None
      /\ Admissible(j, j.uid)
  BY DEF AssignCommit, At, Finish, Goto, IInv, TypeOK, SessionOK
<1>2. object \in Row
  BY <1>1, AssignedInRow
<1>3. rows[j.uid] \in Row /\ snap[r] \in Row /\ j \in Job /\ j.uid \in Users
  BY <1>1, Holding, JobType
<1>4. j.department_id # None /\ j.batch_id # None
  BY <1>1, <1>3, ScopeOfAdmissible
<1>5. object.department_id = j.department_id /\ object.batch_id = j.batch_id
  BY <1>3 DEF Row
<1> HIDE DEF object
<1>6. CASE rows'[u] = rows[u]
  BY <1>6 DEF RowStep, SameScope
<1>7. CASE u = j.uid /\ rows'[u] = Flush(rows[u], snap[r], object)
  <2>1. rows'[u] # None /\ rows[u] # None
    BY <1>2, <1>3, <1>7, FlushInRow, RowNotNone
  <2>2. /\ Flush(rows[u], snap[r], object).department_id = j.department_id
        /\ Flush(rows[u], snap[r], object).batch_id = j.batch_id
    BY <1>1, <1>2, <1>3, <1>4, <1>5, <1>7, FlushRow
  <2>3. AssignedBy(r, u)
    BY <1>1, <1>7, <2>2 DEF AssignedBy
  <2> QED  BY <2>1, <2>3 DEF RowStep
<1>8. /\ \A v \in Users : v # j.uid => rows'[v] = rows[v]
      /\ \/ rows'[j.uid] = rows[j.uid]
         \/ rows'[j.uid] = Flush(rows[j.uid], snap[r], object)
  BY <1>1, <1>2, CommitUserStep
<1> QED  BY <1>6, <1>7, <1>8

LEMMA InsertStep ==
    ASSUME IInv, NEW r \in Requests, Insert(r), NEW u \in Users
    PROVE  RowStep(u)
<1>1. rows \in [Users -> Optional(Row)] /\ job[r] # None
  BY DEF IInv, TypeOK, Insert, At
<1>2. job[r].uid \in Users
  BY <1>1, JobType
<1>3. CASE rows' = rows
  BY <1>3, UnchangedRows
<1>4. CASE rows' = [rows EXCEPT ![job[r].uid] = NewRow(job[r].uid)] /\ rows[job[r].uid] = None
  <2>1. CASE u = job[r].uid
    <3>1. rows'[u] = NewRow(u)
      BY <1>1, <1>2, <1>4, <2>1
    <3> QED  BY <1>4, <2>1, <3>1 DEF RowStep, NewRow
  <2>2. CASE u # job[r].uid
    BY <1>1, <1>4, <2>2 DEF RowStep, SameScope
  <2> QED  BY <2>1, <2>2
<1> QED  BY <1>3, <1>4 DEF Insert

LEMMA RoleCodeStep ==
    ASSUME IInv, NEW r \in Requests, VerifyRoleCode(r), NEW u \in Users
    PROVE  RowStep(u)
<1>1. rows \in [Users -> Optional(Row)] /\ snap[r] # None
  BY DEF IInv, TypeOK, VerifyRoleCode, InHandler
<1>2. rows[job[r].uid] \in Row /\ job[r].uid \in Users
  BY <1>1, Holding, JobType
<1>3. CASE rows' = rows
  BY <1>3, UnchangedRows
<1>4. CASE rows' = [rows EXCEPT ![job[r].uid].role = job[r].role]
  <2>1. CASE u = job[r].uid
    <3>1. rows'[u] = [rows[u] EXCEPT !.role = job[r].role]
      BY <1>1, <1>2, <1>4, <2>1
    <3>2. rows'[u] # None
      <4>1. job[r].role \in Optional(Roles)
        BY <1>1, Holding, JobType DEF Job
      <4>2. CASE job[r].role \in Roles
        BY <1>2, <2>1, <3>1, <4>2, RowNotNone DEF Row
      <4>3. CASE job[r].role = None
        BY <1>2, <2>1, <3>1, <4>3, <1>3, RowNotNone DEF VerifyRoleCode
      <4> QED  BY <4>1, <4>2, <4>3 DEF Optional
    <3>3. SameScope(u) /\ rows[u] # None
      BY <1>2, <2>1, <3>1, RowNotNone DEF SameScope, Row
    <3> QED  BY <3>2, <3>3 DEF RowStep
  <2>2. CASE u # job[r].uid
    BY <1>1, <1>4, <2>2 DEF RowStep, SameScope
  <2> QED  BY <2>1, <2>2
<1> QED  BY <1>3, <1>4 DEF VerifyRoleCode

LEMMA ScopeStep ==
    ASSUME IInv, [Next]_vars, NEW u \in Users
    PROVE  RowStep(u)
<1>1. CASE UNCHANGED rows
  BY <1>1, UnchangedRows
<1>2. ASSUME NEW r \in Requests, StampCollege(r)
      PROVE  RowStep(u)
  <2> DEFINE object == [snap[r] EXCEPT !.college_id = job[r].college_id]
  <2>1. snap[r] # None /\ CommitUser(r, object)
    BY <1>2 DEF StampCollege, InHandler
  <2>2. object \in Row /\ snap[r] \in Row
    BY <2>1, StampedInRow, Holding
  <2>3. object.department_id = snap[r].department_id /\ object.batch_id = snap[r].batch_id
    BY <2>2 DEF Row
  <2> QED  BY <2>1, <2>2, <2>3, HarmlessCommit
<1>3. ASSUME NEW r \in Requests, SaveUser(r)
      PROVE  RowStep(u)
  <2> DEFINE object ==
        [snap[r] EXCEPT
            !.email = job[r].email, !.role = job[r].role, !.dept = job[r].dept,
            !.batch = job[r].batch,
            !.college_id = IF job[r].college_id = None THEN @ ELSE job[r].college_id]
  <2>1. snap[r] # None /\ InHandler(r, "save") /\ CommitUser(r, object)
    BY <1>3 DEF SaveUser, InHandler
  <2>2. object \in Row /\ snap[r] \in Row
    BY <2>1, SavedInRow, Holding
  <2>3. object.department_id = snap[r].department_id /\ object.batch_id = snap[r].batch_id
    BY <2>2 DEF Row
  <2> QED  BY <2>1, <2>2, <2>3, HarmlessCommit
<1>4. ASSUME NEW r \in Requests, Insert(r) \/ VerifyRoleCode(r) \/ AssignCommit(r)
      PROVE  RowStep(u)
  BY <1>4, InsertStep, RoleCodeStep, AssignCommitStep
<1>5. ASSUME NEW r \in Requests,
             \/ Begin(r) \/ Lookup(r) \/ Recheck(r) \/ Reload(r) \/ NoUser(r)
             \/ Me(r) \/ Forbid(r) \/ AssignCheck(r) \/ AssignValidate(r) \/ Fail(r)
      PROVE  UNCHANGED rows
  BY <1>5 DEF Begin, Lookup, Recheck, Reload, NoUser, Me, Forbid, AssignCheck,
              AssignValidate, Fail
<1>6. ASSUME NEW c \in Colleges, ChangeAccessCode(c)
      PROVE  UNCHANGED rows
  BY <1>6 DEF ChangeAccessCode
<1>7. CASE UNCHANGED vars
  BY <1>1, <1>7 DEF vars
<1> QED  BY <1>1, <1>2, <1>3, <1>4, <1>5, <1>6, <1>7 DEF Next, Authenticate, Handle

(***************************************************************************)
(* The invariant is preserved.                                             *)
(***************************************************************************)

LEMMA TypeStep ==
    ASSUME IInv, [Next]_vars
    PROVE  TypeOK'
<1> USE DEF Goto, At
<1>1. TypeOK
  BY DEF IInv
<1>2. ASSUME NEW r \in Requests, Begin(r)
      PROVE  TypeOK'
  <2>1. PICK j \in Jobs : job' = [job EXCEPT ![r] = j]
    BY <1>2 DEF Begin
  <2>2. j # None
    BY JobsAssumption, NoneAssumption
  <2> QED  BY <1>1, <1>2, <2>1, <2>2 DEF Begin, TypeOK, Optional
<1>3. ASSUME NEW r \in Requests, Lookup(r)
      PROVE  TypeOK'
  <2>1. CASE Finish(r) /\ UNCHANGED rows
    BY <1>1, <2>1, FinishType DEF TypeOK
  <2>2. CASE ~Finish(r)
    <3>1. job[r].uid \in Users
      BY <1>1, <1>3, JobType DEF Lookup, TypeOK
    <3> QED  BY <1>1, <1>3, <2>2, <3>1 DEF Lookup, Load, TypeOK
  <2> QED  BY <1>3, <2>1, <2>2 DEF Lookup
<1>4. ASSUME NEW r \in Requests, Recheck(r) \/ Reload(r)
      PROVE  TypeOK'
  <2>1. job[r].uid \in Users
    BY <1>1, <1>4, JobType DEF Recheck, Reload, TypeOK
  <2> QED  BY <1>1, <1>4, <2>1 DEF Recheck, Reload, Load, TypeOK
<1>5. ASSUME NEW r \in Requests, Insert(r)
      PROVE  TypeOK'
  <2>1. job[r].uid \in Users
    BY <1>1, <1>5, JobType DEF Insert, TypeOK
  <2>2. NewRow(job[r].uid) \in Row
    BY <2>1, CatalogueAssumption DEF NewRow, Row, Roles, Optional
  <2>3. rows' \in [Users -> Optional(Row)]
    BY <1>1, <1>5, <2>1, <2>2 DEF Insert, TypeOK, Optional
  <2> QED  BY <1>1, <1>5, <2>3 DEF Insert, TypeOK
<1>6. ASSUME NEW r \in Requests,
             NoUser(r) \/ Me(r) \/ Forbid(r) \/ Fail(r)
      PROVE  TypeOK'
  BY <1>1, <1>6, FinishType DEF NoUser, Me, Forbid, Fail, TypeOK
<1>7. ASSUME NEW r \in Requests, StampCollege(r)
      PROVE  TypeOK'
  <2>1. snap[r] # None /\ CommitUser(r, [snap[r] EXCEPT !.college_id = job[r].college_id])
    BY <1>7 DEF StampCollege, InHandler
  <2>2. rows' \in [Users -> Optional(Row)]
    BY <2>1, StampedInRow, CommitUserStep
  <2> QED  BY <1>7, <2>2, FinishType DEF StampCollege
<1>8. ASSUME NEW r \in Requests, SaveUser(r)
      PROVE  TypeOK'
  <2> DEFINE object ==
        [snap[r] EXCEPT
            !.email = job[r].email, !.role = job[r].role, !.dept = job[r].dept,
            !.batch = job[r].batch,
            !.college_id = IF job[r].college_id = None THEN @ ELSE job[r].college_id]
  <2>1. snap[r] # None /\ InHandler(r, "save") /\ CommitUser(r, object)
    BY <1>8 DEF SaveUser, InHandler
  <2>2. object \in Row
    BY <2>1, SavedInRow
  <2>3. rows' \in [Users -> Optional(Row)]
    BY <2>1, <2>2, CommitUserStep
  <2> QED  BY <1>8, <2>3, FinishType DEF SaveUser
<1>9. ASSUME NEW r \in Requests, VerifyRoleCode(r)
      PROVE  TypeOK'
  <2>1. snap[r] # None
    BY <1>9 DEF VerifyRoleCode, InHandler
  <2>2. job[r].uid \in Users /\ rows[job[r].uid] \in Row /\ job[r].role \in Optional(Roles)
    BY <2>1, Holding, JobType DEF Job
  <2>3. CASE rows' = rows
    BY <1>1, <1>9, <2>3, FinishType DEF VerifyRoleCode, TypeOK
  <2>4. CASE job[r].role # None /\ rows' = [rows EXCEPT ![job[r].uid].role = job[r].role]
    <3>1. [rows[job[r].uid] EXCEPT !.role = job[r].role] \in Row
      BY <2>2, <2>4 DEF Row, Optional
    <3>2. rows' \in [Users -> Optional(Row)]
      BY <1>1, <2>2, <2>4, <3>1 DEF TypeOK, Optional
    <3> QED  BY <1>9, <3>2, FinishType DEF VerifyRoleCode
  <2> QED  BY <1>9, <2>3, <2>4 DEF VerifyRoleCode
<1>10. ASSUME NEW r \in Requests, AssignCheck(r) \/ AssignValidate(r)
       PROVE  TypeOK'
  <2>1. CASE Finish(r)
    BY <1>1, <1>10, <2>1, FinishType DEF AssignCheck, AssignValidate, TypeOK
  <2>2. CASE ~Finish(r)
    BY <1>1, <1>10, <2>2 DEF AssignCheck, AssignValidate, InHandler, TypeOK
  <2> QED  BY <2>1, <2>2
<1>11. ASSUME NEW r \in Requests, AssignCommit(r)
       PROVE  TypeOK'
  <2> DEFINE object ==
        [snap[r] EXCEPT
            !.college_id = job[r].college_id, !.department_id = job[r].department_id,
            !.batch_id = job[r].batch_id, !.dept = NameOf[job[r].department_id],
            !.batch = LabelOf[job[r].batch_id]]
  <2>1. pc[r] = "commit" /\ snap[r] # None /\ CommitUser(r, object)
    BY <1>11 DEF AssignCommit, IInv, SessionOK
  <2>2. object \in Row
    BY <2>1, AssignedInRow
  <2>3. rows' \in [Users -> Optional(Row)]
    BY <2>1, <2>2, CommitUserStep
  <2> QED  BY <1>11, <2>3, FinishType DEF AssignCommit
<1>12. ASSUME NEW c \in Colleges, ChangeAccessCode(c)
       PROVE  TypeOK'
  <2>1. PICK k \in Optional(CodesOf[c]) :
           /\ accessCode' = [accessCode EXCEPT ![c] = k]
           /\ everCode' = [everCode EXCEPT ![c] = @ \cup {k}]
    BY <1>12 DEF ChangeAccessCode
  <2>2. k \in Optional(Codes)
    BY <2>1, CatalogueAssumption DEF Optional
  <2> QED  BY <1>1, <1>12, <2>1, <2>2 DEF ChangeAccessCode, TypeOK
<1>13. CASE UNCHANGED vars
  BY <1>1, <1>13 DEF vars, TypeOK
<1> QED  BY <1>2, <1>3, <1>4, <1>5, <1>6, <1>7, <1>8, <1>9, <1>10, <1>11, <1>12, <1>13
         DEF Next, Authenticate, Handle

LEMMA CodesStep ==
    ASSUME IInv, [Next]_vars, NEW c \in Colleges
    PROVE  everCode[c] \subseteq everCode'[c] /\ accessCode'[c] \in everCode'[c]
<1>1. accessCode[c] \in everCode[c] /\ TypeOK
  BY DEF IInv
<1>2. CASE \E d \in Colleges : ChangeAccessCode(d)
  BY <1>1, <1>2 DEF ChangeAccessCode, TypeOK
<1>3. CASE UNCHANGED <<accessCode, everCode>>
  BY <1>1, <1>3
<1> QED
  BY <1>2, <1>3 DEF Next, vars, Authenticate, Handle, Begin, Lookup, Recheck, Insert, Reload,
     NoUser, Me, StampCollege, Forbid, SaveUser, VerifyRoleCode, AssignCheck, AssignValidate,
     AssignCommit, Fail, Finish

LEMMA AdmissibleStep ==
    ASSUME IInv, [Next]_vars, NEW j \in Job, NEW u \in Users, Admissible(j, u)
    PROVE  Admissible(j, u)'
<1>1. j.college_id \in Colleges
  BY ScopeOfAdmissible
<1>2. everCode[j.college_id] \subseteq everCode'[j.college_id]
  BY <1>1, CodesStep
<1> QED  BY <1>2 DEF Admissible, CatalogueScopes

\* A row has its department and its batch, or neither.
LEMMA ScopePaired ==
    ASSUME IInv, NEW u \in Users, rows[u] # None
    PROVE  rows[u].department_id = None <=> rows[u].batch_id = None
<1>1. CASE Scope(u) = <<None, None>>
  BY <1>1 DEF Scope
<1>2. CASE Scope(u) # <<None, None>>
  <2>1. PICK j \in Jobs : Admissible(j, u) /\ Scope(u) = <<j.department_id, j.batch_id>>
    BY <1>2 DEF IInv, ScopeFromOneRequest
  <2>2. j.department_id # None /\ j.batch_id # None
    BY <2>1, JobsAssumption, ScopeOfAdmissible
  <2> QED  BY <2>1, <2>2 DEF Scope
<1> QED  BY <1>1, <1>2

\* A request that a step leaves where it is keeps what is known of its session.
LEMMA SessionFrame ==
    ASSUME IInv, [Next]_vars, NEW r \in Requests,
           pc'[r] = pc[r], job'[r] = job[r], snap'[r] = snap[r]
    PROVE  SessionOK(r)'
<1>1. SessionOK(r)
  BY DEF IInv
<1>2. snap[r] # None => rows'[job[r].uid] # None
  <2>1. SUFFICES ASSUME snap[r] # None PROVE rows'[job[r].uid] # None
    OBVIOUS
  <2>2. job[r].uid \in Users /\ rows[job[r].uid] # None
    BY <1>1, <2>1, Holding, JobType DEF SessionOK
  <2> QED  BY <2>2, ScopeStep DEF RowStep
<1>3. pc[r] = "commit" => Admissible(job[r], job[r].uid)'
  <2>1. SUFFICES ASSUME pc[r] = "commit" PROVE Admissible(job[r], job[r].uid)'
    OBVIOUS
  <2>2. Admissible(job[r], job[r].uid) /\ job[r] \in Job /\ job[r].uid \in Users
    BY <1>1, <2>1, Holding, JobType DEF SessionOK
  <2>3. \A j \in Job, u \in Users : Admissible(j, u) => Admissible(j, u)'
    BY AdmissibleStep
  <2> DEFINE j == job[r]
  <2> QED  BY <2>2, <2>3 DEF Admissible
<1> QED  BY <1>1, <1>2, <1>3 DEF SessionOK

\* A step of one request leaves the sessions of the others alone.
LEMMA OthersStep ==
    ASSUME IInv, NEW r \in Requests, NEW s \in Requests, r # s,
           Begin(r) \/ Authenticate(r) \/ Handle(r) \/ Fail(r)
    PROVE  pc'[s] = pc[s] /\ job'[s] = job[s] /\ snap'[s] = snap[s]
<1>1. TypeOK
  BY DEF IInv
<1> QED
  BY <1>1 DEF TypeOK, Authenticate, Handle, Begin, Lookup, Recheck, Insert, Reload, NoUser, Me,
     StampCollege, Forbid, SaveUser, VerifyRoleCode, AssignCheck, AssignValidate, AssignCommit,
     Fail, Finish, Goto, Load

LEMMA Finished ==
    ASSUME IInv, NEW r \in Requests, Finish(r)
    PROVE  SessionOK(r)'
BY DEF IInv, TypeOK, Finish, Goto, SessionOK

\* A request that has just loaded its user.
LEMMA Loaded ==
    ASSUME IInv, NEW r \in Requests, pc[r] # "idle", Load(r),
           UNCHANGED <<rows, job>>,
           pc'[r] \in {"handler", "insert"}
    PROVE  SessionOK(r)'
<1>1. TypeOK /\ job[r] # None
  BY DEF IInv, TypeOK
<1>2. job[r].uid \in Users
  BY <1>1, JobType
<1>3. snap'[r] = rows[job[r].uid]
  BY <1>1 DEF Load, TypeOK
<1>4. snap'[r] # None => (snap'[r].department_id = None <=> snap'[r].batch_id = None)
  BY <1>2, <1>3, ScopePaired
<1> QED  BY <1>1, <1>3, <1>4 DEF SessionOK

LEMMA SessionStep ==
    ASSUME IInv, [Next]_vars, NEW s \in Requests
    PROVE  SessionOK(s)'
<1> USE DEF Goto, At
<1>1. TypeOK /\ SessionOK(s)
  BY DEF IInv
<1>2. ASSUME NEW r \in Requests, r # s, Begin(r) \/ Authenticate(r) \/ Handle(r) \/ Fail(r)
      PROVE  SessionOK(s)'
  BY <1>2, OthersStep, SessionFrame
<1>3. CASE Begin(s)
  BY <1>1, <1>3 DEF Begin, TypeOK, SessionOK
<1>4. CASE Finish(s)
  BY <1>4, Finished
<1>5. CASE Lookup(s) /\ ~Finish(s)
  <2>1. CASE pc' = [pc EXCEPT ![s] = "recheck"] /\ UNCHANGED <<rows, job, snap>>
    BY <1>1, <2>1 DEF TypeOK, SessionOK
  <2>2. CASE Load(s) /\ pc' = [pc EXCEPT ![s] = "handler"] /\ UNCHANGED <<rows, job>>
    BY <1>1, <1>5, <2>2, Loaded DEF Lookup, TypeOK
  <2> QED  BY <1>5, <2>1, <2>2 DEF Lookup
<1>6. CASE Recheck(s) \/ Reload(s)
  BY <1>1, <1>6, Loaded DEF Recheck, Reload, TypeOK
<1>7. CASE Insert(s)
  <2>1. snap'[s] = snap[s] /\ job'[s] = job[s] /\ pc'[s] = "reload" /\ job[s] # None
    BY <1>1, <1>7 DEF Insert, TypeOK
  <2>2. snap[s] # None => rows'[job[s].uid] # None
    <3>1. job[s].uid \in Users
      BY <2>1, JobType
    <3> QED  BY <1>1, <3>1, ScopeStep DEF RowStep, SessionOK
  <2> QED  BY <1>1, <2>1, <2>2 DEF SessionOK
<1>8. CASE AssignCheck(s) /\ ~Finish(s)
  BY <1>1, <1>8 DEF AssignCheck, InHandler, TypeOK, SessionOK
<1>9. CASE AssignValidate(s) /\ ~Finish(s)
  <2>1. /\ CodeAccepted(job[s]) /\ ValidScope(job[s]) /\ pc[s] = "code"
        /\ pc'[s] = "commit" /\ UNCHANGED <<rows, accessCode, everCode, job, snap>>
    BY <1>1, <1>9 DEF AssignValidate, TypeOK
  <2>2. job[s] \in Job /\ job[s].op = "assign" /\ job[s].target = job[s].uid
    BY <1>1, <2>1, Holding, JobType DEF SessionOK
  <2>3. job[s].college_id \in Colleges
    BY <2>1, <2>2, CatalogueAssumption DEF ValidScope, Job, Optional
  <2>4. accessCode[job[s].college_id] \in everCode[job[s].college_id] \cap {None, job[s].access_code}
    BY <2>1, <2>3, NoneAssumption DEF CodeAccepted, IInv
  <2>5. <<job[s].college_id, job[s].department_id, job[s].batch_id>> \in CatalogueScopes
    BY <2>1, <2>2 DEF ValidScope, CatalogueScopes, Job, Optional
  <2>6. Admissible(job[s], job[s].uid)'
    BY <2>1, <2>2, <2>4, <2>5 DEF Admissible
  <2> QED  BY <1>1, <2>1, <2>6 DEF SessionOK
<1>10. CASE (\E c \in Colleges : ChangeAccessCode(c)) \/ UNCHANGED vars
  BY <1>10, SessionFrame DEF ChangeAccessCode, vars
<1>11. ASSUME NoUser(s) \/ Me(s) \/ StampCollege(s) \/ Forbid(s) \/ SaveUser(s)
              \/ VerifyRoleCode(s) \/ AssignCommit(s) \/ Fail(s)
       PROVE  Finish(s)
  BY <1>11 DEF NoUser, Me, StampCollege, Forbid, SaveUser, VerifyRoleCode, AssignCommit, Fail
<1> QED  BY <1>2, <1>3, <1>4, <1>5, <1>6, <1>7, <1>8, <1>9, <1>10, <1>11
         DEF Next, Authenticate, Handle

LEMMA OneRequestStep ==
    ASSUME IInv, [Next]_vars
    PROVE  ScopeFromOneRequest'
<1>1. SUFFICES ASSUME NEW u \in Users, rows'[u] # None, Scope(u)' # <<None, None>>
               PROVE  \E j \in Jobs : /\ Admissible(j, u)'
                                      /\ Scope(u)' = <<j.department_id, j.batch_id>>
  BY DEF ScopeFromOneRequest
<1>2. RowStep(u)
  BY ScopeStep
<1>3. rows[u] # None
  BY <1>1, <1>2 DEF RowStep, Scope
<1>4. CASE SameScope(u)
  <2>1. Scope(u)' = Scope(u)
    BY <1>4 DEF SameScope, Scope
  <2>2. PICK j \in Jobs : Admissible(j, u) /\ Scope(u) = <<j.department_id, j.batch_id>>
    BY <1>1, <1>3, <2>1 DEF IInv, ScopeFromOneRequest
  <2>3. Admissible(j, u)'
    BY <2>2, JobsAssumption, AdmissibleStep
  <2> QED  BY <2>1, <2>2, <2>3
<1>5. CASE \E r \in Requests : AssignedBy(r, u)
  <2>1. PICK r \in Requests : AssignedBy(r, u)
    BY <1>5
  <2>2. Admissible(job[r], u) /\ snap[r] # None
    BY <2>1 DEF AssignedBy, IInv, SessionOK
  <2>3. job[r] \in Jobs /\ job[r] \in Job
    BY <2>2, Holding, JobType
  <2>4. \A j \in Job : Admissible(j, u) => Admissible(j, u)'
    BY AdmissibleStep
  <2>5. Scope(u)' = <<job[r].department_id, job[r].batch_id>>
    BY <2>1 DEF AssignedBy, Scope
  <2>6. PICK j \in Jobs : j = job[r]
    BY <2>3
  <2>7. Admissible(j, u)' /\ Scope(u)' = <<j.department_id, j.batch_id>>
    BY <2>2, <2>3, <2>4, <2>5, <2>6
  <2> QED  BY <2>7
<1> QED  BY <1>2, <1>3, <1>4, <1>5 DEF RowStep

(***************************************************************************)
(* Theorems.                                                               *)
(***************************************************************************)

LEMMA InitInvariant == Init => IInv
BY DEF Init, IInv, TypeOK, SessionOK, ScopeFromOneRequest, Optional

\* IInv is an invariant of the accounts: whatever requests overlap, a session
\* that reaches the commit of an assignment was admitted, and loaded a user
\* without scope (assign_student_scope).
THEOREM AccountsInvariant == Spec => []IInv
<1>1. IInv /\ [Next]_vars => IInv'
  BY TypeStep, CodesStep, SessionStep, OneRequestStep DEF IInv
<1> QED  BY InitInvariant, <1>1, PTL DEF Spec

\* The users table holds rows of its schema only, and every request in progress
\* a session over such rows (user_db.py and the writes of its handlers).
THEOREM TypeCorrect == Spec => []TypeOK
<1>1. IInv => TypeOK
  BY DEF IInv
<1> QED  BY AccountsInvariant, <1>1, PTL

\* However many assignments, saves and sign-ins overlap, department and batch of
\* a user come from one admissible assignment request of that user
\* (assign_student_scope and the partial UPDATE of its commit).
THEOREM ScopeComesFromOneRequest == Spec => []ScopeFromOneRequest
<1>1. IInv => ScopeFromOneRequest
  BY DEF IInv
<1> QED  BY AccountsInvariant, <1>1, PTL

LEMMA AssignedStep ==
    ASSUME IInv, [Next]_vars, NEW u \in Users, Assigned(u)
    PROVE  /\ Assigned(u)'
           /\ \/ Scope(u)' = Scope(u)
              \/ \E r \in Requests : /\ pc[r] = "commit" /\ pc'[r] = "idle"
                                     /\ job[r].uid = u
                                     /\ snap[r].department_id = None
<1>1. RowStep(u) /\ rows[u] # None /\ rows[u].department_id # None
  BY ScopeStep DEF Assigned
<1>2. rows'[u] # None
  BY <1>1 DEF RowStep
<1>3. CASE SameScope(u)
  BY <1>1, <1>2, <1>3 DEF SameScope, Assigned, Scope
<1>4. CASE \E r \in Requests : AssignedBy(r, u)
  <2>1. PICK r \in Requests : AssignedBy(r, u)
    BY <1>4
  <2>2. SessionOK(r) /\ pc[r] = "commit"
    BY <2>1 DEF AssignedBy, IInv
  <2>3. Admissible(job[r], u) /\ job[r] \in Job /\ snap[r].department_id = None
    BY <2>1, <2>2, Holding, JobType DEF AssignedBy, SessionOK
  <2>4. job[r].department_id # None
    BY <2>3, ScopeOfAdmissible
  <2> QED  BY <1>2, <2>1, <2>3, <2>4 DEF AssignedBy, Assigned
<1> QED  BY <1>1, <1>3, <1>4 DEF RowStep

\* No commit of a request, however long ago it loaded the user, takes an
\* assigned scope away (the dirty-column UPDATE of save_user and sign-in).
THEOREM AssignedScopeIsKept == Spec => ScopeKept
<1>1. IInv /\ [Next]_vars => [\A u \in Users : Assigned(u) => Assigned(u)']_vars
  BY AssignedStep
<1> QED  BY AccountsInvariant, <1>1, PTL DEF Spec, ScopeKept

\* The one way an assigned scope moves is an assignment that loaded the user
\* before the first assignment committed (the stale check of
\* assign_student_scope).
THEOREM ScopeMovesByOverlapOnly == Spec => ScopeMovesOnlyByOverlap
<1>1. IInv /\ [Next]_vars =>
        [\A u \in Users : Assigned(u) /\ Scope(u)' # Scope(u) =>
          \E r \in Requests : /\ pc[r] = "commit" /\ pc'[r] = "idle"
                              /\ job[r].uid = u
                              /\ snap[r].department_id = None]_vars
  BY AssignedStep
<1> QED  BY AccountsInvariant, <1>1, PTL DEF Spec, ScopeMovesOnlyByOverlap

(***************************************************************************)
(* Who writes what: the columns that a step leaves in a row it changes.    *)
(***************************************************************************)

\* The objects that the handlers flush.
Stamped(r) == [snap[r] EXCEPT !.college_id = job[r].college_id]

Saved(r) ==
    [snap[r] EXCEPT
        !.email = job[r].email, !.role = job[r].role, !.dept = job[r].dept,
        !.batch = job[r].batch,
        !.college_id = IF job[r].college_id = None THEN @ ELSE job[r].college_id]

Scoped(r) ==
    [snap[r] EXCEPT
        !.college_id = job[r].college_id, !.department_id = job[r].department_id,
        !.batch_id = job[r].batch_id, !.dept = NameOf[job[r].department_id],
        !.batch = LabelOf[job[r].batch_id]]

\* r ends with a commit that flushes object over the row of u.
Flushes(r, u, object) ==
    /\ pc[r] # "idle" /\ pc'[r] = "idle"
    /\ snap[r] \in Row /\ object \in Row /\ rows[u] \in Row
    /\ rows'[u] = Flush(rows[u], snap[r], object)

\* What r does to the row of u, which it changes.
Writes(r, u) ==
    \/ /\ pc[r] = "insert" /\ pc'[r] = "reload"
       /\ rows[u] = None /\ rows'[u] = NewRow(u)
    \/ /\ pc[r] = "handler" /\ pc'[r] = "idle"
       /\ rows[u] \in Row /\ rows'[u] = [rows[u] EXCEPT !.role = job[r].role]
    \/ job[r].op = "signin" /\ pc[r] = "handler" /\ Flushes(r, u, Stamped(r))
    \/ /\ job[r].op = "save" /\ pc[r] = "handler" /\ job[r].target = job[r].uid
       /\ Flushes(r, u, Saved(r))
    \/ pc[r] = "commit" /\ Flushes(r, u, Scoped(r))

LEMMA FinishIdle ==
    ASSUME IInv, NEW r \in Requests, Finish(r)
    PROVE  pc'[r] = "idle"
BY DEF IInv, TypeOK, Finish, Goto

LEMMA CommitWrites ==
    ASSUME IInv, NEW r \in Requests, snap[r] # None, NEW object \in Row,
           CommitUser(r, object), Finish(r), pc[r] # "idle",
           NEW u \in Users, rows'[u] # rows[u]
    PROVE  job[r].uid = u /\ Flushes(r, u, object)
<1>1. /\ \A v \in Users : v # job[r].uid => rows'[v] = rows[v]
      /\ \/ rows'[job[r].uid] = rows[job[r].uid]
         \/ rows'[job[r].uid] = Flush(rows[job[r].uid], snap[r], object)
  BY CommitUserStep
<1>2. rows[job[r].uid] \in Row /\ snap[r] \in Row
  BY Holding
<1>3. pc'[r] = "idle"
  BY FinishIdle
<1> QED  BY <1>1, <1>2, <1>3 DEF Flushes

LEMMA WriterStep ==
    ASSUME IInv, [Next]_vars, NEW u \in Users, rows'[u] # rows[u]
    PROVE  \E r \in Requests : job[r].uid = u /\ Writes(r, u)
<1>1. TypeOK
  BY DEF IInv
<1>2. ASSUME NEW r \in Requests, Insert(r)
      PROVE  job[r].uid = u /\ Writes(r, u)
  <2>1. job[r].uid \in Users /\ pc[r] = "insert"
    BY <1>1, <1>2, JobType DEF Insert, At, TypeOK
  <2>2. /\ rows' = [rows EXCEPT ![job[r].uid] = NewRow(job[r].uid)]
        /\ rows[job[r].uid] = None
    BY <1>2 DEF Insert
  <2>3. job[r].uid = u /\ rows'[u] = NewRow(u)
    BY <1>1, <2>1, <2>2 DEF TypeOK
  <2>4. pc'[r] = "reload"
    BY <1>1, <1>2 DEF Insert, Goto, TypeOK
  <2> QED  BY <2>1, <2>2, <2>3, <2>4 DEF Writes
<1>3. ASSUME NEW r \in Requests, VerifyRoleCode(r)
      PROVE  job[r].uid = u /\ Writes(r, u)
  <2>1. job[r].uid \in Users /\ rows[job[r].uid] \in Row
    BY <1>3, Holding, JobType DEF VerifyRoleCode, InHandler
  <2>2. rows' = [rows EXCEPT ![job[r].uid].role = job[r].role]
    BY <1>3 DEF VerifyRoleCode
  <2>3. job[r].uid = u /\ rows'[u] = [rows[u] EXCEPT !.role = job[r].role]
    BY <1>1, <2>1, <2>2 DEF TypeOK
  <2>4. pc[r] = "handler" /\ pc'[r] = "idle"
    BY <1>3, FinishIdle DEF VerifyRoleCode, InHandler, At
  <2> QED  BY <2>1, <2>3, <2>4 DEF Writes
<1>4. ASSUME NEW r \in Requests, StampCollege(r)
      PROVE  job[r].uid = u /\ Writes(r, u)
  <2>1. /\ pc[r] = "handler" /\ job[r].op = "signin" /\ snap[r] # None
        /\ CommitUser(r, Stamped(r)) /\ Finish(r)
    BY <1>4 DEF StampCollege, InHandler, At, Stamped
  <2>2. Stamped(r) \in Row
    BY <2>1, StampedInRow DEF Stamped
  <2> QED  BY <2>1, <2>2, CommitWrites DEF Writes
<1>5. ASSUME NEW r \in Requests, SaveUser(r)
      PROVE  job[r].uid = u /\ Writes(r, u)
  <2>1. /\ InHandler(r, "save") /\ pc[r] = "handler" /\ job[r].op = "save"
        /\ snap[r] # None /\ job[r].target = job[r].uid
        /\ CommitUser(r, Saved(r)) /\ Finish(r)
    BY <1>5 DEF SaveUser, InHandler, At, Saved
  <2>2. Saved(r) \in Row
    BY <2>1, SavedInRow DEF Saved
  <2> QED  BY <2>1, <2>2, CommitWrites DEF Writes
<1>6. ASSUME NEW r \in Requests, AssignCommit(r)
      PROVE  job[r].uid = u /\ Writes(r, u)
  <2>1. /\ pc[r] = "commit" /\ snap[r] # None
        /\ CommitUser(r, Scoped(r)) /\ Finish(r)
    BY <1>6 DEF AssignCommit, At, Scoped, IInv, SessionOK
  <2>2. Scoped(r) \in Row
    BY <2>1, AssignedInRow DEF Scoped
  <2> QED  BY <2>1, <2>2, CommitWrites DEF Writes
<1>7. ASSUME NEW r \in Requests,
             \/ Begin(r) \/ Lookup(r) \/ Recheck(r) \/ Reload(r) \/ NoUser(r)
             \/ Me(r) \/ Forbid(r) \/ AssignCheck(r) \/ AssignValidate(r) \/ Fail(r)
      PROVE  FALSE
  BY <1>7 DEF Begin, Lookup, Recheck, Reload, NoUser, Me, Forbid, AssignCheck,
              AssignValidate, Fail
<1>8. ASSUME NEW c \in Colleges, ChangeAccessCode(c)
      PROVE  FALSE
  BY <1>8 DEF ChangeAccessCode
<1>9. ~UNCHANGED vars
  BY DEF vars
<1> QED  BY <1>2, <1>3, <1>4, <1>5, <1>6, <1>7, <1>8, <1>9 DEF Next, Authenticate, Handle

\* What each object changes of what was loaded.
LEMMA StampedColumns ==
    ASSUME NEW r \in Requests, snap[r] \in Row
    PROVE  /\ Stamped(r).email = snap[r].email
           /\ Stamped(r).department_id = snap[r].department_id
           /\ Stamped(r).batch_id = snap[r].batch_id
           /\ Stamped(r).college_id = job[r].college_id
BY DEF Stamped, Row

LEMMA SavedColumns ==
    ASSUME NEW r \in Requests, snap[r] \in Row
    PROVE  /\ Saved(r).email = job[r].email
           /\ Saved(r).department_id = snap[r].department_id
           /\ Saved(r).batch_id = snap[r].batch_id
           /\ Saved(r).college_id = IF job[r].college_id = None THEN snap[r].college_id
                                    ELSE job[r].college_id
BY DEF Saved, Row

LEMMA ScopedColumns ==
    ASSUME NEW r \in Requests, snap[r] \in Row
    PROVE  /\ Scoped(r).email = snap[r].email
           /\ Scoped(r).department_id = job[r].department_id
           /\ Scoped(r).batch_id = job[r].batch_id
           /\ Scoped(r).college_id = job[r].college_id
           /\ Scoped(r).dept = NameOf[job[r].department_id]
           /\ Scoped(r).batch = LabelOf[job[r].batch_id]
BY DEF Scoped, Row

\* A request that reaches the commit of an assignment.
LEMMA Committing ==
    ASSUME IInv, NEW r \in Requests, pc[r] = "commit"
    PROVE  /\ snap[r].department_id = None /\ snap[r].batch_id = None
           /\ job[r].op = "assign"
           /\ job[r].department_id # None /\ job[r].batch_id # None
           /\ job[r].college_id # None
           /\ CollegeOf[job[r].department_id] = job[r].college_id
           /\ <<job[r].college_id, job[r].department_id, job[r].batch_id>> \in CatalogueScopes
<1>1. SessionOK(r)
  BY DEF IInv
<1>2. job[r] \in Job /\ job[r].uid \in Users /\ Admissible(job[r], job[r].uid)
  BY <1>1, Holding, JobType DEF SessionOK
<1>3. /\ job[r].department_id # None /\ job[r].batch_id # None
      /\ job[r].college_id \in Colleges
      /\ CollegeOf[job[r].department_id] = job[r].college_id
  BY <1>2, ScopeOfAdmissible
<1> QED  BY <1>1, <1>2, <1>3, NoneAssumption DEF SessionOK, Admissible

(***************************************************************************)
(* What the listing of the scopes shows.                                   *)
(***************************************************************************)

\* What is listed depends on the three columns.
LEMMA Unlisted ==
    ASSUME NEW u \in Users
    PROVE  /\ LockedScopes(u) = {} <=> \/ rows[u].college_id = None
                                       \/ rows[u].department_id = None
                                       \/ rows[u].batch_id = None
           /\ LockedScopes(u)' = {} <=> \/ rows'[u].college_id = None
                                        \/ rows'[u].department_id = None
                                        \/ rows'[u].batch_id = None
BY DEF LockedScopes

\* A row that has a department after a step has its batch as well.
LEMMA PairedNext ==
    ASSUME IInv, [Next]_vars, NEW u \in Users, Assigned(u)'
    PROVE  rows'[u].batch_id # None
<1>1. RowStep(u) /\ rows'[u] # None /\ rows'[u].department_id # None
  BY ScopeStep DEF Assigned
<1>2. rows[u] # None
  BY <1>1 DEF RowStep
<1>3. CASE SameScope(u)
  BY <1>1, <1>2, <1>3, ScopePaired DEF SameScope
<1>4. CASE \E r \in Requests : AssignedBy(r, u)
  BY <1>4, Committing DEF AssignedBy
<1> QED  BY <1>1, <1>2, <1>3, <1>4 DEF RowStep

LEMMA ListedStep ==
    ASSUME IInv, [Next]_vars, NEW u \in Users, Assigned(u)', LockedScopes(u)' = {}
    PROVE  \/ Assigned(u) /\ LockedScopes(u) = {}
           \/ \E r \in Requests : /\ pc[r] # "idle" /\ pc'[r] = "idle"
                                  /\ job[r].uid = u
                                  /\ \/ job[r].op = "signin" /\ job[r].college_id = None
                                     \/ /\ job[r].op = "assign"
                                        /\ snap[r].college_id = job[r].college_id
                                        /\ rows[u].college_id = None
<1>1. rows'[u] # None /\ rows'[u].department_id # None /\ rows'[u].college_id = None
  BY PairedNext, Unlisted DEF Assigned
<1>2. CASE rows'[u] = rows[u]
  BY <1>1, <1>2, Unlisted DEF Assigned
<1>3. CASE rows'[u] # rows[u]
  <2>1. PICK r \in Requests : job[r].uid = u /\ Writes(r, u)
    BY <1>3, WriterStep
  <2>2. CASE rows'[u] = NewRow(u)
    BY <1>1, <2>2 DEF NewRow
  <2>3. CASE rows[u] \in Row /\ rows'[u] = [rows[u] EXCEPT !.role = job[r].role]
    <3>1. /\ rows'[u].department_id = rows[u].department_id
          /\ rows'[u].college_id = rows[u].college_id
          /\ rows[u] # None
      BY <2>3, RowNotNone DEF Row
    <3> QED  BY <1>1, <3>1, Unlisted DEF Assigned
  <2>4. CASE job[r].op = "signin" /\ Flushes(r, u, Stamped(r))
    <3>1. /\ rows[u] # None /\ rows'[u].department_id = rows[u].department_id
          /\ rows'[u].college_id = IF job[r].college_id # snap[r].college_id
                                   THEN job[r].college_id ELSE rows[u].college_id
      BY <2>4, FlushRow, StampedColumns, RowNotNone DEF Flushes
    <3> QED  BY <1>1, <2>1, <2>4, <3>1, Unlisted DEF Assigned, Flushes
  <2>5. CASE job[r].op = "save" /\ Flushes(r, u, Saved(r))
    <3>1. /\ rows[u] # None /\ rows'[u].department_id = rows[u].department_id
          /\ rows'[u].college_id = IF Saved(r).college_id # snap[r].college_id
                                   THEN Saved(r).college_id ELSE rows[u].college_id
      BY <2>5, FlushRow, SavedColumns, RowNotNone DEF Flushes
    <3>2. rows[u].college_id = None
      BY <1>1, <2>5, <3>1, SavedColumns DEF Flushes
    <3> QED  BY <1>1, <3>1, <3>2, Unlisted DEF Assigned
  <2>6. CASE pc[r] = "commit" /\ Flushes(r, u, Scoped(r))
    <3>1. rows'[u].college_id = IF job[r].college_id # snap[r].college_id
                                THEN job[r].college_id ELSE rows[u].college_id
      BY <2>6, FlushRow, ScopedColumns DEF Flushes
    <3>2. job[r].op = "assign" /\ job[r].college_id # None
      BY <2>6, Committing
    <3> QED  BY <1>1, <2>1, <2>6, <3>1, <3>2 DEF Flushes
  <2> QED  BY <2>1, <2>2, <2>3, <2>4, <2>5, <2>6 DEF Writes
<1> QED  BY <1>2, <1>3

\* A scope that is locked stays in GET /scopes/me (get_user_scopes), except for
\* first sign-ins without college: their stamp, or an assignment that had loaded
\* the college such a stamp erased.
THEOREM ScopeIsUnlistedByStampOnly == Spec => ScopeUnlistedOnlyByStamp
<1>1. IInv /\ [Next]_vars =>
        [\A u \in Users : Assigned(u)' /\ LockedScopes(u)' = {} =>
          \/ Assigned(u) /\ LockedScopes(u) = {}
          \/ \E r \in Requests : /\ pc[r] # "idle" /\ pc'[r] = "idle"
                                 /\ job[r].uid = u
                                 /\ \/ job[r].op = "signin" /\ job[r].college_id = None
                                    \/ /\ job[r].op = "assign"
                                       /\ snap[r].college_id = job[r].college_id
                                       /\ rows[u].college_id = None]_vars
  BY ListedStep
<1> QED  BY AccountsInvariant, <1>1, PTL DEF Spec, ScopeUnlistedOnlyByStamp

(***************************************************************************)
(* The users that authentication produces.                                 *)
(***************************************************************************)

\* An insert that fails has met the row of the same user, or the email in
\* another's, which only emails that are not one user's own allow.
EmailInv ==
    /\ \A u \in Users : rows[u] # None => rows[u].email \in OwnEmails(u)
    /\ \A r \in Requests :
          pc[r] = "reload" => rows[job[r].uid] # None \/ Contested(job[r].uid)
    /\ ResolvedUnlessContested

LEMMA OwnEmailStep ==
    ASSUME IInv, EmailInv, [Next]_vars, NEW u \in Users, rows'[u] # None
    PROVE  rows'[u].email \in OwnEmails(u)
<1>1. rows[u] # None => rows[u].email \in OwnEmails(u)
  BY DEF EmailInv
<1>2. CASE rows'[u] = rows[u]
  BY <1>1, <1>2
<1>3. CASE rows'[u] # rows[u]
  <2>1. PICK r \in Requests : job[r].uid = u /\ Writes(r, u)
    BY <1>3, WriterStep
  <2>2. CASE rows'[u] = NewRow(u)
    BY <2>2 DEF NewRow, OwnEmails
  <2>3. CASE rows[u] \in Row /\ rows'[u] = [rows[u] EXCEPT !.role = job[r].role]
    <3>1. rows'[u].email = rows[u].email
      BY <2>3 DEF Row
    <3> QED  BY <1>1, <2>3, <3>1, RowNotNone
  <2>4. CASE Flushes(r, u, Stamped(r))
    <3>1. rows'[u].email = rows[u].email
      BY <2>4, FlushRow, StampedColumns DEF Flushes
    <3> QED  BY <1>1, <2>4, <3>1, RowNotNone DEF Flushes
  <2>5. CASE Flushes(r, u, Scoped(r))
    <3>1. rows'[u].email = rows[u].email
      BY <2>5, FlushRow, ScopedColumns DEF Flushes
    <3> QED  BY <1>1, <2>5, <3>1, RowNotNone DEF Flushes
  <2>6. CASE job[r].op = "save" /\ job[r].target = job[r].uid /\ Flushes(r, u, Saved(r))
    <3>1. rows'[u].email = IF job[r].email # snap[r].email THEN job[r].email ELSE rows[u].email
      BY <2>6, FlushRow, SavedColumns DEF Flushes
    <3>2. job[r] \in Jobs
      BY <2>6, RowNotNone, Holding, JobType DEF Flushes
    <3>3. job[r].email \in OwnEmails(u)
      BY <2>1, <2>6, <3>2 DEF OwnEmails
    <3> QED  BY <1>1, <2>6, <3>1, <3>3, RowNotNone DEF Flushes
  <2> QED  BY <2>1, <2>2, <2>3, <2>4, <2>5, <2>6 DEF Writes
<1> QED  BY <1>2, <1>3

LEMMA TakenIsContested ==
    ASSUME EmailInv, NEW u \in Users, EmailTaken(u, ClaimedEmail[u])
    PROVE  Contested(u)
BY DEF EmailInv, EmailTaken, Contested

\* Rows stay, and an insert leaves one or has met the email in another.
LEMMA ReloadStep ==
    ASSUME IInv, EmailInv, [Next]_vars, NEW s \in Requests, pc'[s] = "reload"
    PROVE  rows'[job'[s].uid] # None \/ Contested(job'[s].uid)
<1>1. TypeOK
  BY DEF IInv
<1>2. CASE pc[s] = "reload" /\ job'[s] = job[s]
  <2>1. job[s].uid \in Users /\ (rows[job[s].uid] # None \/ Contested(job[s].uid))
    BY <1>1, <1>2, JobType DEF TypeOK, EmailInv
  <2> QED  BY <1>2, <2>1, ScopeStep DEF RowStep
<1>3. CASE Insert(s)
  <2>1. job[s].uid \in Users /\ job' = job
    BY <1>1, <1>3, JobType DEF Insert, At, TypeOK
  <2>2. NewRow(job[s].uid) \in Row
    BY <2>1, CatalogueAssumption DEF NewRow, Row, Roles, Optional
  <2>3. CASE rows[job[s].uid] # None
    BY <1>3, <2>1, <2>3 DEF Insert
  <2>4. CASE EmailTaken(job[s].uid, ClaimedEmail[job[s].uid])
    BY <2>1, <2>4, TakenIsContested
  <2>5. CASE rows[job[s].uid] = None /\ ~EmailTaken(job[s].uid, ClaimedEmail[job[s].uid])
    <3>1. rows'[job[s].uid] = NewRow(job[s].uid)
      BY <1>1, <1>3, <2>1, <2>5 DEF Insert, TypeOK
    <3> QED  BY <2>1, <2>2, <3>1, RowNotNone
  <2> QED  BY <2>3, <2>4, <2>5
<1>4. ASSUME NEW r \in Requests, r # s, Begin(r) \/ Authenticate(r) \/ Handle(r) \/ Fail(r)
      PROVE  pc'[s] = pc[s] /\ job'[s] = job[s]
  BY <1>4, OthersStep
<1>5. CASE (\E c \in Colleges : ChangeAccessCode(c)) \/ UNCHANGED vars
  BY <1>2, <1>5 DEF ChangeAccessCode, vars
<1>6. ASSUME Begin(s) \/ Lookup(s) \/ Recheck(s) \/ Reload(s) \/ NoUser(s) \/ Handle(s) \/ Fail(s)
      PROVE  pc'[s] # "reload"
  BY <1>1, <1>6 DEF TypeOK, Handle, Begin, Lookup, Recheck, Reload, NoUser, Me, StampCollege,
     Forbid, SaveUser, VerifyRoleCode, AssignCheck, AssignValidate, AssignCommit, Fail, Finish,
     Goto
<1> QED  BY <1>2, <1>3, <1>4, <1>5, <1>6 DEF Next, Authenticate

LEMMA ResolvedStep ==
    ASSUME IInv, EmailInv, [Next]_vars, NEW s \in Requests,
           pc'[s] = "handler", snap'[s] = None
    PROVE  Contested(job'[s].uid)
<1>1. TypeOK
  BY DEF IInv
<1>2. CASE pc[s] = "handler" /\ snap'[s] = snap[s] /\ job'[s] = job[s]
  BY <1>2 DEF EmailInv, ResolvedUnlessContested
<1>3. CASE Lookup(s) \/ Recheck(s) \/ Reload(s)
  <2>1. snap'[s] = rows[job[s].uid] /\ job'[s] = job[s]
    BY <1>1, <1>3 DEF Lookup, Recheck, Reload, Load, Goto, Finish, At, TypeOK
  <2>2. pc[s] = "reload"
    BY <1>1, <1>3, <2>1 DEF Lookup, Recheck, Reload, Load, Goto, Finish, At, TypeOK
  <2> QED  BY <2>1, <2>2 DEF EmailInv
<1>4. ASSUME NEW r \in Requests, r # s, Begin(r) \/ Authenticate(r) \/ Handle(r) \/ Fail(r)
      PROVE  pc'[s] = pc[s] /\ snap'[s] = snap[s] /\ job'[s] = job[s]
  BY <1>4, OthersStep
<1>5. CASE (\E c \in Colleges : ChangeAccessCode(c)) \/ UNCHANGED vars
  BY <1>2, <1>5 DEF ChangeAccessCode, vars
<1>6. ASSUME Begin(s) \/ Insert(s) \/ NoUser(s) \/ Handle(s) \/ Fail(s)
      PROVE  pc'[s] # "handler"
  BY <1>1, <1>6 DEF TypeOK, Handle, Begin, Insert, NoUser, Me, StampCollege, Forbid, SaveUser,
     VerifyRoleCode, AssignCheck, AssignValidate, AssignCommit, Fail, Finish, Goto
<1> QED  BY <1>2, <1>3, <1>4, <1>5, <1>6 DEF Next, Authenticate

\* However the creations of a user race with each other and with saves, an
\* authentication or sign-in that ends without a user is one whose email another
\* user's token or saves may hold: every other IntegrityError in
\* get_or_create_user means what its comment says, that another request created
\* the same user.
THEOREM UsersAreResolved == Spec => []ResolvedUnlessContested
<1>1. Init => EmailInv
  BY DEF Init, EmailInv, ResolvedUnlessContested
<1>2. IInv /\ EmailInv /\ [Next]_vars => EmailInv'
  <2>1. SUFFICES ASSUME IInv, EmailInv, [Next]_vars PROVE EmailInv'
    OBVIOUS
  <2>2. \A u \in Users : rows'[u] # None => rows'[u].email \in OwnEmails(u)
    BY <2>1, OwnEmailStep
  <2>3. \A r \in Requests :
           pc'[r] = "reload" => rows'[job'[r].uid] # None \/ Contested(job'[r].uid)
    BY <2>1, ReloadStep
  <2>4. \A r \in Requests : pc'[r] = "handler" /\ snap'[r] = None => Contested(job'[r].uid)
    BY <2>1, ResolvedStep
  <2>5. \A u \in Users : OwnEmails(u)' = OwnEmails(u) /\ Contested(u)' = Contested(u)
    BY DEF OwnEmails, Contested
  <2> QED  BY <2>2, <2>3, <2>4, <2>5 DEF EmailInv, ResolvedUnlessContested, OwnEmails, Contested
<1>3. EmailInv => ResolvedUnlessContested
  BY DEF EmailInv
<1> QED  BY AccountsInvariant, <1>1, <1>2, <1>3, PTL DEF Spec

(***************************************************************************)
(* One request of a user at a time.                                        *)
(***************************************************************************)

\* A user has no two requests in progress; those of different users overlap.
OneAtATime ==
    \A r, s \in Requests :
        r # s /\ pc[r] # "idle" /\ pc[s] # "idle" => job[r].uid # job[s].uid

\* What r has loaded is still so; a sign-in that goes on made its user itself.
FreshOK(r) ==
    /\ pc[r] \in {"recheck", "insert"} => rows[job[r].uid] = None
    /\ pc[r] = "reload" /\ rows[job[r].uid] # None => rows[job[r].uid].department_id = None
    /\ pc[r] \in {"handler", "code", "commit"} /\ snap[r] # None =>
          /\ snap[r] = rows[job[r].uid]
          /\ job[r].op = "signin" => snap[r].department_id = None

Fresh == \A r \in Requests : FreshOK(r)

\* Only one request moves in a step, and only a request that moves writes.
LEMMA OneMoves ==
    ASSUME IInv, [Next]_vars, NEW r \in Requests, NEW s \in Requests,
           pc'[r] # pc[r], pc'[s] # pc[s]
    PROVE  r = s
<1>1. PICK q \in Requests : Begin(q) \/ Authenticate(q) \/ Handle(q) \/ Fail(q)
  BY DEF Next, ChangeAccessCode, vars
<1> QED  BY <1>1, OthersStep

LEMMA WriterMoves ==
    ASSUME NEW r \in Requests, NEW u \in Users, Writes(r, u)
    PROVE  pc[r] # "idle" /\ pc'[r] # pc[r]
BY DEF Writes, Flushes

LEMMA RowStays ==
    ASSUME IInv, OneAtATime, [Next]_vars, NEW s \in Requests, pc[s] # "idle", pc'[s] = pc[s]
    PROVE  rows'[job[s].uid] = rows[job[s].uid]
<1>1. job[s].uid \in Users
  BY JobType DEF IInv, TypeOK
<1>2. SUFFICES ASSUME rows'[job[s].uid] # rows[job[s].uid] PROVE FALSE
  OBVIOUS
<1>3. PICK r \in Requests : job[r].uid = job[s].uid /\ Writes(r, job[s].uid)
  BY <1>1, <1>2, WriterStep
<1>4. pc[r] # "idle" /\ pc'[r] # pc[r]
  BY <1>1, <1>3, WriterMoves
<1> QED  BY <1>3, <1>4 DEF OneAtATime

LEMMA FreshFrame ==
    ASSUME IInv, OneAtATime, [Next]_vars, NEW s \in Requests, FreshOK(s),
           pc'[s] = pc[s], job'[s] = job[s], snap'[s] = snap[s]
    PROVE  FreshOK(s)'
<1>1. CASE pc[s] = "idle"
  BY <1>1 DEF FreshOK
<1>2. CASE pc[s] # "idle"
  <2>1. rows'[job[s].uid] = rows[job[s].uid]
    BY <1>2, RowStays
  <2> QED  BY <2>1 DEF FreshOK
<1> QED  BY <1>1, <1>2

LEMMA FreshStep ==
    ASSUME IInv, OneAtATime, Fresh, [Next]_vars, NEW s \in Requests
    PROVE  FreshOK(s)'
<1> USE DEF Goto, At
<1>1. TypeOK /\ FreshOK(s)
  BY DEF IInv, Fresh
<1>2. ASSUME NEW r \in Requests, r # s, Begin(r) \/ Authenticate(r) \/ Handle(r) \/ Fail(r)
      PROVE  FreshOK(s)'
  BY <1>1, <1>2, OthersStep, FreshFrame
<1>3. CASE (\E c \in Colleges : ChangeAccessCode(c)) \/ UNCHANGED vars
  BY <1>1, <1>3, FreshFrame DEF ChangeAccessCode, vars
<1>4. CASE Finish(s)
  BY <1>4, FinishIdle DEF FreshOK
<1>5. CASE Begin(s)
  BY <1>1, <1>5 DEF Begin, TypeOK, FreshOK
<1>6. CASE Lookup(s) /\ ~Finish(s)
  BY <1>1, <1>6 DEF Lookup, Load, TypeOK, FreshOK
<1>7. CASE Recheck(s)
  BY <1>1, <1>7 DEF Recheck, Load, TypeOK, FreshOK
<1>8. CASE Insert(s)
  <2>1. job[s].uid \in Users /\ job' = job /\ pc'[s] = "reload"
    BY <1>1, <1>8, JobType DEF Insert, TypeOK
  <2>2. rows'[job[s].uid] = rows[job[s].uid] \/ rows'[job[s].uid] = NewRow(job[s].uid)
    BY <1>1, <1>8, <2>1 DEF Insert, TypeOK
  <2>3. rows[job[s].uid] = None
    BY <1>1, <1>8 DEF Insert, FreshOK
  <2> QED  BY <2>1, <2>2, <2>3 DEF FreshOK, NewRow
<1>9. CASE Reload(s)
  BY <1>1, <1>9 DEF Reload, Load, TypeOK, FreshOK
<1>10. CASE (AssignCheck(s) \/ AssignValidate(s)) /\ ~Finish(s)
  BY <1>1, <1>10 DEF AssignCheck, AssignValidate, InHandler, TypeOK, FreshOK
<1>11. ASSUME NoUser(s) \/ Me(s) \/ StampCollege(s) \/ Forbid(s) \/ SaveUser(s)
              \/ VerifyRoleCode(s) \/ AssignCommit(s) \/ Fail(s)
       PROVE  Finish(s)
  BY <1>11 DEF NoUser, Me, StampCollege, Forbid, SaveUser, VerifyRoleCode, AssignCommit, Fail
<1> QED  BY <1>2, <1>3, <1>4, <1>5, <1>6, <1>7, <1>8, <1>9, <1>10, <1>11
         DEF Next, Authenticate, Handle

LEMMA FreshInvariant == Spec /\ []OneAtATime => []Fresh
<1>1. Init => Fresh
  BY DEF Init, Fresh, FreshOK
<1>2. IInv /\ OneAtATime /\ Fresh /\ [Next]_vars => Fresh'
  BY FreshStep DEF Fresh
<1> QED  BY AccountsInvariant, <1>1, <1>2, PTL DEF Spec

\* "Student scope is immutable once assigned" holds if no two requests of the
\* same user overlap, whatever requests of others do (assign_student_scope).
THEOREM ScopeImmutableOneAtATime == Spec /\ []OneAtATime => ScopeImmutable
<1>1. ASSUME IInv, Fresh, [Next]_vars, NEW u \in Users, Assigned(u), Scope(u)' # Scope(u)
      PROVE  FALSE
  <2>1. PICK r \in Requests : pc[r] = "commit" /\ job[r].uid = u /\ snap[r].department_id = None
    BY <1>1, AssignedStep
  <2>2. snap[r] # None /\ snap[r] = rows[u]
    BY <1>1, <2>1 DEF IInv, SessionOK, Fresh, FreshOK
  <2> QED  BY <1>1, <2>1, <2>2 DEF Assigned
<1>2. IInv /\ Fresh /\ [Next]_vars => [\A u \in Users : Assigned(u) => Scope(u)' = Scope(u)]_vars
  BY <1>1
<1> QED  BY AccountsInvariant, FreshInvariant, <1>2, PTL DEF Spec, ScopeImmutable

(***************************************************************************)
(* The register.                                                           *)
(***************************************************************************)

\* What the register and the claims of ScopeRegister are here.
RegisterScope == [u \in Users |-> IF Assigned(u) THEN Scope(u) ELSE None]
RegisterClaim == [r \in Requests |-> ClaimOf(r)]

\* Only the commit of an assignment writes what the register holds.
LEMMA RegisterKept ==
    ASSUME IInv, [Next]_vars,
           UNCHANGED rows \/ ~\E r \in Requests : pc[r] = "commit" /\ pc'[r] = "idle"
    PROVE  RegisterScope' = RegisterScope
<1>1. CASE UNCHANGED rows
  BY <1>1 DEF RegisterScope, Assigned, Scope
<1>2. CASE ~\E r \in Requests : pc[r] = "commit" /\ pc'[r] = "idle"
  <2>1. ASSUME NEW u \in Users
        PROVE  /\ Assigned(u)' = Assigned(u)
               /\ Assigned(u) => Scope(u)' = Scope(u)
    <3>1. RowStep(u) /\ ~\E r \in Requests : AssignedBy(r, u)
      BY <1>2, ScopeStep DEF AssignedBy
    <3> QED  BY <3>1 DEF RowStep, SameScope, Assigned, Scope
  <2> QED  BY <2>1 DEF RegisterScope
<1> QED  BY <1>1, <1>2

\* A step of one request leaves the claims of the others alone.
LEMMA OthersClaims ==
    ASSUME IInv, NEW r \in Requests, Begin(r) \/ Authenticate(r) \/ Handle(r) \/ Fail(r)
    PROVE  RegisterClaim' = [RegisterClaim EXCEPT ![r] = ClaimOf(r)']
<1>1. ASSUME NEW s \in Requests, s # r
      PROVE  ClaimOf(s)' = ClaimOf(s)
  BY <1>1, OthersStep DEF ClaimOf
<1> QED  BY <1>1 DEF RegisterClaim

\* A request that ends without having written a scope drops its claim, if it had one.
LEMMA FinishDrops ==
    ASSUME IInv, [Next]_vars, NEW r \in Requests, Finish(r),
           Begin(r) \/ Authenticate(r) \/ Handle(r) \/ Fail(r),
           RegisterScope' = RegisterScope
    PROVE  Register!Drop(r)
<1>1. ClaimOf(r)' = None
  BY FinishIdle DEF ClaimOf
<1> QED  BY <1>1, OthersClaims DEF Register!Drop, RegisterScope, RegisterClaim

\* A request that moves on without loading its user keeps its claim, or its lack of one.
LEMMA ClaimKept ==
    ASSUME IInv, [Next]_vars, NEW r \in Requests,
           Begin(r) \/ Authenticate(r) \/ Handle(r) \/ Fail(r),
           ClaimOf(r)' = ClaimOf(r), UNCHANGED rows
    PROVE  UNCHANGED <<RegisterScope, RegisterClaim>>
<1>1. RegisterScope' = RegisterScope
  BY RegisterKept
<1>2. RegisterClaim' = RegisterClaim
  BY OthersClaims DEF RegisterClaim
<1> QED  BY <1>1, <1>2

\* A request that loads its user claims the scope if it comes to assign one and
\* finds none.
LEMMA LoadClaims ==
    ASSUME IInv, [Next]_vars, NEW r \in Requests, Lookup(r) \/ Recheck(r) \/ Reload(r)
    PROVE  \/ UNCHANGED <<RegisterScope, RegisterClaim>>
           \/ \E u \in Users : Register!Claim(r, u)
           \/ Register!Drop(r)
<1>1. TypeOK /\ job[r] # None /\ UNCHANGED rows
  BY DEF IInv, TypeOK, Lookup, Recheck, Reload, At
<1>2. job[r].uid \in Users
  BY <1>1, JobType
<1>3. RegisterScope' = RegisterScope
  BY <1>1, RegisterKept
<1>4. CASE Finish(r)
  BY <1>3, <1>4, FinishDrops DEF Authenticate
<1>5. CASE ~Finish(r)
  <2>1. ClaimOf(r) = None
    BY DEF ClaimOf, Lookup, Recheck, Reload, At
  <2>2. CASE ClaimOf(r)' = None
    BY <1>1, <2>1, <2>2, ClaimKept DEF Authenticate
  <2>3. CASE ClaimOf(r)' # None
    <3>1. /\ pc'[r] = "handler" /\ job'[r] = job[r] /\ snap'[r] = rows[job[r].uid]
          /\ snap'[r] # None /\ snap'[r].department_id = None
      BY <1>1, <1>5, <2>3 DEF TypeOK, ClaimOf, Lookup, Recheck, Reload, Load, Goto
    <3>2. ClaimOf(r)' = job[r].uid /\ ~Assigned(job[r].uid)
      BY <2>3, <3>1 DEF ClaimOf, Assigned
    <3>3. RegisterClaim' = [RegisterClaim EXCEPT ![r] = job[r].uid]
      BY <3>2, OthersClaims DEF Authenticate
    <3>4. RegisterScope[job[r].uid] = None /\ RegisterClaim[r] = None
      BY <1>2, <2>1, <3>2 DEF RegisterScope, RegisterClaim
    <3>5. Register!Claim(r, job[r].uid)
      BY <1>3, <3>3, <3>4 DEF Register!Claim, RegisterScope, RegisterClaim
    <3> QED  BY <1>2, <3>5
  <2> QED  BY <2>2, <2>3
<1> QED  BY <1>4, <1>5

\* The commit of an assignment sets the register it claimed, or is rolled back.
LEMMA CommitSets ==
    ASSUME IInv, [Next]_vars, NEW r \in Requests, AssignCommit(r)
    PROVE  Register!Drop(r)
           \/ \E s \in {<<DepartmentOf[b], b>> : b \in Batches} : Register!Set(r, s)
<1> DEFINE j == job[r]
<1>1. /\ TypeOK /\ Finish(r) /\ pc[r] = "commit" /\ snap[r] # None
      /\ CommitUser(r, Scoped(r))
  BY DEF AssignCommit, At, Scoped, IInv, SessionOK
<1>2. /\ j \in Job /\ j.uid \in Users /\ j.uid # None
      /\ rows[j.uid] \in Row /\ snap[r] \in Row
  BY <1>1, Holding, JobType, NoneAssumption
<1>3. Scoped(r) \in Row
  BY <1>1, AssignedInRow DEF Scoped
<1>4. CASE UNCHANGED rows
  <2>1. RegisterScope' = RegisterScope
    BY <1>4, RegisterKept
  <2> QED  BY <1>1, <2>1, FinishDrops DEF Handle
<1>5. CASE rows' = [rows EXCEPT ![j.uid] = Flush(rows[j.uid], snap[r], Scoped(r))]
  <2>1. /\ snap[r].department_id = None /\ snap[r].batch_id = None
        /\ j.op = "assign" /\ j.department_id # None /\ j.batch_id # None
        /\ <<j.college_id, j.department_id, j.batch_id>> \in CatalogueScopes
    BY <1>1, Committing
  <2>2. rows'[j.uid] = Flush(rows[j.uid], snap[r], Scoped(r))
    BY <1>1, <1>2, <1>5 DEF TypeOK
  <2>3. /\ rows'[j.uid].department_id = j.department_id
        /\ rows'[j.uid].batch_id = j.batch_id
    BY <1>2, <1>3, <2>1, <2>2, FlushRow, ScopedColumns
  <2>4. rows'[j.uid] # None
    BY <1>2, <1>3, <2>2, FlushInRow, RowNotNone
  <2>5. PICK u \in Users : u = j.uid
    BY <1>2
  <2>6. Assigned(u)' /\ Scope(u)' = <<j.department_id, j.batch_id>>
    BY <2>1, <2>3, <2>4, <2>5 DEF Assigned, Scope
  <2>7. RegisterScope' = [RegisterScope EXCEPT ![u] = <<j.department_id, j.batch_id>>]
    <3>1. ASSUME NEW v \in Users, v # u
          PROVE  Assigned(v)' = Assigned(v) /\ Scope(v)' = Scope(v)
      <4>1. rows'[v] = rows[v]
        BY <1>1, <1>5, <2>5, <3>1 DEF TypeOK
      <4> QED  BY <4>1 DEF Assigned, Scope
    <3> QED  BY <2>6, <3>1 DEF RegisterScope
  <2>8. RegisterClaim[r] = j.uid
    BY <1>1, <2>1 DEF RegisterClaim, ClaimOf
  <2>9. RegisterClaim' = [RegisterClaim EXCEPT ![r] = None]
    <3>1. ClaimOf(r)' = None
      BY <1>1, FinishIdle DEF ClaimOf
    <3> QED  BY <3>1, OthersClaims DEF Handle
  <2>10. Register!Set(r, <<j.department_id, j.batch_id>>)
    BY <1>2, <2>5, <2>7, <2>8, <2>9 DEF Register!Set, RegisterScope, RegisterClaim
  <2>11. <<j.department_id, j.batch_id>> \in {<<DepartmentOf[b], b>> : b \in Batches}
    BY <2>1 DEF CatalogueScopes
  <2> QED  BY <2>10, <2>11
<1> QED  BY <1>1, <1>4, <1>5 DEF CommitUser

LEMMA RegisterStep ==
    ASSUME IInv, [Next]_vars
    PROVE  Register!Next \/ UNCHANGED <<RegisterScope, RegisterClaim>>
<1>1. TypeOK
  BY DEF IInv
<1>2. CASE (\E c \in Colleges : ChangeAccessCode(c)) \/ UNCHANGED vars
  <2>1. UNCHANGED <<rows, pc, job, snap>>
    BY <1>2 DEF ChangeAccessCode, vars
  <2> QED  BY <2>1 DEF RegisterScope, RegisterClaim, Assigned, Scope, ClaimOf
<1>3. ASSUME NEW r \in Requests, Lookup(r) \/ Recheck(r) \/ Reload(r)
      PROVE  Register!Next \/ UNCHANGED <<RegisterScope, RegisterClaim>>
  BY <1>3, LoadClaims DEF Register!Next
<1>4. ASSUME NEW r \in Requests, AssignCommit(r)
      PROVE  Register!Next
  BY <1>4, CommitSets DEF Register!Next
<1>5. ASSUME NEW r \in Requests, Insert(r)
      PROVE  UNCHANGED <<RegisterScope, RegisterClaim>>
  <2>1. pc[r] = "insert" /\ pc'[r] = "reload"
    BY <1>1, <1>5 DEF Insert, At, Goto, TypeOK
  <2>2. ~\E s \in Requests : pc[s] = "commit" /\ pc'[s] = "idle"
    BY <1>5, <2>1, OthersStep DEF Authenticate
  <2>3. RegisterScope' = RegisterScope
    BY <2>2, RegisterKept
  <2>4. ClaimOf(r)' = ClaimOf(r)
    BY <2>1 DEF ClaimOf
  <2>5. RegisterClaim' = RegisterClaim
    BY <1>5, <2>4, OthersClaims DEF RegisterClaim, Authenticate
  <2> QED  BY <2>3, <2>5
<1>6. ASSUME NEW r \in Requests,
             \/ Begin(r)
             \/ (AssignCheck(r) \/ AssignValidate(r)) /\ ~Finish(r)
      PROVE  UNCHANGED <<RegisterScope, RegisterClaim>>
  <2>1. UNCHANGED rows /\ ClaimOf(r)' = ClaimOf(r)
    BY <1>1, <1>6 DEF Begin, AssignCheck, AssignValidate, InHandler, At, Goto, ClaimOf, TypeOK
  <2> QED  BY <1>6, <2>1, ClaimKept DEF Handle
<1>7. ASSUME NEW r \in Requests,
             \/ StampCollege(r) \/ SaveUser(r) \/ VerifyRoleCode(r)
             \/ NoUser(r) \/ Me(r) \/ Forbid(r) \/ Fail(r)
             \/ (AssignCheck(r) \/ AssignValidate(r)) /\ Finish(r)
      PROVE  Register!Next
  <2>1. Finish(r) /\ (Authenticate(r) \/ Handle(r) \/ Fail(r))
    BY <1>7 DEF StampCollege, SaveUser, VerifyRoleCode, NoUser, Me, Forbid, Fail,
                Authenticate, Handle
  <2>2. RegisterScope' = RegisterScope
    <3>1. CASE UNCHANGED rows
      BY <3>1, RegisterKept
    <3>2. CASE pc[r] = "handler"
      BY <2>1, <3>2, OthersStep, RegisterKept
    <3> QED  BY <1>7, <3>1, <3>2
             DEF StampCollege, SaveUser, VerifyRoleCode, InHandler, At, NoUser, Me, Forbid,
                 AssignCheck, AssignValidate, Fail
  <2>3. Register!Drop(r)
    BY <2>1, <2>2, FinishDrops
  <2> QED  BY <2>3 DEF Register!Next
<1> QED  BY <1>2, <1>3, <1>4, <1>5, <1>6, <1>7 DEF Next, Authenticate, Handle

\* The scope columns of the users table implement the register of
\* POST /scopes/student, whatever requests of whichever users overlap: each is
\* set only by a request that found it empty, to a batch of the catalogue with
\* its department, in one step, and is never emptied (assign_student_scope and
\* the partial UPDATE of every other writer).
THEOREM AccountsImplementRegister == Spec => ImplementsRegister
<1>1. Init => Register!Init
  BY DEF Init, Register!Init, Assigned, ClaimOf
<1>2. IInv /\ [Next]_vars =>
        [Register!Next]_<<[u \in Users |-> IF Assigned(u) THEN Scope(u) ELSE None],
                          [r \in Requests |-> ClaimOf(r)]>>
  BY RegisterStep DEF RegisterScope, RegisterClaim
<1> QED  BY AccountsInvariant, <1>1, <1>2, PTL DEF Spec, ImplementsRegister, Register!Spec

=============================================================================
