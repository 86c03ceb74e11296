------------------------- MODULE StaffScopesProofs -------------------------
(***************************************************************************)
(* Proofs about StaffScopes, for any number of requests, users and rows.   *)
(*                                                                         *)
(* Neither property is inductive: an insert relies on what was checked two *)
(* awaits earlier, a delete on what was found one await earlier.  IInv     *)
(* says what of those checks still holds: that the user has been staff     *)
(* (its role may have changed), that the scope is one of the catalogue,    *)
(* and that the row found is still the owner's or gone for good, because   *)
(* ids are not issued twice.                                               *)
(***************************************************************************)
EXTENDS StaffScopes, TLAPS

\* The row that j asks for may be inserted.
WellFormed(j) ==
    /\ j.college_id = CollegeOf[j.department_id]
    /\ j.batch_id = None \/ j.department_id = DepartmentOf[j.batch_id]

RequestOK(r) ==
    /\ pc[r] # "idle" /\ snap[r] \in Assigners => job[r].uid \in everStaff
    /\ pc[r] \in {"validate", "insert"} =>
          /\ job[r].target = job[r].uid
          /\ snap[r] \in Assigners
    /\ pc[r] = "insert" => job[r].department_id # None /\ WellFormed(job[r])
    /\ pc[r] = "delete" =>
          /\ job[r].op = "remove"
          /\ job[r].scope_id \in issued
          /\ scopes[job[r].scope_id] # None => scopes[job[r].scope_id].uid = job[r].uid

IInv ==
    /\ TypeOK
    /\ \A u \in Users : role[u] \in Assigners => u \in everStaff
    /\ \A i \in Ids : scopes[i] # None => i \in issued
    /\ ScopesEarned
    /\ \A r \in Requests : RequestOK(r)

LEMMA Served ==
    ASSUME TypeOK, NEW r \in Requests, pc[r] # "idle"
    PROVE  /\ job[r] \in Jobs /\ job[r] \in Job
           /\ job[r].uid \in Users /\ job[r].target \in Users
           /\ job[r].op = "remove" => job[r].scope_id \in Ids
BY ScopesAssumption DEF TypeOK, Optional, Job

LEMMA InitIInv == Init => IInv
BY ScopesAssumption DEF Init, IInv, TypeOK, ScopesEarned, RequestOK, Optional

\* A request other than the one that steps keeps what IInv says of it.
LEMMA OthersKeep ==
    ASSUME IInv, NEW s \in Requests, RequestOK(s),
           pc'[s] = pc[s], job'[s] = job[s], snap'[s] = snap[s],
           everStaff \subseteq everStaff', issued \subseteq issued',
           \A i \in issued : scopes'[i] \in {scopes[i], None}
    PROVE  RequestOK(s)'
<1>1. CASE pc[s] # "delete"
  BY <1>1 DEF RequestOK, WellFormed
<1>2. CASE pc[s] = "delete"
  BY <1>2 DEF RequestOK
<1> QED  BY <1>1, <1>2

\* A request that ends leaves nothing to say of its slot.
LEMMA EndedOK ==
    ASSUME NEW r \in Requests, pc'[r] = "idle"
    PROVE  RequestOK(r)'
BY DEF RequestOK

LEMMA TypeStep == ASSUME IInv, [Next]_vars PROVE TypeOK'
<1> USE DEF IInv, TypeOK, Goto, Finish, Handling
<1>1. ASSUME NEW r \in Requests, Begin(r) PROVE TypeOK'
  <2>1. PICK j \in Jobs : /\ job' = [job EXCEPT ![r] = j]
                          /\ snap' = [snap EXCEPT ![r] = role[j.uid]]
    BY <1>1 DEF Begin
  <2>2. j.uid \in Users /\ j # None /\ j \in Optional(Jobs)
    BY <2>1, ScopesAssumption DEF Job, Optional
  <2>3. role[j.uid] \in Roles /\ role[j.uid] # None
    BY <2>2, ScopesAssumption
  <2>4. pc' = [pc EXCEPT ![r] = "handler"]
    BY <1>1 DEF Begin
  <2> QED  BY <1>1, <2>1, <2>2, <2>3, <2>4 DEF Begin, Optional
<1>2. ASSUME NEW r \in Requests, Admit(r) PROVE TypeOK'
  BY <1>2 DEF Admit, Optional
<1>3. ASSUME NEW r \in Requests, Validate(r) PROVE TypeOK'
  BY <1>3 DEF Validate, Optional
<1>4. ASSUME NEW r \in Requests, Insert(r) PROVE TypeOK'
  <2>1. /\ job[r] \in Job /\ job[r].target \in Users
        /\ job[r].department_id # None /\ WellFormed(job[r])
    BY <1>4, Served DEF Insert, RequestOK
  <2>2. [uid |-> job[r].target, college_id |-> job[r].college_id,
         department_id |-> job[r].department_id, batch_id |-> job[r].batch_id] \in Row
    BY <2>1, ScopesAssumption DEF Job, Row, WellFormed, Optional
  <2> QED  BY <1>4, <2>2 DEF Insert, Optional
<1>5. ASSUME NEW r \in Requests, Find(r) PROVE TypeOK'
  BY <1>5 DEF Find, Optional
<1>6. ASSUME NEW r \in Requests, Delete(r) PROVE TypeOK'
  BY <1>6 DEF Delete, Optional
<1>7. ASSUME NEW r \in Requests, Fail(r) PROVE TypeOK'
  BY <1>7 DEF Fail, Optional
<1>8. ASSUME NEW u \in Users, ChangeRole(u) PROVE TypeOK'
  BY <1>8 DEF ChangeRole
<1>9. CASE UNCHANGED vars
  BY <1>9 DEF vars
<1> QED  BY <1>1, <1>2, <1>3, <1>4, <1>5, <1>6, <1>7, <1>8, <1>9 DEF Next

\* How a step may change the tables: rows are inserted under new ids for users
\* that have been staff, and deleted; nobody ceases to have been staff.
LEMMA TablesStep ==
    ASSUME IInv, [Next]_vars
    PROVE  /\ issued \subseteq issued'
           /\ everStaff \subseteq everStaff'
           /\ \A i \in issued : i \in Ids => scopes'[i] \in {scopes[i], None}
           /\ \A i \in Ids : scopes'[i] # scopes[i] /\ scopes'[i] # None =>
                 /\ i \in issued'
                 /\ scopes'[i].uid \in everStaff'
                 /\ WellFormed(scopes'[i])
<1> USE DEF Finish, Goto
<1>1. ASSUME NEW r \in Requests, Insert(r)
      PROVE  /\ everStaff' = everStaff
             /\ \E i \in Ids \ issued :
                   /\ issued' = issued \cup {i}
                   /\ \A k \in Ids \ {i} : scopes'[k] = scopes[k]
                   /\ scopes'[i].uid \in everStaff
                   /\ WellFormed(scopes'[i])
  <2>1. PICK i \in Ids \ issued :
            /\ issued' = issued \cup {i}
            /\ scopes' = [scopes EXCEPT ![i] = [uid |-> job[r].target,
                                                college_id |-> job[r].college_id,
                                                department_id |-> job[r].department_id,
                                                batch_id |-> job[r].batch_id]]
    BY <1>1 DEF Insert
  <2>2. /\ job[r].target \in everStaff
        /\ WellFormed(job[r])
    BY <1>1 DEF Insert, IInv, RequestOK
  <2>3. scopes'[i] = [uid |-> job[r].target, college_id |-> job[r].college_id,
                      department_id |-> job[r].department_id, batch_id |-> job[r].batch_id]
    BY <2>1 DEF IInv, TypeOK
  <2>4. \A k \in Ids \ {i} : scopes'[k] = scopes[k]
    BY <2>1 DEF IInv, TypeOK
  <2>5. everStaff' = everStaff
    BY <1>1 DEF Insert
  <2> QED  BY <2>1, <2>2, <2>3, <2>4, <2>5 DEF WellFormed
<1>2. ASSUME NEW r \in Requests, Delete(r)
      PROVE  /\ issued' = issued /\ everStaff' = everStaff
             /\ \A i \in Ids : scopes'[i] \in {scopes[i], None}
  BY <1>2 DEF Delete, IInv, TypeOK
<1>3. ASSUME NEW r \in Requests,
             Begin(r) \/ Admit(r) \/ Validate(r) \/ Find(r) \/ Fail(r)
      PROVE  issued' = issued /\ everStaff' = everStaff /\ scopes' = scopes
  BY <1>3 DEF Begin, Admit, Validate, Find, Fail
<1>4. ASSUME NEW u \in Users, ChangeRole(u)
      PROVE  issued' = issued /\ everStaff \subseteq everStaff' /\ scopes' = scopes
  BY <1>4 DEF ChangeRole
<1>5. CASE \E r \in Requests : Insert(r)
  BY <1>1, <1>5
<1>6. CASE ~\E r \in Requests : Insert(r)
  BY <1>2, <1>3, <1>4, <1>6 DEF Next, vars
<1> QED  BY <1>5, <1>6

LEMMA RolesStep ==
    ASSUME IInv, [Next]_vars
    PROVE  \A u \in Users : role'[u] \in Assigners => u \in everStaff'
<1> USE DEF Finish, Goto
<1>1. ASSUME NEW v \in Users, ChangeRole(v)
      PROVE  \A u \in Users : role'[u] \in Assigners => u \in everStaff'
  BY <1>1 DEF ChangeRole, IInv, TypeOK
<1>2. CASE UNCHANGED <<role, everStaff>>
  BY <1>2 DEF IInv
<1>3. ASSUME NEW r \in Requests,
             Begin(r) \/ Admit(r) \/ Validate(r) \/ Insert(r) \/ Find(r) \/ Delete(r) \/ Fail(r)
      PROVE  UNCHANGED <<role, everStaff>>
  BY <1>3 DEF Begin, Admit, Validate, Insert, Find, Delete, Fail
<1> QED  BY <1>1, <1>2, <1>3 DEF Next, vars

\* What a request may rely on after each of its own steps.
LEMMA OwnStep ==
    ASSUME IInv, NEW r \in Requests,
           Begin(r) \/ Admit(r) \/ Validate(r) \/ Insert(r) \/ Find(r) \/ Delete(r) \/ Fail(r)
    PROVE  RequestOK(r)'
<1> USE DEF Goto, Handling
<1>1. CASE Begin(r)
  <2>1. PICK j \in Jobs : /\ job' = [job EXCEPT ![r] = j]
                          /\ snap' = [snap EXCEPT ![r] = role[j.uid]]
    BY <1>1 DEF Begin
  <2>2. job'[r] = j /\ snap'[r] = role[j.uid] /\ j.uid \in Users
    BY <2>1, ScopesAssumption DEF IInv, TypeOK, Job
  <2>3. pc'[r] = "handler" /\ everStaff' = everStaff
    BY <1>1 DEF Begin, IInv, TypeOK
  <2> QED  BY <2>2, <2>3 DEF RequestOK, IInv
<1>2. CASE Admit(r) /\ ~Finish(r)
  BY <1>2 DEF Admit, IInv, TypeOK, RequestOK
<1>3. CASE Validate(r) /\ ~Finish(r)
  BY <1>3 DEF Validate, ValidScope, WellFormed, IInv, TypeOK, RequestOK
<1>4. CASE Insert(r)
  BY <1>4, EndedOK DEF Insert, IInv, TypeOK
<1>5. CASE Find(r) /\ ~Finish(r)
  <2>1. job[r].scope_id \in Ids
    BY <1>5, Served DEF Find, IInv
  <2>2. scopes[job[r].scope_id] # None /\ job[r].scope_id \in issued
    BY <1>5, <2>1 DEF Find, IInv
  <2> QED  BY <1>5, <2>2 DEF Find, IInv, TypeOK, RequestOK
<1>6. CASE Finish(r)
  BY <1>6, EndedOK DEF Finish, IInv, TypeOK
<1>7. Delete(r) \/ Fail(r) => Finish(r)
  BY DEF Delete, Fail
<1> QED  BY <1>1, <1>2, <1>3, <1>4, <1>5, <1>6, <1>7

LEMMA RequestsStep ==
    ASSUME IInv, [Next]_vars, NEW s \in Requests
    PROVE  RequestOK(s)'
<1>1. ASSUME NEW r \in Requests, s # r,
             Begin(r) \/ Admit(r) \/ Validate(r) \/ Insert(r) \/ Find(r) \/ Delete(r) \/ Fail(r)
      PROVE  pc'[s] = pc[s] /\ job'[s] = job[s] /\ snap'[s] = snap[s]
  BY <1>1 DEF Begin, Admit, Validate, Insert, Find, Delete, Fail, Finish, Goto, IInv, TypeOK
<1>2. CASE pc'[s] = pc[s] /\ job'[s] = job[s] /\ snap'[s] = snap[s]
  BY <1>2, TablesStep, OthersKeep DEF IInv, TypeOK
<1>3. CASE (\E u \in Users : ChangeRole(u)) \/ UNCHANGED vars
  BY <1>2, <1>3 DEF ChangeRole, vars
<1> QED  BY <1>1, <1>2, <1>3, OwnStep DEF Next

LEMMA StepIInv == ASSUME IInv, [Next]_vars PROVE IInv'
<1>1. TypeOK'
  BY TypeStep
<1>2. \A u \in Users : role'[u] \in Assigners => u \in everStaff'
  BY RolesStep
<1>3. \A i \in Ids : scopes'[i] # None => i \in issued'
  BY TablesStep DEF IInv
<1>4. ScopesEarned'
  BY TablesStep DEF IInv, ScopesEarned, WellFormed
<1>5. \A r \in Requests : RequestOK(r)'
  BY RequestsStep
<1> QED  BY <1>1, <1>2, <1>3, <1>4, <1>5 DEF IInv

\* The inductive invariant: what each request has checked still counts when it
\* acts on it (assign_staff_scope, remove_staff_scope).
THEOREM ScopesInvariant == Spec => []IInv
<1>1. Init => IInv
  BY InitIInv
<1>2. IInv /\ [Next]_vars => IInv'
  BY StepIInv
<1> QED  BY <1>1, <1>2, PTL DEF Spec

\* Types, for any requests and role changes (the handlers of /scopes/staff).
THEOREM TypeCorrect == Spec => []TypeOK
BY ScopesInvariant, PTL DEF IInv

\* Every staff scope names a department of its college and a batch of its
\* department, and its user has been staff, through any overlap of assignments
\* with changes of role.
THEOREM ScopesAreEarned == Spec => []ScopesEarned
<1>1. IInv => ScopesEarned
  BY DEF IInv
<1> QED  BY <1>1, ScopesInvariant, PTL

LEMMA OwnerStep ==
    ASSUME IInv, [Next]_vars, NEW i \in Ids, scopes[i] # None, scopes'[i] # scopes[i]
    PROVE  /\ scopes'[i] = None
           /\ \E r \in Requests : /\ job[r] # None /\ job'[r] = None
                                  /\ job[r].op = "remove"
                                  /\ job[r].scope_id = i
                                  /\ job[r].uid = scopes[i].uid
<1>1. i \in issued
  BY DEF IInv
<1>2. PICK r \in Requests : Delete(r)
  <2>1. ASSUME NEW r \in Requests,
               Begin(r) \/ Admit(r) \/ Validate(r) \/ Find(r) \/ Fail(r)
        PROVE  scopes' = scopes
    BY <2>1 DEF Begin, Admit, Validate, Find, Fail
  <2>2. ASSUME NEW r \in Requests, Insert(r)
        PROVE  scopes'[i] = scopes[i]
    BY <1>1, <2>2 DEF Insert, IInv, TypeOK
  <2>3. ASSUME NEW u \in Users, ChangeRole(u)
        PROVE  scopes' = scopes
    BY <2>3 DEF ChangeRole
  <2> QED  BY <2>1, <2>2, <2>3 DEF Next, vars
<1>3. job[r].scope_id = i /\ scopes'[i] = None
  BY <1>2 DEF Delete, IInv, TypeOK
<1>4. job[r].op = "remove" /\ job[r].uid = scopes[i].uid
  BY <1>2, <1>3 DEF Delete, IInv, RequestOK
<1>5. job[r] # None /\ job'[r] = None
  BY <1>2 DEF Delete, Finish, IInv, TypeOK
<1> QED  BY <1>3, <1>4, <1>5

\* A staff scope goes only by a DELETE of its owner, and never changes.
THEOREM ScopesRemovedByOwner == Spec => RemovedByOwnerOnly
<1>1. IInv /\ [Next]_vars =>
        [\A i \in Ids : scopes[i] # None /\ scopes'[i] # scopes[i] =>
            /\ scopes'[i] = None
            /\ \E r \in Requests : /\ job[r] # None /\ job'[r] = None
                                   /\ job[r].op = "remove"
                                   /\ job[r].scope_id = i
                                   /\ job[r].uid = scopes[i].uid]_vars
  BY OwnerStep
<1> QED  BY <1>1, ScopesInvariant, PTL DEF Spec, RemovedByOwnerOnly
=============================================================================
