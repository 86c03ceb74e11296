--------------------------- MODULE StartupProofs ---------------------------
(***************************************************************************)
(* Any number of containers that start, fail and start again, over any     *)
(* number of departments and batches; first the seed, then the deployment. *)
(*                                                                         *)
(* A run of the seed decides by what it finds, and what it found missing   *)
(* may be there by the time it inserts; but the catalogue only grows, and  *)
(* the batches of a department come at once.  So everything a run has      *)
(* passed on its way stays behind it: that is RunOK, which makes both      *)
(* properties of SeedUkf inductive.                                        *)
(*                                                                         *)
(* What containers do to the catalogue is what SeedUkf allows, so that the *)
(* theorems about the seed hold of the deployment; and an upgrade, which   *)
(* decides by the version that it has read, finds the tables of that       *)
(* version still there, because tables only appear.                        *)
(***************************************************************************)
EXTENDS Startup, TLAPS

(***************************************************************************)
(* The seed.                                                               *)
(***************************************************************************)

InLoop == {"department", "addDepartment", "batches", "addBatches", "collect"}

\* Department t is seeded, and its batches are noted by p.
Passed(p, t) ==
    /\ t \in departments
    /\ batches[t] = Years
    /\ \A y \in Years : <<t, y>> \in infos[p]

RunOK(p) ==
    /\ pc[p] \in {"down", "college", "addCollege"} => at[p] = 1
    /\ pc[p] \in InLoop \cup {"groups", "done", "skipped"} => college
    /\ pc[p] \in InLoop => \A t \in Slugs : t < at[p] => Passed(p, t)
    /\ pc[p] \in {"batches", "addBatches", "collect"} => at[p] \in departments
    /\ pc[p] = "collect" => batches[at[p]] = Years
    /\ pc[p] \in {"groups", "done", "skipped"} =>
          \A s \in Slugs : s \in departments /\ batches[s] = Years
    /\ pc[p] = "groups" => \A s \in Slugs, y \in Years : <<s, y>> \in infos[p] \cup groups
    /\ pc[p] = "done" => \A s \in Slugs, y \in Years : <<s, y>> \in groups

IInv == TypeOK /\ Leftover /\ \A p \in Runs : RunOK(p)

\* The catalogue only grows, the batches of a department all at once.
Grows ==
    /\ college => college'
    /\ departments \subseteq departments'
    /\ \A s \in Slugs : batches[s] # {} => batches'[s] = batches[s]
    /\ groups \subseteq groups'

LEMMA One == 1 \in Slugs /\ Slugs \subseteq Nat
BY SeedAssumption DEF Slugs

LEMMA NoneBefore == \A t \in Slugs : ~ (t < 1)
BY DEF Slugs

LEMMA InitIInv == Init => IInv
BY One DEF Init, Down, IInv, TypeOK, Leftover, RunOK, InLoop

LEMMA TypeStep == ASSUME IInv, [Next]_vars PROVE TypeOK'
<1> USE One DEF IInv, TypeOK, Goto, catalogue
<1>1. ASSUME NEW p \in Runs, Start(p) PROVE TypeOK'
  BY <1>1 DEF Start
<1>2. ASSUME NEW p \in Runs, FindCollege(p) \/ FindDepartment(p) \/ FindBatches(p)
      PROVE  TypeOK'
  BY <1>2 DEF FindCollege, FindDepartment, FindBatches, Select
<1>3. ASSUME NEW p \in Runs, AddCollege(p) \/ AddDepartment(p) PROVE TypeOK'
  <2>1. CASE Reject(p)
    BY <2>1 DEF Reject, Quit
  <2>2. CASE AddCollege(p)
    BY <2>1, <2>2 DEF AddCollege
  <2>3. CASE AddDepartment(p)
    BY <2>1, <2>3 DEF AddDepartment
  <2> QED  BY <1>3, <2>2, <2>3
<1>4. ASSUME NEW p \in Runs, AddBatches(p) PROVE TypeOK'
  <2>1. CASE Reject(p)
    BY <2>1 DEF Reject, Quit
  <2> QED  BY <1>4, <2>1 DEF AddBatches
<1>5. ASSUME NEW p \in Runs, Collect(p) PROVE TypeOK'
  <2>1. Found(p) \subseteq Slugs \X Years
    <3>1. at[p] \in Slugs /\ batches[at[p]] \subseteq Years
      OBVIOUS
    <3> QED  BY <3>1 DEF Found
  <2>2. at[p] # NumDepts => at[p] + 1 \in Slugs
    BY SeedAssumption DEF Slugs
  <2>3. infos' \in [Runs -> SUBSET (Slugs \X Years)]
    BY <1>5, <2>1 DEF Collect, Quit
  <2>4. at' \in [Runs -> Slugs]
    BY <1>5, <2>2 DEF Collect, Quit
  <2> QED  BY <1>5, <2>3, <2>4 DEF Collect, Quit
<1>6. ASSUME NEW p \in Runs, EnsureGroup(p) PROVE TypeOK'
  BY <1>6 DEF EnsureGroup
<1>7. ASSUME NEW p \in Runs, Abort(p) \/ Crash(p) PROVE TypeOK'
  BY <1>7 DEF Abort, Crash, Quit
<1>8. ASSUME NEW s \in Slugs, HodCreatesDepartment(s) PROVE TypeOK'
  BY <1>8 DEF HodCreatesDepartment
<1>9. ASSUME NEW s \in Slugs, NEW y \in Years, AssignmentEnsuresGroup(s, y) PROVE TypeOK'
  BY <1>9 DEF AssignmentEnsuresGroup
<1>10. CASE UNCHANGED vars
  BY <1>10 DEF vars
<1> QED
  BY <1>1, <1>2, <1>3, <1>4, <1>5, <1>6, <1>7, <1>8, <1>9, <1>10 DEF Next, Step

LEMMA GrowsStep == ASSUME IInv, [Next]_vars PROVE Grows
<1> USE DEF Grows, catalogue
<1>1. ASSUME NEW p \in Runs, Start(p) \/ Abort(p) \/ Crash(p) \/ Collect(p) \/ EnsureGroup(p)
      PROVE  Grows
  BY <1>1 DEF Start, Abort, Crash, Quit, Collect, EnsureGroup
<1>2. ASSUME NEW p \in Runs, FindCollege(p) \/ FindDepartment(p) \/ FindBatches(p) PROVE Grows
  BY <1>2 DEF FindCollege, FindDepartment, FindBatches, Select
<1>3. ASSUME NEW p \in Runs, AddCollege(p) \/ AddDepartment(p) PROVE Grows
  <2>1. CASE Reject(p)
    BY <2>1 DEF Reject, Quit
  <2>2. CASE AddCollege(p)
    BY <2>1, <2>2 DEF AddCollege
  <2>3. CASE AddDepartment(p)
    BY <2>1, <2>3 DEF AddDepartment
  <2> QED  BY <1>3, <2>2, <2>3
<1>4. ASSUME NEW p \in Runs, AddBatches(p) PROVE Grows
  BY <1>4 DEF AddBatches, Reject, Quit, IInv, TypeOK
<1>5. ASSUME NEW s \in Slugs, HodCreatesDepartment(s) PROVE Grows
  BY <1>5 DEF HodCreatesDepartment
<1>6. ASSUME NEW s \in Slugs, NEW y \in Years, AssignmentEnsuresGroup(s, y) PROVE Grows
  BY <1>6 DEF AssignmentEnsuresGroup
<1>7. CASE UNCHANGED vars
  BY <1>7 DEF vars
<1> QED  BY <1>1, <1>2, <1>3, <1>4, <1>5, <1>6, <1>7 DEF Next, Step

LEMMA LeftoverStep == ASSUME IInv, [Next]_vars PROVE Leftover'
<1> USE DEF catalogue
<1>1. ASSUME NEW p \in Runs, AddBatches(p) PROVE Leftover'
  <2>1. CASE batches[at[p]] # {}
    BY <1>1, <2>1 DEF AddBatches, Reject, Quit, IInv, Leftover
  <2>2. CASE batches[at[p]] = {}
    <3>1. /\ at[p] \in departments /\ at[p] \in Slugs
          /\ \A t \in Slugs : t < at[p] => batches[t] = Years
      BY <1>1 DEF AddBatches, IInv, TypeOK, RunOK, InLoop, Passed
    <3>2. /\ batches' = [batches EXCEPT ![at[p]] = Years]
          /\ UNCHANGED <<college, departments, groups>>
      BY <1>1, <2>2 DEF AddBatches
    <3>3. \A s \in Slugs : batches'[s] = IF s = at[p] THEN Years ELSE batches[s]
      BY <3>2 DEF IInv, TypeOK
    <3>4. ASSUME NEW s \in Slugs
          PROVE  /\ batches'[s] \in {{}, Years}
                 /\ batches'[s] # {} => s \in departments'
                 /\ batches'[s] # {} => \A t \in 1 .. s : batches'[t] # {}
      BY <3>1, <3>2, <3>3, SeedAssumption DEF IInv, Leftover, Slugs
    <3>5. \A b \in groups' : b[2] \in batches'[b[1]]
      BY <3>2, <3>3 DEF IInv, Leftover, TypeOK
    <3> QED  BY <3>2, <3>4, <3>5 DEF IInv, Leftover
  <2> QED  BY <2>1, <2>2
<1>2. ASSUME NEW p \in Runs, AddCollege(p) \/ AddDepartment(p) PROVE Leftover'
  <2>1. CASE Reject(p)
    BY <2>1 DEF Reject, Quit, IInv, Leftover
  <2> QED  BY <1>2, <2>1 DEF AddCollege, AddDepartment, IInv, Leftover, RunOK, InLoop
<1>3. ASSUME NEW p \in Runs, EnsureGroup(p) PROVE Leftover'
  <2>1. CASE groups' = groups
    BY <1>3, <2>1 DEF EnsureGroup, IInv, Leftover
  <2>2. CASE groups' # groups
    <3>1. PICK b \in infos[p] : groups' = groups \cup {b}
      BY <1>3, <2>2 DEF EnsureGroup
    <3>2. b \in Slugs \X Years /\ pc[p] = "groups"
      BY <1>3, <3>1 DEF EnsureGroup, IInv, TypeOK
    <3>3. b[2] \in batches[b[1]]
      BY <3>2 DEF IInv, RunOK
    <3> QED  BY <1>3, <3>1, <3>3 DEF EnsureGroup, IInv, Leftover
  <2> QED  BY <2>1, <2>2
<1>4. ASSUME NEW s \in Slugs, HodCreatesDepartment(s) PROVE Leftover'
  BY <1>4 DEF HodCreatesDepartment, IInv, Leftover
<1>5. ASSUME NEW s \in Slugs, NEW y \in Years, AssignmentEnsuresGroup(s, y) PROVE Leftover'
  BY <1>5 DEF AssignmentEnsuresGroup, IInv, Leftover
<1>6. ASSUME NEW p \in Runs,
             \/ Start(p) \/ Abort(p) \/ Crash(p) \/ Collect(p)
             \/ FindCollege(p) \/ FindDepartment(p) \/ FindBatches(p)
      PROVE  UNCHANGED catalogue
  BY <1>6 DEF Start, Abort, Crash, Quit, Collect, FindCollege, FindDepartment, FindBatches, Select
<1>7. CASE UNCHANGED catalogue
  BY <1>7 DEF IInv, Leftover
<1> QED
  BY <1>1, <1>2, <1>3, <1>4, <1>5, <1>6, <1>7 DEF Next, Step, vars

\* A run that does not step keeps what IInv says of it, because the catalogue
\* only grows.
LEMMA OthersKeep ==
    ASSUME IInv, TypeOK', Grows, NEW p \in Runs,
           pc'[p] = pc[p], at'[p] = at[p], infos'[p] = infos[p]
    PROVE  RunOK(p)'
<1>1. RunOK(p) /\ at[p] \in Slugs
  BY DEF IInv, TypeOK
<1>2. \A t \in Slugs : t \in departments /\ batches[t] = Years
                       => t \in departments' /\ batches'[t] = Years
  BY SeedAssumption DEF Grows
<1>3. \A t \in Slugs : Passed(p, t) => Passed(p, t)'
  BY <1>2 DEF Passed
<1>4. pc[p] = "collect" => batches'[at[p]] = Years
  BY <1>1, <1>2, SeedAssumption DEF RunOK, Grows
<1>5. pc[p] \in {"groups", "done", "skipped"} =>
         \A s \in Slugs : s \in departments' /\ batches'[s] = Years
  BY <1>1, <1>2 DEF RunOK
<1>6. pc[p] = "groups" => \A s \in Slugs, y \in Years : <<s, y>> \in infos'[p] \cup groups'
  BY <1>1 DEF RunOK, Grows
<1>7. pc[p] = "done" => \A s \in Slugs, y \in Years : <<s, y>> \in groups'
  BY <1>1 DEF RunOK, Grows
<1> QED  BY <1>1, <1>3, <1>4, <1>5, <1>6, <1>7 DEF RunOK, Grows

\* The steps of a run itself.
LEMMA FindStep ==
    ASSUME IInv, NEW p \in Runs, FindCollege(p) \/ FindDepartment(p) \/ FindBatches(p)
    PROVE  RunOK(p)'
<1> USE DEF Select, Goto, catalogue, InLoop
<1>1. CASE FindCollege(p)
  <2>1. /\ at[p] = 1 /\ at' = at /\ college' = college
        /\ pc'[p] \in {"addCollege", "department"}
        /\ pc'[p] = "department" => college
    BY <1>1 DEF FindCollege, IInv, TypeOK, RunOK
  <2>2. \A t \in Slugs : ~ (t < at'[p])
    BY <2>1, NoneBefore
  <2> QED  BY <2>1, <2>2 DEF RunOK
<1>2. CASE FindDepartment(p)
  BY <1>2 DEF FindDepartment, IInv, TypeOK, RunOK, Passed
<1>3. CASE FindBatches(p)
  <2>1. at[p] \in Slugs /\ (batches[at[p]] # {} => batches[at[p]] = Years)
    BY DEF IInv, TypeOK, Leftover
  <2> QED  BY <1>3, <2>1 DEF FindBatches, IInv, TypeOK, RunOK, Passed
<1> QED  BY <1>1, <1>2, <1>3

LEMMA AddStep ==
    ASSUME IInv, NEW p \in Runs, AddCollege(p) \/ AddDepartment(p) \/ AddBatches(p)
    PROVE  RunOK(p)'
<1> USE DEF Goto, InLoop
<1>1. CASE Reject(p)
  BY <1>1, One DEF Reject, Quit, IInv, TypeOK, RunOK
<1>2. CASE AddCollege(p) /\ ~Reject(p)
  <2>1. at[p] = 1 /\ at' = at /\ college' /\ pc'[p] = "department"
    BY <1>2 DEF AddCollege, IInv, TypeOK, RunOK
  <2>2. \A t \in Slugs : ~ (t < at'[p])
    BY <2>1, NoneBefore
  <2> QED  BY <2>1, <2>2 DEF RunOK
<1>3. CASE AddDepartment(p) /\ ~Reject(p)
  BY <1>3 DEF AddDepartment, IInv, TypeOK, RunOK, Passed
<1>4. CASE AddBatches(p) /\ ~Reject(p)
  <2>1. /\ at[p] \in Slugs /\ at[p] \in departments /\ college
        /\ \A t \in Slugs : t < at[p] => Passed(p, t)
    BY <1>4 DEF AddBatches, IInv, TypeOK, RunOK
  <2>2. /\ batches' = [batches EXCEPT ![at[p]] = Years]
        /\ pc' = [pc EXCEPT ![p] = "collect"]
        /\ UNCHANGED <<college, departments, groups, at, infos>>
    BY <1>4 DEF AddBatches
  <2>3. \A t \in Slugs : t < at[p] => Passed(p, t)'
    BY <2>1, <2>2, One DEF Passed, IInv, TypeOK
  <2>4. batches'[at[p]] = Years /\ pc'[p] = "collect"
    BY <2>1, <2>2 DEF IInv, TypeOK
  <2> QED  BY <2>1, <2>2, <2>3, <2>4 DEF RunOK
<1> QED  BY <1>1, <1>2, <1>3, <1>4

LEMMA CollectStep ==
    ASSUME IInv, NEW p \in Runs, Collect(p)
    PROVE  RunOK(p)'
<1> USE DEF Goto, InLoop
<1>1. /\ college /\ at[p] \in Slugs
      /\ at[p] \in departments /\ batches[at[p]] = Years
      /\ \A t \in Slugs : t < at[p] => Passed(p, t)
  BY DEF Collect, IInv, TypeOK, RunOK
<1>2. UNCHANGED <<college, departments, batches, groups>>
  BY DEF Collect, catalogue
<1>3. CASE pc' = [pc EXCEPT ![p] = "skipped"]
  <2>1. at[p] = NumDepts
    BY <1>3 DEF Collect, IInv, TypeOK
  <2>2. \A s \in Slugs : s \in departments /\ batches[s] = Years
    BY <1>1, <2>1, SeedAssumption DEF Slugs, Passed
  <2>3. pc'[p] = "skipped"
    BY <1>3 DEF IInv, TypeOK
  <2> QED  BY <1>1, <1>2, <2>2, <2>3 DEF RunOK
<1>4. CASE infos' = [infos EXCEPT ![p] = @ \cup Found(p)]
  <2>1. infos'[p] = infos[p] \cup {<<at[p], y>> : y \in Years}
    BY <1>1, <1>4 DEF Found, IInv, TypeOK
  <2>2. \A t \in Slugs : t <= at[p] => Passed(p, t)'
    <3>1. ASSUME NEW t \in Slugs, t < at[p] PROVE Passed(p, t)'
      BY <1>1, <1>2, <2>1, <3>1 DEF Passed
    <3>2. ASSUME NEW t \in Slugs, t = at[p] PROVE Passed(p, t)'
      <4>1. t \in departments' /\ batches'[t] = Years
        BY <1>1, <1>2, <3>2
      <4>2. \A y \in Years : <<t, y>> \in infos'[p]
        BY <2>1, <3>2
      <4> QED  BY <4>1, <4>2 DEF Passed
    <3>3. \A t \in Slugs : t <= at[p] => t < at[p] \/ t = at[p]
      BY <1>1 DEF Slugs
    <3> QED  BY <3>1, <3>2, <3>3
  <2>3. CASE at[p] = NumDepts /\ pc'[p] = "groups"
    <3>1. \A s \in Slugs : Passed(p, s)'
      BY <2>2, <2>3, SeedAssumption DEF Slugs
    <3> QED  BY <1>1, <1>2, <2>3, <3>1 DEF RunOK, Passed
  <2>4. CASE at'[p] = at[p] + 1 /\ pc'[p] = "department"
    <3>1. \A t \in Slugs : t < at'[p] => Passed(p, t)'
      BY <1>1, <2>2, <2>4 DEF Slugs
    <3> QED  BY <1>1, <1>2, <2>4, <3>1 DEF RunOK
  <2>5. CASE Quit(p, "skipped")
    BY <1>3, <2>5 DEF Quit
  <2> QED  BY <2>3, <2>4, <2>5 DEF Collect, IInv, TypeOK
<1> QED  BY <1>3, <1>4 DEF Collect, Quit

LEMMA EnsureStep ==
    ASSUME IInv, NEW p \in Runs, EnsureGroup(p)
    PROVE  RunOK(p)'
<1> USE DEF Goto, InLoop
<1>1. /\ college
      /\ \A s \in Slugs : s \in departments /\ batches[s] = Years
      /\ \A s \in Slugs, y \in Years : <<s, y>> \in infos[p] \cup groups
      /\ UNCHANGED <<college, departments, batches>>
  BY DEF EnsureGroup, IInv, RunOK
<1>2. CASE infos[p] = {} /\ pc'[p] = "done" /\ UNCHANGED <<groups, infos>>
  BY <1>1, <1>2 DEF RunOK
<1>3. ASSUME NEW b \in infos[p],
             groups' = groups \cup {b}, infos'[p] = infos[p] \ {b}, pc'[p] = "groups"
      PROVE  RunOK(p)'
  BY <1>1, <1>3 DEF RunOK
<1> QED  BY <1>2, <1>3 DEF EnsureGroup, IInv, TypeOK

LEMMA RunsStep ==
    ASSUME IInv, [Next]_vars, NEW q \in Runs
    PROVE  RunOK(q)'
<1> USE DEF Goto
<1>1. TypeOK' /\ Grows
  BY TypeStep, GrowsStep
<1>2. CASE pc'[q] = pc[q] /\ at'[q] = at[q] /\ infos'[q] = infos[q]
  BY <1>1, <1>2, OthersKeep
<1>3. CASE (\E s \in Slugs : HodCreatesDepartment(s))
           \/ (\E s \in Slugs, y \in Years : AssignmentEnsuresGroup(s, y)) \/ UNCHANGED vars
  BY <1>2, <1>3 DEF HodCreatesDepartment, AssignmentEnsuresGroup, vars
<1>4. ASSUME NEW p \in Runs, p # q, Start(p) \/ Step(p) \/ Abort(p) \/ Crash(p)
      PROVE  pc'[q] = pc[q] /\ at'[q] = at[q] /\ infos'[q] = infos[q]
  BY <1>4 DEF Start, Step, Abort, Crash, FindCollege, AddCollege, FindDepartment, AddDepartment,
     FindBatches, AddBatches, Collect, EnsureGroup, Select, Reject, Quit, IInv, TypeOK
<1>5. CASE Start(q) \/ Abort(q) \/ Crash(q)
  <2>1. CASE Start(q)
    BY <2>1 DEF Start, IInv, TypeOK, RunOK, InLoop
  <2>2. CASE Abort(q) \/ Crash(q)
    BY <2>2, One DEF Abort, Crash, Quit, IInv, TypeOK, RunOK, InLoop
  <2> QED  BY <1>5, <2>1, <2>2
<1>6. CASE Step(q)
  BY <1>6, FindStep, AddStep, CollectStep, EnsureStep DEF Step
<1> QED  BY <1>2, <1>3, <1>4, <1>5, <1>6 DEF Next

LEMMA StepIInv == ASSUME IInv, [Next]_vars PROVE IInv'
BY TypeStep, LeftoverStep, RunsStep DEF IInv

\* The inductive invariant: whatever a run has passed on its way stays behind it.
THEOREM SeedInvariant == Spec => []IInv
<1>1. Init => IInv
  BY InitIInv
<1>2. IInv /\ [Next]_vars => IInv'
  BY StepIInv
<1> QED  BY <1>1, <1>2, PTL DEF Spec

\* Runs of the seed that overlap, die and start again, beside servers at work,
\* leave no department half seeded and no group without batch.
THEOREM CatalogueIsSound == Spec => []CatalogueSound
<1>1. IInv => CatalogueSound
  BY DEF IInv, CatalogueSound
<1> QED  BY <1>1, SeedInvariant, PTL

\* A run of the seed that reports completion is right, for any number of
\* departments, and stays right.
THEOREM CompletionIsTrue == Spec => []SeedComplete
<1>1. IInv => SeedComplete
  <2>1. SUFFICES ASSUME IInv, NEW p \in Runs, pc[p] \in {"done", "skipped"}
                 PROVE  /\ departments = Slugs
                        /\ \A s \in Slugs : batches[s] = Years
                        /\ pc[p] = "done" => groups = Slugs \X Years
    BY DEF SeedComplete
  <2>2. /\ \A s \in Slugs : s \in departments /\ batches[s] = Years
        /\ pc[p] = "done" => \A s \in Slugs, y \in Years : <<s, y>> \in groups
    BY <2>1 DEF IInv, RunOK
  <2>3. departments \subseteq Slugs /\ groups \subseteq Slugs \X Years
    BY <2>1 DEF IInv, TypeOK
  <2> QED  BY <2>2, <2>3
<1> QED  BY <1>1, SeedInvariant, PTL

(***************************************************************************)
(* The deployment.                                                         *)
(***************************************************************************)

\* The tables of the version that an upgrade has read are there.
ReadOK == \A p \in Runs : Upto(heads[p]) \subseteq schema

BootInv == BootTypeOK /\ ReadOK /\ SchemaMatchesVersion

LEMMA Tables ==
    /\ Upto(0) = {}
    /\ Upto(Head) = {"users", "college", "columns", "usage"}
    /\ \A v \in 0 .. Head : Upto(v) \subseteq Upto(Head)
<1>1. \A v \in 0 .. Head : 1 .. v \subseteq 1 .. Head
  BY DEF Head
<1>2. \A v \in 0 .. Head : Upto(v) \subseteq Upto(Head)
  BY <1>1 DEF Upto
<1>3. Upto(0) = {}
  BY DEF Upto
<1>4. 1 .. Head = {1, 2, 3}
  BY DEF Head
<1>5. Creates[1] = {"users"} /\ Creates[2] = {"college", "columns"} /\ Creates[3] = {"usage"}
  BY DEF Creates
<1>6. Upto(Head) = Creates[1] \cup Creates[2] \cup Creates[3]
  BY <1>4 DEF Upto
<1> QED  BY <1>2, <1>3, <1>5, <1>6

LEMMA SeedStep == BootNext => [Next]_vars
<1> USE DEF BootNext, Next
<1>1. ASSUME NEW p \in Runs, Boot(p) \/ PreMigrate(p) \/ ReadHeads(p) \/ Upgrade(p) \/ Serve(p)
      PROVE  UNCHANGED vars
  BY <1>1 DEF Boot, PreMigrate, ReadHeads, Upgrade, Serve
<1>2. ASSUME NEW p \in Runs, Seed(p) \/ Seeding(p) \/ Die(p)
      PROVE  [Next]_vars
  BY <1>2 DEF Seed, Seeding, Die
<1>3. ASSUME Handle
      PROVE  [Next]_vars
  BY <1>3 DEF Handle
<1>4. ASSUME Settle
      PROVE  UNCHANGED vars
  BY <1>4 DEF Settle
<1> QED  BY <1>1, <1>2, <1>3, <1>4 DEF Container

LEMMA DeploymentRunsSeed == BootSpec => Spec
<1>1. BootInit => Init
  BY DEF BootInit
<1>2. [BootNext]_<<vars, bootVars>> => [Next]_vars
  BY SeedStep
<1> QED  BY <1>1, <1>2, PTL DEF BootSpec, Spec

\* The seed of every container leaves the catalogue sound, on databases that
\* are migrated at the same time.
THEOREM DeploymentCatalogueSound == BootSpec => []CatalogueSound
BY DeploymentRunsSeed, CatalogueIsSound, PTL

\* A container that reports "UKF seed complete" is right.
THEOREM DeploymentSeedComplete == BootSpec => []SeedComplete
BY DeploymentRunsSeed, CompletionIsTrue, PTL

----------------------------------------------------------------------------

LEMMA InitBoot == BootInit => BootInv
<1> SUFFICES ASSUME BootInit PROVE BootInv
  OBVIOUS
<1>1. TypeOK
  BY InitIInv DEF BootInit, IInv
<1>2. schema \subseteq Upto(Head) /\ SchemaMatchesVersion
  BY Tables DEF BootInit, SchemaMatchesVersion
<1>3. heads \in [Runs -> 0 .. Head] /\ ReadOK
  BY Tables DEF BootInit, ReadOK, Head
<1>4. \A p \in Runs : stage[p] = "down" /\ pc[p] = "down" /\ ~Running(p)
  BY DEF BootInit, Init, Down, Running
<1> QED  BY <1>1, <1>2, <1>3, <1>4 DEF BootInv, BootTypeOK, BootInit

\* What the seed may do to a container that is not at its run.
LEMMA OthersStand ==
    ASSUME TypeOK, NEW p \in Runs, Start(p) \/ Step(p) \/ Abort(p) \/ Crash(p),
           NEW q \in Runs, q # p
    PROVE  pc'[q] = pc[q]
BY DEF Start, Step, Abort, Crash, Quit, FindCollege, AddCollege, FindDepartment, AddDepartment,
   FindBatches, AddBatches, Collect, EnsureGroup, Select, Reject, Goto, TypeOK

\* The stage of a container and its run of the seed fit each other.
StageOK(p) ==
    /\ stage[p] = "seeding" <=> Running(p)
    /\ stage[p] \in {"down", "preMigrate", "heads", "upgrade", "seed"} => pc[p] = "down"

LEMMA StagesKept ==
    ASSUME BootTypeOK, NEW p \in Runs, \A q \in Runs \ {p} : pc'[q] = pc[q],
           NEW there, stage' = [stage EXCEPT ![p] = there], StageOK(p)'
    PROVE  \A q \in Runs : StageOK(q)'
BY DEF BootTypeOK, StageOK, Running

LEMMA BootTypeStep ==
    ASSUME BootInv, TypeOK', BootNext
    PROVE  BootTypeOK'
<1> USE DEF BootInv, Enter
<1>1. ASSUME NEW p \in Runs, Boot(p) \/ PreMigrate(p) PROVE BootTypeOK'
  BY <1>1 DEF Boot, PreMigrate, vars, BootTypeOK, Running
<1>2. ASSUME NEW p \in Runs, ReadHeads(p) PROVE BootTypeOK'
  BY <1>2 DEF ReadHeads, vars, BootTypeOK, Running
<1>3. ASSUME NEW p \in Runs, Upgrade(p) PROVE BootTypeOK'
  <2>1. schema' \subseteq Upto(Head) /\ version' \in 0 .. Head
    BY <1>3 DEF Upgrade, Head, BootTypeOK
  <2>2. heads' \in [Runs -> 0 .. Head]
    BY <1>3 DEF Upgrade, Head, BootTypeOK
  <2> QED  BY <1>3, <2>1, <2>2 DEF Upgrade, vars, BootTypeOK, Running
<1>4. ASSUME NEW p \in Runs, Serve(p) PROVE BootTypeOK'
  BY <1>4, Tables DEF Serve, vars, BootTypeOK, Running
<1>5. ASSUME NEW p \in Runs, Seed(p) PROVE BootTypeOK'
  <2>1. CASE UNCHANGED vars /\ stage' = [stage EXCEPT ![p] = "server"]
    BY <1>5, <2>1 DEF Seed, vars, BootTypeOK, Running
  <2>2. CASE Start(p) /\ stage' = [stage EXCEPT ![p] = "seeding"]
    <3>1. pc'[p] = "college" /\ \A q \in Runs \ {p} : pc'[q] = pc[q]
      BY <2>2, OthersStand DEF Start, Goto, BootTypeOK, TypeOK
    <3>2. StageOK(p)'
      BY <2>2, <3>1 DEF StageOK, Running, BootTypeOK
    <3>3. \A q \in Runs : StageOK(q)'
      BY <2>2, <3>1, <3>2, StagesKept
    <3> QED  BY <1>5, <2>2, <3>3 DEF Seed, BootTypeOK, StageOK
  <2> QED  BY <1>5, <2>1, <2>2 DEF Seed
<1>6. ASSUME NEW p \in Runs, Seeding(p) PROVE BootTypeOK'
  <2>1. \A q \in Runs \ {p} : pc'[q] = pc[q]
    BY <1>6, OthersStand DEF Seeding, BootTypeOK
  <2>2. stage' = [stage EXCEPT ![p] = IF Running(p)' THEN "seeding" ELSE "server"]
    BY <1>6 DEF Seeding
  <2>3. StageOK(p)'
    BY <2>2 DEF StageOK, BootTypeOK
  <2>4. \A q \in Runs : StageOK(q)'
    BY <2>1, <2>2, <2>3, StagesKept
  <2>5. stage' \in [Runs -> {"down", "preMigrate", "heads", "upgrade", "seed", "seeding",
                            "server", "serving"}]
    BY <2>2 DEF BootTypeOK
  <2> QED  BY <1>6, <2>4, <2>5 DEF Seeding, BootTypeOK, StageOK
<1>7. ASSUME NEW p \in Runs, Die(p) PROVE BootTypeOK'
  <2>1. heads' \in [Runs -> 0 .. Head]
    BY <1>7 DEF Die, Head, BootTypeOK
  <2>2. pc'[p] = "down" /\ \A q \in Runs \ {p} : pc'[q] = pc[q]
    BY <1>7 DEF Die, Crash, Quit, Goto, BootTypeOK, TypeOK
  <2>3. stage' = [stage EXCEPT ![p] = "down"]
    BY <1>7 DEF Die
  <2>4. StageOK(p)'
    BY <2>2, <2>3 DEF StageOK, Running, BootTypeOK
  <2>5. \A q \in Runs : StageOK(q)'
    BY <2>2, <2>3, <2>4, StagesKept
  <2> QED  BY <1>7, <2>1, <2>3, <2>5 DEF Die, BootTypeOK, StageOK
<1>8. ASSUME Handle PROVE BootTypeOK'
  BY <1>8 DEF Handle, bootVars, HodCreatesDepartment, AssignmentEnsuresGroup, BootTypeOK, Running
<1>9. ASSUME Settle PROVE BootTypeOK'
  BY <1>9 DEF Settle, vars, BootTypeOK, Running
<1> QED
  BY <1>1, <1>2, <1>3, <1>4, <1>5, <1>6, <1>7, <1>8, <1>9 DEF BootNext, Container

LEMMA SchemaStep ==
    ASSUME BootInv, BootNext
    PROVE  ReadOK' /\ SchemaMatchesVersion'
<1> USE DEF BootInv, BootTypeOK, ReadOK, SchemaMatchesVersion
<1>1. ASSUME NEW p \in Runs, Upgrade(p) PROVE ReadOK' /\ SchemaMatchesVersion'
  <2>1. CASE UNCHANGED <<schema, version>>
    BY <1>1, <2>1, Tables DEF Upgrade
  <2>2. CASE schema' = schema \cup (Upto(Head) \ Upto(heads[p])) /\ version' = Head
    <3>1. schema' = Upto(Head)
      BY <2>2
    <3>2. \A q \in Runs : Upto(heads'[q]) \subseteq Upto(Head)
      BY <1>1, Tables DEF Upgrade
    <3> QED  BY <1>1, <2>2, <3>1, <3>2 DEF Upgrade
  <2> QED  BY <1>1, <2>1, <2>2 DEF Upgrade
<1>2. ASSUME NEW p \in Runs, ReadHeads(p) PROVE ReadOK' /\ SchemaMatchesVersion'
  BY <1>2 DEF ReadHeads
<1>3. ASSUME NEW p \in Runs, Serve(p) PROVE ReadOK' /\ SchemaMatchesVersion'
  <2>1. schema \subseteq schema' /\ (production => schema' = schema)
    BY <1>3, Tables DEF Serve
  <2> QED  BY <1>3, <2>1 DEF Serve
<1>4. ASSUME NEW p \in Runs, Die(p) PROVE ReadOK' /\ SchemaMatchesVersion'
  BY <1>4, Tables DEF Die
<1>5. ASSUME UNCHANGED <<production, schema, version, heads>>
      PROVE  ReadOK' /\ SchemaMatchesVersion'
  BY <1>5
<1> QED
  BY <1>1, <1>2, <1>3, <1>4, <1>5 DEF BootNext, Container, Boot, PreMigrate, Seed, Seeding,
     Handle, Settle, bootVars

\* The inductive invariant of a deployment: tables only appear, so what an
\* upgrade has read of them stays true until it commits.
THEOREM BootInvariant == BootSpec => []BootInv
<1>1. BootInv /\ TypeOK' /\ [BootNext]_<<vars, bootVars>> => BootInv'
  <2>1. CASE UNCHANGED <<vars, bootVars>>
    BY <2>1 DEF BootInv, BootTypeOK, ReadOK, SchemaMatchesVersion, TypeOK, vars, bootVars, Running
  <2> QED  BY <2>1, BootTypeStep, SchemaStep DEF BootInv
<1>2. BootSpec => []TypeOK
  <2>1. IInv => TypeOK
    BY DEF IInv
  <2> QED  BY <2>1, DeploymentRunsSeed, SeedInvariant, PTL
<1> QED  BY InitBoot, <1>1, <1>2, PTL DEF BootSpec

\* Types of the deployment; a container is at its run of the seed exactly while
\* the run is on its way.
THEOREM BootTypeCorrect == BootSpec => []BootTypeOK
BY BootInvariant, PTL DEF BootInv

\* Upgrades of any number of containers never leave alembic_version ahead of the
\* tables, nor, in production, beside them.
THEOREM VersionNeverAhead == BootSpec => []SchemaMatchesVersion
BY BootInvariant, PTL DEF BootInv

----------------------------------------------------------------------------

(***************************************************************************)
(* Why a server answers without its tables.  StartupUnmigrated shows that  *)
(* it does; here is what has to go wrong first.                            *)
(***************************************************************************)

\* All tables are there, or those of the recorded version, which every upgrade
\* on its way has read; and whoever is past the upgrade has all tables.
MigratesOK ==
    /\ \/ schema = Upto(Head)
       \/ schema = Upto(version) /\ \A p \in Runs : stage[p] = "upgrade" => heads[p] = version
    /\ \A p \in Runs :
         stage[p] \in {"seed", "seeding", "server", "serving"} => schema = Upto(Head)

LEMMA InitMigrates == BootInit => MigratesOK
BY DEF BootInit, MigratesOK

LEMMA MigratesStep ==
    ASSUME BootInv, MigratesOK, calm, ~stray, [BootNext]_<<vars, bootVars>>
    PROVE  MigratesOK'
<1> USE DEF MigratesOK, Enter
<1>1. /\ stage \in [Runs -> {"down", "preMigrate", "heads", "upgrade", "seed", "seeding",
                             "server", "serving"}]
      /\ heads \in [Runs -> 0 .. Head]
      /\ schema \subseteq Upto(Head)
  BY DEF BootInv, BootTypeOK
<1>2. ASSUME NEW p \in Runs, Boot(p) \/ PreMigrate(p)
      PROVE  MigratesOK'
  <2>1. /\ stage' \in {[stage EXCEPT ![p] = "preMigrate"], [stage EXCEPT ![p] = "heads"]}
        /\ UNCHANGED <<schema, version, heads>>
    BY <1>2 DEF Boot, PreMigrate
  <2>2. stage'[p] \in {"preMigrate", "heads"} /\ \A q \in Runs \ {p} : stage'[q] = stage[q]
    BY <1>1, <2>1
  <2> QED  BY <2>1, <2>2
<1>3. ASSUME NEW p \in Runs, ReadHeads(p)
      PROVE  MigratesOK'
  <2>1. /\ stage' = [stage EXCEPT ![p] = "upgrade"]
        /\ heads' = [heads EXCEPT ![p] = version]
        /\ UNCHANGED <<schema, version>>
    BY <1>3 DEF ReadHeads
  <2>2. heads'[p] = version /\ \A q \in Runs \ {p} : heads'[q] = heads[q] /\ stage'[q] = stage[q]
    BY <1>1, <2>1
  <2> QED  BY <1>1, <2>1, <2>2
<1>4. ASSUME NEW p \in Runs, Upgrade(p)
      PROVE  MigratesOK'
  <2>1. schema' = Upto(Head)
    <3>1. CASE schema' = schema \cup (Upto(Head) \ Upto(heads[p]))
      BY <1>1, <1>4, <3>1 DEF Upgrade
    <3>2. CASE /\ schema' = schema
               /\ (Upto(Head) \ Upto(heads[p])) \cap schema # {}
      BY <1>1, <1>4, <3>2 DEF Upgrade
    <3> QED  BY <1>4, <3>1, <3>2 DEF Upgrade
  <2> QED  BY <2>1
<1>5. ASSUME NEW p \in Runs, Seed(p) \/ Seeding(p)
      PROVE  MigratesOK'
  <2>1. UNCHANGED <<schema, version, heads>> /\ schema = Upto(Head)
    BY <1>5 DEF Seed, Seeding
  <2> QED  BY <2>1
<1>6. ASSUME NEW p \in Runs, Serve(p)
      PROVE  MigratesOK'
  <2>1. schema' = Upto(Head)
    BY <1>6, Tables DEF Serve
  <2> QED  BY <2>1
<1>7. ASSUME UNCHANGED <<schema, version, stage, heads>>
      PROVE  MigratesOK'
  BY <1>7
<1> QED
  BY <1>2, <1>3, <1>4, <1>5, <1>6, <1>7 DEF BootNext, Container, Die, Handle, Settle, bootVars

\* If no process dies, no upgrade fails for a reason of its own and
\* alembic_version never has the row of pre_migrate.py, then every server of a
\* deployment answers on the tables of the head, however the containers upgrade
\* beside each other ("alembic upgrade head || echo", start.sh).
THEOREM ServesOnHeadIfMigrated == BootSpec /\ [](calm /\ ~stray) => []ServesOnHead
<1>1. BootInv /\ MigratesOK /\ (calm /\ ~stray) /\ [BootNext]_<<vars, bootVars>> => MigratesOK'
  BY MigratesStep
<1>2. MigratesOK => ServesOnHead
  BY DEF MigratesOK, ServesOnHead
<1> QED  BY BootInvariant, InitMigrates, <1>1, <1>2, PTL DEF BootSpec
=============================================================================
