------------------------------ MODULE SeedUkf ------------------------------
(***************************************************************************)
(* The catalogue of the college "ukf" and the script that seeds it         *)
(* (app/scripts/seed_ukf.py).  Every container runs the script before its  *)
(* server starts (scripts/start.sh), so several runs may overlap with each *)
(* other and with servers that already handle requests; a run may die at   *)
(* any point, and a failed run is not repeated by its container.           *)
(*                                                                         *)
(* Each SELECT and each commit is an action: what a run found missing may  *)
(* be there when it inserts it, which PostgreSQL's constraints turn into   *)
(* an IntegrityError that ends the run.  Making sure of a group is one     *)
(* action here, since only its existence matters (GeneralGroups models the *)
(* look and the set apart).                                                *)
(***************************************************************************)
EXTENDS Naturals

CONSTANTS
    Runs,        \* slots for runs of the script
    NumDepts,    \* how many departments UKF_DEPARTMENTS lists
    Years        \* the start years of the batches of a department

ASSUME SeedAssumption == NumDepts \in Nat \ {0} /\ Years # {}

Slugs == 1 .. NumDepts

VARIABLES
    college,      \* whether the row of the college exists
    departments,  \* the slugs of the college's departments
    batches,      \* batches[s]: the start years of the batches of department s
    groups,       \* the batches that have a general group
    pc,           \* where each run is
    at,           \* the department it is at
    infos         \* batch_infos: the batches whose groups it will make sure of

vars == <<college, departments, batches, groups, pc, at, infos>>
catalogue == <<college, departments, batches, groups>>

TypeOK ==
    /\ college \in BOOLEAN
    /\ departments \subseteq Slugs
    /\ batches \in [Slugs -> SUBSET Years]
    /\ groups \subseteq Slugs \X Years
    /\ pc \in [Runs -> {"down", "college", "addCollege", "department", "addDepartment",
                        "batches", "addBatches", "collect", "groups", "done", "skipped", "failed"}]
    /\ at \in [Runs -> Slugs]
    /\ infos \in [Runs -> SUBSET (Slugs \X Years)]

\* What runs and servers of earlier deployments may have left: departments of
\* any kind, but batches only where all departments before have theirs.
Leftover ==
    /\ departments # {} => college
    /\ \A s \in Slugs : /\ batches[s] \in {{}, Years}
                        /\ batches[s] # {} => s \in departments
                        /\ batches[s] # {} => \A t \in 1 .. s : batches[t] # {}
    /\ \A b \in groups : b[2] \in batches[b[1]]

Down ==
    /\ pc = [p \in Runs |-> "down"]
    /\ at = [p \in Runs |-> 1]
    /\ infos = [p \in Runs |-> {}]

\* Whatever earlier deployments left; nothing at all before the first one.
Init ==
    /\ college \in BOOLEAN
    /\ departments \in SUBSET Slugs
    /\ batches \in [Slugs -> {{}, Years}]
    /\ groups \in SUBSET (Slugs \X Years)
    /\ Leftover
    /\ Down

----------------------------------------------------------------------------

Goto(p, label) == pc' = [pc EXCEPT ![p] = label]

\* A SELECT: the run goes on at one place or at another, by what it finds.
Select(p, from, found, there, missing) ==
    /\ pc[p] = from
    /\ Goto(p, IF found THEN there ELSE missing)
    /\ UNCHANGED <<catalogue, at, infos>>

\* The process ends, and with it what it had in memory.
Quit(p, label) ==
    /\ Goto(p, label)
    /\ at' = [at EXCEPT ![p] = 1]
    /\ infos' = [infos EXCEPT ![p] = {}]
    /\ UNCHANGED catalogue

\* An IntegrityError, which main does not catch.
Reject(p) == Quit(p, "failed")

\* A container starts: its run of the script begins.
Start(p) ==
    /\ pc[p] = "down"
    /\ Goto(p, "college")
    /\ UNCHANGED <<catalogue, at, infos>>

FindCollege(p) == Select(p, "college", college, "department", "addCollege")

AddCollege(p) ==
    /\ pc[p] = "addCollege"
    /\ \/ college /\ Reject(p)
       \/ /\ ~college
          /\ college' = TRUE
          /\ Goto(p, "department")
          /\ UNCHANGED <<departments, batches, groups, at, infos>>

\* Mutant of FindDepartment: existing departments are not looked up.
FindDepartmentNever(p) == Select(p, "department", FALSE, "batches", "addDepartment")

FindDepartment(p) ==
    Select(p, "department", at[p] \in departments, "batches", "addDepartment")

\* create_department, whose (college_id, slug) is unique.
AddDepartment(p) ==
    /\ pc[p] = "addDepartment"
    /\ \/ at[p] \in departments /\ Reject(p)
       \/ /\ at[p] \notin departments
          /\ departments' = departments \cup {at[p]}
          /\ Goto(p, "batches")
          /\ UNCHANGED <<college, batches, groups, at, infos>>

FindBatches(p) == Select(p, "batches", batches[at[p]] # {}, "collect", "addBatches")

\* Mutant of AddBatches: a commit per batch, and the run may die between two.
AddBatchesOneByOne(p) ==
    /\ pc[p] = "addBatches"
    /\ \/ batches[at[p]] # {} /\ Reject(p)
       \/ /\ batches[at[p]] = {}
          /\ \E Y \in (SUBSET Years) \ {{}} :
               /\ batches' = [batches EXCEPT ![at[p]] = Y]
               /\ Goto(p, IF Y = Years THEN "collect" ELSE "down")
          /\ UNCHANGED <<college, departments, groups, at, infos>>

\* seed_batches_for_department: all batches in one commit, unique by
\* (department_id, start_year, end_year).
AddBatches(p) ==
    /\ pc[p] = "addBatches"
    /\ \/ batches[at[p]] # {} /\ Reject(p)
       \/ /\ batches[at[p]] = {}
          /\ batches' = [batches EXCEPT ![at[p]] = Years]
          /\ Goto(p, "collect")
          /\ UNCHANGED <<college, departments, groups, at, infos>>

Found(p) == {<<at[p], y>> : y \in batches[at[p]]}

\* Mutant of Collect: departments that have groups already are not collected.
CollectNewOnly(p) ==
    /\ pc[p] = "collect"
    /\ infos' = [infos EXCEPT ![p] =
                    IF \E y \in Years : <<at[p], y>> \in groups THEN @ ELSE @ \cup Found(p)]
    /\ at' = [at EXCEPT ![p] = IF @ = NumDepts THEN @ ELSE @ + 1]
    /\ Goto(p, IF at[p] = NumDepts THEN "groups" ELSE "department")
    /\ UNCHANGED catalogue

\* Mutant of Collect: the loop runs past the last department.
CollectPastTheEnd(p) ==
    /\ pc[p] = "collect"
    /\ infos' = [infos EXCEPT ![p] = @ \cup Found(p)]
    /\ at' = [at EXCEPT ![p] = @ + 1]
    /\ Goto(p, IF at[p] > NumDepts THEN "groups" ELSE "department")
    /\ UNCHANGED catalogue

\* The batches as they are now, seeded by this run or not, and the next department.
\* Without FIREBASE_SERVICE_ACCOUNT_JSON in its environment a run makes no group
\* and still prints "UKF seed complete".
Collect(p) ==
    /\ pc[p] = "collect"
    /\ UNCHANGED catalogue
    /\ \/ /\ at[p] # NumDepts
          /\ infos' = [infos EXCEPT ![p] = @ \cup Found(p)]
          /\ at' = [at EXCEPT ![p] = @ + 1]
          /\ Goto(p, "department")
       \/ /\ at[p] = NumDepts
          /\ infos' = [infos EXCEPT ![p] = @ \cup Found(p)]
          /\ UNCHANGED at
          /\ Goto(p, "groups")
       \/ /\ at[p] = NumDepts
          /\ Quit(p, "skipped")

\* create_general_groups: one batch, department after department, those of one in
\* the order the database returned them.
EnsureGroup(p) ==
    /\ pc[p] = "groups"
    /\ UNCHANGED <<college, departments, batches, at>>
    /\ \/ /\ infos[p] = {}
          /\ Goto(p, "done")
          /\ UNCHANGED <<groups, infos>>
       \/ \E b \in infos[p] :
             /\ \A c \in infos[p] : b[1] <= c[1]
             /\ groups' = groups \cup {b}
             /\ infos' = [infos EXCEPT ![p] = @ \ {b}]
             /\ UNCHANGED pc

Step(p) ==
    \/ FindCollege(p) \/ AddCollege(p) \/ FindDepartment(p) \/ AddDepartment(p)
    \/ FindBatches(p) \/ AddBatches(p) \/ Collect(p) \/ EnsureGroup(p)

\* Whether the run of p is on its way.
Running(p) == pc[p] \notin {"down", "done", "skipped", "failed"}

\* Any other exception, of PostgreSQL, Firestore or the script: its commits stay.
Abort(p) == Running(p) /\ Quit(p, "failed")

\* The container dies, under its run or later.
Crash(p) == Quit(p, "down")

\* POST /departments by a HOD, for a slug that the script knows as well.
HodCreatesDepartment(s) ==
    /\ college
    /\ s \notin departments
    /\ departments' = departments \cup {s}
    /\ UNCHANGED <<college, batches, groups, pc, at, infos>>

\* An assignment to a batch makes sure of its group.
AssignmentEnsuresGroup(s, y) ==
    /\ y \in batches[s]
    /\ groups' = groups \cup {<<s, y>>}
    /\ UNCHANGED <<college, departments, batches, pc, at, infos>>

Next ==
    \/ \E p \in Runs : Start(p) \/ Step(p) \/ Abort(p) \/ Crash(p)
    \/ \E s \in Slugs : HodCreatesDepartment(s)
    \/ \E s \in Slugs, y \in Years : AssignmentEnsuresGroup(s, y)

Spec == Init /\ [][Next]_vars

----------------------------------------------------------------------------

\* Runs that overlap, die and start again never leave a department with some of
\* its batches only, nor batches ahead of those of an earlier department, nor a
\* group without batch: every run starts from what Leftover describes.
CatalogueSound == Leftover

\* A run that prints "UKF seed complete" has everything there, whatever was
\* there before it, whichever rows others inserted between its steps; the groups
\* too, unless it had no Firebase credential.
SeedComplete ==
    \A p \in Runs :
        /\ pc[p] \in {"done", "skipped"} =>
              departments = Slugs /\ \A s \in Slugs : batches[s] = Years
        /\ pc[p] = "done" => groups = Slugs \X Years
=============================================================================
