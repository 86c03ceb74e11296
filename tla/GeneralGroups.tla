--------------------------- MODULE GeneralGroups ---------------------------
(***************************************************************************)
(* The "General" chat group of every batch or department: a Firestore      *)
(* document that two programs create, the seed script                      *)
(* (create_general_groups) and the scope-assignment handlers               *)
(* (_ensure_general_group_exists).  Both read the document and, if it is   *)
(* missing, set() it with an empty list of members; the read and the set   *)
(* are two calls without a transaction.  The Flutter client, which is not  *)
(* part of the repository, adds members to a group that exists; the        *)
(* backend reads them when it sends notifications.                         *)
(***************************************************************************)
EXTENDS Naturals, FiniteSets

CONSTANTS
    Writers,  \* slots for handlers and seed runs in progress
    Groups,   \* group_id: one per batch, one per department
    Users,
    None

ASSUME GroupsAssumption ==
    /\ IsFiniteSet(Writers)
    /\ None \notin Groups
    /\ \A S \in SUBSET Users : S # None

VARIABLES
    members,  \* members[g]: the members of document g, None if it does not exist
    sets,     \* history: how often document g has been set
    pc,       \* where each writer is
    group     \* the group it makes sure of

vars == <<members, sets, pc, group>>

TypeOK ==
    /\ members \in [Groups -> (SUBSET Users) \cup {None}]
    /\ sets \in [Groups -> Nat]
    /\ pc \in [Writers -> {"idle", "get", "set"}]
    /\ group \in [Writers -> Groups \cup {None}]
    /\ \A w \in Writers : pc[w] # "idle" => group[w] # None

Init ==
    /\ members = [g \in Groups |-> None]
    /\ sets = [g \in Groups |-> 0]
    /\ pc = [w \in Writers |-> "idle"]
    /\ group = [w \in Writers |-> None]

----------------------------------------------------------------------------

Finish(w) ==
    /\ pc' = [pc EXCEPT ![w] = "idle"]
    /\ group' = [group EXCEPT ![w] = None]

\* Mutant of Begin: a scope without batch names no group.
BeginWithoutGroup(w) ==
    /\ pc[w] = "idle"
    /\ pc' = [pc EXCEPT ![w] = "get"]
    /\ UNCHANGED <<members, sets, group>>

\* A scope has been committed, or the seed script has come to a batch.
Begin(w) ==
    /\ pc[w] = "idle"
    /\ \E g \in Groups : group' = [group EXCEPT ![w] = g]
    /\ pc' = [pc EXCEPT ![w] = "get"]
    /\ UNCHANGED <<members, sets>>

\* Mutant of Get: the document is not looked up.
GetUnchecked(w) ==
    /\ pc[w] = "get"
    /\ pc' = [pc EXCEPT ![w] = "set"]
    /\ UNCHANGED <<members, sets, group>>

\* group_ref.get(): an existing group is left alone.
Get(w) ==
    /\ pc[w] = "get"
    /\ UNCHANGED <<members, sets>>
    /\ \/ /\ members[group[w]] # None
          /\ Finish(w)
       \/ /\ members[group[w]] = None
          /\ pc' = [pc EXCEPT ![w] = "set"]
          /\ UNCHANGED group

\* group_ref.set(): creates the document or replaces it.
Set(w) ==
    /\ pc[w] = "set"
    /\ members' = [members EXCEPT ![group[w]] = {}]
    /\ sets' = [sets EXCEPT ![group[w]] = @ + 1]
    /\ Finish(w)

\* Firestore or the process fails; a handler logs it and answers all the same.
Fail(w) ==
    /\ pc[w] # "idle"
    /\ Finish(w)
    /\ UNCHANGED <<members, sets>>

\* The client adds a user to a group.
Join(u, g) ==
    /\ members[g] # None
    /\ members' = [members EXCEPT ![g] = @ \cup {u}]
    /\ UNCHANGED <<sets, pc, group>>

Next == \/ \E w \in Writers : Begin(w) \/ Get(w) \/ Set(w) \/ Fail(w)
        \/ \E u \in Users, g \in Groups : Join(u, g)

Spec == Init /\ [][Next]_vars

----------------------------------------------------------------------------

\* "Existing groups may already have real members/messages, so this seed path
\* must never delete or replace them."
GroupsNeverReplaced ==
    [][\A g \in Groups : members[g] # None =>
          members'[g] # None /\ members[g] \subseteq members'[g]]_vars

\* Once a group exists only the writers that had looked before can still set
\* it: it is set at most once per slot, through any number of assignments and
\* seed runs, and after that its members are safe.
SetsBounded == \A g \in Groups : sets[g] <= Cardinality(Writers)
=============================================================================
