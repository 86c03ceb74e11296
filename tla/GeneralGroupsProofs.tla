------------------------ MODULE GeneralGroupsProofs ------------------------
(***************************************************************************)
(* How often a group can be set, for any number of writers.  A writer that *)
(* has found the document missing is a set still to come; such a writer    *)
(* can only be added while the document is missing, when it has never been *)
(* set.  So the sets so far and the sets still to come never exceed the    *)
(* number of slots.                                                        *)
(***************************************************************************)
EXTENDS GeneralGroups, FiniteSetTheorems, TLAPS

\* The writers that have found g missing and have yet to set it.
Pending(g) == {w \in Writers : pc[w] = "set" /\ group[w] = g}

IInv ==
    /\ TypeOK
    /\ \A g \in Groups : /\ members[g] = None <=> sets[g] = 0
                         /\ sets[g] + Cardinality(Pending(g)) <= Cardinality(Writers)

LEMMA Finiteness ==
    ASSUME NEW g \in Groups
    PROVE  /\ IsFiniteSet(Pending(g)) /\ IsFiniteSet(Pending(g)')
           /\ Cardinality(Pending(g)) \in Nat /\ Cardinality(Pending(g)') \in Nat
           /\ Cardinality(Writers) \in Nat
           /\ Cardinality(Pending(g)') <= Cardinality(Writers)
<1>1. Pending(g) \subseteq Writers /\ Pending(g)' \subseteq Writers /\ IsFiniteSet(Writers)
  BY GroupsAssumption DEF Pending
<1>2. /\ IsFiniteSet(Pending(g)) /\ IsFiniteSet(Pending(g)')
      /\ Cardinality(Pending(g)') <= Cardinality(Writers)
  BY <1>1, FS_Subset
<1> QED  BY <1>1, <1>2, FS_CardinalityType

LEMMA TypeStep ==
    ASSUME TypeOK, [Next]_vars
    PROVE  TypeOK'
<1>1. ASSUME NEW w \in Writers, Begin(w)
      PROVE  TypeOK'
  <2>1. PICK g \in Groups : group' = [group EXCEPT ![w] = g]
    BY <1>1 DEF Begin
  <2> QED  BY <1>1, <2>1, GroupsAssumption DEF Begin, TypeOK
<1>2. ASSUME NEW w \in Writers, Get(w) \/ Fail(w)
      PROVE  TypeOK'
  BY <1>2 DEF Get, Fail, Finish, TypeOK
<1>3. ASSUME NEW w \in Writers, Set(w)
      PROVE  TypeOK'
  <2>1. group[w] \in Groups
    BY <1>3 DEF Set, TypeOK
  <2>2. members' \in [Groups -> (SUBSET Users) \cup {None}] /\ sets' \in [Groups -> Nat]
    BY <1>3, <2>1 DEF Set, TypeOK
  <2> QED  BY <1>3, <2>2 DEF Set, Finish, TypeOK
<1>4. ASSUME NEW u \in Users, NEW g \in Groups, Join(u, g)
      PROVE  TypeOK'
  <2>1. members[g] \in SUBSET Users
    BY <1>4 DEF Join, TypeOK
  <2>2. members[g] \cup {u} \in SUBSET Users
    BY <2>1
  <2> QED  BY <1>4, <2>2 DEF Join, TypeOK
<1>5. CASE UNCHANGED vars
  BY <1>5 DEF vars, TypeOK
<1> QED  BY <1>1, <1>2, <1>3, <1>4, <1>5 DEF Next

LEMMA PendingStep ==
    ASSUME IInv, [Next]_vars, NEW g \in Groups
    PROVE  /\ members'[g] = None <=> sets'[g] = 0
           /\ sets'[g] + Cardinality(Pending(g)') <= Cardinality(Writers)
<1> DEFINE Good == /\ members'[g] = None <=> sets'[g] = 0
                   /\ sets'[g] + Cardinality(Pending(g)') <= Cardinality(Writers)
<1>1. /\ TypeOK
      /\ members[g] = None <=> sets[g] = 0
      /\ sets[g] + Cardinality(Pending(g)) <= Cardinality(Writers)
      /\ sets[g] \in Nat
  BY DEF IInv, TypeOK
<1>2. ASSUME sets'[g] = sets[g], members'[g] = None <=> members[g] = None,
             Pending(g)' \subseteq Pending(g)
      PROVE  Good
  <2>1. Cardinality(Pending(g)') <= Cardinality(Pending(g))
    BY <1>2, Finiteness, FS_Subset
  <2> QED  BY <1>1, <1>2, <2>1, Finiteness
<1>3. ASSUME NEW w \in Writers, Begin(w) \/ Fail(w)
      PROVE  Good
  <2>1. Pending(g)' \subseteq Pending(g)
    BY <1>1, <1>3 DEF Begin, Fail, Finish, Pending, TypeOK
  <2> QED  BY <1>2, <1>3, <2>1 DEF Begin, Fail
<1>4. ASSUME NEW w \in Writers, Get(w)
      PROVE  Good
  <2>1. UNCHANGED <<members, sets>>
    BY <1>4 DEF Get
  <2>2. CASE group[w] = g /\ members[g] = None
    BY <1>1, <2>1, <2>2, Finiteness
  <2>3. CASE ~(group[w] = g /\ members[g] = None)
    <3>1. Pending(g)' \subseteq Pending(g)
      BY <1>1, <1>4, <2>3 DEF Get, Finish, Pending, TypeOK
    <3> QED  BY <1>2, <2>1, <3>1
  <2> QED  BY <2>2, <2>3
<1>5. ASSUME NEW w \in Writers, Set(w)
      PROVE  Good
  <2>1. CASE group[w] = g
    <3>1. sets'[g] = sets[g] + 1 /\ members'[g] = {}
      BY <1>1, <1>5, <2>1 DEF Set, TypeOK
    <3>2. members'[g] # None /\ sets'[g] # 0
      BY <1>1, <3>1, GroupsAssumption
    <3>3. w \in Pending(g) /\ Pending(g)' = Pending(g) \ {w}
      BY <1>1, <1>5, <2>1 DEF Set, Finish, Pending, TypeOK
    <3>4. Cardinality(Pending(g)') = Cardinality(Pending(g)) - 1
      BY <3>3, Finiteness, FS_RemoveElement
    <3> QED  BY <1>1, <3>1, <3>2, <3>4, Finiteness
  <2>2. CASE group[w] # g
    <3>1. sets'[g] = sets[g] /\ members'[g] = members[g]
      BY <1>1, <1>5, <2>2 DEF Set, TypeOK
    <3>2. Pending(g)' \subseteq Pending(g)
      BY <1>1, <1>5 DEF Set, Finish, Pending, TypeOK
    <3> QED  BY <1>2, <3>1, <3>2
  <2> QED  BY <2>1, <2>2
<1>6. ASSUME NEW u \in Users, NEW h \in Groups, Join(u, h)
      PROVE  Good
  <2>1. members'[g] = None <=> members[g] = None
    <3>1. CASE g = h
      <4>1. members[h] \in SUBSET Users /\ members'[h] = members[h] \cup {u}
        BY <1>1, <1>6 DEF Join, TypeOK
      <4>2. members'[h] \in SUBSET Users
        BY <4>1
      <4> QED  BY <1>6, <3>1, <4>2, GroupsAssumption DEF Join
    <3>2. CASE g # h
      BY <1>1, <1>6, <3>2 DEF Join, TypeOK
    <3> QED  BY <3>1, <3>2
  <2>2. Pending(g)' = Pending(g) /\ sets' = sets
    BY <1>6 DEF Join, Pending
  <2> QED  BY <1>2, <2>1, <2>2
<1>7. CASE UNCHANGED vars
  BY <1>2, <1>7 DEF vars, Pending
<1> QED  BY <1>3, <1>4, <1>5, <1>6, <1>7 DEF Next

LEMMA InitInvariant == Init => IInv
<1> SUFFICES ASSUME Init PROVE IInv
  OBVIOUS
<1>1. TypeOK
  BY DEF Init, TypeOK
<1>2. ASSUME NEW g \in Groups
      PROVE  /\ members[g] = None <=> sets[g] = 0
             /\ sets[g] + Cardinality(Pending(g)) <= Cardinality(Writers)
  <2>1. Pending(g) = {} /\ members[g] = None /\ sets[g] = 0
    BY DEF Init, Pending
  <2>2. Cardinality(Writers) \in Nat
    BY GroupsAssumption, FS_CardinalityType
  <2> QED  BY <2>1, <2>2, FS_EmptySet
<1> QED  BY <1>1, <1>2 DEF IInv

\* The sets of a group so far and those still to come are at most one per slot
\* (_ensure_general_group_exists_sync and create_general_groups).
THEOREM GroupsInvariant == Spec => []IInv
<1>1. IInv /\ [Next]_vars => IInv'
  BY TypeStep, PendingStep DEF IInv
<1> QED  BY InitInvariant, <1>1, PTL DEF Spec

LEMMA InvariantBound == IInv => SetsBounded
<1>1. ASSUME IInv, NEW g \in Groups
      PROVE  sets[g] <= Cardinality(Writers)
  <2>1. sets[g] \in Nat /\ sets[g] + Cardinality(Pending(g)) <= Cardinality(Writers)
    BY <1>1 DEF IInv, TypeOK
  <2> QED  BY <2>1, Finiteness
<1> QED  BY <1>1 DEF SetsBounded

\* However many assignments and seed runs there are, a group is set at most once
\* per slot (the look before the set).
THEOREM GroupSetsBounded == Spec => []SetsBounded
BY GroupsInvariant, InvariantBound, PTL

\* Writers that do not overlap never replace a group: its members only grow
\* (the comment in create_general_groups).
THEOREM GroupsKeptOneByOne ==
    ASSUME Cardinality(Writers) = 1
    PROVE  Spec => GroupsNeverReplaced
<1>1. ASSUME IInv, IInv', [Next]_vars, NEW g \in Groups, members[g] # None
      PROVE  members'[g] # None /\ members[g] \subseteq members'[g]
  <2>1. TypeOK /\ sets[g] # 0 /\ sets[g] \in Nat
    BY <1>1 DEF IInv, TypeOK
  <2>2. sets'[g] <= 1
    <3>1. sets'[g] \in Nat /\ sets'[g] + Cardinality(Pending(g)') <= 1
      BY <1>1 DEF IInv, TypeOK
    <3> QED  BY <3>1, Finiteness
  <2>3. ASSUME NEW w \in Writers, Set(w)
        PROVE  members'[g] = members[g]
    <3>1. group[w] # g
      BY <2>1, <2>2, <2>3 DEF Set, TypeOK
    <3> QED  BY <2>1, <2>3, <3>1 DEF Set, TypeOK
  <2>4. ASSUME NEW u \in Users, NEW h \in Groups, Join(u, h)
        PROVE  members[g] \subseteq members'[g]
    BY <2>1, <2>4 DEF Join, TypeOK
  <2>5. ASSUME UNCHANGED members
        PROVE  members'[g] = members[g]
    BY <2>5
  <2>6. members[g] \subseteq members'[g]
    BY <1>1, <2>3, <2>4, <2>5 DEF Next, vars, Begin, Get, Fail
  <2>7. sets'[g] # 0
    BY <1>1, <2>1, <2>2 DEF Next, vars, Begin, Get, Fail, Set, Join, TypeOK
  <2>8. members'[g] # None
    BY <1>1, <2>7 DEF IInv
  <2> QED  BY <2>6, <2>8
<1>2. IInv /\ IInv' /\ [Next]_vars =>
        [\A g \in Groups : members[g] # None =>
            members'[g] # None /\ members[g] \subseteq members'[g]]_vars
  BY <1>1
<1> QED  BY GroupsInvariant, <1>2, PTL DEF Spec, GroupsNeverReplaced
----------------------------------------------------------------------------

\* No two writers make sure of the same group at the same time.
OneAtATime ==
    \A v, w \in Writers :
        v # w /\ pc[v] # "idle" /\ pc[w] # "idle" => group[v] # group[w]

\* What a writer has found missing is still missing when it sets it.
FoundMissing == \A w \in Writers : pc[w] = "set" => members[group[w]] = None

LEMMA MissingStep ==
    ASSUME TypeOK, FoundMissing, OneAtATime, [Next]_vars
    PROVE  FoundMissing'
<1> SUFFICES ASSUME NEW w \in Writers, pc'[w] = "set"
             PROVE  members'[group'[w]] = None
  BY DEF FoundMissing
<1>1. group[w] \in Groups /\ group'[w] = group[w] /\ members[group[w]] = None
  BY DEF Next, Begin, Get, Set, Fail, Join, Finish, vars, TypeOK, FoundMissing
<1>2. ASSUME NEW v \in Writers, Set(v)
      PROVE  members'[group[w]] = None
  <2>1. v # w /\ pc[w] = "set"
    BY <1>2 DEF Set, Finish, TypeOK
  <2>2. group[v] # group[w]
    BY <1>2, <2>1 DEF Set, OneAtATime
  <2> QED  BY <1>1, <1>2, <2>2 DEF Set, TypeOK
<1>3. ASSUME NEW u \in Users, NEW g \in Groups, Join(u, g)
      PROVE  members'[group[w]] = None
  BY <1>1, <1>3 DEF Join, TypeOK
<1>4. ASSUME UNCHANGED members
      PROVE  members'[group[w]] = None
  BY <1>1, <1>4
<1> QED  BY <1>1, <1>2, <1>3, <1>4 DEF Next, Begin, Get, Fail, vars

\* Writers of the same group that overlap are the only ones that replace it: if
\* none do, the members of every group only grow, however many writers there are
\* and whoever fails (the comment in create_general_groups).
THEOREM GroupsKeptOneAtATime == Spec /\ []OneAtATime => GroupsNeverReplaced
<1>1. Init => FoundMissing
  BY DEF Init, FoundMissing
<1>2. TypeOK /\ FoundMissing /\ OneAtATime /\ [Next]_vars => FoundMissing'
  BY MissingStep
<1>3. ASSUME TypeOK, FoundMissing, [Next]_vars, NEW g \in Groups, members[g] # None
      PROVE  members'[g] # None /\ members[g] \subseteq members'[g]
  <2>1. ASSUME NEW w \in Writers, Set(w)
        PROVE  members'[g] = members[g]
    BY <1>3, <2>1 DEF Set, FoundMissing, TypeOK
  <2>2. ASSUME NEW u \in Users, NEW h \in Groups, Join(u, h)
        PROVE  members'[g] # None /\ members[g] \subseteq members'[g]
    <3>1. members'[g] \in {members[g], members[g] \cup {u}}
      BY <1>3, <2>2 DEF Join, TypeOK
    <3>2. members[g] \in SUBSET Users
      BY <1>3 DEF TypeOK
    <3>3. members'[g] \in SUBSET Users
      BY <3>1, <3>2
    <3> QED  BY <3>1, <3>3, GroupsAssumption
  <2>3. ASSUME UNCHANGED members
        PROVE  members'[g] = members[g]
    BY <2>3
  <2> QED  BY <1>3, <2>1, <2>2, <2>3 DEF Next, Begin, Get, Fail, vars
<1>4. TypeOK /\ FoundMissing /\ [Next]_vars =>
        [\A g \in Groups : members[g] # None =>
            members'[g] # None /\ members[g] \subseteq members'[g]]_vars
  BY <1>3
<1>5. IInv => TypeOK
  BY DEF IInv
<1> QED  BY GroupsInvariant, <1>1, <1>2, <1>4, <1>5, PTL DEF Spec, GroupsNeverReplaced
=============================================================================
