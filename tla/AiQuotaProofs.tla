---------------------------- MODULE AiQuotaProofs ----------------------------
(***************************************************************************)
(* The bound on the overshoot of the quota, for any limit, window, number  *)
(* of slots and number of users.  What counts against the bound is not the *)
(* rows alone but the rows and the requests that have passed the count:    *)
(* a request that passes it saw fewer than Limit rows, and there are no    *)
(* more requests under way than slots; from then on its own record moves   *)
(* it from the one side to the other, and time only takes rows away.       *)
(***************************************************************************)
EXTENDS AiQuota, FiniteSetTheorems, TLAPS

\* The requests of u that have passed the count and have not recorded yet.
Passed(u) == {r \in Requests : pc[r] \in {"generate", "record"} /\ caller[r] = u}

Load(u) == Cardinality(InWindow(u)) + Cardinality(Passed(u))

IInv == TypeOK /\ \A u \in Users : Load(u) < Limit + Cardinality(Requests)

LEMMA Finiteness ==
    ASSUME NEW u \in Users
    PROVE  /\ IsFiniteSet(InWindow(u)) /\ IsFiniteSet(InWindow(u)')
           /\ IsFiniteSet(Passed(u)) /\ IsFiniteSet(Passed(u)')
           /\ Cardinality(InWindow(u)) \in Nat /\ Cardinality(InWindow(u)') \in Nat
           /\ Cardinality(Passed(u)) \in Nat /\ Cardinality(Passed(u)') \in Nat
           /\ Cardinality(Requests) \in Nat
           /\ Cardinality(Passed(u)') <= Cardinality(Requests)
<1>1. InWindow(u) \subseteq Ids /\ InWindow(u)' \subseteq Ids
  BY DEF InWindow
<1>2. Passed(u) \subseteq Requests /\ Passed(u)' \subseteq Requests
  BY DEF Passed
<1>3. IsFiniteSet(Requests) /\ IsFiniteSet(Ids)
  BY QuotaAssumption
<1>4. IsFiniteSet(InWindow(u)) /\ IsFiniteSet(InWindow(u)')
  BY <1>1, <1>3, FS_Subset
<1>5. /\ IsFiniteSet(Passed(u)) /\ IsFiniteSet(Passed(u)')
      /\ Cardinality(Passed(u)') <= Cardinality(Requests)
  BY <1>2, <1>3, FS_Subset
<1> QED  BY <1>3, <1>4, <1>5, FS_CardinalityType

\* A step that adds no row of u and lets no request of u pass adds no load.
LEMMA LighterStep ==
    ASSUME NEW u \in Users,
           InWindow(u)' \subseteq InWindow(u), Passed(u)' \subseteq Passed(u)
    PROVE  Load(u)' <= Load(u)
<1>1. Cardinality(InWindow(u)') <= Cardinality(InWindow(u))
  BY Finiteness, FS_Subset
<1>2. Cardinality(Passed(u)') <= Cardinality(Passed(u))
  BY Finiteness, FS_Subset
<1> QED  BY <1>1, <1>2, Finiteness DEF Load

LEMMA TypeStep ==
    ASSUME TypeOK, [Next]_vars
    PROVE  TypeOK'
<1> USE QuotaAssumption DEF Goto
<1>1. ASSUME NEW r \in Requests, Begin(r)
      PROVE  TypeOK'
  <2>1. PICK u \in Users : caller' = [caller EXCEPT ![r] = u]
    BY <1>1 DEF Begin
  <2> QED  BY <1>1, <2>1 DEF Begin, TypeOK
<1>2. ASSUME NEW r \in Requests, Finish(r), UNCHANGED usage
      PROVE  TypeOK'
  BY <1>2 DEF Finish, TypeOK
<1>3. ASSUME NEW r \in Requests, Count(r) \/ Generate(r)
      PROVE  TypeOK'
  BY <1>2, <1>3 DEF Count, Generate, TypeOK
<1>4. ASSUME NEW r \in Requests, Record(r)
      PROVE  TypeOK'
  <2>1. CASE UNCHANGED usage
    BY <1>2, <1>4, <2>1 DEF Record
  <2>2. ASSUME NEW i \in Ids, txAge[r] <= Window,
               usage' = [usage EXCEPT ![i] = [uid |-> caller[r], age |-> txAge[r]]]
        PROVE  TypeOK'
    <3>1. caller[r] \in Users /\ txAge[r] \in 0 .. Window
      BY <1>4, <2>2 DEF Record, TypeOK
    <3>2. [uid |-> caller[r], age |-> txAge[r]] \in Row
      BY <3>1 DEF Row
    <3> QED  BY <1>4, <2>2, <3>2 DEF Record, Finish, TypeOK
  <2> QED  BY <1>4, <2>1, <2>2 DEF Record
<1>5. ASSUME NEW r \in Requests, Fail(r)
      PROVE  TypeOK'
  BY <1>2, <1>5 DEF Fail
<1>6. CASE Tick
  <2>1. ASSUME NEW i \in Ids, usage[i] # None, usage[i].age # Window
        PROVE  [usage[i] EXCEPT !.age = @ + 1] \in Row
    <3>1. usage[i] \in Row /\ usage[i].age \in 0 .. Window
      BY <2>1 DEF TypeOK, Row
    <3>2. usage[i].age + 1 \in 0 .. Window
      BY <2>1, <3>1
    <3> QED  BY <3>1, <3>2 DEF Row
  <2>2. usage' \in [Ids -> Row \cup {None}]
    BY <1>6, <2>1 DEF Tick, TypeOK
  <2>3. txAge' \in [Requests -> 0 .. Window + 1]
    BY <1>6 DEF Tick, TypeOK
  <2> QED  BY <1>6, <2>2, <2>3 DEF Tick, TypeOK
<1>7. CASE UNCHANGED vars
  BY <1>7 DEF vars, TypeOK
<1> QED  BY <1>1, <1>3, <1>4, <1>5, <1>6, <1>7 DEF Next

LEMMA FinishPassed ==
    ASSUME TypeOK, NEW r \in Requests, Finish(r), NEW u \in Users
    PROVE  Passed(u)' = Passed(u) \ {r}
BY QuotaAssumption DEF TypeOK, Finish, Goto, Passed

\* r passes the count for u.
Passes(r, u) ==
    /\ pc[r] = "count" /\ caller[r] = u
    /\ Cardinality(InWindow(u)) < Limit
    /\ pc' = [pc EXCEPT ![r] = "generate"]
    /\ UNCHANGED <<usage, caller>>

\* Only that adds to the load of u.
LEMMA LoadStep ==
    ASSUME TypeOK, [Next]_vars, NEW u \in Users
    PROVE  Load(u)' <= Load(u) \/ \E r \in Requests : Passes(r, u)
<1>1. ASSUME NEW r \in Requests, Finish(r), UNCHANGED usage
      PROVE  Load(u)' <= Load(u)
  BY <1>1, FinishPassed, LighterStep DEF InWindow
<1>2. ASSUME NEW r \in Requests, Begin(r)
      PROVE  Load(u)' <= Load(u)
  <2>1. InWindow(u)' = InWindow(u)
    BY <1>2 DEF Begin, InWindow
  <2>2. Passed(u)' = Passed(u)
    BY <1>2 DEF Begin, Goto, Passed, TypeOK
  <2> QED  BY <2>1, <2>2, LighterStep
<1>3. ASSUME NEW r \in Requests, Count(r), ~Finish(r)
      PROVE  Load(u)' <= Load(u) \/ Passes(r, u)
  <2>1. InWindow(u)' = InWindow(u)
    BY <1>3 DEF Count, InWindow
  <2>2. CASE caller[r] = u
    BY <1>3, <2>2 DEF Count, Goto, Passes
  <2>3. CASE caller[r] # u
    <3>1. Passed(u)' = Passed(u)
      BY <1>3, <2>3 DEF Count, Goto, Passed, TypeOK
    <3> QED  BY <2>1, <3>1, LighterStep
  <2> QED  BY <2>2, <2>3
<1>4. ASSUME NEW r \in Requests, Generate(r)
      PROVE  Load(u)' <= Load(u)
  <2>1. InWindow(u)' = InWindow(u)
    BY <1>4 DEF Generate, InWindow
  <2>2. Passed(u)' = Passed(u)
    BY <1>4 DEF Generate, Goto, Passed, TypeOK
  <2> QED  BY <2>1, <2>2, LighterStep
<1>5. ASSUME NEW r \in Requests, Record(r), NEW i \in Ids, usage[i] = None,
             usage' = [usage EXCEPT ![i] = [uid |-> caller[r], age |-> txAge[r]]]
      PROVE  Load(u)' <= Load(u)
  <2>1. Passed(u)' = Passed(u) \ {r}
    BY <1>5, FinishPassed DEF Record
  <2>2. CASE caller[r] = u
    <3>1. InWindow(u)' \subseteq InWindow(u) \cup {i}
      BY <1>5 DEF InWindow, TypeOK
    <3>2. Cardinality(InWindow(u)') <= Cardinality(InWindow(u)) + 1
      <4>1. /\ IsFiniteSet(InWindow(u) \cup {i})
            /\ Cardinality(InWindow(u) \cup {i}) <= Cardinality(InWindow(u)) + 1
            /\ Cardinality(InWindow(u) \cup {i}) \in Nat
        <5>1. IsFiniteSet(InWindow(u)) /\ Cardinality(InWindow(u)) \in Nat
          BY Finiteness
        <5>2. /\ IsFiniteSet(InWindow(u) \cup {i})
              /\ Cardinality(InWindow(u) \cup {i}) =
                   IF i \in InWindow(u) THEN Cardinality(InWindow(u))
                                        ELSE Cardinality(InWindow(u)) + 1
          BY <5>1, FS_AddElement
        <5> QED  BY <5>1, <5>2
      <4>2. Cardinality(InWindow(u)') <= Cardinality(InWindow(u) \cup {i})
        BY <3>1, <4>1, FS_Subset
      <4> QED  BY <4>1, <4>2, Finiteness
    <3>3. r \in Passed(u)
      BY <1>5, <2>2 DEF Record, Passed
    <3>4. Cardinality(Passed(u)') = Cardinality(Passed(u)) - 1
      BY <2>1, <3>3, Finiteness, FS_RemoveElement
    <3> QED  BY <3>2, <3>4, Finiteness DEF Load
  <2>3. CASE caller[r] # u
    <3>1. InWindow(u)' \subseteq InWindow(u)
      BY <1>5, <2>3 DEF InWindow, TypeOK
    <3> QED  BY <2>1, <3>1, LighterStep
  <2> QED  BY <2>2, <2>3
<1>6. CASE Tick
  <2>1. InWindow(u)' \subseteq InWindow(u)
    <3>1. ASSUME NEW i \in Ids, usage'[i] # None
          PROVE  usage[i] # None /\ usage'[i].uid = usage[i].uid
      <4>1. usage[i] # None /\ usage'[i] = [usage[i] EXCEPT !.age = @ + 1]
        BY <1>6, <3>1 DEF Tick
      <4>2. usage[i] \in Row
        BY <4>1 DEF TypeOK
      <4> QED  BY <4>1, <4>2 DEF Row
    <3> QED  BY <3>1 DEF InWindow
  <2>2. Passed(u)' = Passed(u)
    BY <1>6 DEF Tick, Passed
  <2> QED  BY <2>1, <2>2, LighterStep
<1>7. CASE UNCHANGED vars
  BY <1>7, LighterStep DEF vars, InWindow, Passed
<1>8. ASSUME NEW r \in Requests, Count(r) \/ Record(r) \/ Fail(r)
      PROVE  Load(u)' <= Load(u) \/ Passes(r, u)
  BY <1>1, <1>3, <1>5, <1>8 DEF Count, Record, Fail
<1> QED  BY <1>2, <1>4, <1>6, <1>7, <1>8 DEF Next

LEMMA BoundStep ==
    ASSUME IInv, [Next]_vars, NEW u \in Users
    PROVE  Load(u)' < Limit + Cardinality(Requests)
<1>1. TypeOK /\ Load(u) < Limit + Cardinality(Requests) /\ Limit \in Nat
  BY QuotaAssumption DEF IInv
<1>2. CASE Load(u)' <= Load(u)
  BY <1>1, <1>2, Finiteness DEF Load
<1>3. CASE \E r \in Requests : Passes(r, u)
  <2>1. Cardinality(InWindow(u)') < Limit
    BY <1>3 DEF Passes, InWindow
  <2> QED  BY <1>1, <2>1, Finiteness DEF Load
<1> QED  BY <1>1, <1>2, <1>3, LoadStep

LEMMA InitLoad == Init => IInv
<1> SUFFICES ASSUME Init PROVE IInv
  OBVIOUS
<1>1. TypeOK
  BY QuotaAssumption DEF Init, TypeOK
<1>2. ASSUME NEW u \in Users
      PROVE  Load(u) < Limit + Cardinality(Requests)
  <2>1. InWindow(u) = {} /\ Passed(u) = {}
    BY DEF Init, InWindow, Passed
  <2>2. Load(u) = 0
    BY <2>1, FS_EmptySet DEF Load
  <2>3. Limit \in Nat \ {0} /\ Cardinality(Requests) \in Nat
    BY QuotaAssumption, FS_CardinalityType
  <2> QED  BY <2>2, <2>3
<1> QED  BY <1>1, <1>2 DEF IInv

\* Rows and passed requests of a user together stay below limit plus slots
\* (the count, the call and the insert of generate_ai_content).
THEOREM QuotaInvariant == Spec => []IInv
<1>1. IInv /\ [Next]_vars => IInv'
  BY TypeStep, BoundStep DEF IInv
<1> QED  BY InitLoad, <1>1, PTL DEF Spec

\* Types, for any limit, window and number of requests (generate_ai_content).
THEOREM TypeCorrect == Spec => []TypeOK
BY QuotaInvariant, PTL DEF IInv

\* With n requests at a time a user gets at most n - 1 generations beyond the
\* limit in any window (generate_ai_content).
THEOREM QuotaOvershoot == Spec => []OvershootBounded
<1>1. IInv => OvershootBounded
  <2>1. SUFFICES ASSUME IInv, NEW u \in Users
                 PROVE  Cardinality(InWindow(u)) < Limit + Cardinality(Requests)
    BY DEF OvershootBounded
  <2>2. Limit \in Nat /\ Load(u) < Limit + Cardinality(Requests)
    BY <2>1, QuotaAssumption DEF IInv
  <2> QED  BY <2>2, Finiteness DEF Load
<1> QED  BY QuotaInvariant, <1>1, PTL

\* One request at a time, the limit is kept: five requests per 24 hours
\* (test_generate_ai_content_limits_user_to_five_requests_per_24_hours).
THEOREM QuotaKeptOneByOne ==
    ASSUME Cardinality(Requests) = 1
    PROVE  Spec => []QuotaKept
<1>1. OvershootBounded => QuotaKept
  <2>1. SUFFICES ASSUME OvershootBounded, NEW u \in Users
                 PROVE  Cardinality(InWindow(u)) <= Limit
    BY DEF QuotaKept
  <2>2. Limit \in Nat /\ Cardinality(InWindow(u)) < Limit + 1
    BY <2>1, QuotaAssumption DEF OvershootBounded
  <2> QED  BY <2>2, Finiteness
<1> QED  BY QuotaOvershoot, <1>1, PTL
----------------------------------------------------------------------------

\* A user has no two requests in progress; those of different users overlap.
OneAtATime ==
    \A r, s \in Requests :
        r # s /\ pc[r] # "idle" /\ pc[s] # "idle" => caller[r] # caller[s]

LEMMA KeptStep ==
    ASSUME TypeOK, [Next]_vars, OneAtATime, NEW u \in Users, Load(u) <= Limit
    PROVE  Load(u)' <= Limit
<1>1. Limit \in Nat
  BY QuotaAssumption
<1>2. CASE Load(u)' <= Load(u)
  BY <1>1, <1>2, Finiteness DEF Load
<1>3. ASSUME NEW r \in Requests, Passes(r, u)
      PROVE  Load(u)' <= Limit
  <2>1. Passed(u)' \subseteq {r}
    BY <1>3 DEF Passes, Passed, OneAtATime, TypeOK
  <2>2. IsFiniteSet({r}) /\ Cardinality({r}) = 1
    BY FS_Singleton
  <2>3. Cardinality(Passed(u)') <= 1
    BY <2>1, <2>2, FS_Subset
  <2>4. Cardinality(InWindow(u)') < Limit
    BY <1>3 DEF Passes, InWindow
  <2> QED  BY <1>1, <2>3, <2>4, Finiteness DEF Load
<1> QED  BY <1>2, <1>3, LoadStep

\* Requests of one user that overlap are the only way past the limit: if no user
\* has two in progress, each gets at most Limit generations in any window, for
\* any number of users at a time and however requests fail.
THEOREM QuotaKeptOneAtATime == Spec /\ []OneAtATime => []QuotaKept
<1> DEFINE Kept == \A u \in Users : Load(u) <= Limit
<1>1. Init => Kept
  <2>1. SUFFICES ASSUME Init, NEW u \in Users PROVE Load(u) <= Limit
    OBVIOUS
  <2>2. InWindow(u) = {} /\ Passed(u) = {}
    BY <2>1 DEF Init, InWindow, Passed
  <2> QED  BY <2>2, FS_EmptySet, QuotaAssumption DEF Load
<1>2. TypeOK /\ OneAtATime /\ Kept /\ [Next]_vars => Kept'
  BY KeptStep
<1>3. Kept => QuotaKept
  <2>1. SUFFICES ASSUME NEW u \in Users, Load(u) <= Limit
                 PROVE  Cardinality(InWindow(u)) <= Limit
    BY DEF QuotaKept
  <2> QED  BY <2>1, Finiteness, QuotaAssumption DEF Load
<1> QED  BY TypeCorrect, <1>1, <1>2, <1>3, PTL DEF Spec
=============================================================================
