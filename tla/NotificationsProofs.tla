------------------------ MODULE NotificationsProofs ------------------------
(***************************************************************************)
(* Who is pushed to, and what becomes of a registration, for any number of *)
(* users, groups, devices and overlapping requests.  A request reads the   *)
(* members, then the tokens, at two moments; about a user whom nothing     *)
(* touched since then both readings are still true.                        *)
(***************************************************************************)
EXTENDS Notifications, GeneralGroupsProofs

Member(u, g) == u \in MembersOf(g)

\* What request r has read of user u is still so.
StillTrue(r, u) ==
    /\ step[r] = "tokens" => (u \in uids[r] <=> Member(u, job[r].group))
    /\ step[r] \in {"push", "answer"} /\ job[r].op = "notify" =>
         \A t \in Tokens : <<u, t>> \in due[r] \cup pushed[r]
                             <=> Member(u, job[r].group) /\ fcm_token[u] = t

RequestOK(r) ==
    /\ step[r] \in {"members", "tokens", "push"} => job[r].op = "notify"
    /\ step[r] = "save" => job[r].op = "register" /\ job[r].target = job[r].uid
    /\ step[r] \notin {"push", "answer"} => due[r] = {} /\ pushed[r] = {}
    /\ step[r] \in {"idle", "members"} => uids[r] = {}
    /\ step[r] \in {"tokens", "push"} => job[r].uid \notin uids[r]
    /\ \A d \in due[r] \cup pushed[r] : d[1] # job[r].uid
    /\ step[r] # "idle" => \A u \in Users \ (touched[r] \cup {job[r].uid}) : StillTrue(r, u)
    /\ step[r] = "save" => loaded[r] = fcm_token[job[r].uid] \/ job[r].uid \in touched[r]
    /\ step[r] = "answer" /\ job[r].op = "register" /\ job[r].target = job[r].uid =>
         fcm_token[job[r].uid] = job[r].token \/ job[r].uid \in touched[r]

NotifyInv == NotifyTypeOK /\ \A r \in Requests : RequestOK(r)

----------------------------------------------------------------------------

LEMMA GroupsBeside == NotifyNext => [Next]_vars
BY DEF NotifyNext, Request, GroupStep, Next, Receive, ReadMembers, QueryTokens, Push, Send,
   SaveToken, Save, Answer, Drop, Leave

\* The writers and clients of the groups are those of GeneralGroups, so a group
\* that notifications read is set at most once per writer.
THEOREM NotifiedGroupsBounded == NotifySpec => []SetsBounded
<1>1. NotifyInit => Init
  BY DEF NotifyInit
<1>2. [NotifyNext]_<<vars, notifyVars>> => [Next]_vars
  BY GroupsBeside
<1>3. NotifySpec => Spec
  BY <1>1, <1>2, PTL DEF NotifySpec, Spec
<1> QED  BY <1>3, GroupSetsBounded, PTL

LEMMA JobFacts ==
    ASSUME NEW j \in Jobs
    PROVE  /\ j.uid \in Users
           /\ j.op = "notify" => j.group \in Groups
           /\ j.op = "register" => j.token \in Tokens
           /\ j.op \in {"notify", "register"}
BY NotifyAssumption

LEMMA InitNotify == NotifyInit => NotifyInv
<1> SUFFICES ASSUME NotifyInit PROVE NotifyInv
  OBVIOUS
<1>1. TypeOK
  BY InitInvariant DEF NotifyInit, IInv
<1>2. NotifyTypeOK
  BY <1>1 DEF NotifyInit, NotifyTypeOK, Recipients
<1> QED  BY <1>2 DEF NotifyInit, NotifyInv, RequestOK

\* A value of the column after the commit of a session that changes it.
LEMMA FlushToken ==
    ASSUME NEW current, NEW old, NEW new
    PROVE  Flush([fcm_token |-> current], [fcm_token |-> old], [fcm_token |-> new]).fcm_token
             = IF new # old THEN new ELSE current
BY DEF Flush, Dirty

LEMMA TouchType ==
    ASSUME touched \in [Requests -> SUBSET Users], NEW U \in SUBSET Users, NEW r, Touch(U, r)
    PROVE  touched' \in [Requests -> SUBSET Users]
BY DEF Touch, ReadOf

LEMMA NotifyTypeStep == ASSUME NotifyInv, NotifyNext PROVE NotifyTypeOK'
<1>0. TypeOK'
  BY GroupsBeside, TypeStep DEF NotifyInv, NotifyTypeOK
<1> USE <1>0 DEF NotifyInv, NotifyTypeOK, GoOn, mail
<1>1. ASSUME NEW r \in Requests, Receive(r) PROVE NotifyTypeOK'
  BY <1>1, JobFacts DEF Receive
<1>2. ASSUME NEW r \in Requests, ReadMembers(r) PROVE NotifyTypeOK'
  <2>1. MembersOf(job[r].group) \ {job[r].uid} \in SUBSET Users
    BY <1>2, JobFacts DEF ReadMembers, MembersOf, RequestOK, TypeOK
  <2> QED  BY <1>2, <2>1 DEF ReadMembers
<1>3. ASSUME NEW r \in Requests, QueryTokens(r) PROVE NotifyTypeOK'
  <2>1. {<<u, fcm_token[u]>> : u \in {v \in uids[r] : fcm_token[v] # None}} \in SUBSET Recipients
    BY DEF Recipients
  <2> QED  BY <1>3, <2>1 DEF QueryTokens
<1>4. ASSUME NEW r \in Requests, Push(r) PROVE NotifyTypeOK'
  BY <1>4 DEF Push, Send
<1>5. ASSUME NEW r \in Requests, SaveToken(r) PROVE NotifyTypeOK'
  <2>1. job[r].uid \in Users /\ job[r].token \in Tokens
    BY <1>5, JobFacts DEF SaveToken, Save, RequestOK
  <2>2. PICK t \in Tokens \cup {None} : Save(r, t)
    BY <1>5, <2>1, FlushToken DEF SaveToken
  <2>3. (IF fcm_token' = fcm_token THEN {} ELSE {job[r].uid}) \in SUBSET Users
    BY <2>1
  <2>4. touched' \in [Requests -> SUBSET Users]
    BY <2>2, <2>3, TouchType DEF Save
  <2> QED  BY <2>1, <2>2, <2>4 DEF Save
<1>6. ASSUME NEW r \in Requests, Leave(r) PROVE NotifyTypeOK'
  BY <1>6 DEF Leave
<1>7. ASSUME GroupStep PROVE NotifyTypeOK'
  <2>1. touched' \in [Requests -> SUBSET Users]
    BY <1>7, TouchType DEF GroupStep
  <2> QED  BY <1>7, <2>1 DEF GroupStep
<1> QED
  BY <1>1, <1>2, <1>3, <1>4, <1>5, <1>6, <1>7 DEF NotifyNext, Request, Answer, Drop

\* A request that does not step keeps what holds of it: whoever it is not told
\* about has the membership and the token he had.
LEMMA BystanderKeeps ==
    ASSUME NotifyInv, NEW q \in Requests,
           step'[q] = step[q], job'[q] = job[q], loaded'[q] = loaded[q],
           uids'[q] = uids[q], due'[q] = due[q], pushed'[q] = pushed[q],
           touched[q] \subseteq touched'[q],
           \A u \in ReadOf(q) \ touched'[q] :
               /\ fcm_token'[u] = fcm_token[u]
               /\ \A g \in Groups : Member(u, g)' <=> Member(u, g)
    PROVE  RequestOK(q)'
<1>1. RequestOK(q)
  BY DEF NotifyInv
<1>2. step[q] # "idle" => job[q] \in Jobs /\ job[q].uid \in Users
  BY JobFacts DEF NotifyInv, NotifyTypeOK
<1>3. ASSUME step[q] # "idle", NEW u \in Users \ (touched'[q] \cup {job[q].uid})
      PROVE  StillTrue(q, u)'
  <2>1. StillTrue(q, u)
    BY <1>1, <1>3 DEF RequestOK
  <2>2. step[q] \in {"tokens", "push"} => job[q].op = "notify"
    BY <1>1 DEF RequestOK
  <2>3. CASE step[q] # "members" /\ job[q].op = "notify"
    <3>1. u \in ReadOf(q) \ touched'[q]
      BY <1>3, <2>3 DEF ReadOf
    <3>2. fcm_token'[u] = fcm_token[u] /\ (Member(u, job[q].group)' <=> Member(u, job[q].group))
      BY <1>2, <1>3, <2>3, <3>1, JobFacts
    <3> QED  BY <2>1, <3>2 DEF StillTrue
  <2> QED  BY <2>2, <2>3 DEF StillTrue
<1>4. ASSUME step[q] \notin {"idle", "members"}, job[q].op = "register"
      PROVE  fcm_token'[job[q].uid] = fcm_token[job[q].uid] \/ job[q].uid \in touched'[q]
  BY <1>2, <1>4 DEF ReadOf
<1> QED  BY <1>1, <1>2, <1>3, <1>4 DEF RequestOK

LEMMA MembersStay == ASSUME UNCHANGED members PROVE \A u, g : Member(u, g)' <=> Member(u, g)
BY DEF Member, MembersOf

LEMMA OwnStep ==
    ASSUME NotifyInv, NEW r \in Requests, Request(r)
    PROVE  RequestOK(r)'
<1>0. RequestOK(r) /\ NotifyTypeOK
  BY DEF NotifyInv
<1> USE DEF GoOn, mail
<1>1. CASE Receive(r)
  <2>1. PICK j \in Jobs :
          /\ job' = [job EXCEPT ![r] = j]
          /\ loaded' = [loaded EXCEPT ![r] = fcm_token[j.uid]]
          /\ step' = [step EXCEPT ![r] = IF j.op = "notify" THEN "members"
                                         ELSE IF j.target # j.uid THEN "answer" ELSE "save"]
    BY <1>1 DEF Receive
  <2>2. job'[r] = j /\ loaded'[r] = fcm_token[j.uid]
    BY <1>0, <2>1 DEF NotifyTypeOK
  <2>3. step'[r] = IF j.op = "notify" THEN "members"
                   ELSE IF j.target # j.uid THEN "answer" ELSE "save"
    BY <1>0, <2>1 DEF NotifyTypeOK
  <2>4. /\ step[r] = "idle" /\ uids[r] = {} /\ due[r] = {} /\ pushed[r] = {}
        /\ UNCHANGED <<fcm_token, uids, due, pushed>>
    BY <1>0, <1>1 DEF Receive, RequestOK
  <2>5. \A u \in Users \ (touched'[r] \cup {job'[r].uid}) : StillTrue(r, u)'
    BY <2>2, <2>3, <2>4, JobFacts DEF StillTrue
  <2> QED
    BY <2>2, <2>3, <2>4, <2>5, JobFacts DEF RequestOK
<1>2. CASE ReadMembers(r)
  <2>1. /\ uids'[r] = MembersOf(job[r].group) \ {job[r].uid}
        /\ step'[r] = IF uids'[r] = {} THEN "answer" ELSE "tokens"
        /\ step[r] = "members" /\ due[r] = {} /\ pushed[r] = {} /\ job[r].op = "notify"
        /\ UNCHANGED <<vars, fcm_token, job, loaded, due, pushed, touched>>
    BY <1>0, <1>2 DEF ReadMembers, RequestOK, NotifyTypeOK
  <2>2. ASSUME NEW u \in Users \ (touched'[r] \cup {job'[r].uid})
        PROVE  StillTrue(r, u)'
    BY <2>1 DEF StillTrue, Member, MembersOf, vars
  <2> QED  BY <1>0, <2>1, <2>2 DEF RequestOK
<1>3. CASE QueryTokens(r)
  <2>1. /\ due'[r] = {<<u, fcm_token[u]>> : u \in {v \in uids[r] : fcm_token[v] # None}}
        /\ step[r] = "tokens" /\ step'[r] = "push" /\ pushed[r] = {} /\ job[r].op = "notify"
        /\ UNCHANGED <<vars, fcm_token, job, loaded, uids, pushed, touched>>
    BY <1>0, <1>3 DEF QueryTokens, RequestOK, NotifyTypeOK
  <2>2. ASSUME NEW u \in Users \ (touched'[r] \cup {job'[r].uid})
        PROVE  StillTrue(r, u)'
    <3>1. u \in uids[r] <=> Member(u, job[r].group)
      BY <1>0, <2>1, <2>2 DEF RequestOK, StillTrue
    <3>2. \A t \in Tokens : <<u, t>> \in due'[r] <=> u \in uids[r] /\ fcm_token[u] = t
      BY <2>1, NotifyAssumption
    <3>3. Member(u, job[r].group)' <=> Member(u, job[r].group)
      BY <2>1 DEF Member, MembersOf, vars
    <3> QED  BY <2>1, <3>1, <3>2, <3>3 DEF StillTrue
  <2>3. \A d \in due'[r] : d[1] # job[r].uid
    BY <1>0, <2>1 DEF RequestOK
  <2> QED  BY <1>0, <2>1, <2>2, <2>3 DEF RequestOK
<1>4. CASE Push(r)
  <2>1. /\ step[r] = "push" /\ step'[r] \in {"push", "answer"}
        /\ due'[r] \cup pushed'[r] = due[r] \cup pushed[r]
        /\ job[r].op = "notify"
        /\ UNCHANGED <<vars, fcm_token, job, loaded, uids, touched>>
    BY <1>0, <1>4 DEF Push, Send, RequestOK, NotifyTypeOK
  <2>2. ASSUME NEW u \in Users \ (touched'[r] \cup {job'[r].uid})
        PROVE  StillTrue(r, u)'
    <3>1. StillTrue(r, u)
      BY <1>0, <2>1, <2>2 DEF RequestOK
    <3>2. Member(u, job[r].group)' <=> Member(u, job[r].group)
      BY <2>1 DEF Member, MembersOf, vars
    <3> QED  BY <2>1, <3>1, <3>2 DEF StillTrue
  <2> QED  BY <1>0, <2>1, <2>2 DEF RequestOK
<1>5. CASE SaveToken(r)
  <2>1. /\ step[r] = "save" /\ job[r].op = "register" /\ job[r].target = job[r].uid
        /\ job[r].uid \in Users /\ due[r] = {} /\ pushed[r] = {}
    BY <1>0, <1>5, JobFacts DEF SaveToken, Save, RequestOK, NotifyTypeOK
  <2>2. /\ fcm_token'[job[r].uid] =
             IF job[r].token # loaded[r] THEN job[r].token ELSE fcm_token[job[r].uid]
        /\ step'[r] = "answer" /\ touched'[r] = touched[r]
        /\ UNCHANGED <<vars, job, loaded, uids, due, pushed>>
    BY <1>0, <1>5, <2>1, FlushToken DEF SaveToken, Save, Touch, NotifyTypeOK
  <2>3. fcm_token'[job[r].uid] = job[r].token \/ job[r].uid \in touched[r]
    BY <1>0, <2>1, <2>2 DEF RequestOK
  <2> QED  BY <1>0, <2>1, <2>2, <2>3 DEF RequestOK, StillTrue
<1>6. CASE Leave(r)
  BY <1>0, <1>6 DEF Leave, RequestOK, NotifyTypeOK
<1> QED  BY <1>1, <1>2, <1>3, <1>4, <1>5, <1>6 DEF Request, Answer, Drop

LEMMA RequestStep ==
    ASSUME NotifyInv, NotifyNext, NEW q \in Requests
    PROVE  RequestOK(q)'
<1>0. ReadOf(q) \subseteq Users
  BY DEF ReadOf
<1> USE DEF GoOn, mail
<1>1. CASE Request(q)
  BY <1>1, OwnStep
<1>2. ASSUME NEW r \in Requests, r # q,
             Receive(r) \/ ReadMembers(r) \/ QueryTokens(r) \/ Push(r) \/ Leave(r)
      PROVE  RequestOK(q)'
  <2>1. /\ UNCHANGED <<members, fcm_token>>
        /\ step'[q] = step[q] /\ job'[q] = job[q] /\ loaded'[q] = loaded[q]
        /\ uids'[q] = uids[q] /\ due'[q] = due[q] /\ pushed'[q] = pushed[q]
        /\ touched'[q] = touched[q]
    BY <1>2 DEF Receive, ReadMembers, QueryTokens, Push, Send, Leave, NotifyInv, NotifyTypeOK, vars
  <2> QED  BY <2>1, MembersStay, BystanderKeeps
<1>3. ASSUME NEW r \in Requests, r # q, SaveToken(r)
      PROVE  RequestOK(q)'
  <2>1. PICK t : Save(r, t)
    BY <1>3 DEF SaveToken
  <2>2. /\ UNCHANGED members
        /\ step'[q] = step[q] /\ job'[q] = job[q] /\ loaded'[q] = loaded[q]
        /\ uids'[q] = uids[q] /\ due'[q] = due[q] /\ pushed'[q] = pushed[q]
    BY <1>3, <2>1 DEF Save, NotifyInv, NotifyTypeOK, vars
  <2>3. /\ touched[q] \subseteq touched'[q]
        /\ fcm_token' # fcm_token /\ job[r].uid \in ReadOf(q) => job[r].uid \in touched'[q]
    BY <1>3, <2>1 DEF Save, Touch
  <2>4. \A u \in Users : u # job[r].uid => fcm_token'[u] = fcm_token[u]
    BY <2>1 DEF Save, NotifyInv, NotifyTypeOK
  <2> QED  BY <1>0, <2>2, <2>3, <2>4, MembersStay, BystanderKeeps
<1>4. CASE GroupStep
  <2>1. /\ UNCHANGED <<fcm_token, step, job, loaded, uids, due, pushed>>
        /\ touched[q] \subseteq touched'[q]
    BY <1>4 DEF GroupStep, Touch
  <2>2. ASSUME NEW u \in ReadOf(q) \ touched'[q], NEW g \in Groups
        PROVE  Member(u, g)' <=> Member(u, g)
    <3>1. ~ (u \in {v \in Users : \E h \in Groups :
                      (v \in MembersOf(h)) # (members'[h] # None /\ v \in members'[h])})
      BY <1>4, <2>2, NotifyAssumption DEF GroupStep, Touch
    <3>2. (u \in MembersOf(g)) = (members'[g] # None /\ u \in members'[g])
      BY <1>0, <2>2, <3>1
    <3> QED  BY <3>2 DEF Member, MembersOf
  <2> QED  BY <2>1, <2>2, BystanderKeeps
<1> QED  BY <1>1, <1>2, <1>3, <1>4 DEF NotifyNext, Request, Answer, Drop

\* The inductive invariant: what a request has read of a user stays true until
\* something touches him (notify_message, save_fcm_token).
THEOREM NotifyInvariant == NotifySpec => []NotifyInv
<1>1. NotifyInv /\ [NotifyNext]_<<vars, notifyVars>> => NotifyInv'
  <2>1. CASE UNCHANGED <<vars, notifyVars>>
    BY <2>1 DEF NotifyInv, NotifyTypeOK, TypeOK, RequestOK, StillTrue, Member, MembersOf, vars,
       notifyVars
  <2> QED  BY <2>1, NotifyTypeStep, RequestStep DEF NotifyInv
<1> QED  BY InitNotify, <1>1, PTL DEF NotifySpec

\* Types of the notifications' state.
THEOREM NotifyTypeCorrect == NotifySpec => []NotifyTypeOK
BY NotifyInvariant, PTL DEF NotifyInv

\* A notification reaches exactly the members with a token, the sender excepted,
\* up to what changes while it is on its way.
THEOREM NotifiedExactly == NotifySpec => []ExactUnlessTouched
<1>1. NotifyInv => ExactUnlessTouched
  BY DEF NotifyInv, RequestOK, StillTrue, Member, ExactUnlessTouched
<1> QED  BY NotifyInvariant, <1>1, PTL

\* A registration that is answered has taken effect, unless the same user
\* registered another one meanwhile.
THEOREM RegistrationsKept == NotifySpec => []RegistrationKept
<1>1. NotifyInv => RegistrationKept
  BY DEF NotifyInv, RequestOK, RegistrationKept
<1> QED  BY NotifyInvariant, <1>1, PTL
=============================================================================
