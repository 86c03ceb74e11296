--------------------------- MODULE Notifications ---------------------------
(***************************************************************************)
(* POST /api/v1/notify/message (features/notifications/router.py) and POST *)
(* /auth/user/fcm-token, beside the writers and the client of              *)
(* GeneralGroups.  A notification reads the members of a group from        *)
(* Firestore, then their tokens from PostgreSQL, then pushes to each token *)
(* in turn (shared/services/notification_bus.py); meanwhile users join,    *)
(* groups are replaced and devices register.                               *)
(*                                                                         *)
(* A push that fails is logged and the next one follows, so that a push    *)
(* stands for an attempt.  Users have accounts; the first registration of  *)
(* a new account is UserAccounts'.                                         *)
(***************************************************************************)
EXTENDS GeneralGroups, OrmSession

CONSTANTS
    Requests,  \* slots for requests in progress
    Tokens,    \* FCM tokens: one per installation of the app
    Jobs       \* the requests clients send

\* A notification names its group, a registration the uid of its body and a
\* token; uid is the authenticated user in both.
ASSUME NotifyAssumption ==
    /\ None \notin Tokens \cup Requests
    /\ \A j \in Jobs : /\ j.uid \in Users
                       /\ \/ j.op = "notify" /\ j.group \in Groups
                          \/ j.op = "register" /\ j.target \in Users /\ j.token \in Tokens

VARIABLES
    fcm_token,  \* fcm_token[u]: column of u's row
    step,       \* where each request is
    job,        \* what it is about
    loaded,     \* the fcm_token with which its session loaded its user
    uids,       \* the recipients it has read
    due,        \* the recipients it has yet to push to, with their tokens
    pushed,     \* those it has pushed to
    touched     \* history: whom others have changed of those it has read something of

notifyVars == <<fcm_token, step, job, loaded, uids, due, pushed, touched>>
mail == <<uids, due, pushed>>

Recipients == Users \X Tokens

NotifyTypeOK ==
    /\ TypeOK
    /\ fcm_token \in [Users -> Tokens \cup {None}]
    /\ step \in [Requests -> {"idle", "members", "tokens", "push", "save", "answer"}]
    /\ job \in [Requests -> Jobs \cup {None}]
    /\ \A r \in Requests : step[r] # "idle" => job[r] \in Jobs
    /\ loaded \in [Requests -> Tokens \cup {None}]
    /\ {uids, touched} \subseteq [Requests -> SUBSET Users]
    /\ {due, pushed} \subseteq [Requests -> SUBSET Recipients]

NotifyInit ==
    /\ Init
    /\ fcm_token = [u \in Users |-> None]
    /\ step = [r \in Requests |-> "idle"]
    /\ job = [r \in Requests |-> None]
    /\ loaded = [r \in Requests |-> None]
    /\ uids = [r \in Requests |-> {}]
    /\ due = [r \in Requests |-> {}]
    /\ pushed = [r \in Requests |-> {}]
    /\ touched = [r \in Requests |-> {}]

----------------------------------------------------------------------------

MembersOf(g) == IF members[g] = None THEN {} ELSE members[g]

\* Of whom the request has read something that it goes by: a registration of its
\* user's token, a notification, once it has read the members, of all but its user.
ReadOf(q) ==
    {u \in Users : /\ step[q] \notin {"idle", "members"}
                   /\ u = job[q].uid <=> job[q].op = "register"}

\* History only: someone other than r has changed the membership or token of users U.
Touch(U, r) ==
    touched' = [q \in Requests |->
                   IF q = r THEN touched[q] ELSE touched[q] \cup (U \cap ReadOf(q))]

GoOn(r, next) == step' = [step EXCEPT ![r] = next]

\* get_current_user loads the user's row, which stays in the session.
Receive(r) ==
    /\ step[r] = "idle"
    /\ \E j \in Jobs :
         /\ job' = [job EXCEPT ![r] = j]
         /\ loaded' = [loaded EXCEPT ![r] = fcm_token[j.uid]]
         /\ GoOn(r, IF j.op = "notify" THEN "members"
                    ELSE IF j.target # j.uid THEN "answer" ELSE "save")
    /\ UNCHANGED <<vars, fcm_token, mail, touched>>

\* Mutant of ReadMembers: the sender stays among the recipients.
ReadMembersWithSender(r) ==
    /\ step[r] = "members"
    /\ uids' = [uids EXCEPT ![r] = MembersOf(job[r].group)]
    /\ GoOn(r, IF uids'[r] = {} THEN "answer" ELSE "tokens")
    /\ UNCHANGED <<vars, fcm_token, job, loaded, due, pushed, touched>>

\* _get_group_member_uids, in a thread, without the sender.
ReadMembers(r) ==
    /\ step[r] = "members"
    /\ uids' = [uids EXCEPT ![r] = MembersOf(job[r].group) \ {job[r].uid}]
    /\ GoOn(r, IF uids'[r] = {} THEN "answer" ELSE "tokens")
    /\ UNCHANGED <<vars, fcm_token, job, loaded, due, pushed, touched>>

\* A SELECT of the column, which does not pass through the identity map.
QueryTokens(r) ==
    /\ step[r] = "tokens"
    /\ due' = [due EXCEPT ![r] = {<<u, fcm_token[u]>> : u \in {v \in uids[r] : fcm_token[v] # None}}]
    /\ GoOn(r, "push")
    /\ UNCHANGED <<vars, fcm_token, job, loaded, uids, pushed, touched>>

\* send_notification: one attempt; what goes wrong in it is logged, not raised.
Send(r, d) == pushed' = [pushed EXCEPT ![r] = @ \cup {d}]

\* Mutant of Push: send_notification lets its exception through.
PushOrGiveUp(r) ==
    /\ step[r] = "push"
    /\ \/ /\ due[r] = {} /\ GoOn(r, "answer") /\ UNCHANGED <<due, pushed>>
       \/ \E d \in due[r] : /\ Send(r, d)
                            /\ \/ due' = [due EXCEPT ![r] = @ \ {d}] /\ UNCHANGED step
                               \/ due' = [due EXCEPT ![r] = {}] /\ GoOn(r, "answer")
    /\ UNCHANGED <<vars, fcm_token, job, loaded, uids, touched>>

\* One push after the other, in the order the database returned the tokens.
Push(r) ==
    /\ step[r] = "push"
    /\ \/ /\ due[r] = {} /\ GoOn(r, "answer") /\ UNCHANGED <<due, pushed>>
       \/ \E d \in due[r] : /\ Send(r, d)
                            /\ due' = [due EXCEPT ![r] = @ \ {d}]
                            /\ UNCHANGED step
    /\ UNCHANGED <<vars, fcm_token, job, loaded, uids, touched>>

Save(r, token) ==
    /\ step[r] = "save"
    /\ fcm_token' = [fcm_token EXCEPT ![job[r].uid] = token]
    /\ Touch(IF fcm_token' = fcm_token THEN {} ELSE {job[r].uid}, r)
    /\ GoOn(r, "answer")
    /\ UNCHANGED <<vars, job, loaded, mail>>

\* Mutant of SaveToken: a user who has a token keeps it.
SaveTokenOnce(r) ==
    Save(r, IF loaded[r] = None THEN job[r].token ELSE fcm_token[job[r].uid])

\* save_fcm_token: get_user returns the object that the session has loaded, and
\* commit writes the column only if it changes in that object.
SaveToken(r) ==
    Save(r, Flush([fcm_token |-> fcm_token[job[r].uid]],
                  [fcm_token |-> loaded[r]], [fcm_token |-> job[r].token]).fcm_token)

\* What a request had in memory goes with it.
Leave(r) ==
    /\ GoOn(r, "idle")
    /\ job' = [job EXCEPT ![r] = None]
    /\ loaded' = [loaded EXCEPT ![r] = None]
    /\ uids' = [uids EXCEPT ![r] = {}]
    /\ due' = [due EXCEPT ![r] = {}]
    /\ pushed' = [pushed EXCEPT ![r] = {}]
    /\ touched' = [touched EXCEPT ![r] = {}]
    /\ UNCHANGED <<vars, fcm_token>>

Answer(r) == step[r] = "answer" /\ Leave(r)

\* Firestore, PostgreSQL or the process fails.
Drop(r) == step[r] \notin {"idle", "answer"} /\ Leave(r)

\* What GeneralGroups does beside.
GroupStep ==
    /\ \/ \E w \in Writers : Begin(w) \/ Get(w) \/ Fail(w)
       \/ \E w \in Writers : Set(w)
       \/ \E u \in Users, g \in Groups : Join(u, g)
    /\ Touch({u \in Users : \E g \in Groups :
                 (u \in MembersOf(g)) # (members'[g] # None /\ u \in members'[g])}, None)
    /\ UNCHANGED <<fcm_token, step, job, loaded, mail>>

Request(r) ==
    \/ Receive(r) \/ ReadMembers(r) \/ QueryTokens(r) \/ Push(r) \/ SaveToken(r)
    \/ Answer(r) \/ Drop(r)

NotifyNext == (\E r \in Requests : Request(r)) \/ GroupStep

NotifySpec == NotifyInit /\ [][NotifyNext]_<<vars, notifyVars>>

----------------------------------------------------------------------------

\* However members join, groups are replaced, devices register and pushes fail
\* while a notification is on its way: whoever nothing has changed since the
\* members were read is pushed to (or still due) if and only if he is a member
\* who has a token, at that token, and nobody is left out because another one's
\* push failed; the sender never is pushed to ("Remove sender from recipients").
ExactUnlessTouched ==
    \A r \in Requests :
        LET notified == due[r] \cup pushed[r]
        IN  /\ \A d \in notified : d[1] # job[r].uid
            /\ step[r] \in {"push", "answer"} /\ job[r].op = "notify" =>
                 \A u \in Users \ (touched[r] \cup {job[r].uid}), t \in Tokens :
                     <<u, t>> \in notified <=> u \in MembersOf(job[r].group) /\ fcm_token[u] = t

\* A registration that answers "ok" has taken effect, even where the session
\* sees the token it loaded before and writes nothing, unless the same user
\* registered another one meanwhile.
RegistrationKept ==
    \A r \in Requests :
        step[r] = "answer" /\ job[r].op = "register" /\ job[r].target = job[r].uid =>
            fcm_token[job[r].uid] = job[r].token \/ job[r].uid \in touched[r]
=============================================================================
