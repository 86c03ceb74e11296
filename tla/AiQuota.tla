------------------------------ MODULE AiQuota ------------------------------
(***************************************************************************)
(* POST /ai/generate: at most Limit generations per user in a sliding      *)
(* window, counted in the table ai_usage.  A request counts the rows of    *)
(* its user, calls Gemini in a thread, and only then inserts its own row;  *)
(* nothing is locked meanwhile, and the client is answered after the       *)
(* commit.                                                                 *)
(*                                                                         *)
(* used_at is the server default now(): the start of the transaction that  *)
(* authentication opened, not the time of the insert.  Instead of          *)
(* timestamps and a clock the state keeps ages, which Tick advances: a row *)
(* older than the window is never counted again and is dropped, so the     *)
(* behaviours are those of any length although the states are finite.      *)
(***************************************************************************)
EXTENDS Naturals, FiniteSets

CONSTANTS
    Requests,  \* slots for requests in progress: the bound on concurrency
    Users,
    Ids,       \* names for the rows of ai_usage that are still in the window
    Limit,     \* 5 in generate_ai_content
    Window,    \* 24 hours, in ticks
    None

ASSUME QuotaAssumption ==
    /\ IsFiniteSet(Requests) /\ IsFiniteSet(Ids)
    /\ Limit \in Nat \ {0}
    /\ Window \in Nat
    /\ None \notin [uid : Users, age : 0 .. Window] \cup Users

VARIABLES
    usage,   \* usage[i]: row i of ai_usage with the age of its used_at, or None
    pc,      \* where the handler of each request is
    caller,  \* the user it authenticated
    txAge    \* the age of its transaction, capped when it has left the window

vars == <<usage, pc, caller, txAge>>

Row == [uid : Users, age : 0 .. Window]

TypeOK ==
    /\ usage \in [Ids -> Row \cup {None}]
    /\ pc \in [Requests -> {"idle", "count", "generate", "record"}]
    /\ caller \in [Requests -> Users \cup {None}]
    /\ txAge \in [Requests -> 0 .. Window + 1]
    /\ \A r \in Requests : pc[r] # "idle" => caller[r] # None

Init ==
    /\ usage = [i \in Ids |-> None]
    /\ pc = [r \in Requests |-> "idle"]
    /\ caller = [r \in Requests |-> None]
    /\ txAge = [r \in Requests |-> 0]

----------------------------------------------------------------------------

\* count_today: the rows of u with used_at >= now - 24 hours.
InWindow(u) == {i \in Ids : usage[i] # None /\ usage[i].uid = u}

Goto(r, label) == pc' = [pc EXCEPT ![r] = label]

Finish(r) ==
    /\ Goto(r, "idle")
    /\ caller' = [caller EXCEPT ![r] = None]
    /\ txAge' = [txAge EXCEPT ![r] = 0]

\* Mutant of Begin: the endpoint authenticates optionally.
BeginAnonymous(r) ==
    /\ pc[r] = "idle"
    /\ Goto(r, "count")
    /\ UNCHANGED <<usage, caller, txAge>>

\* get_current_user: the transaction of the session begins.
Begin(r) ==
    /\ pc[r] = "idle"
    /\ \E u \in Users : caller' = [caller EXCEPT ![r] = u]
    /\ Goto(r, "count")
    /\ UNCHANGED <<usage, txAge>>

\* Mutant of Count: the comparison admits one request too many.
CountOffByOne(r) ==
    /\ pc[r] = "count"
    /\ UNCHANGED usage
    /\ \/ /\ Cardinality(InWindow(caller[r])) > Limit
          /\ Finish(r)
       \/ /\ Cardinality(InWindow(caller[r])) <= Limit
          /\ Goto(r, "generate")
          /\ UNCHANGED <<caller, txAge>>

\* The count, and 429 at the limit.
Count(r) ==
    /\ pc[r] = "count"
    /\ UNCHANGED usage
    /\ \/ /\ Cardinality(InWindow(caller[r])) >= Limit
          /\ Finish(r)
       \/ /\ Cardinality(InWindow(caller[r])) < Limit
          /\ Goto(r, "generate")
          /\ UNCHANGED <<caller, txAge>>

\* generate_response: an answer or, as text, the error of the call; both count.
Generate(r) ==
    /\ pc[r] = "generate"
    /\ Goto(r, "record")
    /\ UNCHANGED <<usage, caller, txAge>>

\* record_usage and the answer.  A row already out of the window is not kept.
Record(r) ==
    /\ pc[r] = "record"
    /\ \/ /\ txAge[r] <= Window
          /\ \E i \in Ids : /\ usage[i] = None
                            /\ usage' = [usage EXCEPT ![i] = [uid |-> caller[r],
                                                              age |-> txAge[r]]]
       \/ /\ txAge[r] > Window
          /\ UNCHANGED usage
    /\ Finish(r)

\* An empty prompt, or a failure under the request: no row is inserted.
Fail(r) ==
    /\ pc[r] # "idle"
    /\ Finish(r)
    /\ UNCHANGED usage

\* Mutant of Tick: count_today without its condition on used_at.
TickWithoutCutoff ==
    /\ txAge' = [r \in Requests |->
                    IF pc[r] = "idle" \/ txAge[r] > Window THEN txAge[r] ELSE txAge[r] + 1]
    /\ UNCHANGED <<usage, pc, caller>>

\* Time passes.
Tick ==
    /\ usage' = [i \in Ids |->
                    IF usage[i] = None \/ usage[i].age = Window
                    THEN None
                    ELSE [usage[i] EXCEPT !.age = @ + 1]]
    /\ txAge' = [r \in Requests |->
                    IF pc[r] = "idle" \/ txAge[r] > Window THEN txAge[r] ELSE txAge[r] + 1]
    /\ UNCHANGED <<pc, caller>>

Next == Tick \/ \E r \in Requests : Begin(r) \/ Count(r) \/ Generate(r) \/ Record(r) \/ Fail(r)

\* Time passes, whatever the requests do; no request is owed progress.
Spec == Init /\ [][Next]_vars /\ WF_vars(Tick)

----------------------------------------------------------------------------

\* test_generate_ai_content_limits_user_to_five_requests_per_24_hours.
QuotaKept == \A u \in Users : Cardinality(InWindow(u)) <= Limit

\* Requests of one user that overlap each pass the count before the others
\* record: n slots let through at most n - 1 more than the limit, however often
\* requests fail, however long Gemini takes, and whatever moment is looked at.
OvershootBounded ==
    \A u \in Users : Cardinality(InWindow(u)) < Limit + Cardinality(Requests)

\* "Daily AI limit reached.  Resets in 24 hours.": no user stays at the limit
\* forever, not even one that keeps sending requests.
QuotaResets == \A u \in Users : []<>(Cardinality(InWindow(u)) < Limit)
=============================================================================
